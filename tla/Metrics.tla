------------------------------ MODULE Metrics ------------------------------
(***************************************************************************)
(* The tables EVMC publishes for every revision of the EVM                 *)
(* (instruction_metrics.c, instruction_names.c): the cost and the stack    *)
(* effect of each opcode, and whether it has a name.                       *)
(*                                                                         *)
(* A table has 256 rows.  Each is written in two halves, the opcodes below *)
(* 128 (everything up to PUSH32) and from 128 on (from DUP1), as the       *)
(* differences from the previous revision; rows with one value are a set.  *)
(***************************************************************************)
EXTENDS Integers

Low == 0..127
High == 128..255

FRONTIER == 0
HOMESTEAD == 1
TANGERINE_WHISTLE == 2
SPURIOUS_DRAGON == 3
BYZANTIUM == 4
CONSTANTINOPLE == 5
PETERSBURG == 6
ISTANBUL == 7
BERLIN == 8
LONDON == 9
PARIS == 10
SHANGHAI == 11
CANCUN == 12

Revisions == FRONTIER..CANCUN

\* gas_cost, stack_height_required, stack_height_change
Row(gas, required, change) == <<gas, required, change>>
Undefined == Row(0, 0, 0)

BASE == 2
VERYLOW == 3
LOW == 5
MID == 8
HIGH == 10
WARM_STORAGE_READ_COST == 100

\* Rows of one opcode at another price.
At(row, gas) == [row EXCEPT ![1] = gas]

-----------------------------------------------------------------------------
frontier_low ==
    [op \in Low |->
        CASE op \in {1, 3} \cup (16..20) \cup (22..24) \cup {26} -> Row(VERYLOW, 2, -1)
          [] op \in {21, 25, 53, 81}               -> Row(VERYLOW, 1, 0)
          [] op \in {2, 4, 5, 6, 7, 11}            -> Row(LOW, 2, -1)
          [] op \in {8, 9}                         -> Row(MID, 3, -2)
          [] op = 10                               -> Row(HIGH, 2, -1)
          [] op = 32                               -> Row(30, 2, -1)
          [] op \in {48, 50, 51, 52, 54, 56, 58} \cup (65..69) \cup (88..90) -> Row(BASE, 0, 1)
          [] op \in {49, 59, 64}                   -> Row(20, 1, 0)
          [] op \in {55, 57}                       -> Row(VERYLOW, 3, -3)
          [] op = 60                               -> Row(20, 4, -4)
          [] op = 80                               -> Row(BASE, 1, -1)
          [] op \in {82, 83}                       -> Row(VERYLOW, 2, -2)
          [] op = 84                               -> Row(50, 1, 0)
          [] op = 85                               -> Row(0, 2, -2)
          [] op = 86                               -> Row(MID, 1, -1)
          [] op = 87                               -> Row(HIGH, 2, -2)
          [] op = 91                               -> Row(1, 0, 0)
          [] op \in 96..127                        -> Row(VERYLOW, 0, 1)
          [] OTHER                                 -> Undefined]

frontier_high ==
    [op \in High |->
        CASE op \in 128..143   -> Row(VERYLOW, op - 127, 1)
          [] op \in 144..159   -> Row(VERYLOW, op - 142, 0)
          [] op \in 160..164   -> Row((op - 159) * 375, op - 158, 158 - op)
          [] op = 240          -> Row(32000, 3, -2)
          [] op \in {241, 242} -> Row(40, 7, -6)
          [] op = 243          -> Row(0, 2, -2)
          [] op = 255          -> Row(0, 1, -1)
          [] OTHER             -> Undefined]

homestead_low == frontier_low
homestead_high == [frontier_high EXCEPT ![244] = Row(40, 6, -5)]

tangerine_whistle_low ==
    [homestead_low EXCEPT ![49] = At(@, 400), ![59] = At(@, 700), ![60] = At(@, 700),
                          ![84] = At(@, 200)]
tangerine_whistle_high ==
    [homestead_high EXCEPT ![241] = At(@, 700), ![242] = At(@, 700), ![244] = At(@, 700),
                           ![255] = At(@, 5000)]

byzantium_low ==
    [tangerine_whistle_low EXCEPT ![61] = Row(BASE, 0, 1), ![62] = Row(VERYLOW, 3, -3)]
byzantium_high ==
    [tangerine_whistle_high EXCEPT ![250] = Row(700, 6, -5), ![253] = Row(0, 2, -2)]

constantinople_low ==
    [byzantium_low EXCEPT ![27] = Row(VERYLOW, 2, -1), ![28] = Row(VERYLOW, 2, -1),
                          ![29] = Row(VERYLOW, 2, -1), ![63] = Row(400, 1, 0)]
constantinople_high == [byzantium_high EXCEPT ![245] = Row(32000, 4, -3)]

istanbul_low ==
    [constantinople_low EXCEPT ![49] = At(@, 700), ![63] = At(@, 700), ![84] = At(@, 800),
                               ![70] = Row(BASE, 0, 1), ![71] = Row(LOW, 0, 1)]
istanbul_high == constantinople_high

berlin_low ==
    [op \in Low |-> IF op \in {49, 59, 60, 63, 84}
                    THEN At(istanbul_low[op], WARM_STORAGE_READ_COST) ELSE istanbul_low[op]]
berlin_high ==
    [op \in High |-> IF op \in {241, 242, 244, 250}
                     THEN At(istanbul_high[op], WARM_STORAGE_READ_COST) ELSE istanbul_high[op]]

london_low == [berlin_low EXCEPT ![72] = Row(BASE, 0, 1)]
london_high == berlin_high

shanghai_low == [london_low EXCEPT ![95] = Row(BASE, 0, 1)]
shanghai_high == london_high

cancun_low == shanghai_low
cancun_high == shanghai_high

evmc_get_instruction_metrics_table ==
    [rev \in Revisions |->
        CASE rev = CANCUN                                -> <<cancun_low, cancun_high>>
          [] rev = SHANGHAI                              -> <<shanghai_low, shanghai_high>>
          [] rev \in {PARIS, LONDON}                     -> <<london_low, london_high>>
          [] rev = BERLIN                                -> <<berlin_low, berlin_high>>
          [] rev = ISTANBUL                              -> <<istanbul_low, istanbul_high>>
          [] rev \in {PETERSBURG, CONSTANTINOPLE} -> <<constantinople_low, constantinople_high>>
          [] rev = BYZANTIUM                             -> <<byzantium_low, byzantium_high>>
          [] rev \in {SPURIOUS_DRAGON, TANGERINE_WHISTLE}
                                     -> <<tangerine_whistle_low, tangerine_whistle_high>>
          [] rev = HOMESTEAD                             -> <<homestead_low, homestead_high>>
          [] rev = FRONTIER                              -> <<frontier_low, frontier_high>>]

metrics(rev, op) ==
    LET table == evmc_get_instruction_metrics_table[rev]
    IN  IF op \in Low THEN table[1][op] ELSE table[2][op]

-----------------------------------------------------------------------------
(***************************************************************************)
(* The names: an opcode keeps its name in all tables, so a table is the    *)
(* set of the opcodes that have one.                                       *)
(***************************************************************************)
frontier_named_low ==
    (0..11) \cup (16..26) \cup {32} \cup (48..60) \cup (64..69) \cup (80..91) \cup (96..127)
frontier_named_high == (128..164) \cup (240..243) \cup {254, 255}

homestead_named_low == frontier_named_low
homestead_named_high == frontier_named_high \cup {244}

byzantium_named_low == homestead_named_low \cup {61, 62}
byzantium_named_high == homestead_named_high \cup {250, 253}

constantinople_named_low == byzantium_named_low \cup {27, 28, 29, 63}
constantinople_named_high == byzantium_named_high \cup {245}

istanbul_named_low == constantinople_named_low \cup {70, 71}
istanbul_named_high == constantinople_named_high

london_named_low == istanbul_named_low \cup {72}
london_named_high == istanbul_named_high

shanghai_named_low == london_named_low \cup {95}
shanghai_named_high == london_named_high

cancun_named_low == shanghai_named_low
cancun_named_high == shanghai_named_high

evmc_get_instruction_names_table ==
    [rev \in Revisions |->
        CASE rev = CANCUN                  -> cancun_named_low \cup cancun_named_high
          [] rev = SHANGHAI                -> shanghai_named_low \cup shanghai_named_high
          [] rev \in {PARIS, LONDON}       -> london_named_low \cup london_named_high
          [] rev \in {BERLIN, ISTANBUL}    -> istanbul_named_low \cup istanbul_named_high
          [] rev \in {PETERSBURG, CONSTANTINOPLE}
                                  -> constantinople_named_low \cup constantinople_named_high
          [] rev = BYZANTIUM               -> byzantium_named_low \cup byzantium_named_high
          [] rev \in {SPURIOUS_DRAGON, TANGERINE_WHISTLE, HOMESTEAD}
                                  -> homestead_named_low \cup homestead_named_high
          [] rev = FRONTIER                -> frontier_named_low \cup frontier_named_high]
=============================================================================
