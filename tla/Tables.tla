------------------------------- MODULE Tables -------------------------------
(***************************************************************************)
(* How the interpreter's tables come about: GasCostTable_init fills one    *)
(* row of costs per revision, each from the one before; get_op_table joins *)
(* the row of the revision that is executed with the traits, opcode by     *)
(* opcode.  Module OpTable has what comes out for London.                  *)
(***************************************************************************)
EXTENDS OpTable, Metrics

CONSTANT Rows   (* the rows gas_costs is declared with, 12 *)

ASSUME TablesAssumption == Rows \in 1..(CANCUN + 1)

VARIABLES
    gc,         (* gas_costs: a row for each revision so far                *)
    overflow,   (* history: a row was written that the array does not have  *)
    rev,        (* argument of get_op_table                                 *)
    i,          (* its loop counter                                         *)
    opt         (* the op table it builds                                   *)

vars == <<gc, overflow, rev, i, opt>>

-----------------------------------------------------------------------------
\* The costs set for the first revision; all others are undefined.
FrontierCosts ==
    [op \in Byte |->
        CASE op \in {0, 85, 243, 254, 255} -> 0
          [] op = 91 -> 1
          [] op \in {48, 50, 51, 52, 54, 56, 58} \cup (65..69) \cup {80} \cup (88..90) -> 2
          [] op \in {1, 3} \cup (16..26) \cup {53, 55, 57, 81, 82}
                    \cup ANY_PUSH \cup DUPs \cup SWAPs -> 3
          [] op \in {2, 4, 5, 6, 7, 11} -> 5
          [] op \in {8, 9, 86} -> 8
          [] op \in {10, 87} -> 10
          [] op \in {49, 59, 60, 64} -> 20
          [] op = 32 -> 30
          [] op \in {241, 242} -> 40
          [] op = 84 -> 50
          [] op \in LOGs -> (op - 159) * 375
          [] op = 240 -> 32000
          [] OTHER -> undefined]

\* Mutant of WarmCosts: EXTCODEHASH is forgotten.
WarmCosts_fewer(row) ==
    [op \in Byte |-> IF op \in {49, 59, 60, 84, 241, 242, 244, 250}
                     THEN WARM_STORAGE_READ_COST ELSE row[op]]

\* EIP-2929 in the Berlin row.
WarmCosts(row) ==
    [op \in Byte |-> IF op \in {49, 59, 60, 63, 84, 241, 242, 244, 250}
                     THEN WARM_STORAGE_READ_COST ELSE row[op]]

\* What a revision changes in the copy of the row before it.
Repriced(r, row) ==
    CASE r = HOMESTEAD -> [row EXCEPT ![244] = 40]
      [] r = TANGERINE_WHISTLE ->
            [row EXCEPT ![49] = 400, ![59] = 700, ![60] = 700, ![84] = 200, ![241] = 700,
                        ![242] = 700, ![244] = 700, ![255] = 5000]
      [] r = BYZANTIUM -> [row EXCEPT ![61] = 2, ![62] = 3, ![250] = 700, ![253] = 0]
      [] r = CONSTANTINOPLE ->
            [row EXCEPT ![27] = 3, ![28] = 3, ![29] = 3, ![63] = 400, ![245] = 32000]
      [] r = ISTANBUL ->
            [row EXCEPT ![49] = 700, ![70] = 2, ![63] = 700, ![71] = 5, ![84] = 800]
      [] r = BERLIN -> WarmCosts(row)
      [] r = LONDON -> [row EXCEPT ![72] = 2]
      [] r = SHANGHAI -> [row EXCEPT ![95] = 2]
      [] OTHER -> row

Filled == DOMAIN gc

\* One block of GasCostTable_init.  A row past the end lands outside the array.
GasCostTable_init ==
    LET r == IF Filled = {} THEN FRONTIER
             ELSE 1 + CHOOSE x \in Filled : \A y \in Filled : y <= x
        row == IF r = FRONTIER THEN FrontierCosts ELSE Repriced(r, gc[r - 1])
    IN  /\ ~overflow /\ r \in Revisions
        /\ IF r < Rows
           THEN gc' = [x \in Filled \cup {r} |-> IF x = r THEN row ELSE gc[x]] /\ UNCHANGED overflow
           ELSE overflow' = TRUE /\ UNCHANGED gc
        /\ UNCHANGED <<rev, i, opt>>

\* Every row has been written, inside the array or outside.
Initialised == overflow \/ Filled = Revisions

\* The stack columns of an undefined opcode are not set.
Unset == -100

\* Mutant of OpEntry: the entry takes its cost from the row before.
OpEntry_before(r, op) ==
    LET cost == gc[IF r = 0 THEN 0 ELSE r - 1][op]
    IN  IF cost = undefined
        THEN [fn |-> "op_undefined", row |-> Row(0, Unset, Unset)]
        ELSE [fn |-> "op", row |-> Row(cost, stack_height_required[op], stack_height_change[op])]

OpEntry(r, op) ==
    LET cost == gc[r][op]
    IN  IF cost = undefined
        THEN [fn |-> "op_undefined", row |-> Row(0, Unset, Unset)]
        ELSE [fn |-> "op", row |-> Row(cost, stack_height_required[op], stack_height_change[op])]

\* One round of the loop of get_op_table.
get_op_table ==
    /\ Initialised
    /\ i \in Byte
    /\ opt' = [x \in 0..i |-> IF x = i THEN OpEntry(rev, i) ELSE opt[x]]
    /\ i' = i + 1
    /\ UNCHANGED <<gc, overflow, rev>>

\* The executed revision is one of those the array has a row for.
Init ==
    /\ gc = <<>>
    /\ overflow = FALSE
    /\ rev \in 0..(Rows - 1)
    /\ i = 0
    /\ opt = <<>>

Done == i > 255 /\ UNCHANGED vars

Next == GasCostTable_init \/ get_op_table \/ Done

Spec == Init /\ [][Next]_vars

-----------------------------------------------------------------------------
\* The revision that TraitsTable_init gives an opcode (-1: none).
since ==
    [op \in Byte |->
        CASE op = 244 -> HOMESTEAD
          [] op \in {61, 62, 250, 253} -> BYZANTIUM
          [] op \in {27, 28, 29, 63, 245} -> CONSTANTINOPLE
          [] op \in {70, 71} -> ISTANBUL
          [] op = 72 -> LONDON
          [] op = 95 -> SHANGHAI
          [] op \in (0..11) \cup (16..26) \cup {32} \cup (48..69) \cup (80..91) \cup (96..164)
                    \cup (240..243) \cup {254, 255} -> FRONTIER
          [] OTHER -> -1]

Known == Byte \ {OP_MSTORE8}

\* "compare_with_evmc_instruction_tables": in every revision the interpreter
\* charges and checks an opcode as the EVMC table of that revision says.
MetricsAgree ==
    \A op \in DOMAIN opt \cap Known :
        /\ opt[op].row[1] = metrics(rev, op)[1]
        /\ opt[op].fn = "op" => opt[op].row = metrics(rev, op)

\* "validate_since", "compare_undefined_instructions": an opcode executes in
\* exactly the revisions that name it, from the one its traits say it came with.
DefinedAgree ==
    \A op \in DOMAIN opt \cap Known :
        /\ opt[op].fn = "op" <=> op \in evmc_get_instruction_names_table[rev]
        /\ opt[op].fn = "op" <=> (since[op] # -1 /\ since[op] <= rev)

\* The sets of module OpTable, on which the analysis and the interpreter rest,
\* are what the initialisation computes for London.
LondonRow == LONDON \in DOMAIN gc => gc[LONDON] = gas_costs
=============================================================================
