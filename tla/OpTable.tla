------------------------------ MODULE OpTable ------------------------------
(***************************************************************************)
(* The static tables of the interpreter for the revision the trusted       *)
(* application runs (London): opcode numbers, base gas costs, stack        *)
(* traits, and which wrapper of analysis.h an opcode is dispatched to.     *)
(* Opcode numbers, costs and traits are the source's; 256 entries are      *)
(* written as a few sets of opcodes that share a value.                    *)
(***************************************************************************)
EXTENDS Integers

Byte == 0..255

OP_STOP         == 0
OP_MSTORE8      == 83
OP_SSTORE       == 85
OP_JUMP         == 86
OP_JUMPI        == 87
OP_PC           == 88
OP_GAS          == 90
OP_JUMPDEST     == 91
OP_PUSH1        == 96
OP_RETURN       == 243
OP_REVERT       == 253
OP_INVALID      == 254
OP_SELFDESTRUCT == 255

ANY_SMALL_PUSH == 96..103
ANY_LARGE_PUSH == 104..127
ANY_PUSH == ANY_SMALL_PUSH \cup ANY_LARGE_PUSH
DUPs     == 128..143
SWAPs    == 144..159
LOGs     == 160..164

(***************************************************************************)
(* struct Traits: items accessed, and change of height.                    *)
(***************************************************************************)
BinaryOps  == (1..7) \cup {10, 11} \cup (16..20) \cup (22..24) \cup (26..29) \cup {32}
TernaryOps == {8, 9}
UnaryOps   == {21, 25, 49, 53, 59, 63, 64, 81, 84}
NullaryOps == {48, 50, 51, 52, 54, 56, 58, 61} \cup (65..72) \cup {88, 89, 90, 95} \cup ANY_PUSH
CopyOps    == {55, 57, 62}
PairOps    == {82, 83, 85, 87, 243, 253}
CallOps    == {240, 241, 242, 244, 245, 250}

stack_height_required ==
    [op \in Byte |->
        CASE op \in BinaryOps  -> 2
          [] op \in TernaryOps -> 3
          [] op \in UnaryOps   -> 1
          [] op \in CopyOps    -> 3
          [] op \in PairOps    -> 2
          [] op \in DUPs       -> op - 127
          [] op \in SWAPs      -> op - 142
          [] op \in LOGs       -> op - 158
          [] op \in {80, 86, 255} -> 1
          [] op = 60           -> 4
          [] op = 240          -> 3
          [] op = 245          -> 4
          [] op \in {241, 242} -> 7
          [] op \in {244, 250} -> 6
          [] OTHER             -> 0]

stack_height_change ==
    [op \in Byte |->
        CASE op \in BinaryOps  -> -1
          [] op \in TernaryOps -> -2
          [] op \in NullaryOps \cup DUPs -> 1
          [] op \in CopyOps    -> -3
          [] op \in PairOps    -> -2
          [] op \in LOGs       -> 158 - op
          [] op \in {80, 86, 255} -> -1
          [] op = 60           -> -4
          [] op = 240          -> -2
          [] op = 245          -> -3
          [] op \in {241, 242} -> -6
          [] op \in {244, 250} -> -5
          [] OTHER             -> 0]

(***************************************************************************)
(* The London row of gas_costs after GasCostTable_init.  The entry of      *)
(* MSTORE8 is never set and PUSH0 arrives with Shanghai: both are          *)
(* undefined.                                                              *)
(***************************************************************************)
undefined == -1

gas_costs ==
    [op \in Byte |->
        CASE op \in {0, 85, 243, 253, 254} -> 0
          [] op = 91 -> 1
          [] op \in {48, 50, 51, 52, 54, 56, 58, 61} \cup (65..70) \cup {72, 80, 88, 89, 90} -> 2
          [] op \in {1, 3} \cup (16..29) \cup {53, 55, 57, 62, 81, 82}
                    \cup ANY_PUSH \cup DUPs \cup SWAPs -> 3
          [] op \in {2, 4, 5, 6, 7, 11, 71} -> 5
          [] op \in {8, 9, 86} -> 8
          [] op \in {10, 87} -> 10
          [] op = 64 -> 20
          [] op = 32 -> 30
          [] op \in {49, 59, 60, 63, 84, 241, 242, 244, 250} -> 100
          [] op \in LOGs -> (op - 159) * 375
          [] op = 255 -> 5000
          [] op \in {240, 245} -> 32000
          [] OTHER -> undefined]

UndefinedOps == {op \in Byte : gas_costs[op] = undefined}

(***************************************************************************)
(* InstructionFnTable: opcodes by the shape of their op_* wrapper.         *)
(***************************************************************************)
\* The core implementation cannot fail: run it, move the top, next instruction.
PlainOps == (1..9) \cup {11} \cup (16..29)
              \cup {48, 50, 51, 52, 53, 54, 56, 58, 61} \cup (64..72) \cup {80, 89}

\* The core implementation returns a status and may charge dynamic gas.
FallibleOps == {10, 32, 49, 55, 57, 59, 60, 62, 63, 81, 82, 84} \cup LOGs

\* As FallibleOps, run with gas_left corrected to the per-instruction value.
CorrectedOps == {OP_SSTORE} \cup CallOps

\* The core implementation ends the execution.
StopOps == {OP_RETURN, OP_REVERT}

\* opcodes whose wrapper leaves a result in the slot that becomes the new top
ResultOps == BinaryOps \cup TernaryOps \cup UnaryOps
               \cup (NullaryOps \ (ANY_PUSH \cup {OP_PC, OP_GAS})) \cup CallOps
=============================================================================
