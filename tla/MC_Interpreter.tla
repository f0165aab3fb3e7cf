--------------------------- MODULE MC_Interpreter ---------------------------
(***************************************************************************)
(* All bytecodes of up to CodeLen bytes over a few opcodes, and longer     *)
(* programs picked for what they reach: loops, jumps into push data,       *)
(* truncated pushes, blocks that underflow or overflow half way.           *)
(***************************************************************************)
EXTENDS Interpreter

CONSTANTS Alphabet, CodeLen

ShortCodes == UNION {[1..n -> Alphabet] : n \in 0..CodeLen}

LongCodes ==
    { <<91, 96, 0, 86>>,                       \* JUMPDEST PUSH1 0 JUMP
      <<96, 1, 96, 7, 87, 254, 0, 91, 90, 0>>, \* JUMPI over INVALID
      <<96, 4, 86, 96, 91, 0>>,                \* jump into push data
      <<96, 91, 91, 96, 2, 86>>,               \* JUMPDEST after push data that looks like one
      <<96, 1, 128, 144, 1, 80, 97, 1>>,       \* DUP1 SWAP1 ADD POP, truncated PUSH2
      <<58, 58, 85, 90, 88, 91, 80, 0>>,       \* SSTORE then GAS, PC
      <<58, 128, 128, 52, 52, 52, 52, 241, 0>>,\* CALL
      <<58, 58, 243>>,                         \* RETURN
      <<58, 254>>,                             \* INVALID
      <<58, 58, 58, 12, 80, 80>>,              \* an undefined opcode in the middle of a block
      <<58, 91, 58, 96, 1, 87>>,               \* a loop that grows the stack
      <<58, 58, 91, 80, 96, 1, 96, 2, 87>>,    \* a loop that shrinks it
      <<58, 247, 53>>,                         \* the opcode the analysis special-cases
      <<58, 10, 0>>,                           \* EXP, which needs two items
      <<58, 58, 10, 32>>,
      <<58, 58, 10, 0>>,                       \* EXP
      <<58, 255>>,                             \* SELFDESTRUCT
      <<58, 58, 58, 58, 58, 58, 58>>,          \* fills a stack of seven
      <<58, 58, 58, 58, 58, 58, 58, 58>> }     \* overflows it with its last item

MCCodes == ShortCodes \cup LongCodes

MCGarbage == {[stack_req |-> 0, stack_change |-> 0], [stack_req |-> -3, stack_change |-> 127],
              [stack_req |-> 127, stack_change |-> -128]}

MCOutcomes == {[cost |-> 0, status |-> "SUCCESS", value |-> 0, fresh |-> FALSE],
               [cost |-> 4, status |-> "SUCCESS", value |-> 1, fresh |-> TRUE],
               [cost |-> 0, status |-> "FAILURE", value |-> 0, fresh |-> FALSE]}

MCGas == {0, 5, 16, 33, 130}
InterpGas == MCGas \cup {5100}

\* Programs that need gas in the thousands; none of them loops.
DearCodes ==
    { <<58, 255>>,                                  \* SELFDESTRUCT
      <<58, 58, 58, 240, 90, 53, 84, 0>>,           \* CREATE, then GAS
      <<58, 58, 160, 58, 58, 253>>,                 \* LOG0, REVERT
      <<58, 58, 96, 9, 85, 58, 86, 0, 0, 91, 85, 90>> }
=============================================================================
