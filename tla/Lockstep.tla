------------------------------ MODULE Lockstep ------------------------------
(***************************************************************************)
(* The Advanced interpreter and the Baseline interpreter on the same       *)
(* bytecode, message and instruction outcomes.  An instruction of the      *)
(* table is executed together with the Baseline step at the same position  *)
(* of the code; a JUMPDEST, which the table does not contain, is stepped   *)
(* by the Baseline alone, and so is what is left of the execution once the *)
(* Advanced interpreter has given up on a block.                           *)
(***************************************************************************)
EXTENDS Interpreter

VARIABLES pc, height, stack, gas, outcome

Ref == INSTANCE Baseline

refVars == <<pc, height, stack, gas, outcome>>
lockVars == <<vars, refVars>>

LockInit == Init /\ Ref!RefInit(gas_left)

\* The Baseline is at the instruction the Advanced interpreter executes next
\* (after a truncated PUSH it is somewhere in its padding).
Aligned == outcome = "RUNNING" /\ ip # 0 /\ Min2(pc, Len(code)) = trace[ip].pos

Together ==
    /\ phase = "execute" /\ ip # 0 /\ Instr.fn # OP_JUMPDEST
    /\ Aligned
    /\ \E o \in Outcomes : Execute(o) /\ Ref!Step(o)

BlockEntry == opx_beginblock /\ UNCHANGED refVars

JumpdestAlone ==
    /\ phase = "execute" /\ ip # 0
    /\ Ref!OpAt(pc) = OP_JUMPDEST
    /\ \E o \in Outcomes : Ref!Step(o)
    /\ UNCHANGED vars

BaselineAlone ==
    /\ phase = "done"
    /\ \E o \in Outcomes : Ref!Step(o)
    /\ UNCHANGED vars

LockFinish == Finish /\ UNCHANGED refVars
LockAnalyze == Analyze /\ UNCHANGED refVars
BothDone == phase = "done" /\ outcome # "RUNNING" /\ UNCHANGED lockVars

LockNext == \/ LockAnalyze \/ BlockEntry \/ Together \/ JumpdestAlone
            \/ BaselineAlone \/ LockFinish \/ BothDone

LockSpec == LockInit /\ [][LockNext]_lockVars

-----------------------------------------------------------------------------
Succeeded(s) == s \in {"SUCCESS", "REVERT"}

\* Gas the block has been charged for and not yet spent, instruction by
\* instruction.
Prepaid == current_block_cost - trace[ip].cost

\* Checking gas and stack per block is not observable, except in which
\* exception ends a failing execution: both interpreters succeed or both
\* fail, and after a success they agree on status and gas.
OutcomeAgrees ==
    phase = "done" /\ outcome # "RUNNING" =>
        /\ Succeeded(exit_code) <=> Succeeded(outcome)
        /\ Succeeded(outcome) => exit_code = outcome /\ gas_left = gas

\* Inside a block the two interpreters are in the same state: the stacks are
\* equal and the Advanced interpreter's gas is the exact gas minus what the
\* block has prepaid, which is what makes GAS, SSTORE and the calls correct.
InStep ==
    Aligned /\ phase = "execute" /\ Instr.fn # OP_JUMPDEST =>
        /\ gas = gas_left + Prepaid
        /\ height = size
        /\ \A i \in 1..size : stack[i] = space[i]

\* The Advanced interpreter executes no instruction, with whatever effect it
\* has on storage, logs or other accounts, that the Baseline would not reach.
NeverAhead ==
    phase = "execute" /\ ip # 0 /\ Instr.fn # OP_JUMPDEST => outcome = "RUNNING"
=============================================================================
