----------------------------- MODULE MC_Lockstep -----------------------------
(***************************************************************************)
(* Both interpreters on the bytecodes of MC_Interpreter, cheap and dear.   *)
(***************************************************************************)
EXTENDS Lockstep, MC_Interpreter

\* The long loops of MCCodes end soon with MCGas; 400 and more are there for the
\* expensive instructions.
LockCodes == MCCodes \cup DearCodes
LockGas == MCGas \cup {400, 5100, 35000}
=============================================================================
