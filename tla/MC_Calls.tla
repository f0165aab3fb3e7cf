------------------------------ MODULE MC_Calls ------------------------------
(***************************************************************************)
(* The widths of MC_Memory and a host that records two calls, in vectors   *)
(* that grow by one.  The gas operands lie on both sides of the gas there  *)
(* is, and below Limb \div 2, where the sign bit is.                       *)
(***************************************************************************)
EXTENDS Calls

Small(n) == [low |-> n, high |-> FALSE]

MCOffsets == {Small(0), Small(12)}
MCSizes == {Small(0), Small(9)}
=============================================================================
