------------------------------ MODULE MC_Cmap ------------------------------
(***************************************************************************)
(* Five keys, three of which start in the last buckets of a small table,   *)
(* so that probing goes round the end.                                     *)
(***************************************************************************)
EXTENDS Cmap

MCKeys == 1..5
MCHash == <<14, 15, 12, 0, 4>>
=============================================================================
