----------------------------- MODULE MC_Memory -----------------------------
(***************************************************************************)
(* Small widths: a word of 4 bytes, a page of 16, at most 24 bytes in a    *)
(* buffer.  The operands lie on both sides of every boundary.              *)
(***************************************************************************)
EXTENDS Memory

Wide == [low |-> 0, high |-> TRUE]       \* an operand of 2^64 or more

MCOffsets == [low : {0, 7, 16, 24, 25}, high : {FALSE}] \cup {Wide}
MCSizes == [low : {0, 1, 4, 9, 24}, high : {FALSE}]
=============================================================================
