-------------------------------- MODULE Cvec --------------------------------
(***************************************************************************)
(* The growth of an STC vector (cvec.h): its size, its capacity, and the   *)
(* memory block its elements lie in.  A block is numbered by the           *)
(* reallocations so far: a pointer to an element is good while the vector  *)
(* is still in the block the pointer was taken in.                         *)
(*                                                                         *)
(* ok says whether c_realloc, if called, succeeds.                         *)
(***************************************************************************)
EXTENDS Naturals

CONSTANT GrowBy   (* 4: room added to one and a half times the size *)

ASSUME CvecAssumption == GrowBy \in Nat \ {0}

Cvec == [size : Nat, cap : Nat, block : Nat]

\* An empty vector shares the sentinel, block 0, with all others.
cvec_init == [size |-> 0, cap |-> 0, block |-> 0]

Reallocates(v, cap) == cap > v.cap \/ (cap > 0 /\ cap = v.size)

cvec_reserve(v, cap, ok) ==
    IF Reallocates(v, cap) /\ ok THEN [size |-> v.size, cap |-> cap, block |-> v.block + 1]
    ELSE v

NextCap(size) == (size * 3) \div 2 + GrowBy

\* A push that cannot grow the vector leaves it as it is.
cvec_push(v, ok) ==
    IF v.size < v.cap THEN [v EXCEPT !.size = @ + 1]
    ELSE IF ok THEN [cvec_reserve(v, NextCap(v.size), ok) EXCEPT !.size = @ + 1]
    ELSE v
=============================================================================
