---------------------------- MODULE MC_Arithmetic ----------------------------
(***************************************************************************)
(* Limbs of six bits, bytes of three: numbers of 24 bits, as wide as TLC's *)
(* integers can check, and shifts of up to 31.  The operands lie around    *)
(* the borders of bytes, limbs and halves, and around the sign.            *)
(***************************************************************************)
EXTENDS Arithmetic

Buffer(n) == [i \in 1..8 |-> (n \div 8 ^ (8 - i)) % 8]

Numbers ==
    {0, 1, 2, 3, 7, 8, 23, 24, 31, 32, 63, 64, 65, 4095, 4096, 4097, 5000, 262143, 262144,
     1234567, 8388607, 8388608, 16773120, 16777214, 16777215}

MCOperands == {<<Buffer(a), Buffer(b)>> : a, b \in Numbers}
MCModuli == {Buffer(0), Buffer(7), Buffer(262145)}
=============================================================================
