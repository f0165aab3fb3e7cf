------------------------------ MODULE MC_Host ------------------------------
(***************************************************************************)
(* A contract with two storage keys and the recipient address 0x0101...    *)
(* (no zero byte).  Keys of small numbers are empty strings to strcmp.     *)
(***************************************************************************)
EXTENDS Host

Key(n) == [str |-> 0, rest |-> n]

\* c_fasthash gives every small slot the tag 0x81, and in a table of seven
\* buckets slot 0 the bucket 0, slot 1 the bucket 4.
MCKeys == {Key(0), Key(1)}
MCBucket(k) == IF k.rest = 0 THEN 0 ELSE 4
MCTag(k) == 129

\* Values that start with a non-zero byte, and zero.
MCValues == {Zero, [str |-> 1, rest |-> 0], [str |-> 2, rest |-> 0]}
SmallValues == {Zero, [str |-> 0, rest |-> 5]}

MCRecipient == [str |-> 1, rest |-> 0]
MCAddresses == {MCRecipient, [str |-> 2, rest |-> 0], [str |-> 0, rest |-> 1]}
=============================================================================
