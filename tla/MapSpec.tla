------------------------------ MODULE MapSpec ------------------------------
(***************************************************************************)
(* What a cmap promises its users: each key has a value or none.           *)
(***************************************************************************)
CONSTANTS Keys, Values, Absent

VARIABLE map

insert(k, v) == map' = IF map[k] = Absent THEN [map EXCEPT ![k] = v] ELSE map
insert_or_assign(k, v) == map' = [map EXCEPT ![k] = v]
erase(k) == map' = [map EXCEPT ![k] = Absent]
clear == map' = [k \in Keys |-> Absent]

Init == map = [k \in Keys |-> Absent]

Next ==
    \/ \E k \in Keys : erase(k) \/ \E v \in Values : insert(k, v) \/ insert_or_assign(k, v)
    \/ clear

Spec == Init /\ [][Next]_map
=============================================================================
