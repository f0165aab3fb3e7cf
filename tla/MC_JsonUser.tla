---------------------------- MODULE MC_JsonUser ----------------------------
(* Instances of JsonUser for TLC. *)
EXTENDS JsonUser

MCFold == [k \in Keys |-> IF k = "A" THEN "a" ELSE k]

Tokens == {"[", "]", "{", "}", ",", ":", "a", "Number"}

\* Every text of up to four tokens, and some longer ones.
MCTexts ==
    UNION {[1..n -> Tokens] : n \in 0..4} \cup
    {<<"[", "a", ",", "Number", "]">>, <<"[", "[", "[", "]", "]", "]">>,
     <<"[", "[", "]", ",", "[", "]", "]">>, <<"{", "a", ":", "Number", "}">>,
     <<"{", "a", ":", "a", ",", "a", ":", "{", "}", "}">>, <<"{", "a", ":", "[", "a", "}">>}
=============================================================================
