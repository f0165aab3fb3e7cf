----------------------------- MODULE JsonUser -----------------------------
(***************************************************************************)
(* A program that builds, changes, copies and deletes JSON trees with the  *)
(* functions of cJSON.h, while any allocation may fail.  held, kids and of *)
(* are its own view: which roots it holds, the items of every array and    *)
(* object as a sequence, and what every reference was made of.             *)
(*                                                                         *)
(* The program keeps to what cJSON.h asks for: an item is put into one     *)
(* list only and not below itself, and a tree of which a reference is left *)
(* is not changed or deleted.                                              *)
(***************************************************************************)
EXTENDS Cjson

CONSTANTS
    Texts,    (* what is parsed                                             *)
    Lefts,    (* how many allocations of a call may succeed                 *)
    Makeable, (* the types of the items that are made                       *)
    MaxCalls, (* how many calls the program makes                           *)
    MaxCount  (* most items of an array made at once                        *)

ASSUME JsonUserAssumption == 
    Lefts \subseteq Nat /\ MaxCount \in Nat /\ MaxCalls \in Nat /\ Makeable \subseteq Types

VARIABLES heap, strings, bad, held, kids, of, lost, calls

vars == <<heap, strings, bad, held, kids, of, lost, calls>>

Mem(left) == Memory(heap, strings, left)

RECURSIVE Below(_, _)
Below(k, n) == {n} \cup UNION {Below(k, k[n][i]) : i \in DOMAIN k[n]}

Reached(h, k) == UNION {Below(k, n) : n \in h}
Tree(n) == UNION {Below(kids, r) : r \in {q \in held : n \in Below(kids, q)}}
Frozen(n) == \E r \in Nodes : of[r] # NULL /\ of[r] \in Tree(n)

\* The arrays and objects the program may change.
Open(p) ==
    /\ p \in Reached(held, kids) /\ heap[p].type \in {"Array", "Object"} /\ ~heap[p].ref
    /\ ~Frozen(p)

OpenArray(p) == Open(p) /\ heap[p].type = "Array"
OpenObject(p) == Open(p) /\ heap[p].type = "Object"

\* The program's view after a call that left memory m and of which it is known
\* that nobody has the items l any more.
SeenLosing(m, h, k, o, l) ==
    /\ calls' = calls + 1
    /\ lost' = lost \cup l
    /\ heap' = m.h /\ strings' = m.strings /\ bad' = (bad \/ m.bad)
    /\ held' = h
    /\ LET reached == Reached(h, k)
       IN  /\ kids' = [n \in Nodes |-> IF n \in reached THEN k[n] ELSE <<>>]
           /\ of' = [n \in Nodes |-> IF n \in reached THEN o[n] ELSE NULL]

Seen(m, h, k, o) == SeenLosing(m, h, k, o, {})

\* A call that made the tree at m.ret, or nothing.
Made(m, target) ==
    LET new == Live(m.h) \ Live(heap)
    IN  Seen(m, held \cup ({m.ret} \ {NULL}),
             [n \in Nodes |-> IF n \in new /\ ~m.h[n].ref THEN Items(m.h, n) ELSE kids[n]],
             IF m.ret = NULL THEN of ELSE [of EXCEPT ![m.ret] = target])

Unless(m, h, k, o) == IF m.ret THEN Seen(m, h, k, o) ELSE Seen(m, held, kids, of)

-----------------------------------------------------------------------------
\* The calls.

create(type, v, left) == Made(Create(Mem(left), type, v), NULL)
create_items(type, v, count, left) == Made(cJSON_CreateItems(Mem(left), type, v, count), NULL)
create_string_reference(v, left) == Made(cJSON_CreateStringReference(Mem(left), v), NULL)

create_list_reference(x, left) ==
    /\ x \in Reached(held, kids) /\ heap[x].type \in {"Array", "Object"} /\ ~heap[x].ref
    /\ Made(cJSON_CreateArrayReference(Mem(left), heap[x].type, heap[x].child), x)

duplicate(x, recurse, left) ==
    /\ x \in Reached(held, kids)
    /\ Made(cJSON_Duplicate(Mem(left), x, recurse), NULL)

\* A program reads its input first.
parse(text, left) == Live(heap) = {} /\ Made(cJSON_ParseWithLengthOpts(Mem(left), text, FALSE), NULL)

Fits(p, i) == i \in held /\ p \notin Below(kids, i)

AddItemToArray(p, i) ==
    /\ OpenArray(p) /\ Fits(p, i)
    /\ Unless(add_item_to_array(Mem(0), p, i), held \ {i}, [kids EXCEPT ![p] = Append(@, i)], of)

AddItemToObject(p, name, i, constant, left) ==
    /\ OpenObject(p) /\ Fits(p, i)
    /\ Unless(add_item_to_object(Mem(left), p, name, i, constant),
              held \ {i}, [kids EXCEPT ![p] = Append(@, i)], of)

InsertItemInArray(p, which, i) ==
    /\ OpenArray(p) /\ Fits(p, i)
    /\ Unless(cJSON_InsertItemInArray(Mem(0), p, which, i), held \ {i},
              [kids EXCEPT ![p] = InsertAt(@, Min({which, Len(@)}) + 1, i)], of)

\* The reference is made, then added; if there is no memory for its name nobody
\* has it.
AddItemReferenceToArray(p, x, left) ==
    LET r == create_reference(Mem(left), x)
    IN  /\ OpenArray(p) /\ x \in Reached(held, kids) /\ p \notin Tree(x)
        /\ Unless(add_item_to_array(r, p, r.ret), held, [kids EXCEPT ![p] = Append(@, r.ret)],
                  [of EXCEPT ![r.ret] = x])

AddItemReferenceToObject(p, name, x, left) ==
    LET r == create_reference(Mem(left), x)
        a == add_item_to_object(r, p, name, r.ret, FALSE)
    IN  /\ OpenObject(p) /\ x \in Reached(held, kids) /\ p \notin Tree(x)
        /\ IF a.ret THEN Seen(a, held, [kids EXCEPT ![p] = Append(@, r.ret)], [of EXCEPT ![r.ret] = x])
           ELSE SeenLosing(a, held, kids, of, {r.ret} \ {NULL})

\* cJSON_AddNullToObject and its like.
AddNewToObject(p, name, type, v, left) ==
    LET c == Create(Mem(left), type, v)
        a == add_item_to_object(c, p, name, c.ret, FALSE)
    IN  /\ OpenObject(p)
        /\ IF a.ret THEN Seen(a, held, [kids EXCEPT ![p] = Append(@, c.ret)], of)
           ELSE Seen(cJSON_Delete(a, c.ret), held, kids, of)

\* The place of the first item of that name; the search for the exact name ends
\* at an item without one.
Place(p, name, case_sensitive) ==
    LET at(j) == heap[kids[p][j]].string
        hits  == {j \in DOMAIN kids[p] :
                    IF case_sensitive THEN at(j) = name /\ \A i \in 1..j : at(i) # NULL
                    ELSE at(j) # NULL /\ Fold[at(j)] = Fold[name]}
    IN  IF hits = {} THEN 0 ELSE Min(hits)

DetachItemFromArray(p, which) ==
    /\ Open(p) /\ which < Len(kids[p])
    /\ Seen(cJSON_DetachItemViaPointer(Mem(0), p, get_array_item(heap, p, which)),
            held \cup {kids[p][which + 1]}, [kids EXCEPT ![p] = RemoveAt(@, which + 1)], of)

DetachItemFromObject(p, name, case_sensitive) ==
    LET j == Place(p, name, case_sensitive)
    IN  /\ OpenObject(p) /\ j # 0
        /\ Seen(cJSON_DetachItemViaPointer(Mem(0), p, get_object_item(heap, p, name, case_sensitive)),
                held \cup {kids[p][j]}, [kids EXCEPT ![p] = RemoveAt(@, j)], of)

DeleteItemFromArray(p, which) ==
    LET d == cJSON_DetachItemViaPointer(Mem(0), p, get_array_item(heap, p, which))
    IN  /\ Open(p) /\ which < Len(kids[p])
        /\ Seen(cJSON_Delete(d, d.ret), held, [kids EXCEPT ![p] = RemoveAt(@, which + 1)], of)

ReplaceItemInArray(p, which, i) ==
    /\ OpenArray(p) /\ Fits(p, i) /\ which < Len(kids[p])
    /\ Unless(cJSON_ReplaceItemViaPointer(Mem(0), p, get_array_item(heap, p, which), i),
              held \ {i}, [kids EXCEPT ![p][which + 1] = i], of)

\* Without such an item, or memory for the name, the replacement stays with the
\* program.
ReplaceItemInObject(p, name, i, case_sensitive, left) ==
    LET j == Place(p, name, case_sensitive)
    IN  /\ OpenObject(p) /\ Fits(p, i)
        /\ Unless(replace_item_in_object(Mem(left), p, name, i, case_sensitive), held \ {i},
                  IF j = 0 THEN kids ELSE [kids EXCEPT ![p][j] = i], of)

delete(i) ==
    /\ i \in held
    /\ \A r \in Nodes : of[r] # NULL /\ of[r] \in Below(kids, i) => r \in Below(kids, i)
    /\ Seen(cJSON_Delete(Mem(0), i), held \ {i}, kids, of)

-----------------------------------------------------------------------------
Init ==
    /\ calls = 0
    /\ heap = [n \in Nodes |-> Dead] /\ strings = 0 /\ bad = FALSE
    /\ held = {} /\ kids = [n \in Nodes |-> <<>>] /\ of = [n \in Nodes |-> NULL] /\ lost = {}

Index == 0..(Cardinality(Nodes) - 1)

Makes(left) ==
    \/ \E type \in Makeable \ {"String"} : create(type, NULL, left)
    \/ \E v \in Keys : "String" \in Makeable /\ (create("String", v, left) \/ create_string_reference(v, left))
    \/ \E count \in 0..MaxCount :
          create_items("Number", NULL, count, left) \/ \E v \in Keys : create_items("String", v, count, left)
    \/ \E x \in Reached(held, kids) :
          create_list_reference(x, left) \/ \E recurse \in BOOLEAN : duplicate(x, recurse, left)
    \/ \E text \in Texts : parse(text, left)

Adds(p, left) ==
    \E name \in Keys :
        \/ \E i \in held, constant \in BOOLEAN : AddItemToObject(p, name, i, constant, left)
        \/ \E x \in Reached(held, kids) : AddItemReferenceToObject(p, name, x, left)
        \/ \E type \in Makeable \ {"String"} : AddNewToObject(p, name, type, NULL, left)
        \/ \E v \in Keys : "String" \in Makeable /\ AddNewToObject(p, name, "String", v, left)

Links(p) ==
    \/ \E i \in held : AddItemToArray(p, i)
    \/ \E i \in held, which \in Index : InsertItemInArray(p, which, i) \/ ReplaceItemInArray(p, which, i)
    \/ \E which \in Index : DetachItemFromArray(p, which) \/ DeleteItemFromArray(p, which)
    \/ \E name \in Keys, case_sensitive \in BOOLEAN : DetachItemFromObject(p, name, case_sensitive)

More == calls < MaxCalls

Next ==
    \/ More /\ \E left \in Lefts : Makes(left)
    \/ More /\ \E p \in Reached(held, kids) :
          \/ Links(p)
          \/ \E left \in Lefts : Adds(p, left)
          \/ \E x \in Reached(held, kids), left \in Lefts : AddItemReferenceToArray(p, x, left)
          \/ \E i \in held, name \in Keys, case_sensitive \in BOOLEAN, left \in Lefts :
                ReplaceItemInObject(p, name, i, case_sensitive, left)
    \/ More /\ \E i \in held : delete(i)

Spec == Init /\ [][Next]_vars

-----------------------------------------------------------------------------
\* The links of every array and object are the sequence the program expects after
\* all its insertions, removals and replacements, forwards and backwards, and the
\* first item's prev is the last item; what the program holds is in no list.
ListsAgree ==
    \A n \in Reached(held, kids) :
        /\ LET c == kids[n]
           IN  ~heap[n].ref =>
                  /\ Items(heap, n) = c
                  /\ \A i \in DOMAIN c : heap[c[i]].prev = IF i = 1 THEN c[Len(c)] ELSE c[i - 1]
        /\ of[n] # NULL => Items(heap, n) = kids[of[n]] \/ heap[of[n]].ref
        /\ n \in held => heap[n].next = NULL /\ heap[n].prev = NULL

\* Whatever fails on the way, nothing is freed twice or too early and nothing is
\* lost: what is allocated is what the trees of the program consist of, each item
\* in one place, and the strings are theirs.  One call loses one item, and no
\* other item is lost: cJSON_AddItemReferenceToObject the reference it made when
\* memory for the name is missing.
NothingLost ==
    /\ ~bad
    /\ Live(heap) = Reached(held, kids) \cup lost
    /\ lost \cap Reached(held, kids) = {}
    /\ strings = SumOwned(heap, Live(heap))

RECURSIVE Depth(_)
Depth(n) ==
    IF heap[n].type \notin {"Array", "Object"} THEN 0
    ELSE 1 + Max({0} \cup {Depth(Items(heap, n)[i]) : i \in DOMAIN Items(heap, n)})

RECURSIVE Plain(_)
\* Every member of an object has a name of its own.
Plain(n) ==
    LET c == Items(heap, n)
    IN  /\ heap[n].type = "Object" =>
              /\ \A i \in DOMAIN c : heap[c[i]].string # NULL
              /\ \A i, j \in DOMAIN c : Fold[heap[c[i]].string] = Fold[heap[c[j]].string] => i = j
        /\ \A i \in DOMAIN c : Plain(c[i])

RECURSIVE Size(_)
\* The items of a copy, in which nothing is shared.
Size(n) ==
    LET c == Items(heap, n)
        upto[i \in 0..Len(c)] == IF i = 0 THEN 1 ELSE upto[i - 1] + Size(c[i])
    IN  upto[Len(c)]

Ample == 4 * Cardinality(Nodes)
Equals(m, n) == m.ret # NULL => \A s \in BOOLEAN : cJSON_Compare(heap, n, m.h, m.ret, s)
Reread(m, n) == (m.ret # NULL) = (Depth(n) <= NestingLimit) /\ Equals(m, n)

\* A tree that is printed and parsed again compares equal to itself, and so does a
\* copy of it, whatever calls built it and whatever it shares by reference, unless
\* two members of an object have the same name; it parses exactly if it is not
\* nested more deeply than the limit.
RoundTrip ==
    \A n \in held :
        Plain(n) /\ Size(n) <= Cardinality(Nodes) =>
            /\ Reread(cJSON_ParseWithLengthOpts(Memory([k \in Nodes |-> Dead], 0, Ample), print_value(heap, n), TRUE), n)
            /\ Equals(cJSON_Duplicate(Mem(Ample), n, TRUE), n)

Reads(r, t) ==
    IF r.ret # NULL THEN print_value(r.h, r.ret) = SubSeq(t, 1, r.pos - 1)
    ELSE Live(r.h) = {} /\ r.strings = strings

\* A text that is accepted is, as far as it was read, the text of the tree made of
\* it; a text that is refused leaves nothing behind.
ReadsText ==
    Live(heap) = {} =>
        \A t \in Texts, left \in Lefts :
            Reads(cJSON_ParseWithLengthOpts(Mem(left), t, FALSE), t)
=============================================================================
