------------------------------- MODULE Cjson -------------------------------
(***************************************************************************)
(* cJSON.c, the JSON library of the port outside the TEE: items linked     *)
(* into lists and trees, deletion, duplication, comparison, printing and   *)
(* parsing.                                                                *)
(*                                                                         *)
(* A function of the library is an operator from a memory m to the memory  *)
(* after it, with the value returned in m.ret.  Strings are what they hold;*)
(* m.strings counts those allocated and not freed.  m.left says how many   *)
(* allocations will succeed.  Text is a sequence of tokens, a string       *)
(* literal being the string, without white space.                          *)
(***************************************************************************)
EXTENDS Integers, FiniteSets, SequencesExt, FiniteSetsExt

CONSTANTS
    Nodes,        (* the blocks of memory an item can be in                 *)
    NULL,
    Keys,         (* strings: names of members and values                   *)
    Fold,         (* a string in lower case                                 *)
    NestingLimit  (* CJSON_NESTING_LIMIT                                    *)

ASSUME CjsonAssumption ==
    /\ NULL \notin Nodes \cup Keys /\ Fold \in [Keys -> Keys] /\ NestingLimit \in Nat \ {0}
    /\ Keys \cap {"[", "]", "{", "}", ",", ":", "Number", "", "END"} = {}

\* The types that own nothing (null, false, true, number) are one.
Types == {"Number", "String", "Array", "Object"}

Dead == [live |-> FALSE, next |-> NULL, prev |-> NULL, child |-> NULL, type |-> "Invalid",
         ref |-> FALSE, const |-> FALSE, string |-> NULL, value |-> NULL]

Memory(h, n, left) ==
    [h |-> h, strings |-> n, left |-> left, bad |-> FALSE, ret |-> NULL, pos |-> 1, depth |-> 0]

Live(h) == {n \in Nodes : h[n].live}
Returns(m, v) == [m EXCEPT !.ret = v]
Put(m, n, field, v) == [m EXCEPT !.h[n][field] = v]

-----------------------------------------------------------------------------
\* Allocation, and lists.

cJSON_New_Item(m) ==
    LET unused == {n \in Nodes : ~m.h[n].live}
        n      == CHOOSE k \in unused : TRUE
    IN  IF m.left = 0 \/ unused = {} THEN Returns(m, NULL)
        ELSE [m EXCEPT !.h[n] = [Dead EXCEPT !.live = TRUE], !.left = @ - 1, !.ret = n]

cJSON_strdup(m) ==
    IF m.left = 0 THEN Returns(m, FALSE)
    ELSE [m EXCEPT !.strings = @ + 1, !.left = @ - 1, !.ret = TRUE]

\* How many strings are freed with the item.
Owned(x) == (IF ~x.ref /\ x.value # NULL THEN 1 ELSE 0) + (IF ~x.const /\ x.string # NULL THEN 1 ELSE 0)

SumOwned(h, set) == FoldSet(LAMBDA n, sum : Owned(h[n]) + sum, 0, set)

\* The items deleted with item: those after it, and those below what is no
\* reference.
Doomed(h, item) ==
    LET next(n)  == {h[n].next} \cup (IF h[n].ref THEN {} ELSE {h[n].child})
        grow[i \in 0..Cardinality(Nodes)] ==
            IF i = 0 THEN {item} \ {NULL} ELSE grow[i - 1] \cup (UNION {next(n) : n \in grow[i - 1]} \ {NULL})
    IN  grow[Cardinality(Nodes)]

\* Freeing what is free already, or twice, is undefined: bad.
cJSON_Delete(m, item) ==
    LET doomed == Doomed(m.h, item)
        Points(n, k) == m.h[n].next = k \/ (m.h[n].child = k /\ ~m.h[n].ref)
        twice  == {k \in doomed : k = item /\ \E n \in doomed : Points(n, k)} \cup
                  {k \in doomed : \E n, o \in doomed : n # o /\ Points(n, k) /\ Points(o, k)}
    IN  [m EXCEPT !.bad = @ \/ ~(doomed \subseteq Live(m.h)) \/ twice # {},
                  !.strings = @ - SumOwned(m.h, doomed),
                  !.h = [n \in Nodes |-> IF n \in doomed THEN Dead ELSE @[n]]]

RECURSIVE Linked(_, _, _)
Linked(h, n, most) == IF n = NULL \/ most = 0 THEN <<>> ELSE <<n>> \o Linked(h, h[n].next, most - 1)

\* The items from n on; one more than there are nodes if the list is a loop.
Chain(h, n) == Linked(h, n, Cardinality(Nodes) + 1)
Items(h, array) == Chain(h, h[array].child)

get_array_item(h, array, index) ==
    IF index < Len(Items(h, array)) THEN Items(h, array)[index + 1] ELSE NULL

\* The search for the exact name ends at an item without a name.
get_object_item(h, object, name, case_sensitive) ==
    LET c     == Items(h, object)
        at(i) == h[c[i]].string
        ends  == {i \in DOMAIN c :
                    IF case_sensitive THEN at(i) \in {NULL, name}
                    ELSE at(i) # NULL /\ Fold[at(i)] = Fold[name]}
    IN  IF ends = {} \/ at(Min(ends)) = NULL THEN NULL ELSE c[Min(ends)]

suffix_object(m, prev, item) == Put(Put(m, prev, "next", item), item, "prev", prev)

\* The first item's prev is the last item.
add_item_to_array(m, array, item) ==
    LET child == m.h[array].child
    IN  IF item = NULL \/ array = item THEN Returns(m, FALSE)
        ELSE IF child = NULL
        THEN Returns(Put(Put(Put(m, array, "child", item), item, "prev", item), item, "next", NULL), TRUE)
        ELSE IF m.h[child].prev = NULL THEN Returns(m, TRUE)
        ELSE Returns(Put(suffix_object(m, m.h[child].prev, item), child, "prev", item), TRUE)

\* The item's name becomes name, the old one is freed if it was the item's own.
Named(m, item, name, constant) ==
    LET x == m.h[item]
    IN  [m EXCEPT !.strings = IF ~x.const /\ x.string # NULL THEN @ - 1 ELSE @,
                  !.h[item].string = name, !.h[item].const = constant]

add_item_to_object(m, object, name, item, constant_key) ==
    LET copy == IF constant_key THEN Returns(m, TRUE) ELSE cJSON_strdup(m)
    IN  IF item = NULL \/ object = item THEN Returns(m, FALSE)
        ELSE IF ~copy.ret THEN copy
        ELSE add_item_to_array(Named(copy, item, name, constant_key), object, item)

\* Mutant of create_reference: the copy is not marked as a reference.
create_reference_plain(m, item) ==
    LET r == cJSON_New_Item(m)
    IN  IF r.ret = NULL THEN r
        ELSE [r EXCEPT !.h[r.ret] = [m.h[item] EXCEPT !.string = NULL, !.next = NULL, !.prev = NULL]]

\* A copy of the item that shares its children and its value.
create_reference(m, item) ==
    LET r == cJSON_New_Item(m)
    IN  IF r.ret = NULL THEN r
        ELSE [r EXCEPT !.h[r.ret] = [m.h[item] EXCEPT !.string = NULL, !.ref = TRUE,
                                                      !.next = NULL, !.prev = NULL]]

-----------------------------------------------------------------------------
\* The constructors.

Typed(m, type) == IF m.ret = NULL THEN m ELSE Put(m, m.ret, "type", type)

cJSON_CreateNumber(m) == Typed(cJSON_New_Item(m), "Number")
cJSON_CreateArray(m) == Typed(cJSON_New_Item(m), "Array")
cJSON_CreateObject(m) == Typed(cJSON_New_Item(m), "Object")

\* r is what is left of making the item at new: it is deleted if that failed.
Finished(r, new) == IF r.ret THEN Returns(r, new) ELSE Returns(cJSON_Delete(r, new), NULL)

StringAt(n, v) ==
    IF n.ret = NULL THEN n
    ELSE IF n.left = 0 THEN Finished(cJSON_strdup(n), n.ret)
    ELSE Finished(Put(cJSON_strdup(n), n.ret, "value", v), n.ret)

cJSON_CreateString(m, v) == StringAt(Typed(cJSON_New_Item(m), "String"), v)

Shared(n, field, v) == IF n.ret = NULL THEN n ELSE Put(Put(n, n.ret, "ref", TRUE), n.ret, field, v)

\* The value stays the caller's.
cJSON_CreateStringReference(m, v) ==
    Shared(Typed(cJSON_New_Item(m), "String"), "value", v)

\* An array or object with the items of another as its own.
cJSON_CreateArrayReference(m, type, child) ==
    Shared(Typed(cJSON_New_Item(m), type), "child", child)

Create(m, type, v) ==
    CASE type = "Number" -> cJSON_CreateNumber(m)
      [] type = "String" -> cJSON_CreateString(m, v)
      [] type = "Array"  -> cJSON_CreateArray(m)
      [] type = "Object" -> cJSON_CreateObject(m)

\* The item just made becomes the last of the array's.
Suffixed(n, array) ==
    IF n.ret = NULL THEN Returns(n, FALSE)
    ELSE IF n.h[array].child = NULL THEN Returns(Put(n, array, "child", n.ret), TRUE)
    ELSE Returns(suffix_object(n, Last(Items(n.h, array)), n.ret), TRUE)

\* The first item learns which is the last.
Closed(m, array) ==
    IF ~m.ret \/ m.h[array].child = NULL THEN m
    ELSE Put(m, m.h[array].child, "prev", Last(Items(m.h, array)))

ItemsAt(a, type, v, count) ==
    IF a.ret = NULL THEN a
    ELSE Finished(Closed(FoldLeft(LAMBDA m, i : IF m.ret THEN Suffixed(Create(m, type, v), a.ret) ELSE m,
                                  Returns(a, TRUE), [i \in 1..count |-> i]), a.ret), a.ret)

\* cJSON_CreateIntArray, ...FloatArray, ...DoubleArray, ...StringArray: count
\* items of one type; all of it is freed if an item cannot be made.
cJSON_CreateItems(m, type, v, count) == ItemsAt(cJSON_CreateArray(m), type, v, count)

-----------------------------------------------------------------------------
\* Taking out, inserting and replacing.

\* Mutant of cJSON_DetachItemViaPointer: the last item is not made known.
cJSON_DetachItemViaPointer_tail(m, parent, item) ==
    LET x  == m.h[item]
        a  == IF item # m.h[parent].child THEN Put(m, x.prev, "next", x.next) ELSE m
        b  == IF x.next # NULL THEN Put(a, x.next, "prev", x.prev) ELSE a
        c  == IF item = m.h[parent].child THEN Put(b, parent, "child", x.next) ELSE b
    IN  Returns(Put(Put(c, item, "prev", NULL), item, "next", NULL), item)

cJSON_DetachItemViaPointer(m, parent, item) ==
    LET x == m.h[item]
        a == IF item # m.h[parent].child THEN Put(m, x.prev, "next", x.next) ELSE m
        b == IF x.next # NULL THEN Put(a, x.next, "prev", x.prev) ELSE a
        c == IF item = m.h[parent].child THEN Put(b, parent, "child", x.next)
             ELSE IF x.next = NULL THEN Put(b, m.h[parent].child, "prev", x.prev) ELSE b
    IN  IF item = NULL THEN Returns(m, NULL)
        ELSE Returns(Put(Put(c, item, "prev", NULL), item, "next", NULL), item)

cJSON_InsertItemInArray(m, array, which, newitem) ==
    LET after == get_array_item(m.h, array, which)
        prev  == m.h[after].prev
        a     == Put(Put(Put(m, newitem, "next", after), newitem, "prev", prev), after, "prev", newitem)
    IN  IF after = NULL THEN add_item_to_array(m, array, newitem)
        ELSE IF after = m.h[array].child THEN Returns(Put(a, array, "child", newitem), TRUE)
        ELSE Returns(Put(a, prev, "next", newitem), TRUE)

cJSON_ReplaceItemViaPointer(m, parent, item, replacement) ==
    LET x    == m.h[item]
        a    == Put(Put(m, replacement, "next", x.next), replacement, "prev", x.prev)
        b    == IF x.next # NULL THEN Put(a, x.next, "prev", replacement) ELSE a
        head == b.h[parent].child
        c    == IF head = item
                THEN Put(IF b.h[head].prev = head THEN Put(b, replacement, "prev", replacement) ELSE b,
                         parent, "child", replacement)
                ELSE LET d == IF x.prev # NULL THEN Put(b, x.prev, "next", replacement) ELSE b
                     IN  IF x.next = NULL THEN Put(d, head, "prev", replacement) ELSE d
    IN  IF item = NULL THEN Returns(m, FALSE)
        ELSE IF replacement = item THEN Returns(m, TRUE)
        ELSE Returns(cJSON_Delete(Put(Put(c, item, "next", NULL), item, "prev", NULL), item), TRUE)

\* The replacement has lost its old name before the new one is known to fit.
replace_item_in_object(m, object, name, replacement, case_sensitive) ==
    LET copy  == cJSON_strdup(Named(m, replacement, NULL, m.h[replacement].const))
        named == Put(Put(copy, replacement, "string", name), replacement, "const", FALSE)
    IN  IF ~copy.ret THEN copy
        ELSE cJSON_ReplaceItemViaPointer(named, object,
                 get_object_item(named.h, object, name, case_sensitive), replacement)

-----------------------------------------------------------------------------
\* Duplication and comparison.

RECURSIVE cJSON_Duplicate(_, _, _)

\* The item at new gets the type, value and name of x, as far as memory reaches.
\* A copy is no reference; a constant name is shared.
Copied(m, new, x) ==
    LET wanted == (IF x.value # NULL THEN 1 ELSE 0) + (IF x.string # NULL /\ ~x.const THEN 1 ELSE 0)
        got    == Min({m.left, wanted})
    IN  [m EXCEPT !.left = @ - got, !.strings = @ + got, !.ret = (got = wanted),
                  !.h[new].type = x.type, !.h[new].const = x.const,
                  !.h[new].value = IF got > 0 THEN x.value ELSE NULL,
                  !.h[new].string = IF got = wanted THEN x.string ELSE NULL]

\* Copies of the items of a sequence, linked to each other below new.
Copies(m, new, children) ==
    Closed(FoldLeft(LAMBDA r, child : IF r.ret THEN Suffixed(cJSON_Duplicate(r, child, TRUE), new) ELSE r,
                    m, children), new)

DuplicateAt(n, item, recurse) ==
    IF n.ret = NULL THEN n
    ELSE Finished(Copies(Copied(n, n.ret, n.h[item]), n.ret, IF recurse THEN Items(n.h, item) ELSE <<>>), n.ret)

\* What a reference shares is copied.
cJSON_Duplicate(m, item, recurse) == DuplicateAt(cJSON_New_Item(m), item, recurse)

RECURSIVE cJSON_Compare(_, _, _, _, _)
\* The items a of memory g and b of memory h: every member of one is looked up in
\* the other, both ways.
cJSON_Compare(g, a, h, b, case_sensitive) ==
    LET c == Items(g, a)
        d == Items(h, b)
        Member(k, of, name) == IF name = NULL THEN NULL ELSE get_object_item(k, of, name, case_sensitive)
        pairs ==
            CASE g[a].type = "Array"  -> {<<c[i], d[i]>> : i \in DOMAIN c \cap DOMAIN d}
              [] g[a].type = "Object" ->
                    {<<c[i], Member(h, b, g[c[i]].string)>> : i \in DOMAIN c} \cup
                    {<<Member(g, a, h[d[i]].string), d[i]>> : i \in DOMAIN d}
              [] OTHER -> {}
    IN  /\ g[a].type = h[b].type
        /\ \/ g = h /\ a = b
           \/ /\ g[a].type = "String" => g[a].value # NULL /\ g[a].value = h[b].value
              /\ g[a].type = "Array" => Len(c) = Len(d)
              /\ \A pair \in pairs :
                    NULL \notin {pair[1], pair[2]} /\ cJSON_Compare(g, pair[1], h, pair[2], case_sensitive)

-----------------------------------------------------------------------------
\* Text.

RECURSIVE print_value(_, _)

print_string_ptr(v) == <<IF v = NULL THEN "" ELSE v>>

\* print_array and print_object.
print_list(h, item, object) ==
    LET c == Items(h, item)
        upto[i \in 0..Len(c)] ==
            IF i = 0 THEN IF object THEN <<"{">> ELSE <<"[">>
            ELSE upto[i - 1] \o (IF object THEN print_string_ptr(h[c[i]].string) \o <<":">> ELSE <<>>)
                             \o print_value(h, c[i]) \o (IF i < Len(c) THEN <<",">> ELSE <<>>)
    IN  upto[Len(c)] \o (IF object THEN <<"}">> ELSE <<"]">>)

print_value(h, item) ==
    CASE h[item].type = "Number" -> <<"Number">>
      [] h[item].type = "String" -> print_string_ptr(h[item].value)
      [] OTHER -> print_list(h, item, h[item].type = "Object")

\* The next token; the text ends with a zero.
Token(m, text) == IF m.pos <= Len(text) THEN text[m.pos] ELSE "END"
Skip(m) == [m EXCEPT !.pos = @ + 1]

Expect(m, token, text) == IF Token(m, text) = token THEN Returns(Skip(m), TRUE) ELSE Returns(m, FALSE)

parse_string(m, item, text) ==
    IF Token(m, text) \notin Keys THEN Returns(m, FALSE)
    ELSE IF m.left = 0 THEN cJSON_strdup(m)
    ELSE Skip(Put(Put(cJSON_strdup(m), item, "type", "String"), item, "value", Token(m, text)))

Renamed(n, item, text) ==
    IF ~n.ret THEN n
    ELSE Expect(Put(Put(n, item, "string", n.h[item].value), item, "value", NULL), ":", text)

\* A name is parsed as a value and becomes the name.
parse_name(m, item, text) == Renamed(parse_string(m, item, text), item, text)

RECURSIVE parse_value(_, _, _)
RECURSIVE parse_items(_, _, _, _, _)

List(m, ok, head, last) == Returns(m, [ok |-> ok, head |-> head, last |-> last])

\* The value after the name, if there is to be one.
ValueOf(m, item, text) == IF m.ret THEN parse_value(m, item, text) ELSE m
NameOf(m, item, text, object) == IF object THEN parse_name(m, item, text) ELSE Returns(m, TRUE)

Continues(m, text, head, last, object) ==
    IF m.ret /\ Token(m, text) = "," THEN parse_items(Skip(m), text, head, last, object)
    ELSE List(m, m.ret, head, last)

ItemAt(n, text, head, last, object) ==
    LET linked == IF head = NULL THEN n ELSE suffix_object(n, last, n.ret)
    IN  IF n.ret = NULL THEN List(n, FALSE, head, last)
        ELSE Continues(ValueOf(NameOf(linked, n.ret, text, object), n.ret, text), text,
                       IF head = NULL THEN n.ret ELSE head, n.ret, object)

\* The items between the brackets, after the items from head to last: the loop of
\* parse_array and of parse_object.
parse_items(m, text, head, last, object) == ItemAt(cJSON_New_Item(m), text, head, last, object)

Bracket(object) == IF object THEN "}" ELSE "]"

Inside(m, text, object) ==
    IF Token(m, text) = Bracket(object) THEN List(m, TRUE, NULL, NULL)
    ELSE parse_items(m, text, NULL, NULL, object)

\* Mutant of Ended: what was linked so far is not deleted.
Ended_leak(m, item, text, object) ==
    LET list == m.ret
        last == IF list.head = NULL THEN m ELSE Put(m, list.head, "prev", list.last)
    IN  IF ~list.ok \/ Token(m, text) # Bracket(object) THEN Returns(m, FALSE)
        ELSE Returns(Skip([Put(Put(last, item, "type", IF object THEN "Object" ELSE "Array"),
                               item, "child", list.head) EXCEPT !.depth = @ - 1]), TRUE)

\* What parse_array and parse_object do after the loop; what was linked so far is
\* deleted if they fail.
Ended(m, item, text, object) ==
    LET list == m.ret
        last == IF list.head = NULL THEN m ELSE Put(m, list.head, "prev", list.last)
    IN  IF ~list.ok \/ Token(m, text) # Bracket(object)
        THEN Returns(cJSON_Delete(m, list.head), FALSE)
        ELSE Returns(Skip([Put(Put(last, item, "type", IF object THEN "Object" ELSE "Array"),
                               item, "child", list.head) EXCEPT !.depth = @ - 1]), TRUE)

\* Mutant of parse_list: one level more than the limit.
parse_list_over(m, item, text, object) ==
    IF m.depth > NestingLimit THEN Returns(m, FALSE)
    ELSE Ended(Inside(Skip([m EXCEPT !.depth = @ + 1]), text, object), item, text, object)

\* parse_array and parse_object.
parse_list(m, item, text, object) ==
    IF m.depth >= NestingLimit THEN Returns(m, FALSE)
    ELSE Ended(Inside(Skip([m EXCEPT !.depth = @ + 1]), text, object), item, text, object)

parse_value(m, item, text) ==
    LET t == Token(m, text)
    IN  CASE t = "Number" -> Returns(Skip(Put(m, item, "type", "Number")), TRUE)
          [] t \in Keys -> parse_string(m, item, text)
          [] t \in {"[", "{"} -> parse_list(m, item, text, t = "{")
          [] OTHER -> Returns(m, FALSE)

Parsed(v, item, text, whole) ==
    Finished(IF v.ret /\ whole THEN Returns(v, Token(v, text) = "END") ELSE v, item)

RootAt(n, text, whole) ==
    IF n.ret = NULL THEN n ELSE Parsed(parse_value(n, n.ret, text), n.ret, text, whole)

\* cJSON_Parse; whole: the text may have nothing after the value.
cJSON_ParseWithLengthOpts(m, text, whole) == RootAt(cJSON_New_Item(m), text, whole)
=============================================================================
