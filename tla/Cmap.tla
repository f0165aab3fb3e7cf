------------------------------- MODULE Cmap -------------------------------
(***************************************************************************)
(* cmap.h of STC, the hash map of accounts and of storage entries: open    *)
(* addressing with linear probing, a tag per bucket, deletion by shifting  *)
(* back, rehashing into a larger table.  No two keys are equal to the      *)
(* comparison (Host shows what happens when two are).                      *)
(***************************************************************************)
EXTENDS Integers, FiniteSets, FiniteSetsExt

CONSTANTS
    Keys, Values,
    Absent,      (* no value                                                *)
    Hash,        (* the hash of a key, below HashRange                      *)
    HashRange,   (* 2^32                                                    *)
    Tags,        (* 128                                                     *)
    LoadPercent, (* max_load_factor, 85                                     *)
    Capacities   (* what reserve is called with                             *)

ASSUME CmapAssumption ==
    /\ {HashRange, Tags, LoadPercent} \subseteq Nat \ {0} /\ LoadPercent <= 100
    /\ Hash \in [Keys -> 0..(HashRange - 1)] /\ Capacities \subseteq Nat
    /\ Keys # {} /\ Values # {} /\ Absent \notin Values

VARIABLES
    table,   (* the entries, by bucket; NoEntry where hashx is 0            *)
    hashx,   (* the tags                                                    *)
    size,
    status,  (* "ok", "PANIC" after a null pointer, "HUNG" in a probe       *)
    nomem,   (* an allocation has failed                                    *)
    map      (* what the user has put into the map, MapSpec                 *)

self == <<table, hashx, size>>
vars == <<table, hashx, size, status, nomem, map>>

Map == INSTANCE MapSpec

Buckets(hx) == Cardinality(DOMAIN hx)
bucket_count == Buckets(hashx)

NoEntry == [first |-> CHOOSE k \in Keys : TRUE, second |-> CHOOSE v \in Values : TRUE]

fastrange(hash, n) == (hash * n) \div HashRange
Tag(k) == (Hash[k] % Tags) + 1

Scaled(n) == (n * LoadPercent) \div 100
Unscaled(n) == (n * 100) \div LoadPercent

-----------------------------------------------------------------------------
\* Mutant of bucket_: an entry is found by its tag alone.
bucket_tag(tab, hx, k) ==
    LET n == Buckets(hx)
        at(i) == (fastrange(Hash[k], n) + i) % n
        ends == {i \in 0..(n - 1) : hx[at(i)] \in {0, Tag(k)}}
    IN  IF ends = {} THEN -1 ELSE at(Min(ends))

\* The bucket where probing for k ends: that of k or the first free one, and -1
\* if there is neither and the probe goes round for ever.
bucket_(tab, hx, k) ==
    LET n     == Buckets(hx)
        at(i) == (fastrange(Hash[k], n) + i) % n
        ends  == {i \in 0..(n - 1) :
                    hx[at(i)] = 0 \/ (hx[at(i)] = Tag(k) /\ tab[at(i)].first = k)}
    IN  IF ends = {} THEN -1 ELSE at(Min(ends))

\* find, get, contains: the bucket of k, -1 if it is not there.
find(k) ==
    LET b == bucket_(table, hashx, k)
    IN  IF size > 0 /\ b >= 0 /\ hashx[b] # 0 THEN b ELSE -1

\* Mutant of Rehashed: the tags are copied without the entries' new places.
Rehashed_same(nbuckets) ==
    [hx  |-> [b \in 0..(nbuckets - 1) |-> IF b \in DOMAIN hashx THEN hashx[b] ELSE 0],
     tab |-> [b \in 0..(nbuckets - 1) |-> IF b \in DOMAIN table THEN table[b] ELSE NoEntry]]

\* The entries in a table of nbuckets, moved in the order of the old table.
Rehashed(nbuckets) ==
    LET upto[i \in 0..bucket_count] ==
            IF i = 0 THEN [hx  |-> [b \in 0..(nbuckets - 1) |-> 0],
                           tab |-> [b \in 0..(nbuckets - 1) |-> NoEntry]]
            ELSE LET m == upto[i - 1]
                     e == table[i - 1]
                     b == bucket_(m.tab, m.hx, e.first)
                 IN  IF hashx[i - 1] = 0 THEN m
                     ELSE [hx |-> [m.hx EXCEPT ![b] = Tag(e.first)], tab |-> [m.tab EXCEPT ![b] = e]]
    IN  upto[bucket_count]

\* reserve: the table after it, and whether memory was enough.
reserve(newcap, alloc) ==
    LET n        == Unscaled(newcap) + 2
        nbuckets == IF n % 2 = 0 THEN n + 1 ELSE n
    IN  IF newcap # size /\ newcap <= bucket_count
        THEN [hx |-> hashx, tab |-> table, ok |-> TRUE]
        ELSE IF alloc THEN [hx |-> Rehashed(nbuckets).hx, tab |-> Rehashed(nbuckets).tab, ok |-> TRUE]
        ELSE [hx |-> hashx, tab |-> table, ok |-> FALSE]

\* Mutant of Grown: the table grows when it is full.
Grown_late(alloc) ==
    IF size + 1 > bucket_count THEN reserve((size * 3) \div 2 + 4, alloc)
    ELSE [hx |-> hashx, tab |-> table, ok |-> TRUE]

\* The table an entry is inserted in.
Grown(alloc) ==
    IF size + 2 > Scaled(bucket_count) THEN reserve((size * 3) \div 2 + 4, alloc)
    ELSE [hx |-> hashx, tab |-> table, ok |-> TRUE]

-----------------------------------------------------------------------------
Stops(how) == status' = how /\ UNCHANGED <<self, map>>

\* The entry of k in the table m, made if need be; assign: its value is replaced
\* even if it was there.
Entered(m, k, v, assign) ==
    LET b   == bucket_(m.tab, m.hx, k)
        new == m.hx[b] = 0
    IN  /\ b >= 0
        /\ hashx' = [m.hx EXCEPT ![b] = Tag(k)]
        /\ table' = IF new \/ assign THEN [m.tab EXCEPT ![b] = [first |-> k, second |-> v]] ELSE m.tab
        /\ size' = IF new THEN size + 1 ELSE size

\* insert_entry_ and what its callers do: insert and push keep the value of an
\* entry that exists, insert_or_assign replaces it.
insert_entry_(k, v, alloc, assign) ==
    LET m == Grown(alloc)
    IN  /\ status = "ok"
        /\ nomem' = (nomem \/ ~m.ok)
        /\ \/ Buckets(m.hx) = 0 /\ Stops("PANIC")
           \/ Buckets(m.hx) > 0 /\ bucket_(m.tab, m.hx, k) = -1 /\ Stops("HUNG")
           \/ /\ Buckets(m.hx) > 0 /\ Entered(m, k, v, assign)
              /\ IF assign THEN Map!insert_or_assign(k, v) ELSE Map!insert(k, v)
              /\ UNCHANGED status

insert(k, v, alloc) == insert_entry_(k, v, alloc, FALSE)
insert_or_assign(k, v, alloc) == insert_entry_(k, v, alloc, TRUE)

\* Looking a key up in a full table that does not have it never ends.
lookup(k) ==
    /\ status = "ok"
    /\ size > 0 /\ bucket_(table, hashx, k) = -1
    /\ Stops("HUNG")
    /\ UNCHANGED nomem

\* Mutant of Shifted: entries after the hole stay where they are.
Shifted_not(hole) ==
    [hx |-> [hashx EXCEPT ![hole] = 0], tab |-> [table EXCEPT ![hole] = NoEntry]]

\* The table after the entry at hole is erased: the entries behind it that may
\* not be separated from their home bucket move into the hole.
Shifted(hole) ==
    LET n == bucket_count
        after[d \in 0..n] ==
            IF d = 0 THEN [hx |-> hashx, tab |-> table, i |-> hole, done |-> FALSE]
            ELSE LET m == after[d - 1]
                     j == (hole + d) % n
                     k == fastrange(Hash[m.tab[j].first], n)
                 IN  IF m.done \/ m.hx[j] = 0 THEN [m EXCEPT !.done = TRUE]
                     ELSE IF ((j < m.i) # (k <= m.i)) # (k > j)
                     THEN [m EXCEPT !.tab[m.i] = m.tab[j], !.hx[m.i] = m.hx[j], !.i = j]
                     ELSE m
    IN  [hx  |-> [after[n].hx EXCEPT ![after[n].i] = 0],
         tab |-> [after[n].tab EXCEPT ![after[n].i] = NoEntry]]

\* The loop of Shifted ends at a free bucket: without one it never does.
erase(k) ==
    LET b == find(k)
    IN  /\ status = "ok" /\ b >= 0
        /\ \/ size = bucket_count /\ Stops("HUNG")
           \/ /\ size < bucket_count
              /\ table' = Shifted(b).tab
              /\ hashx' = Shifted(b).hx
              /\ size' = size - 1
              /\ Map!erase(k)
              /\ UNCHANGED status
        /\ UNCHANGED nomem

clear ==
    /\ status = "ok"
    /\ hashx' = [b \in DOMAIN hashx |-> 0]
    /\ table' = [b \in DOMAIN table |-> NoEntry]
    /\ size' = 0
    /\ Map!clear
    /\ UNCHANGED <<status, nomem>>

\* reserve, and shrink_to_fit, which asks for the present size.
resize(newcap, alloc) ==
    LET m == reserve(newcap, alloc)
    IN  /\ status = "ok"
        /\ table' = m.tab /\ hashx' = m.hx
        /\ nomem' = (nomem \/ ~m.ok)
        /\ UNCHANGED <<size, status, map>>

-----------------------------------------------------------------------------
Init ==
    /\ table = [b \in {} |-> NoEntry] /\ hashx = [b \in {} |-> 0] /\ size = 0
    /\ status = "ok" /\ nomem = FALSE
    /\ Map!Init

Next ==
    \/ \E k \in Keys, v \in Values, alloc \in BOOLEAN :
          insert(k, v, alloc) \/ insert_or_assign(k, v, alloc)
    \/ \E k \in Keys : erase(k) \/ lookup(k)
    \/ clear
    \/ \E newcap \in Capacities \cup {size}, alloc \in BOOLEAN : resize(newcap, alloc)

Spec == Init /\ [][Next]_vars

-----------------------------------------------------------------------------
Occupied == {b \in DOMAIN hashx : hashx[b] # 0}

Value(k) == IF find(k) = -1 THEN Absent ELSE table[find(k)].second

\* Type invariant: size counts the entries.
TypeOK ==
    /\ DOMAIN table = 0..(bucket_count - 1) /\ DOMAIN hashx = 0..(bucket_count - 1)
    /\ hashx \in [DOMAIN hashx -> 0..Tags]
    /\ table \in [DOMAIN table -> [first : Keys, second : Values]]
    /\ size = Cardinality(Occupied)
    /\ status \in {"ok", "PANIC", "HUNG"} /\ nomem \in BOOLEAN

\* Through every order of insertions, deletions that shift entries back and
\* rehashing, probing for a key that is in the table ends at its entry.
Reachable == \A b \in Occupied : find(table[b].first) = b

\* While memory lasts a bucket stays free, so that every probe ends.
ProbesEnd == ~nomem => /\ status = "ok"
                       /\ bucket_count > 0 => size < bucket_count

\* A lookup gives what was put into the map last.
IsMap == status = "ok" => \A k \in Keys : Value(k) = map[k]
=============================================================================
