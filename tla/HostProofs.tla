----------------------------- MODULE HostProofs -----------------------------
(***************************************************************************)
(* Theorems about the storage and the access lists of Host, for all keys,  *)
(* values, addresses, prices and gas limits.                               *)
(***************************************************************************)
EXTENDS Host, TLAPS

\* No two keys share an entry, no two values look the same to strcmp: what the
\* code relies on and does not check.
KeysApart == \A k, l \in Keys : SameEntry(k, l) => k = l
ValuesApart == \A v, w \in Values \cup {Zero} : Same(v, w) => v = w

\* The entries of a map, each found by its own key and by no other entry's.
MapInv(map) ==
    /\ DOMAIN map \subseteq Keys
    /\ map \in [DOMAIN map -> Entry]
    /\ \A e, f \in DOMAIN map : SameEntry(e, f) => e = f
    /\ \A e \in DOMAIN map : map[e].access_status = "WARM"

\* The key that was charged as cold is the one that created the entry.
StoreInv ==
    /\ MapInv(storage)
    /\ storage # <<>> => account
    /\ account \in BOOLEAN
    /\ keysCharged = [k \in Keys |-> IF k \in DOMAIN storage THEN 1 ELSE 0]
    /\ written \in [Keys -> Values \cup {Zero}]
    /\ status # "PANIC"
    /\ gas_left \in Int

-----------------------------------------------------------------------------
\* The keys that find the same entry.
LEMMA SameEntryEquivalence ==
    /\ \A k : SameEntry(k, k)
    /\ \A k, l : SameEntry(k, l) => SameEntry(l, k)
    /\ \A k, l, m : SameEntry(k, l) /\ SameEntry(l, m) => SameEntry(k, m)
  BY DEF SameEntry, Same

\* A key that is in the map is found, and what is found is unique.
LEMMA FindFacts ==
    ASSUME NEW map, MapInv(map), NEW key \in Keys, contains(map, key)
    PROVE  /\ find(map, key) \in DOMAIN map
           /\ SameEntry(find(map, key), key)
           /\ \A e \in DOMAIN map : SameEntry(e, key) => e = find(map, key)
<1>1. \E e \in DOMAIN map : SameEntry(e, key)
  BY DEF contains
<1>2. find(map, key) \in DOMAIN map /\ SameEntry(find(map, key), key)
  BY <1>1, Zenon DEF find
<1>3. ASSUME NEW e \in DOMAIN map, SameEntry(e, key) PROVE e = find(map, key)
  <2>1. SameEntry(e, find(map, key))
    BY <1>2, <1>3, SameEntryEquivalence
  <2> QED BY <1>2, <2>1 DEF MapInv
<1> QED BY <1>2, <1>3

\* access_storage leaves an entry for the key, warm and with its value; it
\* answers COLD exactly when it had to create it.
LEMMA AccessFacts ==
    ASSUME MapInv(storage), NEW key \in Keys
    PROVE  LET a == access_storage(key)
               e == find(a.storage, key)
           IN  /\ MapInv(a.storage)
               /\ contains(a.storage, key)
               /\ e \in Keys
               /\ DOMAIN a.storage = DOMAIN storage \cup {e}
               /\ \A x \in DOMAIN storage : a.storage[x].value = storage[x].value
               /\ a.access_status = (IF e \in DOMAIN storage THEN "WARM" ELSE "COLD")
               /\ e \notin DOMAIN storage => e = key /\ a.storage[e].value = Zero
<1> DEFINE a == access_storage(key)
           d == IF contains(storage, key) THEN find(storage, key) ELSE key
           old == IF contains(storage, key) THEN storage[find(storage, key)]
                  ELSE storage_value_init
           new == [old EXCEPT !.access_status = "WARM"]
<1>1. /\ d \in Keys
      /\ SameEntry(d, key)
      /\ \A x \in DOMAIN storage : SameEntry(x, key) => x = d
      /\ contains(storage, key) <=> d \in DOMAIN storage
  <2>1. CASE contains(storage, key)
    BY <2>1, FindFacts DEF MapInv
  <2>2. CASE ~contains(storage, key)
    BY <2>2, SameEntryEquivalence DEF contains
  <2> QED BY <2>1, <2>2
<1>2. old \in Entry /\ new \in Entry /\ new.access_status = "WARM" /\ new.value = old.value
  <2>1. storage_value_init \in Entry
    BY DEF storage_value_init, Entry
  <2>2. contains(storage, key) => storage[find(storage, key)] \in Entry
    BY FindFacts DEF MapInv
  <2>3. old \in Entry
    BY <2>1, <2>2
  <2> QED BY <2>3 DEF Entry
<1>3. /\ a.storage = [x \in DOMAIN storage \cup {d} |-> IF x = d THEN new ELSE storage[x]]
      /\ a.access_status = old.access_status
  BY DEF access_storage, insert_or_assign
<1> HIDE DEF a, new, old, d
<1>4. /\ DOMAIN a.storage = DOMAIN storage \cup {d}
      /\ a.storage[d] = new
      /\ \A x \in DOMAIN storage : x # d => a.storage[x] = storage[x]
  BY <1>3
<1>5. MapInv(a.storage)
  <2>1. DOMAIN a.storage \subseteq Keys
    BY <1>1, <1>4 DEF MapInv
  <2>2. a.storage \in [DOMAIN a.storage -> Entry]
    <3>1. \A x \in DOMAIN storage \cup {d} :
             (IF x = d THEN new ELSE storage[x]) \in Entry
      BY <1>2 DEF MapInv
    <3> QED BY <1>3, <3>1
  <2>3. ASSUME NEW x \in DOMAIN a.storage, NEW y \in DOMAIN a.storage, SameEntry(x, y)
        PROVE  x = y
    <3>1. CASE x \in DOMAIN storage /\ y \in DOMAIN storage
      BY <2>3, <3>1 DEF MapInv
    <3>2. CASE x = d
      BY <1>1, <1>4, <2>3, <3>2, SameEntryEquivalence
    <3>3. CASE y = d
      BY <1>1, <1>4, <2>3, <3>3, SameEntryEquivalence
    <3> QED BY <1>4, <3>1, <3>2, <3>3
  <2>4. \A x \in DOMAIN a.storage : a.storage[x].access_status = "WARM"
    BY <1>2, <1>4 DEF MapInv
  <2> QED BY <2>1, <2>2, <2>3, <2>4 DEF MapInv
<1>6. contains(a.storage, key)
  BY <1>1, <1>4 DEF contains
<1>7. find(a.storage, key) = d
  BY <1>1, <1>4, <1>5, <1>6, FindFacts
<1>8. ASSUME NEW x \in DOMAIN storage PROVE a.storage[x].value = storage[x].value
  <2>1. CASE x = d
    BY <1>1, <1>2, <1>4, <2>1 DEF old, d
  <2>2. CASE x # d
    BY <1>4, <2>2
  <2> QED BY <2>1, <2>2
<1>9. a.access_status = (IF d \in DOMAIN storage THEN "WARM" ELSE "COLD")
  <2>1. CASE contains(storage, key)
    BY <1>1, <1>3, <2>1, FindFacts DEF old, MapInv
  <2>2. CASE ~contains(storage, key)
    BY <1>1, <1>3, <2>2 DEF old, storage_value_init
  <2> QED BY <2>1, <2>2
<1>10. d \notin DOMAIN storage => d = key /\ a.storage[d].value = Zero
  BY <1>1, <1>2, <1>4 DEF d, old, storage_value_init
<1> QED BY <1>1, <1>4, <1>5, <1>6, <1>7, <1>8, <1>9, <1>10 DEF a

\* set_storage keeps the entries and, up to strcmp, leaves the new value.
LEMMA SetFacts ==
    ASSUME NEW map, MapInv(map), NEW key \in Keys, contains(map, key), NEW value \in Values
    PROVE  LET s == set_storage(map, key, value)
               e == find(map, key)
           IN  /\ MapInv(s.storage)
               /\ DOMAIN s.storage = DOMAIN map
               /\ \A x \in DOMAIN map : x # e => s.storage[x] = map[x]
               /\ Same(s.storage[e].value, value)
               /\ s.status \in {"UNCHANGED", "MODIFIED_AGAIN", "ADDED", "DELETED", "MODIFIED"}
<1> DEFINE s == set_storage(map, key, value)
           e == find(map, key)
<1>1. e \in DOMAIN map
  BY FindFacts
<1>2. CASE Same(map[e].value, value)
  <2>1. s.storage = map /\ s.status = "UNCHANGED"
    BY <1>2 DEF set_storage
  <2> QED BY <1>2, <2>1
<1>3. CASE ~Same(map[e].value, value)
  <2> DEFINE new == [value |-> value, dirty |-> TRUE, access_status |-> map[e].access_status]
  <2>1. s.storage = [map EXCEPT ![e] = new]
    BY <1>3 DEF set_storage
  <2>2. s.status \in {"MODIFIED_AGAIN", "ADDED", "DELETED", "MODIFIED"}
    <3>1. s.status = CASE map[e].dirty -> "MODIFIED_AGAIN"
                       [] map[e].value = Zero -> "ADDED"
                       [] value = Zero -> "DELETED"
                       [] OTHER -> "MODIFIED"
      BY <1>3 DEF set_storage
    <3> QED BY <3>1
  <2>3. new \in Entry /\ new.access_status = "WARM" /\ new.value = value
    BY <1>1 DEF MapInv, Entry
  <2> HIDE DEF new
  <2>4. /\ DOMAIN s.storage = DOMAIN map
        /\ s.storage[e] = new
        /\ \A x \in DOMAIN map : x # e => s.storage[x] = map[x]
        /\ s.storage \in [DOMAIN map -> Entry]
    BY <1>1, <2>1, <2>3 DEF MapInv
  <2>5. MapInv(s.storage)
    BY <1>1, <2>3, <2>4 DEF MapInv
  <2>6. Same(s.storage[e].value, value)
    BY <2>3, <2>4 DEF Same
  <2> QED BY <2>2, <2>4, <2>5, <2>6
<1> QED BY <1>2, <1>3

-----------------------------------------------------------------------------
(***************************************************************************)
(* The storage invariant.                                                  *)
(***************************************************************************)
\* An empty storage.
LEMMA InitStore == Init => StoreInv
<1> SUFFICES ASSUME Init PROVE StoreInv
  OBVIOUS
<1>1. storage = <<>> /\ DOMAIN storage = {}
  BY DEF Init
<1>2. MapInv(storage)
  <2>1. storage \in [DOMAIN storage -> Entry]
    BY <1>1
  <2> QED BY <1>1, <2>1 DEF MapInv
<1>3. keysCharged = [k \in Keys |-> IF k \in DOMAIN storage THEN 1 ELSE 0]
  BY <1>1 DEF Init
<1>4. written \in [Keys -> Values \cup {Zero}]
  BY DEF Init
<1>5. account \in BOOLEAN
  BY Zenon DEF Init
<1>6. status # "PANIC"
  BY DEF Init
<1>7. gas_left \in Int
  <2>1. gas_left \in GasLimits
    BY DEF Init
  <2> QED BY <2>1, HostAssumption
<1> QED BY <1>1, <1>2, <1>3, <1>4, <1>5, <1>6, <1>7 DEF StoreInv

\* An instruction that accesses the entry of key, and may store to it.
LEMMA KeyStep ==
    ASSUME StoreInv, NEW key \in Keys,
           CountKey(key, access_storage(key).access_status),
           MapInv(storage'), DOMAIN storage' = DOMAIN access_storage(key).storage
    PROVE  keysCharged' = [k \in Keys |-> IF k \in DOMAIN storage' THEN 1 ELSE 0]
<1> DEFINE a == access_storage(key)
           e == find(a.storage, key)
<1>1. /\ e \in Keys
      /\ DOMAIN a.storage = DOMAIN storage \cup {e}
      /\ a.access_status = (IF e \in DOMAIN storage THEN "WARM" ELSE "COLD")
      /\ e \notin DOMAIN storage => e = key
  BY AccessFacts DEF StoreInv
<1> HIDE DEF a, e
<1>2. keysCharged' = [keysCharged EXCEPT ![key] = @ + (IF a.access_status = "COLD" THEN 1 ELSE 0)]
  BY DEF CountKey, a
<1>3. DOMAIN storage' = DOMAIN storage \cup {e}
  BY <1>1 DEF a
<1>4. CASE e \in DOMAIN storage
  <2>1. a.access_status = "WARM"
    BY <1>1, <1>4
  <2>2. keysCharged' = keysCharged
    BY <1>2, <2>1 DEF StoreInv
  <2> QED BY <1>3, <1>4, <2>2 DEF StoreInv
<1>5. CASE e \notin DOMAIN storage
  <2>1. a.access_status = "COLD" /\ e = key
    BY <1>1, <1>5
  <2>2. keysCharged' = [keysCharged EXCEPT ![key] = 1]
    BY <1>2, <1>5, <2>1 DEF StoreInv
  <2> QED BY <1>3, <1>5, <2>1, <2>2 DEF StoreInv
<1> QED BY <1>4, <1>5

\* Every instruction keeps the storage invariant.
LEMMA NextStore == StoreInv /\ [Next]_vars => StoreInv'
<1> SUFFICES ASSUME StoreInv, [Next]_vars PROVE StoreInv'
  OBVIOUS
<1> USE HostAssumption
<1>1. ASSUME NEW key \in Keys, sload(key) PROVE StoreInv'
  <2>1. /\ storage' = access_storage(key).storage
        /\ account' = TRUE
        /\ CountKey(key, access_storage(key).access_status)
        /\ written' = written
    BY <1>1 DEF sload
  <2>2. MapInv(storage')
    BY <2>1, AccessFacts DEF StoreInv
  <2>3. keysCharged' = [k \in Keys |-> IF k \in DOMAIN storage' THEN 1 ELSE 0]
    BY <2>1, <2>2, KeyStep
  <2>4. status' # "PANIC" /\ gas_left' \in Int
    BY <1>1 DEF sload, Charge, StoreInv
  <2> QED BY <2>1, <2>2, <2>3, <2>4 DEF StoreInv
<1>2. ASSUME StaticMode PROVE StoreInv'
  BY <1>2 DEF StaticMode, history, StoreInv
<1>3. ASSUME NEW key \in Keys, NEW value \in Values, sstore(key, value) PROVE StoreInv'
  <2>1. CASE StaticMode
    BY <1>2, <2>1
  <2>2. CASE gas_left <= Stipend /\ ~static
    <3>1. UNCHANGED <<storage, account, gas_left, history>> /\ status' = "OUT_OF_GAS"
      BY <1>3, <2>2 DEF sstore, StaticMode, StoreInv
    <3> QED BY <3>1 DEF history, StoreInv
  <2>3. CASE gas_left > Stipend /\ ~static
    <3> DEFINE a == access_storage(key)
               s == set_storage(a.storage, key, value)
               cold == IF a.access_status = "COLD" THEN cold_sload_cost ELSE 0
               cost == CASE s.status \in {"UNCHANGED", "MODIFIED_AGAIN"} -> warm_storage_read_cost
                         [] s.status \in {"MODIFIED", "DELETED"} -> ResetCost - cold_sload_cost
                         [] s.status = "ADDED" -> SetCost
    <3>1. /\ account' = TRUE
          /\ IF contains(a.storage, key)
             THEN storage' = s.storage /\ Charge(cold + cost)
             ELSE status' = "PANIC" /\ UNCHANGED <<storage, gas_left>>
          /\ written' = [written EXCEPT ![key] = value]
          /\ CountKey(key, a.access_status)
      <4>1. ~(gas_left <= Stipend)
        BY <2>3 DEF StoreInv
      <4> QED BY <1>3, <2>3, <4>1, Zenon DEF sstore, StaticMode
    <3>2. MapInv(a.storage) /\ contains(a.storage, key)
      BY AccessFacts DEF StoreInv
    <3>3. storage' = s.storage /\ Charge(cold + cost)
      BY <3>1, <3>2
    <3>4. /\ MapInv(s.storage) /\ DOMAIN s.storage = DOMAIN a.storage
          /\ s.status \in {"UNCHANGED", "MODIFIED_AGAIN", "ADDED", "DELETED", "MODIFIED"}
      BY <3>2, SetFacts
    <3>5. cost \in Int /\ cold \in Int
      <4> HIDE DEF s, a
      <4> QED BY <3>4
    <3>6. status' # "PANIC" /\ gas_left' \in Int
      <4> HIDE DEF cost, cold
      <4> QED BY <3>3, <3>5 DEF Charge, StoreInv
    <3>7. keysCharged' = [k \in Keys |-> IF k \in DOMAIN storage' THEN 1 ELSE 0]
      BY <3>1, <3>3, <3>4, KeyStep
    <3>8. written' \in [Keys -> Values \cup {Zero}]
      BY <3>1 DEF StoreInv
    <3> QED BY <3>1, <3>3, <3>4, <3>6, <3>7, <3>8 DEF StoreInv
  <2> QED BY <1>3, <2>1, <2>2, <2>3 DEF sstore
<1>4. ASSUME NEW addr \in Addresses, NEW gets \in BOOLEAN, query(addr, gets) PROVE StoreInv'
  BY <1>4 DEF query, UseAccount, Charge, StoreInv
<1>5. ASSUME NEW addr \in Addresses, selfdestruct(addr) PROVE StoreInv'
  <2>1. CASE StaticMode
    BY <1>2, <2>1
  <2>2. CASE ~StaticMode
    <3>1. /\ UNCHANGED <<storage, account, written, keysCharged>>
          /\ status' \in {"OUT_OF_GAS", "SUCCESS"}
          /\ gas_left' \in Int
      BY <1>5, <2>2 DEF selfdestruct, UseAccount, StoreInv
    <3> QED BY <3>1 DEF StoreInv
  <2> QED BY <2>1, <2>2
<1>6. CASE selfbalance
  BY <1>6 DEF selfbalance, history, StoreInv
<1>7. ASSUME NEW number \in Numbers, blockhash(number) PROVE StoreInv'
  BY <1>7 DEF blockhash, history, StoreInv
<1>8. CASE UNCHANGED vars
  BY <1>8 DEF vars, state, history, StoreInv
<1> QED BY <1>1, <1>3, <1>4, <1>5, <1>6, <1>7, <1>8 DEF Next, Stopped

\* The storage invariant holds throughout.
LEMMA StoreInvariant == Spec => []StoreInv
  BY InitStore, NextStore, PTL DEF Spec

\* set_storage() never dereferences a missing entry: access_storage() has
\* created it, also when different keys share an entry.
THEOREM EntryAlwaysPresent == Spec => []EntryPresent
<1>1. StoreInv => EntryPresent
  BY DEF StoreInv, EntryPresent
<1> QED BY <1>1, StoreInvariant, PTL

\* A storage key is charged as cold exactly once, if no two keys share an entry.
THEOREM ColdChargedOnce == KeysApart => (Spec => []ColdOnce)
<1> SUFFICES ASSUME KeysApart PROVE Spec => []ColdOnce
  OBVIOUS
<1>1. ASSUME StoreInv PROVE ColdOnce
  <2>1. ASSUME NEW key \in Keys PROVE contains(storage, key) <=> key \in DOMAIN storage
    BY <1>1, SameEntryEquivalence DEF contains, KeysApart, StoreInv, MapInv
  <2> QED BY <1>1, <2>1 DEF ColdOnce, StoreInv
<1> QED BY <1>1, StoreInvariant, PTL

-----------------------------------------------------------------------------
(***************************************************************************)
(* Reading back what was stored.                                           *)
(***************************************************************************)
\* The value the storage holds for a key, by its entry.
LEMMA StorageAtFacts ==
    ASSUME KeysApart, StoreInv, NEW key \in Keys
    PROVE  StorageAt(key) = IF key \in DOMAIN storage THEN storage[key].value ELSE Zero
<1>1. contains(storage, key) <=> key \in DOMAIN storage
  BY SameEntryEquivalence DEF contains, KeysApart, StoreInv, MapInv
<1>2. CASE key \in DOMAIN storage
  <2>1. find(storage, key) = key
    BY <1>1, <1>2, FindFacts, SameEntryEquivalence DEF StoreInv
  <2>2. account
    <3>1. storage # <<>>
      BY <1>2
    <3> QED BY <3>1 DEF StoreInv
  <2> QED BY <1>1, <1>2, <2>1, <2>2 DEF StorageAt
<1>3. CASE key \notin DOMAIN storage
  BY <1>1, <1>3 DEF StorageAt
<1> QED BY <1>2, <1>3

\* What an access of key leaves at every key.
LEMMA AccessValues ==
    ASSUME KeysApart, StoreInv, NEW key \in Keys
    PROVE  LET m == access_storage(key).storage
           IN  /\ DOMAIN m = DOMAIN storage \cup {key}
               /\ find(m, key) = key
               /\ \A k \in DOMAIN m : m[k].value = StorageAt(k)
<1> DEFINE m == access_storage(key).storage
           e == find(m, key)
<1>1. /\ MapInv(m) /\ contains(m, key) /\ e \in Keys
      /\ DOMAIN m = DOMAIN storage \cup {e}
      /\ \A x \in DOMAIN storage : m[x].value = storage[x].value
      /\ e \notin DOMAIN storage => m[e].value = Zero
  BY AccessFacts DEF StoreInv
<1>2. e = key
  BY <1>1, FindFacts DEF KeysApart
<1>3. ASSUME NEW k \in DOMAIN m PROVE m[k].value = StorageAt(k)
  <2>1. k \in Keys
    BY <1>1, <1>3 DEF MapInv
  <2> HIDE DEF m, e
  <2>2. CASE k \in DOMAIN storage
    BY <1>1, <2>1, <2>2, StorageAtFacts
  <2>3. CASE k \notin DOMAIN storage
    <3>1. k = e
      BY <1>1, <1>3, <2>3
    <3> QED BY <1>1, <2>1, <2>3, <3>1, StorageAtFacts
  <2> QED BY <2>2, <2>3
<1> QED BY <1>1, <1>2, <1>3

\* ReadBack without its guard.
Written == \A key \in Keys : StorageAt(key) = written[key]

\* Every instruction keeps the stored values: an access rewrites the entry with
\* the value it had, a store changes the value of its own key only.
LEMMA NextWritten ==
    ASSUME KeysApart, ValuesApart, StoreInv, StoreInv', Written, [Next]_vars
    PROVE  Written'
<1> SUFFICES ASSUME NEW k \in Keys PROVE StorageAt(k)' = written'[k]
  BY DEF Written
<1>0. StorageAt(k)' = IF k \in DOMAIN storage' THEN storage'[k].value ELSE Zero
  <2>1. contains(storage, k)' <=> k \in DOMAIN storage'
    BY SameEntryEquivalence DEF contains, KeysApart, StoreInv, MapInv
  <2>2. CASE k \in DOMAIN storage'
    <3>1. find(storage, k)' = k
      <4>1. MapInv(storage') /\ contains(storage', k)
        BY <2>1, <2>2 DEF StoreInv, contains
      <4>2. find(storage', k) = k
        BY <2>2, <4>1, FindFacts, SameEntryEquivalence
      <4> QED BY <4>2 DEF find
    <3>2. account'
      <4>1. storage' # <<>>
        BY <2>2
      <4> QED BY <4>1 DEF StoreInv
    <3> QED BY <2>1, <2>2, <3>1, <3>2 DEF StorageAt
  <2>3. CASE k \notin DOMAIN storage'
    BY <2>1, <2>3 DEF StorageAt
  <2> QED BY <2>2, <2>3
<1>1. ASSUME UNCHANGED <<storage, written>> PROVE StorageAt(k)' = written'[k]
  BY <1>0, <1>1, StorageAtFacts DEF Written
<1>2. ASSUME NEW key \in Keys, storage' = access_storage(key).storage, written' = written
      PROVE  StorageAt(k)' = written'[k]
  <2>1. CASE k \in DOMAIN storage'
    BY <1>0, <1>2, <2>1, AccessValues DEF Written
  <2>2. CASE k \notin DOMAIN storage'
    <3>1. k \notin DOMAIN storage
      BY <1>2, <2>2, AccessValues
    <3> QED BY <1>0, <1>2, <2>2, <3>1, StorageAtFacts DEF Written
  <2> QED BY <2>1, <2>2
<1>3. ASSUME NEW key \in Keys, NEW value \in Values,
             storage' = set_storage(access_storage(key).storage, key, value).storage,
             written' = [written EXCEPT ![key] = value]
      PROVE  StorageAt(k)' = written'[k]
  <2> DEFINE m == access_storage(key).storage
  <2>1. /\ DOMAIN m = DOMAIN storage \cup {key}
        /\ find(m, key) = key
        /\ \A x \in DOMAIN m : m[x].value = StorageAt(x)
    BY AccessValues
  <2>2. MapInv(m) /\ contains(m, key)
    BY AccessFacts DEF StoreInv
  <2> HIDE DEF m
  <2>3. /\ DOMAIN storage' = DOMAIN m
        /\ \A x \in DOMAIN m : x # key => storage'[x] = m[x]
        /\ Same(storage'[key].value, value)
        /\ MapInv(storage')
    BY <1>3, <2>1, <2>2, SetFacts DEF m
  <2>4. CASE k = key
    <3>1. storage'[key].value \in Values \cup {Zero}
      BY <2>1, <2>3 DEF MapInv, Entry
    <3>2. storage'[key].value = value
      BY <2>3, <3>1 DEF ValuesApart
    <3> QED BY <1>0, <1>3, <2>1, <2>3, <2>4, <3>2 DEF StoreInv
  <2>5. CASE k # key /\ k \in DOMAIN m
    BY <1>0, <1>3, <2>1, <2>3, <2>5 DEF Written, StoreInv
  <2>6. CASE k # key /\ k \notin DOMAIN m
    BY <1>0, <1>3, <2>1, <2>3, <2>6, StorageAtFacts DEF Written, StoreInv
  <2> QED BY <2>4, <2>5, <2>6
<1>4. ASSUME NEW key \in Keys, sload(key) PROVE StorageAt(k)' = written'[k]
  BY <1>2, <1>4 DEF sload
<1>5. ASSUME NEW key \in Keys, NEW value \in Values, sstore(key, value)
      PROVE  StorageAt(k)' = written'[k]
  <2>1. \/ UNCHANGED <<storage, written>>
        \/ /\ storage' = set_storage(access_storage(key).storage, key, value).storage
           /\ written' = [written EXCEPT ![key] = value]
    <3>1. contains(access_storage(key).storage, key)
      BY AccessFacts DEF StoreInv
    <3> QED BY <1>5, <3>1, Zenon DEF sstore, StaticMode, history
  <2> QED BY <1>1, <1>3, <2>1
<1>6. ASSUME NEW addr \in Addresses,
             selfdestruct(addr) \/ \E gets \in BOOLEAN : query(addr, gets)
      PROVE  UNCHANGED <<storage, written>>
  BY <1>6, Zenon DEF selfdestruct, query, StaticMode, UseAccount, history
<1>7. ASSUME selfbalance \/ (\E number \in Numbers : blockhash(number)) \/ UNCHANGED vars
      PROVE  UNCHANGED <<storage, written>>
  BY <1>7, Zenon DEF selfbalance, blockhash, vars, state, history
<1> QED BY <1>1, <1>4, <1>5, <1>6, <1>7 DEF Next, Stopped

\* SLOAD reads what SSTORE last stored, for all sequences of instructions, as
\* long as no two keys share an entry and no two values are equal to strcmp.
THEOREM StorageReadback == KeysApart /\ ValuesApart => (Spec => []ReadBack)
<1> SUFFICES ASSUME KeysApart, ValuesApart PROVE Spec => []ReadBack
  OBVIOUS
<1>1. ASSUME Init PROVE Written
  BY <1>1 DEF Init, Written, StorageAt
<1>2. ASSUME StoreInv, StoreInv', Written, [Next]_vars PROVE Written'
  BY <1>2, NextWritten
<1>3. Written => ReadBack
  BY DEF Written, ReadBack
<1> QED BY <1>1, <1>2, <1>3, StoreInvariant, PTL DEF Spec

-----------------------------------------------------------------------------
(***************************************************************************)
(* The access list.                                                        *)
(***************************************************************************)
\* access_account() finds the address in the record.
Accessed(addr) == \E i \in DOMAIN recorded_account_accesses :
                     Same(recorded_account_accesses[i], addr)

\* While the record has room, every address that was charged is in it.
AccessInv ==
    /\ recorded_account_accesses \in Seq(Addresses)
    /\ accountsCharged \in [Addresses -> Nat]
    /\ Len(recorded_account_accesses) < MaxAccesses =>
          \A addr \in Addresses :
              /\ accountsCharged[addr] <= 1
              /\ accountsCharged[addr] = 1 => Accessed(addr)

\* r continues the record s.
Continues(r, s) ==
    /\ r \in Seq(Addresses)
    /\ Len(r) >= Len(s)
    /\ \A i \in DOMAIN s : i \in DOMAIN r /\ r[i] = s[i]

\* Recording continues the record, and the address is its last one if it still
\* has room.
LEMMA RecordFacts ==
    ASSUME NEW s \in Seq(Addresses), NEW addr \in Addresses
    PROVE  LET r == record_account_access(s, addr)
           IN  /\ Continues(r, s)
               /\ Len(r) < MaxAccesses => Len(r) \in DOMAIN r /\ r[Len(r)] = addr
  BY HostAssumption DEF record_account_access, Continues

\* Records that continue one another.
LEMMA ContinuesFacts ==
    ASSUME NEW s \in Seq(Addresses), NEW r, NEW q
    PROVE  /\ Continues(s, s)
           /\ Continues(r, s) /\ Continues(q, r) => Continues(q, s)
<1>1. Continues(s, s)
  BY DEF Continues
<1>2. ASSUME Continues(r, s), Continues(q, r) PROVE Continues(q, s)
  <2>1. r \in Seq(Addresses) /\ q \in Seq(Addresses) /\ Len(q) >= Len(s)
    BY <1>2 DEF Continues
  <2>2. \A i \in DOMAIN s : i \in DOMAIN q /\ q[i] = s[i]
    BY <1>2, Zenon DEF Continues
  <2> QED BY <2>1, <2>2 DEF Continues
<1> QED BY <1>1, <1>2

\* A step that charges no address.
LEMMA UnchargedStep ==
    ASSUME AccessInv, accountsCharged' = accountsCharged,
           Continues(recorded_account_accesses', recorded_account_accesses)
    PROVE  AccessInv'
<1>1. ASSUME NEW addr \in Addresses, Accessed(addr) PROVE Accessed(addr)'
  BY <1>1 DEF Accessed, Continues
<1>2. /\ recorded_account_accesses' \in Seq(Addresses)
      /\ Len(recorded_account_accesses') < MaxAccesses =>
            Len(recorded_account_accesses) < MaxAccesses
  BY HostAssumption DEF AccessInv, Continues
<1> QED BY <1>1, <1>2 DEF AccessInv

\* A step that accesses addr.
LEMMA ChargedStep ==
    ASSUME AccessInv, NEW addr \in Addresses,
           UseAccount(addr, access_account(addr).access_status),
           Continues(recorded_account_accesses', access_account(addr).accesses)
    PROVE  AccessInv'
<1> DEFINE rec == recorded_account_accesses
           a == access_account(addr)
<1> USE HostAssumption
<1>1. rec \in Seq(Addresses) /\ accountsCharged \in [Addresses -> Nat]
  BY DEF AccessInv
<1>2. /\ a.accesses = record_account_access(rec, addr)
      /\ a.access_status = "COLD" => ~Accessed(addr)
  BY DEF access_account, Accessed
<1>3. /\ Continues(a.accesses, rec)
      /\ Len(a.accesses) < MaxAccesses =>
            Len(a.accesses) \in DOMAIN a.accesses /\ a.accesses[Len(a.accesses)] = addr
  BY <1>1, <1>2, RecordFacts
<1>4. accountsCharged' =
        [accountsCharged EXCEPT ![addr] = @ + (IF a.access_status = "COLD" THEN 1 ELSE 0)]
  BY DEF UseAccount
<1> HIDE DEF a
<1>5. Continues(rec', a.accesses)
  BY DEF a
<1>6. Continues(rec', rec)
  BY <1>1, <1>3, <1>5, ContinuesFacts
<1>7. CASE a.access_status = "COLD"
  <2>1. accountsCharged' \in [Addresses -> Nat] /\ rec' \in Seq(Addresses)
    BY <1>1, <1>4, <1>6 DEF Continues
  <2>2. SUFFICES ASSUME Len(rec') < MaxAccesses, NEW other \in Addresses
                 PROVE  /\ accountsCharged'[other] <= 1
                        /\ accountsCharged'[other] = 1 => Accessed(other)'
    BY <2>1 DEF AccessInv
  <2>3. Len(rec) < MaxAccesses /\ Len(a.accesses) < MaxAccesses
    <3>1. Len(rec) \in Nat /\ Len(a.accesses) \in Nat /\ Len(rec') \in Nat
      BY <1>1, <1>3, <1>5 DEF Continues
    <3>2. Len(a.accesses) >= Len(rec) /\ Len(rec') >= Len(a.accesses)
      BY <1>3, <1>5, Zenon DEF Continues
    <3> QED BY <2>2, <3>1, <3>2
  <2>4. CASE other = addr
    <3>1. accountsCharged[addr] <= 1 /\ accountsCharged[addr] # 1
      BY <1>2, <1>7, <2>3 DEF AccessInv, a
    <3>2. accountsCharged'[addr] = 1
      BY <1>1, <1>4, <1>7, <3>1
    <3>3. Accessed(addr)'
      BY <1>3, <1>5, <2>3 DEF Accessed, Continues, Same
    <3> QED BY <2>4, <3>2, <3>3
  <2>5. CASE other # addr
    <3>1. accountsCharged'[other] = accountsCharged[other]
      BY <1>1, <1>4, <2>5
    <3>2. Accessed(other) => Accessed(other)'
      BY <1>6 DEF Accessed, Continues
    <3> QED BY <2>3, <3>1, <3>2 DEF AccessInv
  <2> QED BY <2>4, <2>5
<1>8. CASE a.access_status # "COLD"
  <2>1. accountsCharged' = accountsCharged
    BY <1>1, <1>4, <1>8
  <2> QED BY <1>6, <2>1, UnchargedStep
<1> QED BY <1>7, <1>8

\* Every instruction keeps the access list invariant.
LEMMA NextAccess == AccessInv /\ [Next]_vars => AccessInv'
<1> SUFFICES ASSUME AccessInv, [Next]_vars PROVE AccessInv'
  OBVIOUS
<1> DEFINE rec == recorded_account_accesses
<1>r. rec \in Seq(Addresses) /\ Recipient \in Addresses
  BY HostAssumption DEF AccessInv
<1>c. /\ Continues(rec, rec)
      /\ Continues(record_account_access(rec, Recipient), rec)
  BY <1>r, ContinuesFacts, RecordFacts
<1>1. ASSUME NEW key \in Keys, sload(key) PROVE AccessInv'
  <2>1. accountsCharged' = accountsCharged /\ rec' \in {rec, record_account_access(rec, Recipient)}
    BY <1>1 DEF sload
  <2> QED BY <1>c, <2>1, UnchargedStep
<1>2. ASSUME StaticMode PROVE AccessInv'
  <2>1. accountsCharged' = accountsCharged /\ rec' = rec
    BY <1>2 DEF StaticMode, history
  <2> QED BY <1>c, <2>1, UnchargedStep
<1>3. ASSUME NEW key \in Keys, NEW value \in Values, sstore(key, value) PROVE AccessInv'
  <2>1. accountsCharged' = accountsCharged /\ rec' \in {rec, record_account_access(rec, Recipient)}
    BY <1>3, Zenon DEF sstore, StaticMode, history
  <2> QED BY <1>c, <2>1, UnchargedStep
<1>4. ASSUME NEW addr \in Addresses, NEW gets \in BOOLEAN, query(addr, gets) PROVE AccessInv'
  <2> DEFINE l == access_account(addr).accesses
  <2>1. l = record_account_access(rec, addr)
    BY DEF access_account
  <2>2. l \in Seq(Addresses)
    BY <1>r, <2>1, RecordFacts DEF Continues
  <2> HIDE DEF l
  <2>3. rec' \in {l, record_account_access(l, addr)}
    BY <1>4 DEF query, l
  <2>4. Continues(rec', l)
    BY <2>2, <2>3, ContinuesFacts, RecordFacts
  <2>5. UseAccount(addr, access_account(addr).access_status)
    BY <1>4 DEF query
  <2> QED BY <2>4, <2>5, ChargedStep DEF l
<1>5. ASSUME NEW addr \in Addresses, selfdestruct(addr) PROVE AccessInv'
  <2> DEFINE l == access_account(addr).accesses
             one == record_account_access(l, Recipient)
             two == record_account_access(one, Recipient)
  <2>1. l = record_account_access(rec, addr)
    BY DEF access_account
  <2>2. l \in Seq(Addresses)
    BY <1>r, <2>1, RecordFacts DEF Continues
  <2>3. CASE StaticMode
    BY <1>2, <2>3
  <2>4. CASE ~StaticMode
    <3>1. /\ UseAccount(addr, access_account(addr).access_status)
          /\ rec' \in {l, two}
      BY <1>5, <2>4, Zenon DEF selfdestruct
    <3> HIDE DEF l
    <3>2. Continues(one, l) /\ one \in Seq(Addresses)
      BY <1>r, <2>2, RecordFacts DEF Continues
    <3> HIDE DEF one
    <3>3. Continues(two, one)
      BY <1>r, <3>2, RecordFacts
    <3> HIDE DEF two
    <3>4. Continues(rec', l)
      BY <2>2, <3>1, <3>2, <3>3, ContinuesFacts
    <3> QED BY <3>1, <3>4, ChargedStep DEF l
  <2> QED BY <2>3, <2>4
<1>6. ASSUME selfbalance \/ (\E number \in Numbers : blockhash(number)) \/ UNCHANGED vars
      PROVE  AccessInv'
  <2>1. accountsCharged' = accountsCharged /\ rec' \in {rec, record_account_access(rec, Recipient)}
    BY <1>6, Zenon DEF selfbalance, blockhash, vars, state, history
  <2> QED BY <1>c, <2>1, UnchargedStep
<1> QED BY <1>1, <1>3, <1>4, <1>5, <1>6 DEF Next, Stopped

\* access_account() charges an address as cold at most once until the record of
\* accesses is full, whatever its capacity.
THEOREM WarmWhileRoom == Spec => []WarmUntilFull
<1>1. Init => AccessInv
  BY DEF Init, AccessInv
<1>2. AccessInv => WarmUntilFull
  BY DEF AccessInv, WarmUntilFull
<1> QED BY <1>1, <1>2, NextAccess, PTL DEF Spec

\* The record never exceeds its capacity, the entries of the storage keep their
\* type, and the status is one of those the instructions assign.
THEOREM HostTypeCorrect == Spec => []HostTypeOK
<1> DEFINE RecordOK == /\ recorded_account_accesses \in Seq(Addresses)
                       /\ Len(recorded_account_accesses) <= MaxAccesses
           StatusOK == status \in {"RUNNING", "SUCCESS", "OUT_OF_GAS",
                                   "STATIC_MODE_VIOLATION", "PANIC"}
<1>1. ASSUME NEW s \in Seq(Addresses), NEW addr \in Addresses, Len(s) <= MaxAccesses
      PROVE  /\ record_account_access(s, addr) \in Seq(Addresses)
             /\ Len(record_account_access(s, addr)) <= MaxAccesses
  BY <1>1, HostAssumption DEF record_account_access
<1>2. Init => RecordOK /\ StatusOK
  BY HostAssumption DEF Init
<1>3. ASSUME RecordOK, StatusOK, [Next]_vars PROVE RecordOK' /\ StatusOK'
  <2> DEFINE rec == recorded_account_accesses
             Some(s) == {s} \cup {record_account_access(s, a) : a \in Addresses}
  <2>1. Recipient \in Addresses
    BY HostAssumption
  <2>2. /\ \E one \in Some(rec) : \E two \in Some(one) : rec' \in Some(two)
        /\ StatusOK'
    <3>1. ASSUME NEW key \in Keys, sload(key) PROVE rec' \in Some(rec) /\ StatusOK'
      BY <2>1, <3>1 DEF sload, Charge
    <3>2. ASSUME StaticMode PROVE rec' \in Some(rec) /\ StatusOK'
      BY <3>2 DEF StaticMode
    <3>3. ASSUME NEW key \in Keys, NEW value \in Values, sstore(key, value)
          PROVE  rec' \in Some(rec) /\ StatusOK'
      <4>1. /\ rec' = rec \/ rec' = record_account_access(rec, Recipient)
            /\ \/ status' \in {"STATIC_MODE_VIOLATION", "OUT_OF_GAS", "PANIC"}
               \/ \E cost : Charge(cost)
        BY <3>3, Zenon DEF sstore, StaticMode
      <4>2. StatusOK'
        BY <4>1 DEF Charge
      <4> QED BY <2>1, <4>1, <4>2
    <3>4. ASSUME NEW addr \in Addresses, NEW gets \in BOOLEAN, query(addr, gets)
          PROVE  /\ \E one \in Some(rec) : rec' \in Some(one)
                 /\ StatusOK'
      <4>1. access_account(addr).accesses = record_account_access(rec, addr)
        BY DEF access_account
      <4>2. /\ \/ rec' = record_account_access(rec, addr)
               \/ rec' = record_account_access(record_account_access(rec, addr), addr)
            /\ \E cost : Charge(cost)
        BY <3>4, <4>1, Zenon DEF query
      <4>3. StatusOK'
        BY <4>2 DEF Charge
      <4> QED BY <4>2, <4>3, Zenon
    <3>5. ASSUME NEW addr \in Addresses, selfdestruct(addr)
          PROVE  /\ \E one \in Some(rec) : \E two \in Some(one) : rec' \in Some(two)
                 /\ StatusOK'
      <4>1. access_account(addr).accesses = record_account_access(rec, addr)
        BY DEF access_account
      <4>2. /\ \/ rec' = rec
               \/ rec' = record_account_access(rec, addr)
               \/ rec' = record_account_access(record_account_access(
                            record_account_access(rec, addr), Recipient), Recipient)
            /\ status' \in {"STATIC_MODE_VIOLATION", "OUT_OF_GAS", "SUCCESS"}
        BY <3>5, <4>1, Zenon DEF selfdestruct, StaticMode
      <4>3. StatusOK'
        BY <4>2
      <4> DEFINE one == record_account_access(rec, addr)
                 two == record_account_access(one, Recipient)
      <4>4. /\ rec \in Some(rec) /\ one \in Some(rec) /\ one \in Some(one)
            /\ two \in Some(one) /\ record_account_access(two, Recipient) \in Some(two)
        BY <2>1, Zenon
      <4> HIDE DEF one, two, Some
      <4> QED BY <4>2, <4>3, <4>4, Zenon DEF one, two
    <3>6. ASSUME selfbalance \/ (\E number \in Numbers : blockhash(number)) \/ UNCHANGED vars
          PROVE  rec' \in Some(rec) /\ StatusOK'
      <4>1. rec' \in {rec, record_account_access(rec, Recipient)} /\ status' = status
        BY <3>6, Zenon DEF selfbalance, blockhash, vars, state, history
      <4> QED BY <1>3, <2>1, <4>1
    <3> HIDE DEF StatusOK
    <3>7. \A s : s \in Some(s)
      OBVIOUS
    <3> HIDE DEF Some
    <3> QED BY <1>3, <3>1, <3>3, <3>4, <3>5, <3>6, <3>7, Zenon DEF Next, Stopped
  <2>3. ASSUME NEW s \in Seq(Addresses), Len(s) <= MaxAccesses, NEW r \in Some(s)
        PROVE  r \in Seq(Addresses) /\ Len(r) <= MaxAccesses
    BY <1>1, <2>3
  <2> HIDE DEF Some
  <2> QED BY <1>3, <2>2, <2>3
<1>4. StoreInv /\ RecordOK /\ StatusOK => HostTypeOK
  BY DEF StoreInv, MapInv, HostTypeOK
<1> HIDE DEF RecordOK, StatusOK
<1> QED BY <1>2, <1>3, <1>4, StoreInvariant, PTL DEF Spec
=============================================================================
