-------------------------------- MODULE Host --------------------------------
(***************************************************************************)
(* The mocked blockchain host of one execution (mocked_host.h) and the     *)
(* instructions that use it: storage, the access lists of EIP-2929, block  *)
(* hashes and SELFDESTRUCT.                                                *)
(*                                                                         *)
(* Addresses, storage keys and values are byte strings that the code       *)
(* compares with strcmp.  A string is a record: str names the bytes before *)
(* its first zero byte (0: there are none), rest names the others.         *)
(***************************************************************************)
EXTENDS Integers, Sequences, FiniteSets

CONSTANTS
    Keys, Values,    (* storage keys and values                             *)
    Addresses,       (* address operands                                    *)
    Recipient,       (* msg.recipient                                       *)
    Bucket(_),       (* first bucket of a key in a storage_map of 7 buckets *)
    Tag(_),          (* _hashx byte of a key                                *)
    Unhashed,        (* entries a storage_map has before its first rehash, 3*)
    MaxAccesses,     (* max_recorded_account_accesses, 200                  *)
    BlockNumber,     (* tx_context.block_number                             *)
    Window,          (* 256: the blocks whose hash is known                 *)
    Numbers,         (* operands of BLOCKHASH                               *)
    GasLimits,       (* values of msg.gas                                   *)
    Stipend,         (* 2300                                                *)
    cold_sload_cost, warm_storage_read_cost, ResetCost, SetCost,
    cold_account_access_cost

Bytes == [str : Nat, rest : Nat]
Zero == [str |-> 0, rest |-> 0]

ASSUME HostAssumption ==
    /\ Keys \subseteq Bytes /\ Values \subseteq Bytes
    /\ Addresses \subseteq Bytes /\ Recipient \in Addresses
    /\ MaxAccesses \in Nat /\ BlockNumber \in Nat /\ Window \in Nat /\ Numbers \subseteq Nat
    /\ GasLimits \subseteq Nat
    /\ {Stipend, cold_sload_cost, warm_storage_read_cost, ResetCost, SetCost,
        cold_account_access_cost} \subseteq Nat

\* A storage_map is modelled by what its lookups find: two keys meet in one
\* entry if strcmp, tag and bucket agree.  That is exact if no two keys agree in
\* string and tag (then it does not matter where entries lie), or if no entry is
\* displaced from its bucket and the table is not rehashed.
ASSUME MapAssumption ==
    \/ \A k, l \in Keys : k.str = l.str /\ Tag(k) = Tag(l) => k = l
    \/ /\ IsFiniteSet(Keys) /\ Cardinality(Keys) <= Unhashed
       /\ \A k, l \in Keys : Bucket(k) = Bucket(l) => k.str = l.str /\ Tag(k) = Tag(l)

VARIABLES
    storage,             (* the recipient's storage_map; no other account gets one *)
    account,             (* is the recipient in the account_map?                   *)
    recorded_account_accesses,
    recorded_blockhashes, (* the last recorded block, -1 if there is none          *)
    recorded_selfdestructs,
    gas_left,
    status,
    static,              (* msg.flags: 0 from tscvee_main, any from a VM's caller  *)
    written,             (* history: the last value SSTORE stored at each key      *)
    keysCharged,         (* history: how often a key was charged as cold           *)
    accountsCharged      (* history: how often an address was charged as cold      *)

state == <<storage, account, recorded_account_accesses, recorded_blockhashes,
           recorded_selfdestructs, gas_left, status>>
history == <<written, keysCharged, accountsCharged>>
vars == <<state, static, history>>

-----------------------------------------------------------------------------
\* evmc_bytes32_cmp, evmc_address_cmp: is strcmp zero?
Same(a, b) == a.str = b.str

\* The entry of a map that a key finds.
SameEntry(k, l) == Same(k, l) /\ Tag(k) = Tag(l) /\ Bucket(k) = Bucket(l)
contains(map, k) == \E e \in DOMAIN map : SameEntry(e, k)
find(map, k) == CHOOSE e \in DOMAIN map : SameEntry(e, k)

insert_or_assign(map, k, v) ==
    LET e == IF contains(map, k) THEN find(map, k) ELSE k
    IN  [x \in DOMAIN map \cup {e} |-> IF x = e THEN v ELSE map[x]]

storage_value_init == [value |-> Zero, dirty |-> FALSE, access_status |-> "COLD"]

\* Mutant of access_storage: the entry is not marked as accessed.
access_storage_cold(key) ==
    LET old == IF contains(storage, key) THEN storage[find(storage, key)]
               ELSE storage_value_init
    IN  [access_status |-> old.access_status,
         storage |-> insert_or_assign(storage, key, old)]

\* Mutant of access_storage: the entry is looked up and not created.
access_storage_lookup(key) ==
    IF contains(storage, key)
    THEN [access_status |-> "WARM", storage |-> storage]
    ELSE [access_status |-> "COLD", storage |-> storage]

access_storage(key) ==
    LET old == IF contains(storage, key) THEN storage[find(storage, key)]
               ELSE storage_value_init
    IN  [access_status |-> old.access_status,
         storage |-> insert_or_assign(storage, key, [old EXCEPT !.access_status = "WARM"])]

\* Mutant of record_account_access: one entry more than the maximum.
record_account_access_more(accesses, addr) ==
    IF Len(accesses) <= MaxAccesses THEN Append(accesses, addr) ELSE accesses

record_account_access(accesses, addr) ==
    IF Len(accesses) < MaxAccesses THEN Append(accesses, addr) ELSE accesses

\* Mutant of access_account: only the latest access is looked at.
access_account_last(addr) ==
    [access_status |->
        IF addr.str = 0 \/ /\ recorded_account_accesses # <<>>
                           /\ Same(recorded_account_accesses[Len(recorded_account_accesses)], addr)
        THEN "WARM" ELSE "COLD",
     accesses |-> record_account_access(recorded_account_accesses, addr)]

\* The precompiles lie between addr1 and addr9, which both start with a zero
\* byte: the two strcmp hold for the strings that are empty.
access_account(addr) ==
    [access_status |->
        IF addr.str = 0 \/ \E i \in DOMAIN recorded_account_accesses :
                              Same(recorded_account_accesses[i], addr)
        THEN "WARM" ELSE "COLD",
     accesses |-> record_account_access(recorded_account_accesses, addr)]

\* Mutant of set_storage: a value that was modified before is not replaced.
set_storage_once(map, key, value) ==
    LET e   == find(map, key)
        old == map[e]
    IN  IF Same(old.value, value) THEN [status |-> "UNCHANGED", storage |-> map]
        ELSE IF old.dirty THEN [status |-> "MODIFIED_AGAIN", storage |-> map]
        ELSE [status  |-> "ADDED",
              storage |-> [map EXCEPT ![e].value = value, ![e].dirty = TRUE]]

\* The status of set_storage, with the storage after it; map has the entry.
set_storage(map, key, value) ==
    LET e   == find(map, key)
        old == map[e]
        how == CASE old.dirty -> "MODIFIED_AGAIN"
                 [] old.value = Zero -> "ADDED"
                 [] value = Zero -> "DELETED"
                 [] OTHER -> "MODIFIED"
    IN  IF Same(old.value, value) THEN [status |-> "UNCHANGED", storage |-> map]
        ELSE [status  |-> how,
              storage |-> [map EXCEPT ![e] = [value |-> value, dirty |-> TRUE,
                                              access_status |-> old.access_status]]]

-----------------------------------------------------------------------------
\* MockedHost_init; the execution works on a copy, and nobody reads the original.
Init ==
    /\ storage = <<>>
    /\ account = FALSE
    /\ recorded_account_accesses = <<>>
    /\ recorded_blockhashes = -1
    /\ recorded_selfdestructs = <<>>
    /\ gas_left \in GasLimits
    /\ status = "RUNNING"
    /\ static \in BOOLEAN
    /\ written = [k \in Keys |-> Zero]
    /\ keysCharged = [k \in Keys |-> 0]
    /\ accountsCharged = [a \in Addresses |-> 0]

Running == status = "RUNNING" /\ UNCHANGED static

Charge(cost) ==
    /\ gas_left' = gas_left - cost
    /\ status' = IF gas_left' < 0 THEN "OUT_OF_GAS" ELSE "RUNNING"

CountKey(key, access) ==
    keysCharged' = [keysCharged EXCEPT ![key] = @ + (IF access = "COLD" THEN 1 ELSE 0)]

sload(key) ==
    LET a == access_storage(key)
    IN  /\ Running
        /\ account' = TRUE
        /\ Charge(IF a.access_status = "COLD"
                  THEN cold_sload_cost - warm_storage_read_cost ELSE 0)
        /\ storage' = a.storage
        /\ recorded_account_accesses' =
              IF status' = "RUNNING"         \* get_storage
              THEN record_account_access(recorded_account_accesses, Recipient)
              ELSE recorded_account_accesses
        /\ CountKey(key, a.access_status)
        /\ UNCHANGED <<recorded_blockhashes, recorded_selfdestructs, written, accountsCharged>>

StaticMode ==
    /\ Running /\ static
    /\ status' = "STATIC_MODE_VIOLATION"
    /\ UNCHANGED <<storage, account, recorded_account_accesses, recorded_blockhashes,
                   recorded_selfdestructs, gas_left, history>>

\* set_storage runs before its cost is known: it stays when gas runs out.
sstore(key, value) ==
    \/ StaticMode
    \/ /\ Running /\ ~static /\ gas_left <= Stipend
       /\ status' = "OUT_OF_GAS"
       /\ UNCHANGED <<storage, account, recorded_account_accesses, recorded_blockhashes,
                      recorded_selfdestructs, gas_left, history>>
    \/ LET a    == access_storage(key)
           s    == set_storage(a.storage, key, value)
           cold == IF a.access_status = "COLD" THEN cold_sload_cost ELSE 0
           cost == CASE s.status \in {"UNCHANGED", "MODIFIED_AGAIN"} -> warm_storage_read_cost
                     [] s.status \in {"MODIFIED", "DELETED"} -> ResetCost - cold_sload_cost
                     [] s.status = "ADDED" -> SetCost
       IN  /\ Running /\ ~static /\ gas_left > Stipend
           /\ account' = TRUE
           /\ recorded_account_accesses' =
                 record_account_access(recorded_account_accesses, Recipient)
           /\ IF contains(a.storage, key)
              THEN storage' = s.storage /\ Charge(cold + cost)
              ELSE status' = "PANIC" /\ UNCHANGED <<storage, gas_left>>
           /\ written' = [written EXCEPT ![key] = value]
           /\ CountKey(key, a.access_status)
           /\ UNCHANGED <<recorded_blockhashes, recorded_selfdestructs, accountsCharged>>

UseAccount(addr, access) ==
    /\ accountsCharged' = [accountsCharged EXCEPT ![addr] = @ + (IF access = "COLD" THEN 1 ELSE 0)]
    /\ UNCHANGED <<written, keysCharged>>

\* balance, extcodesize, extcodehash, extcodecopy: access_account, then a getter
\* of the host (which extcodecopy does not call for an empty range).
query(addr, gets) ==
    LET a == access_account(addr)
    IN  /\ Running
        /\ Charge(IF a.access_status = "COLD"
                  THEN cold_account_access_cost - warm_storage_read_cost ELSE 0)
        /\ recorded_account_accesses' =
              IF gets /\ status' = "RUNNING" THEN record_account_access(a.accesses, addr)
              ELSE a.accesses
        /\ UseAccount(addr, a.access_status)
        /\ UNCHANGED <<storage, account, recorded_blockhashes, recorded_selfdestructs>>

selfbalance ==
    /\ Running
    /\ recorded_account_accesses' =
          record_account_access(recorded_account_accesses, Recipient)
    /\ UNCHANGED <<storage, account, recorded_blockhashes, recorded_selfdestructs,
                   gas_left, status, history>>

\* The balance of the recipient is zero, so the beneficiary is not looked up.
selfdestruct(beneficiary) ==
    \/ StaticMode
    \/ LET a    == access_account(beneficiary)
           cost == IF a.access_status = "COLD" THEN cold_account_access_cost ELSE 0
       IN  /\ Running /\ ~static
           /\ gas_left' = gas_left - cost
           /\ UseAccount(beneficiary, a.access_status)
           /\ UNCHANGED <<storage, account, recorded_blockhashes>>
           /\ \/ /\ gas_left' < 0
                 /\ status' = "OUT_OF_GAS"
                 /\ recorded_account_accesses' = a.accesses
                 /\ UNCHANGED recorded_selfdestructs
              \/ /\ gas_left' >= 0
                 /\ status' = "SUCCESS"
                 /\ recorded_account_accesses' =       \* get_balance, selfdestruct
                       record_account_access(
                           record_account_access(a.accesses, Recipient), Recipient)
                 /\ recorded_selfdestructs' =
                       Append(recorded_selfdestructs, <<Recipient, beneficiary>>)

blockhash(number) ==
    /\ Running
    /\ recorded_blockhashes' =
          IF number > BlockNumber
             /\ number >= (IF BlockNumber > Window THEN BlockNumber - Window ELSE 0)
          THEN number ELSE recorded_blockhashes
    /\ UNCHANGED <<storage, account, recorded_account_accesses, recorded_selfdestructs,
                   gas_left, status, history>>

Stopped == status # "RUNNING" /\ UNCHANGED vars

Next ==
    \/ \E key \in Keys :
          \/ sload(key)
          \/ \E value \in Values : sstore(key, value)
    \/ \E addr \in Addresses :
          \/ \E gets \in BOOLEAN : query(addr, gets)
          \/ selfdestruct(addr)
    \/ selfbalance
    \/ \E number \in Numbers : blockhash(number)
    \/ Stopped

Spec == Init /\ [][Next]_vars

-----------------------------------------------------------------------------
Entry == [value : Values \cup {Zero}, dirty : BOOLEAN, access_status : {"COLD", "WARM"}]

\* Type invariant.
HostTypeOK ==
    /\ DOMAIN storage \subseteq Keys
    /\ storage \in [DOMAIN storage -> Entry]
    /\ recorded_account_accesses \in Seq(Addresses)
    /\ Len(recorded_account_accesses) <= MaxAccesses
    /\ gas_left \in Int
    /\ status \in {"RUNNING", "SUCCESS", "OUT_OF_GAS", "STATIC_MODE_VIOLATION", "PANIC"}

StorageAt(key) ==
    IF account /\ contains(storage, key) THEN storage[find(storage, key)].value ELSE Zero

\* What SLOAD reads is what SSTORE last stored at that key, whatever was read,
\* stored elsewhere or failed in between: lookup, insertion, the unchanged
\* shortcut and the rewriting of the entry by access_storage keep each value.
ReadBack == status # "PANIC" => \A key \in Keys : StorageAt(key) = written[key]

\* EIP-2929: a storage key is charged as cold by its first access, of SLOAD or
\* SSTORE, and by no later one.
ColdOnce ==
    \A key \in Keys : keysCharged[key] = IF contains(storage, key) THEN 1 ELSE 0

\* set_storage dereferences the entry without a test: it is always there.
EntryPresent == status # "PANIC"

\* An address is charged as cold at most once, as long as the record of
\* accesses has room.
WarmUntilFull ==
    Len(recorded_account_accesses) < MaxAccesses =>
        \A addr \in Addresses : accountsCharged[addr] <= 1
=============================================================================
