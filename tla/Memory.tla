------------------------------- MODULE Memory -------------------------------
(***************************************************************************)
(* The EVM memory of one execution: struct Memory of execution_state.h and *)
(* the checks of instructions.h that grow it and charge for it.            *)
(*                                                                         *)
(* A 256-bit operand is a record: low is its least significant limb, high  *)
(* says whether any other limb is set.  Integers have the width of the     *)
(* code: uint64_t is modulo Limb, int64_t is its signed reading.           *)
(***************************************************************************)
EXTENDS Integers

CONSTANTS
    WordBytes,   (* word_size, 32                                           *)
    PageSize,    (* Memory.page_size, 4096                                  *)
    MaxBuffer,   (* max_buffer_size, UINT32_MAX                             *)
    Limb,        (* 2^64                                                    *)
    QuadDivisor, (* 512, the divisor of the quadratic part of the cost      *)
    ColdCost,    (* additional_cold_account_access_cost, 2500               *)
    Offsets,     (* offset operands of the instructions                     *)
    Sizes,       (* size operands                                           *)
    GasLimits    (* values of msg.gas                                       *)

Operand == [low : 0..(Limb - 1), high : BOOLEAN]

ASSUME MemoryAssumption ==
    /\ WordBytes \in Nat \ {0} /\ PageSize \in Nat \ {0} /\ QuadDivisor \in Nat \ {0}
    /\ MaxBuffer \in Nat /\ Limb \in Nat /\ WordBytes < Limb /\ ColdCost \in Nat
    /\ Offsets \subseteq Operand /\ Sizes \subseteq Operand
    /\ GasLimits \subseteq Nat

VARIABLES
    memory,     (* struct Memory: m_data (is it allocated?), m_size, m_capacity *)
    gas_left,
    status,     (* how the execution stands; "PANIC": the TA is dead            *)
    static,     (* msg.flags: 0 from tscvee_main, any from a VM's caller        *)
    touched,    (* history: the bytes the last instruction went on to access    *)
    limit,      (* history: msg.gas                                             *)
    dynamic     (* history: gas charged for anything but memory                 *)

vars == <<memory, gas_left, status, static, touched, limit, dynamic>>

Int64(x) == ((x + (Limb \div 2)) % Limb) - (Limb \div 2)

\* C division truncates toward zero.
Quotient(x, d) == IF x >= 0 THEN x \div d ELSE -((-x) \div d)

num_words(size) == ((size + (WordBytes - 1)) % Limb) \div WordBytes

\* The cost of a memory of w words.
words_cost(w) == Int64(3 * w + Quotient(Int64(w * w), QuadDivisor))

-----------------------------------------------------------------------------
(***************************************************************************)
(* The helpers pass on what they leave behind: how they end, the gas and   *)
(* the memory.  alloc says whether TEE_Realloc, if called, succeeds.       *)
(***************************************************************************)
After(out, gas, mem) == [out |-> out, gas |-> gas, memory |-> mem]

Before == After("SUCCESS", gas_left, memory)

\* Mutant of GrownCapacity: the growth is computed from both sizes.
GrownCapacity_twice(capacity, new_size) ==
    IF new_size <= capacity THEN capacity
    ELSE (((2 * new_size + capacity) + (PageSize - 1)) \div PageSize) * PageSize

\* Double the capacity; if not enough, the required size in whole pages.
GrownCapacity(capacity, new_size) ==
    IF new_size <= capacity THEN capacity
    ELSE IF 2 * capacity >= new_size THEN 2 * capacity
    ELSE ((new_size + (PageSize - 1)) \div PageSize) * PageSize

\* A failed allocation is only logged: filling the new bytes from NULL, and
\* the assertion that memory only grows, end the trusted application.
Memory_grow(s, new_size, alloc) ==
    LET old      == s.memory
        capacity == GrownCapacity(old.m_capacity, new_size)
        data     == IF capacity = old.m_capacity THEN old.m_data ELSE alloc
        dead     == ~data \/ new_size <= old.m_size
    IN  After(IF dead THEN "PANIC" ELSE "SUCCESS", s.gas,
              [m_data |-> data, m_size |-> new_size, m_capacity |-> capacity])

\* Mutants of grow_memory: the words already paid for are charged again; the
\* size is not rounded up to words.
grow_memory_again(s, new_size, alloc) ==
    LET gas == s.gas - words_cost(num_words(new_size))
    IN  IF gas < 0 THEN After("OUT_OF_GAS", gas, s.memory)
        ELSE Memory_grow(After("SUCCESS", gas, s.memory), num_words(new_size) * WordBytes, alloc)

grow_memory_bytes(s, new_size, alloc) ==
    LET current_words == s.memory.m_size \div WordBytes
        gas == s.gas - (words_cost(num_words(new_size)) - words_cost(current_words))
    IN  IF gas < 0 THEN After("OUT_OF_GAS", gas, s.memory)
        ELSE Memory_grow(After("SUCCESS", gas, s.memory), new_size, alloc)

grow_memory(s, new_size, alloc) ==
    LET new_words     == num_words(new_size)
        current_words == s.memory.m_size \div WordBytes
        gas           == s.gas - (words_cost(new_words) - words_cost(current_words))
    IN  IF gas < 0 THEN After("OUT_OF_GAS", gas, s.memory)
        ELSE Memory_grow(After("SUCCESS", gas, s.memory), new_words * WordBytes, alloc)

BadOffset(offset) == offset.high \/ offset.low > MaxBuffer

\* Mutant of check_memory_u64: only the first byte is checked.
check_memory_u64_first(s, offset, size, alloc) ==
    IF BadOffset(offset) THEN After("OUT_OF_GAS", s.gas, s.memory)
    ELSE IF offset.low + 1 > s.memory.m_size THEN grow_memory(s, offset.low + 1, alloc)
    ELSE s

check_memory_u64(s, offset, size, alloc) ==
    LET new_size == (offset.low + size) % Limb
    IN  IF BadOffset(offset) THEN After("OUT_OF_GAS", s.gas, s.memory)
        ELSE IF new_size > s.memory.m_size THEN grow_memory(s, new_size, alloc)
        ELSE s

\* The bound is applied to the offset a second time and never to the size.
check_memory_u256(s, offset, size, alloc) ==
    IF size.low = 0 /\ ~size.high THEN s
    ELSE IF BadOffset(offset) THEN After("OUT_OF_GAS", s.gas, s.memory)
    ELSE check_memory_u64(s, offset, size.low, alloc)

-----------------------------------------------------------------------------
Untouched == [from |-> 0, len |-> 0, size |-> [low |-> 0, high |-> FALSE]]

Init ==
    /\ memory \in [m_data : BOOLEAN, m_size : {0}, m_capacity : {PageSize}]
    /\ gas_left \in GasLimits
    /\ status = "RUNNING"
    /\ static \in BOOLEAN
    /\ touched = Untouched
    /\ limit = gas_left
    /\ dynamic = 0

\* An instruction after its memory check c: pay the charge, then access the
\* range and go on as one of ends.
Access(c, charge, range, ends) ==
    /\ status = "RUNNING"
    /\ memory' = c.memory
    /\ \/ /\ c.out # "SUCCESS"
          /\ gas_left' = c.gas
          /\ status' = c.out
          /\ UNCHANGED <<touched, dynamic>>
       \/ /\ c.out = "SUCCESS"
          /\ gas_left' = c.gas - charge
          /\ dynamic' = dynamic + charge
          /\ IF gas_left' < 0
             THEN status' = "OUT_OF_GAS" /\ UNCHANGED touched
             ELSE status' \in ends /\ touched' = range
    /\ UNCHANGED <<static, limit>>

Range(offset, size, len) == [from |-> offset.low, len |-> len, size |-> size]

\* mload, mstore
load_store(offset, alloc) ==
    Access(check_memory_u64(Before, offset, WordBytes, alloc), 0,
           Range(offset, [low |-> WordBytes, high |-> FALSE], WordBytes), {"RUNNING"})

\* The hash is taken over as many bytes as the range has words.
keccak256(offset, size, alloc) ==
    Access(check_memory_u256(Before, offset, size, alloc), Int64(num_words(size.low) * 6),
           Range(offset, size, num_words(size.low)), {"RUNNING"})

copy_cost(size) == Int64(num_words(size.low) * 3)

calldatacopy(offset, size, alloc) ==
    Access(check_memory_u256(Before, offset, size, alloc), copy_cost(size),
           Range(offset, size, size.low), {"RUNNING"})

codecopy(offset, size, alloc) ==
    Access(check_memory_u64(Before, offset, size.low, alloc), copy_cost(size),
           Range(offset, size, size.low), {"RUNNING"})

\* cold: what access_account says of the account.
extcodecopy(offset, size, cold, alloc) ==
    Access(check_memory_u256(Before, offset, size, alloc),
           copy_cost(size) + (IF cold THEN ColdCost ELSE 0),
           Range(offset, size, size.low), {"RUNNING"})

\* return_data is NULL whenever it is read (strlen): every call resets it and
\* none allocates it.
returndatacopy(offset, size, alloc) ==
    Access(check_memory_u256(Before, offset, size, alloc), 0, Untouched, {"PANIC"})

returndatasize == Access(Before, 0, Untouched, {"PANIC"})

StaticMode ==
    /\ status = "RUNNING" /\ static
    /\ status' = "STATIC_MODE_VIOLATION"
    /\ UNCHANGED <<memory, gas_left, static, touched, limit, dynamic>>

log0(offset, size, alloc) ==
    \/ StaticMode
    \/ /\ ~static
       /\ Access(check_memory_u256(Before, offset, size, alloc), Int64(size.low * 8),
                 Range(offset, size, size.low), {"RUNNING"})

\* log1 to log4: the topics are pushed to a vector that is not initialised.
log_topics(offset, size, alloc) ==
    \/ StaticMode
    \/ /\ ~static
       /\ Access(check_memory_u64(Before, offset, size.low, alloc), Int64(size.low * 8),
                 Range(offset, size, size.low), {"RUNNING", "PANIC"})

\* return_, revert: the range becomes the output.
return_(offset, size, alloc) ==
    Access(check_memory_u256(Before, offset, size, alloc), 0,
           Range(offset, size, size.low), {"SUCCESS", "REVERT"})

Stopped == status # "RUNNING" /\ UNCHANGED vars

Next ==
    \/ \E offset \in Offsets, alloc \in BOOLEAN :
          \/ load_store(offset, alloc)
          \/ \E size \in Sizes :
                \/ keccak256(offset, size, alloc)
                \/ calldatacopy(offset, size, alloc)
                \/ codecopy(offset, size, alloc)
                \/ \E cold \in BOOLEAN : extcodecopy(offset, size, cold, alloc)
                \/ returndatacopy(offset, size, alloc)
                \/ log0(offset, size, alloc)
                \/ log_topics(offset, size, alloc)
                \/ return_(offset, size, alloc)
    \/ returndatasize
    \/ Stopped

Spec == Init /\ [][Next]_vars

-----------------------------------------------------------------------------
Alive == {"RUNNING", "SUCCESS", "REVERT"}

\* Type invariant: the size is a whole number of words.
TypeOK ==
    /\ memory \in [m_data : BOOLEAN, m_size : Nat, m_capacity : Nat \ {0}]
    /\ memory.m_size % WordBytes = 0
    /\ gas_left \in Int /\ limit \in Nat /\ dynamic \in Int /\ static \in BOOLEAN
    /\ status \in Alive \cup {"OUT_OF_GAS", "STATIC_MODE_VIOLATION", "PANIC"}
    /\ touched \in [from : Nat, len : Nat, size : Operand]

\* An instruction that got past its memory check accesses only bytes that are
\* part of the memory and allocated, and so does the output of RETURN and
\* REVERT: the check, the word rounding, the capacity growth and the allocation
\* fit together.
InBounds ==
    status \in Alive =>
        /\ memory.m_size <= memory.m_capacity
        /\ touched.len > 0 => /\ touched.from + touched.len <= memory.m_size
                              /\ memory.m_data

\* Memory is paid for once: whatever the order and number of growths, the gas
\* spent on memory is the cost of the memory there is.
GasConserved ==
    status \in Alive =>
        gas_left + words_cost(memory.m_size \div WordBytes) + dynamic = limit

\* "initial allocation of 4k and then grows capacity with 2x factor": what is
\* allocated is at most twice what was asked for, in whole pages.
CapacityTight ==
    status \in Alive => memory.m_capacity <= 2 * memory.m_size + PageSize
=============================================================================
