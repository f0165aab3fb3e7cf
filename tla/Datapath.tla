------------------------------ MODULE Datapath ------------------------------
(***************************************************************************)
(* The data path of the trusted application: the slots of the stack, the   *)
(* bytes of the memory, and the instructions that move data between them,  *)
(* the message, the transaction context and the code.  Gas and the limits  *)
(* of the stack are in Memory and Interpreter; here an instruction that    *)
(* would run out of gas fails.                                             *)
(***************************************************************************)
EXTENDS Uint256

CONSTANTS
    Slots,        (* slots of the stack, 1024                               *)
    AddressBytes, (* 20                                                     *)
    PageSize,     (* 4096                                                   *)
    MaxOffset,    (* bound of this model: the last byte gas is enough for   *)
    MaxSteps,     (* bound of this model: instructions of an execution      *)
    Heights,      (* heights of the stack at the start                      *)
    Leftover,     (* what may lie in memory nobody wrote to                 *)
    Departures,   (* operands evmone reads otherwise that may be passed:    *)
                  (* "limbs": an input index or a size of several limbs,    *)
                  (* "empty": CODECOPY of no bytes beyond the memory,       *)
                  (* "window": BLOCKHASH inside the window, or after it     *)
    Window,       (* blocks whose hash is known, 256                        *)
    block_hash,   (* the hash the host gives for any block                  *)
    message,
    context,
    code

ASSUME DatapathAssumption ==
    /\ {Slots, AddressBytes, PageSize, MaxOffset, MaxSteps} \subseteq Nat
    /\ AddressBytes <= 4 * LimbBytes /\ PageSize > 0 /\ PageSize % (4 * LimbBytes) = 0
    /\ Slots <= Base /\ MaxOffset + 4 * LimbBytes <= Base
    /\ Departures \subseteq {"limbs", "empty", "window"}
    /\ Window \in Nat /\ block_hash \in WordBuffers
    /\ Heights \subseteq 0..Slots /\ Leftover \subseteq Bytes
    /\ \A field \in {"recipient", "sender"} : message[field] \in [1..AddressBytes -> Bytes]
    /\ message.value \in WordBuffers /\ message.input \in Seq(Bytes) /\ code \in Seq(Bytes)
    /\ Len(message.input) < Base /\ Len(code) < Base
    /\ \A field \in {"tx_origin", "block_coinbase"} : context[field] \in [1..AddressBytes -> Bytes]
    /\ \A field \in {"tx_gas_price", "chain_id", "block_base_fee"} : context[field] \in WordBuffers
    /\ {context.block_timestamp, context.block_gas_limit} \subseteq Limbs
    /\ context.block_number \in 0..(Base \div 2 - 1)  \* an int64_t

VARIABLES
    slots,   (* the items of the stack, from the bottom                     *)
    top,     (* how many of them are on the stack                           *)
    data,    (* the allocated bytes of the memory, Memory.m_data            *)
    m_size,
    output,
    status,
    instr,   (* the instruction executed last                               *)
    steps

vars == <<slots, top, data, m_size, output, status, instr, steps>>

WordBytes == 4 * LimbBytes

\* The item n places below the top.
StackTop_get(n) == slots[top - n]

RunsNth(name, n) ==
    /\ status = "RUNNING" /\ steps < MaxSteps
    /\ instr' = <<name, n>>
    /\ steps' = steps + 1

Runs(name) == RunsNth(name, 0)

\* A number of one limb, the only kind gas is enough for.
Narrow(word) == zero128(UPPER(word)) /\ UPPER(LOWER(word)) = 0
Low(word) == LOWER(LOWER(word))

Affordable(offset, count) == Narrow(offset) /\ Low(offset) + count <= MaxOffset

LimbWord(n) == <<clear128, <<0, n>>>>

-----------------------------------------------------------------------------
StackTop_push(word) ==
    /\ top < Slots
    /\ slots' = [slots EXCEPT ![top + 1] = word]
    /\ top' = top + 1
    /\ UNCHANGED <<data, m_size, output, status>>

\* An address in the low bytes of a buffer.  The loop that clears the rest of it
\* clears bytes the address is then written to; the high bytes are left over.
Uncleared(bytes, left) ==
    [i \in 1..WordBytes |->
        IF i <= WordBytes - AddressBytes THEN left ELSE bytes[i - (WordBytes - AddressBytes)]]

\* The recipient is first moved to where an uninitialised pointer points.
address(left) ==
    /\ Runs("address")
    /\ \/ StackTop_push(readu256BE(Uncleared(message.recipient, left)))
       \/ status' = "PANIC" /\ UNCHANGED <<slots, top, data, m_size, output>>

origin(left) == Runs("origin") /\ StackTop_push(readu256BE(Uncleared(context.tx_origin, left)))
coinbase(left) == Runs("coinbase") /\ StackTop_push(readu256BE(Uncleared(context.block_coinbase, left)))

\* Here the buffer is cleared.
caller == Runs("caller") /\ StackTop_push(readu256BE(Uncleared(message.sender, 0)))

callvalue == Runs("callvalue") /\ StackTop_push(readu256BE(message.value))
calldatasize == Runs("calldatasize") /\ StackTop_push(LimbWord(Len(message.input)))
codesize == Runs("codesize") /\ StackTop_push(LimbWord(Len(code)))
gasprice == Runs("gasprice") /\ StackTop_push(readu256BE(context.tx_gas_price))
timestamp == Runs("timestamp") /\ StackTop_push(LimbWord(context.block_timestamp))
number == Runs("number") /\ StackTop_push(LimbWord(context.block_number))
gaslimit == Runs("gaslimit") /\ StackTop_push(LimbWord(context.block_gas_limit))
chainid == Runs("chainid") /\ StackTop_push(readu256BE(context.chain_id))
basefee == Runs("basefee") /\ StackTop_push(readu256BE(context.block_base_fee))
msize == Runs("msize") /\ StackTop_push(LimbWord(m_size))
push0 == Runs("push0") /\ StackTop_push(clear256)

\* Nothing is pushed: the slot above the top becomes the top as it is.
difficulty ==
    /\ Runs("difficulty") /\ top < Slots
    /\ top' = top + 1
    /\ UNCHANGED <<slots, data, m_size, output, status>>

pop == Runs("pop") /\ top > 0 /\ top' = top - 1 /\ UNCHANGED <<slots, data, m_size, output, status>>

\* dup1 to dup16, swap1 to swap16
dup(n) == RunsNth("dup", n) /\ n <= top /\ StackTop_push(StackTop_get(n - 1))

swap(n) ==
    /\ RunsNth("swap", n) /\ n < top
    /\ slots' = [slots EXCEPT ![top] = StackTop_get(n), ![top - n] = StackTop_get(0)]
    /\ UNCHANGED <<top, data, m_size, output, status>>

-----------------------------------------------------------------------------
Capacity(bytes) == Cardinality(DOMAIN bytes)

\* Memory_grow: more bytes are allocated if need be, and what is new is cleared.
\* left is what the allocator leaves in the bytes it adds.
Grown(new_size, left) ==
    LET words    == (new_size + WordBytes - 1) \div WordBytes
        size     == words * WordBytes
        doubled  == 2 * Capacity(data)
        capacity == IF size <= Capacity(data) THEN Capacity(data)
                    ELSE IF doubled >= size THEN doubled
                    ELSE ((size + PageSize - 1) \div PageSize) * PageSize
    IN  IF new_size <= m_size THEN [bytes |-> data, size |-> m_size]
        ELSE [bytes |-> [i \in 0..(capacity - 1) |->
                            IF i \in m_size..(size - 1) THEN 0
                            ELSE IF i \in DOMAIN data THEN data[i] ELSE left],
              size  |-> size]

\* Mutant of check_memory_u64: the new bytes are not cleared.
check_memory_u64_dirty(offset, count, left) ==
    LET mem == Grown(Low(offset) + count, left)
    IN  [mem EXCEPT !.bytes = [i \in DOMAIN @ |-> IF i \in DOMAIN data THEN data[i] ELSE left]]

check_memory_u64(offset, count, left) == Grown(Low(offset) + count, left)

\* A copy of no bytes needs no memory.
check_memory_u256(offset, size, left) ==
    IF zero256(size) THEN [bytes |-> data, size |-> m_size]
    ELSE check_memory_u64(offset, Low(size), left)

\* Memory with bytes moved to offset.
Moved(mem, offset, bytes) ==
    [i \in DOMAIN mem |-> IF i \in offset..(offset + Len(bytes) - 1) THEN bytes[i - offset + 1]
                          ELSE mem[i]]

Keeps(mem) == data' = mem.bytes /\ m_size' = mem.size

fails ==
    /\ Runs("fails")
    /\ status' = "OUT_OF_GAS"
    /\ UNCHANGED <<slots, top, data, m_size, output>>

Least(a, b) == IF a < b THEN a ELSE b

calldataload ==
    LET index == StackTop_get(0)
        size  == Len(message.input)
        begin == Low(index)
        end   == Least(begin + WordBytes, size)
        bytes == [i \in 1..WordBytes |-> IF i <= end - begin THEN message.input[begin + i] ELSE 0]
    IN  /\ Runs("calldataload") /\ top >= 1
        /\ slots' = [slots EXCEPT ![top] =
                        IF gt256(index, LimbWord(size)) THEN clear256 ELSE readu256BE(bytes)]
        /\ UNCHANGED <<top, data, m_size, output, status>>

\* A limb as an int64_t.
Signed(limb) == IF limb >= Base \div 2 THEN limb - Base ELSE limb

\* The hash of a block after upper_bound: the comparison is turned round.
blockhash ==
    LET number_     == StackTop_get(0)
        upper_bound == context.block_number
        lower_bound == IF upper_bound > Window THEN upper_bound - Window ELSE 0
        n           == Signed(Low(number_))
        after       == gt256(number_, LimbWord(upper_bound))
    IN  /\ Runs("blockhash") /\ top >= 1
        /\ "window" \in Departures \/ n < lower_bound \/ number_ = LimbWord(upper_bound)
        /\ slots' = [slots EXCEPT ![top] =
                        IF after /\ n >= lower_bound THEN readu256BE(block_hash) ELSE clear256]
        /\ UNCHANGED <<top, data, m_size, output, status>>

mload(left) ==
    LET index == StackTop_get(0)
        mem   == check_memory_u64(index, WordBytes, left)
    IN  /\ Runs("mload") /\ top >= 1
        /\ Affordable(index, WordBytes)
        /\ Keeps(mem)
        /\ slots' = [slots EXCEPT ![top] =
                        readu256BE([i \in 1..WordBytes |-> mem.bytes[Low(index) + i - 1]])]
        /\ UNCHANGED <<top, output, status>>

mstore(left) ==
    LET index == StackTop_get(0)
        mem   == check_memory_u64(index, WordBytes, left)
    IN  /\ Runs("mstore") /\ top >= 2
        /\ Affordable(index, WordBytes)
        /\ Keeps([mem EXCEPT !.bytes = Moved(@, Low(index), u256_to_u8_32(StackTop_get(1)))])
        /\ top' = top - 2
        /\ UNCHANGED <<slots, output, status>>

\* The bytes CALLDATACOPY and CODECOPY move: what there is of source from
\* input_index on, and zeros.  Of every operand the low limb is used.
Copied(source) ==
    LET s         == Low(StackTop_get(2))
        src       == Least(Len(source), Low(StackTop_get(1)))
        copy_size == Least(s, Len(source) - src)
    IN  SubSeq(source, src + 1, src + copy_size) \o [i \in 1..(s - copy_size) |-> 0]

CopiedTo(mem, bytes) ==
    /\ Keeps([mem EXCEPT !.bytes = Moved(@, Low(StackTop_get(0)), bytes)])
    /\ top' = top - 3
    /\ UNCHANGED <<slots, output, status>>

calldatacopy(left) ==
    LET mem_index == StackTop_get(0)
        size      == StackTop_get(2)
    IN  /\ Runs("calldatacopy") /\ top >= 3
        /\ zero256(size) \/ Affordable(mem_index, Low(size))
        /\ "limbs" \in Departures \/ (Narrow(StackTop_get(1)) /\ Narrow(size))
        /\ CopiedTo(check_memory_u256(mem_index, size, left), Copied(message.input))

\* The only copy that grows the memory even for no bytes.
codecopy(left) ==
    LET mem_index == StackTop_get(0)
        size      == StackTop_get(2)
    IN  /\ Runs("codecopy") /\ top >= 3
        /\ Affordable(mem_index, Low(size))
        /\ "limbs" \in Departures \/ (Narrow(StackTop_get(1)) /\ Narrow(size))
        /\ "empty" \in Departures \/ (zero256(size) => Low(mem_index) <= m_size)
        /\ CopiedTo(check_memory_u64(mem_index, Low(size), left), Copied(code))

\* return_ and revert keep offset and size; the result is made from them.
return_(left) ==
    LET offset == StackTop_get(0)
        size   == StackTop_get(1)
        mem    == check_memory_u256(offset, size, left)
    IN  /\ Runs("return_") /\ top >= 2
        /\ zero256(size) \/ Affordable(offset, Low(size))
        /\ "limbs" \in Departures \/ Narrow(size)
        /\ Keeps(mem)
        /\ output' = [i \in 1..Low(size) |-> mem.bytes[Low(offset) + i - 1]]
        /\ status' \in {"SUCCESS", "REVERT"}
        /\ UNCHANGED <<slots, top>>

-----------------------------------------------------------------------------
\* The items pushed before the instructions of this model: small numbers, the
\* top smallest.  The slots above them hold what is left over.
Init ==
    /\ top \in Heights
    /\ \E left \in Leftover :
          /\ slots = [i \in 1..Slots |-> LimbWord(IF i <= top THEN top - i ELSE left)]
          /\ data = [i \in 0..(PageSize - 1) |-> left]
    /\ m_size = 0
    /\ output = <<>>
    /\ status = "RUNNING"
    /\ instr = <<"intrinsic", 0>>
    /\ steps = 0

Next ==
    \/ \E left \in Leftover :
          \/ address(left) \/ origin(left) \/ coinbase(left)
          \/ mload(left) \/ mstore(left) \/ calldatacopy(left) \/ codecopy(left) \/ return_(left)
    \/ caller \/ callvalue \/ calldatasize \/ codesize \/ gasprice \/ timestamp \/ number
    \/ gaslimit \/ chainid \/ basefee \/ msize \/ push0
    \/ difficulty \/ pop
    \/ \E n \in 1..16 : dup(n) \/ swap(n)
    \/ calldataload \/ blockhash
    \/ fails

Spec == Init /\ [][Next]_vars

-----------------------------------------------------------------------------
Evm == INSTANCE EvmDatapath WITH
    stack <- [i \in 1..top |-> Value256(slots[top + 1 - i])],
    memory <- [i \in 1..m_size |-> data[i - 1]],
    running <- status = "RUNNING"

\* The data path implements the one of evmone: through limbs, slots, buffers
\* that start with anything in them and growing memory, every instruction leaves
\* the numbers and the bytes evmone leaves.
ImplementsEvm == Evm!Spec
=============================================================================
