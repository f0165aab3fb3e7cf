---------------------------- MODULE EvmDatapath ----------------------------
(***************************************************************************)
(* What the instructions of evmone do with data: the stack is a sequence of*)
(* integers, its top first, the memory a sequence of bytes in whole words. *)
(*                                                                         *)
(* Addresses pushed by ADDRESS, ORIGIN and COINBASE, and the number pushed *)
(* by DIFFICULTY, are given up to what the trusted application keeps of    *)
(* them: the bytes above an address are free, and so is the difficulty.    *)
(***************************************************************************)
EXTENDS Integers, Sequences

CONSTANTS
    ByteBase,     (* 256                                                    *)
    WordBytes,    (* 32                                                     *)
    AddressBytes, (* 20                                                     *)
    Window,       (* 256                                                    *)
    block_hash,
    message,      (* recipient, sender, value, input: sequences of bytes    *)
    context,      (* the fields of the transaction context                  *)
    code          (* the code: a sequence of bytes                          *)

VARIABLES stack, memory, output, running,
          instr  (* the instruction executed last *)

vars == <<stack, memory, output, running, instr>>

RunsNth(name, n) == running /\ instr' = <<name, n>>
Runs(name) == RunsNth(name, 0)

\* The integer a sequence of bytes stands for.
NatOf(bytes) ==
    LET upto[k \in 0..Len(bytes)] == IF k = 0 THEN 0 ELSE upto[k - 1] * ByteBase + bytes[k]
    IN  upto[Len(bytes)]

\* ByteBase ^ k
Weighs[k \in Nat] == IF k = 0 THEN 1 ELSE ByteBase * Weighs[k - 1]

BytesOf(n) == [i \in 1..WordBytes |-> (n \div Weighs[WordBytes - i]) % ByteBase]

\* The bytes of s from offset on, and zeros after its end.
Padded(s, offset, count) ==
    [i \in 1..count |-> IF offset + i <= Len(s) THEN s[offset + i] ELSE 0]

\* The length of the memory with room for the bytes of a range.
Size(offset, count) ==
    LET words == (offset + count + WordBytes - 1) \div WordBytes
    IN  IF count = 0 \/ words * WordBytes < Len(memory) THEN Len(memory) ELSE words * WordBytes

Expanded(offset, count) == Padded(memory, 0, Size(offset, count))

Written(offset, bytes) ==
    LET end == offset + Len(bytes)
    IN  IF bytes = <<>> THEN memory
        ELSE Padded(memory, 0, offset) \o bytes \o Padded(memory, end, Size(offset, Len(bytes)) - end)

Pushes(n) == stack' = <<n>> \o stack /\ UNCHANGED <<memory, output, running>>

PushesAddress(bytes) ==
    /\ stack' # <<>> /\ Tail(stack') = stack
    /\ Head(stack') % Weighs[AddressBytes] = NatOf(bytes)
    /\ UNCHANGED <<memory, output, running>>

Pops(n) == stack' = SubSeq(stack, n + 1, Len(stack))

-----------------------------------------------------------------------------
address == Runs("address") /\ PushesAddress(message.recipient)
origin == Runs("origin") /\ PushesAddress(context.tx_origin)
coinbase == Runs("coinbase") /\ PushesAddress(context.block_coinbase)

difficulty ==
    /\ Runs("difficulty")
    /\ stack' # <<>> /\ Tail(stack') = stack
    /\ UNCHANGED <<memory, output, running>>

caller == Runs("caller") /\ Pushes(NatOf(message.sender))
callvalue == Runs("callvalue") /\ Pushes(NatOf(message.value))
calldatasize == Runs("calldatasize") /\ Pushes(Len(message.input))
codesize == Runs("codesize") /\ Pushes(Len(code))
gasprice == Runs("gasprice") /\ Pushes(NatOf(context.tx_gas_price))
timestamp == Runs("timestamp") /\ Pushes(context.block_timestamp)
number == Runs("number") /\ Pushes(context.block_number)
gaslimit == Runs("gaslimit") /\ Pushes(context.block_gas_limit)
chainid == Runs("chainid") /\ Pushes(NatOf(context.chain_id))
basefee == Runs("basefee") /\ Pushes(NatOf(context.block_base_fee))
msize == Runs("msize") /\ Pushes(Len(memory))
push0 == Runs("push0") /\ Pushes(0)

pop == Runs("pop") /\ stack # <<>> /\ Pops(1) /\ UNCHANGED <<memory, output, running>>

dup(n) == RunsNth("dup", n) /\ n <= Len(stack) /\ Pushes(stack[n])

swap(n) ==
    /\ RunsNth("swap", n) /\ n < Len(stack)
    /\ stack' = [stack EXCEPT ![1] = stack[n + 1], ![n + 1] = stack[1]]
    /\ UNCHANGED <<memory, output, running>>

calldataload ==
    /\ Runs("calldataload") /\ stack # <<>>
    /\ stack' = <<NatOf(Padded(message.input, Head(stack), WordBytes))>> \o Tail(stack)
    /\ UNCHANGED <<memory, output, running>>

blockhash ==
    LET upper_bound == context.block_number
        lower_bound == IF upper_bound > Window THEN upper_bound - Window ELSE 0
    IN  /\ Runs("blockhash") /\ stack # <<>>
        /\ stack' = <<IF Head(stack) \in lower_bound..(upper_bound - 1) THEN NatOf(block_hash) ELSE 0>>
                       \o Tail(stack)
        /\ UNCHANGED <<memory, output, running>>

mload ==
    /\ Runs("mload") /\ stack # <<>>
    /\ memory' = Expanded(Head(stack), WordBytes)
    /\ stack' = <<NatOf(SubSeq(memory', Head(stack) + 1, Head(stack) + WordBytes))>> \o Tail(stack)
    /\ UNCHANGED <<output, running>>

mstore ==
    /\ Runs("mstore") /\ Len(stack) >= 2
    /\ memory' = Written(stack[1], BytesOf(stack[2]))
    /\ Pops(2)
    /\ UNCHANGED <<output, running>>

copies(name, source) ==
    /\ Runs(name) /\ Len(stack) >= 3
    /\ memory' = Written(stack[1], Padded(source, stack[2], stack[3]))
    /\ Pops(3)
    /\ UNCHANGED <<output, running>>

calldatacopy == copies("calldatacopy", message.input)
codecopy == copies("codecopy", code)

return_ ==
    /\ Runs("return_") /\ Len(stack) >= 2
    /\ memory' = Expanded(stack[1], stack[2])
    /\ output' = SubSeq(memory', stack[1] + 1, stack[1] + stack[2])
    /\ running' = FALSE
    /\ UNCHANGED stack

\* An execution may fail at any instruction, without an output.
fail ==
    /\ Runs("fails") \/ Runs("address")
    /\ running' = FALSE
    /\ UNCHANGED <<stack, memory, output>>

Init ==
    /\ stack \in Seq(Nat)
    /\ memory = <<>> /\ output = <<>>
    /\ running = TRUE /\ instr = <<"intrinsic", 0>>

Next ==
    \/ address \/ origin \/ coinbase \/ difficulty
    \/ caller \/ callvalue \/ calldatasize \/ codesize \/ gasprice \/ timestamp \/ number
    \/ gaslimit \/ chainid \/ basefee \/ msize \/ push0 \/ blockhash
    \/ pop \/ (\E n \in 1..16 : dup(n) \/ swap(n))
    \/ calldataload \/ mload \/ mstore \/ calldatacopy \/ codecopy
    \/ return_ \/ fail

Spec == Init /\ [][Next]_vars
=============================================================================
