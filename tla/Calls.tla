-------------------------------- MODULE Calls --------------------------------
(***************************************************************************)
(* The call family: CALL, CALLCODE, DELEGATECALL, STATICCALL, CREATE and   *)
(* CREATE2 of instructions.h, over the memory and gas of module Memory, and *)
(* call() of the mocked host, which records the message, copies its input  *)
(* and answers with call_result: success, no output, no gas left.          *)
(*                                                                         *)
(* The instructions pop pointers to stack slots.  The placeholder they     *)
(* push is written over the last slot popped, so that the calls read an    *)
(* output size of zero from there on, and CREATE an init code size of zero.*)
(***************************************************************************)
EXTENDS Memory, Sequences, Cvec

CONSTANTS
    CallStipend,     (* 2300                                                *)
    ValueCost,       (* 9000                                                *)
    NewAccountCost,  (* 25000                                               *)
    HashWordCost,    (* 6, per word of the init code of CREATE2             *)
    Share,           (* 64: the caller keeps one part in Share of its gas   *)
    DepthLimit,      (* 1024                                                *)
    Depths,          (* values of msg.depth                                 *)
    MaxCalls,        (* max_recorded_calls, 100                             *)
    GasOperands,     (* low limbs of the gas operand                        *)
    CallValues,      (* value and endowment operands                        *)
    Balance          (* what get_balance finds; 0 in a fresh host           *)

ASSUME CallsAssumption ==
    /\ {CallStipend, ValueCost, NewAccountCost, HashWordCost, DepthLimit, MaxCalls, Balance}
          \subseteq Nat
    /\ Share \in Nat \ {0}
    /\ Depths \subseteq Nat /\ CallValues \subseteq Nat /\ GasOperands \subseteq 0..(Limb - 1)

VARIABLES
    depth,       (* msg.depth                                               *)
    calls,       (* the vector recorded_calls                               *)
    inputs,      (* the vector m_recorded_calls_inputs                      *)
    messages,    (* the recorded messages: where their input_data points to *)
    starved      (* history: an allocation of the host failed               *)

hostVars == <<calls, inputs, messages, starved>>
callVars == <<vars, depth, hostVars>>

Operands == [gas : GasOperands, offset : Offsets, size : Sizes]

-----------------------------------------------------------------------------
Fails(s, out) == After(out, s.gas, s.memory)

Charge(s, cost) ==
    After(IF s.gas - cost < 0 THEN "OUT_OF_GAS" ELSE "SUCCESS", s.gas - cost, s.memory)

Least(a, b) == IF a <= b THEN a ELSE b

\* has_value is zero256(value): it holds when there is no value, and always for
\* DELEGATECALL and STATICCALL, whose value is the constant zero.
has_value(value) == value = 0

\* The gas a call is forwarded, before the stipend.  The operand's low limb is
\* read as an int64_t.
Forwarded(gas, left) == Least(Int64(gas), left - left \div Share)

\* Mutant of Checked: the input is not checked against the memory.
Checked_none(o, cold, alloc) == Charge(Before, IF cold THEN ColdCost ELSE 0)

\* The destination is paid for, the memory grown to hold the input.  The
\* output's size reads zero: its check passes and grows nothing.
Checked(o, cold, alloc) ==
    LET accessed == Charge(Before, IF cold THEN ColdCost ELSE 0)
    IN  IF accessed.out # "SUCCESS" THEN accessed
        ELSE check_memory_u256(accessed, o.offset, o.size, alloc)

CallCost(op, paying, exists) ==
    (IF paying THEN ValueCost ELSE 0)
      + (IF op = "CALL" /\ paying /\ ~exists THEN NewAccountCost ELSE 0)

\* Mutant of Ready: the gas is read before the memory check and used after it.
Ready_stale(op, o, value, cold, exists, alloc) ==
    LET checked == Checked(o, cold, alloc)
        paying  == has_value(value)
        gas     == gas_left - (IF cold THEN ColdCost ELSE 0)
    IN  IF checked.out # "SUCCESS" THEN checked
        ELSE IF op = "CALL" /\ paying /\ static THEN Fails(checked, "STATIC_MODE_VIOLATION")
        ELSE Charge(After("SUCCESS", gas, checked.memory), CallCost(op, paying, exists))

Ready(op, o, value, cold, exists, alloc) ==
    LET checked == Checked(o, cold, alloc)
        paying  == has_value(value)
    IN  IF checked.out # "SUCCESS" THEN checked
        ELSE IF op = "CALL" /\ paying /\ static THEN Fails(checked, "STATIC_MODE_VIOLATION")
        ELSE Charge(checked, CallCost(op, paying, exists))

-----------------------------------------------------------------------------
(***************************************************************************)
(* call() of the host.  input says what the message's input_size and       *)
(* input_data are: "none" and "memory" as the caller set them, "unset" if  *)
(* the caller left both uninitialised: then the host finds any size,       *)
(* "moved" if the size is set and the bytes went to where input_data points.*)
(***************************************************************************)
Uninitialised == {"none", "wild", "PANIC"}

\* Where the host finds the input of a message.
InputsFound(input) ==
    CASE input = "unset" -> Uninitialised
      [] input = "moved" -> Uninitialised \ {"none"}
      [] OTHER           -> {input}

\* Mutant of Reserved: only the vector of messages gets its room.
Reserved_calls(room) ==
    [calls  |-> IF calls.size = 0 THEN cvec_reserve(calls, MaxCalls, room) ELSE calls,
     inputs |-> inputs]

\* The first call reserves both vectors; nothing is done if that fails.
Reserved(room) ==
    IF calls.size = 0
    THEN [calls  |-> cvec_reserve(calls, MaxCalls, room),
          inputs |-> cvec_reserve(inputs, MaxCalls, room)]
    ELSE [calls |-> calls, inputs |-> inputs]

\* The message is pushed; its input, if it has any, is copied to the end of
\* inputs and the message is pointed there.  A push that fails is not noticed:
\* the last element takes the place of the new one, and if there is none the
\* bytes before the vector do, which ends the trusted application.
Record(input, room, ok) ==
    LET r      == Reserved(room)
        full   == r.calls.size >= MaxCalls
        pushed == cvec_push(r.calls, ok)
        list   == IF pushed.size > r.calls.size
                  THEN Append(messages, [input |-> input, block |-> 0]) ELSE messages
        copies == list # <<>> /\ list[Len(list)].input # "none"
        copied == cvec_push(r.inputs, ok)
        dead   == pushed.size = 0 \/ (copies /\ copied.size = 0)
    IN  /\ starved' = (starved \/ ~room \/ ~ok)
        /\ status' = IF ~full /\ dead THEN "PANIC" ELSE "RUNNING"
        /\ calls' = IF full THEN r.calls ELSE pushed
        /\ inputs' = IF ~full /\ copies THEN copied ELSE r.inputs
        /\ messages' = IF full THEN messages
                       ELSE IF copies THEN [list EXCEPT ![Len(list)].block = copied.block]
                       ELSE list

\* The host is called: the trusted application may die on the input.
HostCall(input) ==
    \E found \in InputsFound(input), room, ok \in BOOLEAN :
        IF found = "PANIC"
        THEN status' = "PANIC" /\ UNCHANGED hostVars
        ELSE Record(found, room, ok)

-----------------------------------------------------------------------------
\* Mutant of Fund: the stipend is given to the callee and not added to the
\* caller's gas first.
Fund_once(paying, gas, left) ==
    [left |-> left, msg |-> Forwarded(gas, left) + (IF paying THEN CallStipend ELSE 0)]

\* The gas of the caller before the call and the gas of the message.
Fund(paying, gas, left) ==
    LET stipend == IF paying THEN CallStipend ELSE 0
    IN  [left |-> left + stipend, msg |-> Forwarded(gas, left) + stipend]

Ends(s) ==
    /\ memory' = s.memory
    /\ gas_left' = s.gas
    /\ status' = s.out
    /\ dynamic' = dynamic
    /\ UNCHANGED <<static, touched, limit, depth, hostVars>>

InputRange(offset, size) == IF size.low > 0 THEN Range(offset, size, size.low) ELSE Untouched

\* The body the four calls share.  It is written out four times in the code.
Call(op, o, value, cold, exists, alloc) ==
    LET ready  == Ready(op, o, value, cold, exists, alloc)
        paying == has_value(value)
        fund   == Fund(paying, o.gas, ready.gas)
        spent  == (IF cold THEN ColdCost ELSE 0) + CallCost(op, paying, exists)
    IN  /\ status = "RUNNING"
        /\ \/ ready.out # "SUCCESS" /\ Ends(ready)
           \/ /\ ready.out = "SUCCESS"
              /\ memory' = ready.memory
              /\ \/ /\ depth >= DepthLimit \/ (paying /\ value > Balance)
                    /\ gas_left' = fund.left
                    /\ dynamic' = dynamic + spent - (fund.left - ready.gas)
                    /\ UNCHANGED <<status, touched, hostVars>>
                 \/ /\ depth < DepthLimit /\ ~(paying /\ value > Balance)
                    /\ gas_left' = fund.left - fund.msg
                    /\ dynamic' = dynamic + spent + Forwarded(o.gas, ready.gas)
                    /\ touched' = InputRange(o.offset, o.size)
                    /\ HostCall(IF o.size.low > 0 THEN "memory" ELSE "unset")
              /\ UNCHANGED <<static, limit, depth>>

\* cold and exists: what the host answers about the destination.
call_(o, value, cold, exists, alloc) == Call("CALL", o, value, cold, exists, alloc)
callcode(o, value, cold, alloc) == Call("CALLCODE", o, value, cold, TRUE, alloc)
delegatecall(o, cold, alloc) == Call("DELEGATECALL", o, 0, cold, TRUE, alloc)
staticcall(o, cold, alloc) == Call("STATICCALL", o, 0, cold, TRUE, alloc)

\* After the checks of a create, which left s and charged spent.  input is the
\* state of the message's input.
Create(s, spent, endowment, touches, input) ==
    LET gas == s.gas - s.gas \div Share
    IN  \/ s.out # "SUCCESS" /\ Ends(s)
        \/ /\ s.out = "SUCCESS"
           /\ memory' = s.memory
           /\ \/ /\ depth >= DepthLimit \/ endowment > Balance
                 /\ gas_left' = s.gas
                 /\ dynamic' = dynamic + spent
                 /\ UNCHANGED <<status, touched, hostVars>>
              \/ /\ depth < DepthLimit /\ endowment <= Balance
                 /\ gas_left' = s.gas - gas
                 /\ dynamic' = dynamic + spent + gas
                 /\ touched' = touches
                 /\ HostCall(input)
           /\ UNCHANGED <<static, limit, depth>>

\* The init code's size reads zero: the message's input stays uninitialised.
create(endowment, offset, size, alloc) ==
    /\ status = "RUNNING"
    /\ \/ static /\ Ends(Fails(Before, "STATIC_MODE_VIOLATION"))
       \/ /\ ~static
          /\ Create(check_memory_u256(Before, offset, size, alloc), 0, endowment, Untouched, "unset")

\* The init code is moved to where the uninitialised input_data points.
create2(endowment, offset, size, alloc) ==
    LET checked   == check_memory_u256(Before, offset, size, alloc)
        salt_cost == Int64(num_words(size.low) * HashWordCost)
    IN  /\ status = "RUNNING"
        /\ \/ static /\ Ends(Fails(Before, "STATIC_MODE_VIOLATION"))
           \/ /\ ~static
              /\ Create(IF checked.out = "SUCCESS" THEN Charge(checked, salt_cost) ELSE checked,
                        salt_cost, endowment, InputRange(offset, size),
                        IF size.low > 0 THEN "moved" ELSE "unset")

-----------------------------------------------------------------------------
CallsInit ==
    /\ Init
    /\ depth \in Depths
    /\ calls = cvec_init /\ inputs = cvec_init
    /\ messages = <<>>
    /\ starved = FALSE

CallsNext ==
    \/ \E o \in Operands, cold, alloc \in BOOLEAN :
          \/ \E value \in CallValues :
                \/ \E exists \in BOOLEAN : call_(o, value, cold, exists, alloc)
                \/ callcode(o, value, cold, alloc)
          \/ delegatecall(o, cold, alloc)
          \/ staticcall(o, cold, alloc)
    \/ \E endowment \in CallValues, offset \in Offsets, size \in Sizes, alloc \in BOOLEAN :
          \/ create(endowment, offset, size, alloc)
          \/ create2(endowment, offset, size, alloc)
    \/ \E offset \in Offsets, alloc \in BOOLEAN :
          load_store(offset, alloc) /\ UNCHANGED <<depth, hostVars>>
    \/ Stopped /\ UNCHANGED <<depth, hostVars>>

CallsSpec == CallsInit /\ [][CallsNext]_callVars

-----------------------------------------------------------------------------
\* Gas is neither created nor overdrawn: whatever mix of calls, stipends and
\* memory growth came before, the caller has between nothing and its limit.
Solvent == status \in Alive => gas_left \in 0..limit

\* "Iterators will not invalidate": as long as the host got its memory, the
\* inputs of the recorded messages lie where the messages point to.
InputsFresh ==
    status \in Alive /\ ~starved =>
        \A i \in DOMAIN messages : messages[i].input # "none" => messages[i].block = inputs.block
=============================================================================
