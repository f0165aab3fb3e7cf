------------------------------ MODULE Baseline ------------------------------
(***************************************************************************)
(* The reference: evmone's Baseline interpreter, which the repository      *)
(* vendors.  It decodes the bytecode itself and checks every instruction   *)
(* on its own: defined, enough items, room for the result, enough gas.     *)
(***************************************************************************)
EXTENDS OpTable, Sequences

CONSTANTS StackLimit, WordSize, SstoreGate, NewAccount

VARIABLES
    code,
    pc,       (* position.code_it - code          *)
    height,   (* position.stack_top - bottom      *)
    stack,    (* the stack space                  *)
    gas,      (* state.gas_left                   *)
    outcome   (* "RUNNING" or the final status    *)

refVars == <<pc, height, stack, gas, outcome>>

RefInit(limit) ==
    /\ pc = 0
    /\ height = 0
    /\ stack = [i \in 1..StackLimit |-> 0]
    /\ gas = limit
    /\ outcome = "RUNNING"

\* The code is padded with STOP.
OpAt(p) == IF p < Len(code) THEN code[p + 1] ELSE OP_STOP
ByteAt(p) == IF p < Len(code) THEN code[p + 1] ELSE 0
NumPush(op) == IF op \in ANY_PUSH THEN op - 95 ELSE 0

\* analyze(): the map of JUMPDEST positions that are not push data, by
\* skipping the data of each PUSH from the start of the code.
jumpdest_map ==
    LET n == Len(code)
        starts[p \in 0..n] ==    \* does an instruction start at p?
            p = 0 \/ \E q \in 0..(p - 1) : starts[q] /\ p = q + 1 + NumPush(OpAt(q))
    IN  {p \in 0..(n - 1) : starts[p] /\ code[p + 1] = OP_JUMPDEST}

PushedWord(p, n) ==
    LET v[k \in 0..n] == IF k = 0 THEN 0 ELSE (v[k - 1] * 256 + ByteAt(p + k)) % WordSize
    IN  v[n]

\* evmone's table differs from the port's in one entry: MSTORE8 has a cost.
base_costs == [gas_costs EXCEPT ![OP_MSTORE8] = 3]

check_requirements(op) ==
    IF base_costs[op] = undefined THEN "UNDEFINED_INSTRUCTION"
    ELSE IF stack_height_change[op] > 0 /\ height = StackLimit THEN "STACK_OVERFLOW"
    ELSE IF height < stack_height_required[op] THEN "STACK_UNDERFLOW"
    ELSE IF gas < base_costs[op] THEN "OUT_OF_GAS"
    ELSE "SUCCESS"

Stop(s) == outcome' = s /\ UNCHANGED <<pc, height, stack>>

Go(p, st) ==
    /\ pc' = p
    /\ height' = height + stack_height_change[OpAt(pc)]
    /\ stack' = st
    /\ UNCHANGED outcome

Set(i, v) == [stack EXCEPT ![i] = v]

\* What the instruction at pc does once its requirements are met and its base
\* cost is paid, g being the gas then left.
Impl(op, g, o) ==
    LET next   == pc + 1 + NumPush(op)
        newtop == height + stack_height_change[op]
    IN  \/ /\ op \in PlainOps \cup {OP_JUMPDEST}
           /\ gas' = g
           /\ Go(next, IF op \in ResultOps THEN Set(newtop, o.value) ELSE stack)
        \/ /\ op \in FallibleOps \cup CorrectedOps \cup {OP_MSTORE8}
           /\ gas' = g - o.cost
           /\ IF gas' < 0 \/ (op = OP_SSTORE /\ g <= SstoreGate) THEN Stop("OUT_OF_GAS")
              ELSE IF o.status # "SUCCESS" THEN Stop(o.status)
              ELSE Go(next, IF op \in ResultOps THEN Set(newtop, o.value) ELSE stack)
        \/ /\ op \in {OP_JUMP, OP_JUMPI}
           /\ gas' = g
           /\ IF op = OP_JUMPI /\ stack[height - 1] = 0 THEN Go(next, stack)
              ELSE IF stack[height] \in jumpdest_map THEN Go(stack[height], stack)
              ELSE Stop("BAD_JUMP_DESTINATION")
        \/ op = OP_PC  /\ gas' = g /\ Go(next, Set(newtop, pc))
        \/ op = OP_GAS /\ gas' = g /\ Go(next, Set(newtop, g % WordSize))
        \/ op \in ANY_PUSH /\ gas' = g /\ Go(next, Set(newtop, PushedWord(pc, NumPush(op))))
        \/ op \in DUPs /\ gas' = g /\ Go(next, Set(newtop, stack[height + 128 - op]))
        \/ /\ op \in SWAPs
           /\ gas' = g
           /\ LET other == height + 143 - op
              IN  Go(next, [stack EXCEPT ![height] = stack[other], ![other] = stack[height]])
        \/ op = OP_STOP /\ gas' = g /\ Stop("SUCCESS")
        \/ op = OP_INVALID /\ gas' = g /\ Stop("INVALID_INSTRUCTION")
        \/ /\ op \in StopOps
           /\ gas' = g - o.cost
           /\ Stop(IF gas' < 0 THEN "OUT_OF_GAS"
                   ELSE IF op = OP_RETURN THEN "SUCCESS" ELSE "REVERT")
        \/ /\ op = OP_SELFDESTRUCT
           /\ gas' = g - o.cost - (IF o.fresh THEN NewAccount ELSE 0)
           /\ Stop(IF o.status # "SUCCESS" THEN o.status
                   ELSE IF gas' < 0 THEN "OUT_OF_GAS" ELSE "SUCCESS")

\* One turn of the loop of execute().
Step(o) ==
    /\ outcome = "RUNNING"
    /\ LET op == OpAt(pc)
           check == check_requirements(op)
       IN  IF check = "SUCCESS"
           THEN Impl(op, gas - base_costs[op], o)
           ELSE Stop(check) /\ UNCHANGED gas
    /\ UNCHANGED code
=============================================================================
