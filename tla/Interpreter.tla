---------------------------- MODULE Interpreter ----------------------------
(***************************************************************************)
(* The Advanced interpreter of execution.h and analysis.h: analyse the     *)
(* bytecode, then run the instruction table.  Gas and stack are checked    *)
(* once per basic block, by its BEGINBLOCK; the instructions rely on it.   *)
(*                                                                         *)
(* What an instruction's core implementation (instructions.h) computes is  *)
(* an outcome o of the constant Outcomes: the dynamic gas it charges, the  *)
(* status it fails with after charging it (or "SUCCESS"), the value it     *)
(* leaves, and whether it sends value to an account that does not exist.   *)
(* A cost may be negative: a call whose gas operand is 2^63 or more has a  *)
(* negative msg.gas (instructions.h:1633), and log's cost is a signed      *)
(* product of a size nobody bounds (instructions.h:1363).                  *)
(***************************************************************************)
EXTENDS Analysis

CONSTANTS
    Outcomes,    (* results of core implementations, see above              *)
    GasLimits,   (* values of msg.gas                                       *)
    StackLimit,  (* slots of StackSpace: 1024, scaled                       *)
    IntSize,     (* number of values of a C int: 2^32, scaled               *)
    SstoreGate,  (* gas SSTORE must find left (2300), scaled in some models *)
    NewAccount   (* gas of a SELFDESTRUCT to a new account (25000), scaled  *)

ASSUME OutcomesAssumption == \A o \in Outcomes : o.cost \in Int
ASSUME LimitsAssumption == GasLimits \subseteq Nat /\ StackLimit \in Nat \ {0}
ASSUME ScaleAssumption == IntSize \in Nat \ {0} /\ SstoreGate \in Nat /\ NewAccount \in Nat

VARIABLES
    ip,                  (* index of the next instruction; 0 is NULL          *)
    size,                (* stack.top_item - stack.m_bottom                   *)
    space,               (* stack_space.m_stack_space                         *)
    gas_left,
    current_block_cost,
    status,              (* ExecutionState.status                             *)
    result,              (* the evmc_result handed to the caller              *)
    exit_code            (* history: argument of AdvancedExecutionState_exit  *)

stateVars == <<ip, size, space, gas_left, current_block_cost, status, result, exit_code>>
vars == <<analysisVars, stateVars>>

NoResult == [status |-> "NONE", gas_left |-> 0]

Init ==
    /\ AnalysisInit
    /\ ip = 1
    /\ size = 0
    /\ space = [i \in 1..StackLimit |-> 0]
    /\ gas_left \in GasLimits
    /\ current_block_cost = 0
    /\ status = "SUCCESS"
    /\ result = NoResult
    /\ exit_code = "NONE"

-----------------------------------------------------------------------------
Instr == instrs[ip]
Running(ops) == phase = "execute" /\ ip # 0 /\ Instr.fn \in ops

\* AdvancedExecutionState_exit assigns the status of a copy of the state, so
\* status itself does not change; it returns NULL.
AdvancedExecutionState_exit(s) == ip' = 0 /\ exit_code' = s /\ UNCHANGED status

Continue == ip' = ip + 1 /\ UNCHANGED <<status, exit_code>>

\* The wrapper's move of top_item by the traits of the opcode; the result, if
\* the core implementation leaves one, is in the slot that becomes the top.
MoveTop(v) ==
    LET op == Instr.fn
    IN  /\ size' = size + stack_height_change[op]
        /\ space' = IF op \in ResultOps THEN [space EXCEPT ![size'] = v] ELSE space

Stack_push(v) == size' = size + 1 /\ space' = [space EXCEPT ![size + 1] = v]

\* (int)LOWER(LOWER(w)): the low bits of the word, as a signed number
ToInt(w) == LET low == w % IntSize
            IN  IF low < IntSize \div 2 THEN low ELSE low - IntSize

-----------------------------------------------------------------------------
\* Mutants of opx_beginblock: the stack limit is off by one; running out of
\* gas is not noticed.
opx_beginblock_limit ==
    /\ Running({OP_JUMPDEST})
    /\ LET b == Instr.block
           g == gas_left - b.gas_cost
           ok == g >= 0 /\ size >= b.stack_req /\ size + b.stack_max_growth < StackLimit
       IN  /\ gas_left' = g
           /\ IF ok THEN Continue ELSE AdvancedExecutionState_exit("OUT_OF_GAS")
           /\ current_block_cost' = IF ok THEN b.gas_cost ELSE current_block_cost
    /\ UNCHANGED <<analysisVars, size, space, result>>

opx_beginblock_nogas ==
    /\ Running({OP_JUMPDEST})
    /\ LET b == Instr.block
           ok == size >= b.stack_req /\ size + b.stack_max_growth <= StackLimit
       IN  /\ gas_left' = gas_left - b.gas_cost
           /\ IF ok THEN Continue ELSE AdvancedExecutionState_exit("STACK_UNDERFLOW")
           /\ current_block_cost' = IF ok THEN b.gas_cost ELSE current_block_cost
    /\ UNCHANGED <<analysisVars, size, space, result>>

opx_beginblock ==
    /\ Running({OP_JUMPDEST})
    /\ LET b == Instr.block
           g == gas_left - b.gas_cost
           ok == g >= 0 /\ size >= b.stack_req /\ size + b.stack_max_growth <= StackLimit
       IN  /\ gas_left' = g
           /\ \/ g < 0 /\ AdvancedExecutionState_exit("OUT_OF_GAS")
              \/ /\ g >= 0 /\ size < b.stack_req
                 /\ AdvancedExecutionState_exit("STACK_UNDERFLOW")
              \/ /\ g >= 0 /\ size >= b.stack_req
                 /\ size + b.stack_max_growth > StackLimit
                 /\ AdvancedExecutionState_exit("STACK_OVERFLOW")
              \/ ok /\ Continue
           /\ current_block_cost' = IF ok THEN b.gas_cost ELSE current_block_cost
    /\ UNCHANGED <<analysisVars, size, space, result>>

op_plain(o) ==
    /\ Running(PlainOps)
    /\ MoveTop(o.value)
    /\ Continue
    /\ UNCHANGED <<analysisVars, gas_left, current_block_cost, result>>

\* The core implementation charges its dynamic gas, then may still fail.
op_fallible(o) ==
    /\ Running(FallibleOps)
    /\ MoveTop(o.value)
    /\ gas_left' = gas_left - o.cost
    /\ \/ gas_left' < 0 /\ AdvancedExecutionState_exit("OUT_OF_GAS")
       \/ gas_left' >= 0 /\ o.status # "SUCCESS" /\ AdvancedExecutionState_exit(o.status)
       \/ gas_left' >= 0 /\ o.status = "SUCCESS" /\ Continue
    /\ UNCHANGED <<analysisVars, current_block_cost, result>>

gas_left_correction == current_block_cost - Instr.arg

\* Mutant of op_sstore: the gas lent is not taken back.
op_sstore_kept(o) ==
    /\ Running({OP_SSTORE})
    /\ MoveTop(o.value)
    /\ LET g == gas_left + gas_left_correction - o.cost
       IN  /\ gas_left' = g
           /\ IF o.status = "SUCCESS" /\ g >= 0 /\ g + o.cost > SstoreGate
              THEN Continue
              ELSE AdvancedExecutionState_exit("OUT_OF_GAS")
    /\ UNCHANGED <<analysisVars, current_block_cost, result>>

\* sstore: static mode, then the gate, then the cost of the access and write.
op_sstore(o) ==
    /\ Running({OP_SSTORE})
    /\ MoveTop(o.value)
    /\ LET g == gas_left + gas_left_correction
       IN  \/ /\ o.status # "SUCCESS"
              /\ gas_left' = g
              /\ AdvancedExecutionState_exit(o.status)
           \/ /\ o.status = "SUCCESS" /\ g <= SstoreGate
              /\ gas_left' = g
              /\ AdvancedExecutionState_exit("OUT_OF_GAS")
           \/ /\ o.status = "SUCCESS" /\ g > SstoreGate /\ g < o.cost
              /\ gas_left' = g - o.cost
              /\ AdvancedExecutionState_exit("OUT_OF_GAS")
           \/ /\ o.status = "SUCCESS" /\ g > SstoreGate /\ g >= o.cost
              /\ gas_left' = g - o.cost - gas_left_correction
              /\ IF gas_left' < 0
                 THEN AdvancedExecutionState_exit("OUT_OF_GAS")
                 ELSE Continue
    /\ UNCHANGED <<analysisVars, current_block_cost, result>>

\* op_call, op_callcode, op_delegatecall, op_staticcall, op_create, op_create2
op_call(o) ==
    /\ Running(CallOps)
    /\ MoveTop(o.value)
    /\ LET g == gas_left + gas_left_correction - o.cost
       IN  \/ /\ g < 0
              /\ gas_left' = g
              /\ AdvancedExecutionState_exit("OUT_OF_GAS")
           \/ /\ g >= 0 /\ o.status # "SUCCESS"
              /\ gas_left' = g
              /\ AdvancedExecutionState_exit(o.status)
           \/ /\ g >= 0 /\ o.status = "SUCCESS"
              /\ gas_left' = g - gas_left_correction
              /\ IF gas_left' < 0
                 THEN AdvancedExecutionState_exit("OUT_OF_GAS")
                 ELSE Continue
    /\ UNCHANGED <<analysisVars, current_block_cost, result>>

\* Where op_jump goes: an instruction, or out.
JumpTo(dst) ==
    LET pc == find_jumpdest(ToInt(dst))
    IN  IF pc < 0
        THEN AdvancedExecutionState_exit("BAD_JUMP_DESTINATION")
        ELSE ip' = pc /\ UNCHANGED <<status, exit_code>>

op_jump ==
    /\ Running({OP_JUMP})
    /\ JumpTo(space[size])
    /\ size' = size - 1
    /\ UNCHANGED <<analysisVars, space, gas_left, current_block_cost, result>>

op_jumpi ==
    /\ Running({OP_JUMPI})
    /\ IF space[size - 1] # 0 THEN JumpTo(space[size]) ELSE Continue
    /\ size' = size - 2
    /\ UNCHANGED <<analysisVars, space, gas_left, current_block_cost, result>>

op_pc ==
    /\ Running({OP_PC})
    /\ Stack_push(Instr.arg)
    /\ Continue
    /\ UNCHANGED <<analysisVars, gas_left, current_block_cost, result>>

op_gas ==
    /\ Running({OP_GAS})
    /\ Stack_push((gas_left + gas_left_correction) % WordSize)
    /\ Continue
    /\ UNCHANGED <<analysisVars, gas_left, current_block_cost, result>>

op_push ==
    /\ Running(ANY_PUSH)
    /\ Stack_push(Instr.arg)
    /\ Continue
    /\ UNCHANGED <<analysisVars, gas_left, current_block_cost, result>>

op_dup ==
    /\ Running(DUPs)
    /\ Stack_push(space[size + 128 - Instr.fn])
    /\ Continue
    /\ UNCHANGED <<analysisVars, gas_left, current_block_cost, result>>

op_swap ==
    /\ Running(SWAPs)
    /\ LET other == size + 143 - Instr.fn
       IN  space' = [space EXCEPT ![size] = space[other], ![other] = space[size]]
    /\ Continue
    /\ UNCHANGED <<analysisVars, size, gas_left, current_block_cost, result>>

op_stop ==
    /\ Running({OP_STOP})
    /\ AdvancedExecutionState_exit("SUCCESS")
    /\ UNCHANGED <<analysisVars, size, space, gas_left, current_block_cost, result>>

\* return_ and revert: a memory check, and the status of the token.
op_return(o) ==
    /\ Running(StopOps)
    /\ gas_left' = gas_left - o.cost
    /\ AdvancedExecutionState_exit(
           IF gas_left' < 0 THEN "OUT_OF_GAS"
           ELSE IF Instr.fn = OP_RETURN THEN "SUCCESS" ELSE "REVERT")
    /\ UNCHANGED <<analysisVars, size, space, current_block_cost, result>>

op_invalid ==
    /\ Running({OP_INVALID})
    /\ AdvancedExecutionState_exit("INVALID_INSTRUCTION")
    /\ UNCHANGED <<analysisVars, size, space, gas_left, current_block_cost, result>>

\* selfdestruct_: static mode or a failed cold access ends it; the
\* OUT_OF_GAS of a new beneficiary is overwritten by the SUCCESS at the end.
op_selfdestruct(o) ==
    /\ Running({OP_SELFDESTRUCT})
    /\ \/ /\ o.status # "SUCCESS"
          /\ AdvancedExecutionState_exit(o.status)
          /\ UNCHANGED gas_left
       \/ /\ o.status = "SUCCESS" /\ gas_left < o.cost
          /\ gas_left' = gas_left - o.cost
          /\ AdvancedExecutionState_exit("OUT_OF_GAS")
       \/ /\ o.status = "SUCCESS" /\ gas_left >= o.cost
          /\ gas_left' = gas_left - o.cost - (IF o.fresh THEN NewAccount ELSE 0)
          /\ AdvancedExecutionState_exit("SUCCESS")
    /\ UNCHANGED <<analysisVars, size, space, current_block_cost, result>>

op_undefined ==
    /\ Running(UndefinedOps)
    /\ AdvancedExecutionState_exit("UNDEFINED_INSTRUCTION")
    /\ UNCHANGED <<analysisVars, size, space, gas_left, current_block_cost, result>>

\* The end of execute_analyzed_code.
Finish ==
    /\ phase = "execute" /\ ip = 0
    /\ phase' = "done"
    /\ result' = [status |-> status,
                  gas_left |-> IF status \in {"SUCCESS", "REVERT"} THEN gas_left ELSE 0]
    /\ UNCHANGED <<code, garbage, code_pos, block, instrs, jumpdest_offsets,
                   jumpdest_targets, trace, ip, size, space, gas_left,
                   current_block_cost, status, exit_code>>

Analyze == (AnalyzeOp \/ FinishAnalysis) /\ UNCHANGED stateVars

\* One turn of the loop of execute_analyzed_code, for an outcome.
Execute(o) ==
    \/ opx_beginblock \/ op_plain(o) \/ op_fallible(o) \/ op_sstore(o) \/ op_call(o)
    \/ op_jump \/ op_jumpi \/ op_pc \/ op_gas \/ op_push \/ op_dup \/ op_swap
    \/ op_stop \/ op_return(o) \/ op_invalid \/ op_selfdestruct(o) \/ op_undefined

\* The caller has its result: nothing more happens.
Done == phase = "done" /\ UNCHANGED vars

Next == Analyze \/ (\E o \in Outcomes : Execute(o)) \/ Finish \/ Done

Spec == Init /\ [][Next]_vars
FairSpec == Spec /\ WF_vars(Next)
-----------------------------------------------------------------------------
Statuses == {"SUCCESS", "REVERT", "OUT_OF_GAS", "STACK_UNDERFLOW", "STACK_OVERFLOW",
             "BAD_JUMP_DESTINATION", "UNDEFINED_INSTRUCTION", "INVALID_INSTRUCTION"}
               \cup {o.status : o \in Outcomes}

BlockInfo == [gas_cost : Int, stack_req : Int, stack_max_growth : Int]
Args == Int \cup {PushValue(code, p, PushSize(code[p])) : p \in 1..Len(code)}

\* Type invariant: the analysis tables and the execution state have the shapes
\* of struct CodeAnalysis and struct AdvancedExecutionState.
TypeOK ==
    /\ code \in Codes
    /\ garbage \in Garbages
    /\ phase \in {"analyze", "execute", "done"}
    /\ code_pos \in 0..Len(code)
    /\ block \in [gas_cost : Nat, stack_req : Nat, stack_max_growth : Nat,
                  stack_change : Int, begin_block_index : 1..Len(instrs)]
    /\ instrs \in Seq([fn : Byte, arg : Args, block : BlockInfo])
    /\ trace \in Seq([begin : Nat, pos : Nat, cost : Nat, change : Int, clean : BOOLEAN])
    /\ Len(trace) = Len(instrs)
    /\ jumpdest_offsets \in Seq(Nat) /\ jumpdest_targets \in Seq(Nat)
    /\ ip \in 0..Len(instrs)
    /\ size \in Int
    /\ gas_left \in Int /\ current_block_cost \in Int
    /\ status \in Statuses /\ exit_code \in Statuses \cup {"NONE"}
    /\ result \in [status : Statuses \cup {"NONE"}, gas_left : Int]

\* The jump table analyze() builds is what find_jumpdest relies on: the offsets
\* are strictly increasing positions of JUMPDEST bytes, and the target of each
\* is the BEGINBLOCK of the block that starts at that position.
JumpTableSound ==
    /\ Len(jumpdest_targets) = Len(jumpdest_offsets)
    /\ \A i \in 1..Len(jumpdest_offsets) :
          /\ jumpdest_offsets[i] < code_pos
          /\ code[jumpdest_offsets[i] + 1] = OP_JUMPDEST
          /\ jumpdest_targets[i] \in 1..Len(instrs)
          /\ instrs[jumpdest_targets[i]].fn = OP_JUMPDEST
          /\ trace[jumpdest_targets[i]].pos = jumpdest_offsets[i]
    /\ \A i, j \in 1..Len(jumpdest_offsets) :
          i < j => jumpdest_offsets[i] < jumpdest_offsets[j]

\* What the core implementations of instructions.h assume and never check
\* themselves: when an instruction is about to run, every slot it accesses is
\* on the stack and the stack it leaves fits StackSpace.  Only the BEGINBLOCK
\* of the block checked anything.
StackSafe ==
    phase = "execute" /\ ip # 0 =>
        /\ size \in 0..StackLimit
        /\ Instr.fn \notin UndefinedOps =>
              Instr.fn = OP_JUMPDEST \/
              /\ size >= stack_height_required[Instr.fn]
              /\ size + stack_height_change[Instr.fn] \in 0..StackLimit

\* No continuing step gains gas, as long as no core implementation charges a
\* negative amount: what the corrected instructions are lent for the rest of
\* their block is taken back before the next instruction.
GasNeverGained == [][ip' # 0 => gas_left' <= gas_left]_vars

\* Every execution ends, as long as no core implementation charges a negative
\* amount: no loop of the bytecode escapes the gas counter.
Termination == <>(phase = "done")
=============================================================================
