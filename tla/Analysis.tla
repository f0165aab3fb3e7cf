------------------------------ MODULE Analysis ------------------------------
(***************************************************************************)
(* analyze() of analysis_impl.h: one pass over the bytecode that emits the *)
(* instruction table, puts a BEGINBLOCK in front of every basic block with *)
(* the block's total base gas and stack requirements, and records where    *)
(* the JUMPDESTs are.                                                      *)
(*                                                                         *)
(* Positions in code are the source's (0-based).  Indices of instrs are    *)
(* TLA+'s: instrs[i + 1] is analysis.instrs[i].                            *)
(***************************************************************************)
EXTENDS OpTable, Sequences

CONSTANTS
    Codes,       (* the bytecodes that may be submitted: sequences of bytes *)
    Garbage,     (* contents an uninitialised OpTableEntry may have         *)
    INT16_MAX,   (* bounds of the two integer types of struct BlockInfo;    *)
    UINT32_MAX,  (*   scaled down in some models                            *)
    WordSize     (* number of values of a stack word (2^256, scaled)        *)

ASSUME CodesAssumption == \A c \in Codes : c \in Seq(Byte)
ASSUME GarbageAssumption ==
    \A g \in Garbage : g.stack_req \in -128..127 /\ g.stack_change \in -128..127
ASSUME WidthAssumption ==
    INT16_MAX \in Nat /\ UINT32_MAX \in Nat /\ WordSize \in Nat \ {0}

VARIABLES
    code,              (* the bytecode being analysed                        *)
    garbage,           (* the uninitialised entries of OpTable               *)
    phase,             (* "analyze", "execute" or "done"                     *)
    code_pos,          (* code_pos - code_begin                              *)
    block,             (* struct BlockAnalysis                               *)
    instrs,            (* CodeAnalysis.instrs                                *)
    jumpdest_offsets,
    jumpdest_targets,
    trace              (* history: where each instruction of instrs is from  *)

analysisVars ==
    <<code, garbage, phase, code_pos, block, instrs, jumpdest_offsets, jumpdest_targets, trace>>

Max2(a, b) == IF a > b THEN a ELSE b
Min2(a, b) == IF a < b THEN a ELSE b

-----------------------------------------------------------------------------
(***************************************************************************)
(* The conversions to struct BlockInfo.  BlockAnalysis_close compares      *)
(* after the cast, so the bound it names is never applied and the value    *)
(* wraps.                                                                  *)
(***************************************************************************)
Uint32(x) == IF x \in 0..UINT32_MAX THEN x ELSE x % (UINT32_MAX + 1)

Int16(x) ==
    IF x \in -(INT16_MAX + 1)..INT16_MAX
    THEN x
    ELSE ((x + INT16_MAX + 1) % (2 * (INT16_MAX + 1))) - (INT16_MAX + 1)

BlockAnalysis_close(b) ==
    [gas_cost         |-> Uint32(b.gas_cost),
     stack_req        |-> Int16(b.stack_req),
     stack_max_growth |-> Int16(b.stack_max_growth)]

BlockAnalysis_init(index) ==
    [gas_cost |-> 0, stack_req |-> 0, stack_max_growth |-> 0, stack_change |-> 0,
     begin_block_index |-> index]

BlockInfo_init == [gas_cost |-> 0, stack_req |-> 0, stack_max_growth |-> 0]

\* get_op_table: only gas_cost and fn are set for an undefined opcode; the
\* analysis overrides the entry of opcode 247, and no other.
OpInfo(op) ==
    IF op \notin UndefinedOps
    THEN [gas_cost     |-> gas_costs[op],
          stack_req    |-> stack_height_required[op],
          stack_change |-> stack_height_change[op]]
    ELSE IF op = 247
    THEN [gas_cost |-> 0, stack_req |-> 0, stack_change |-> 0]
    ELSE [gas_cost     |-> 0,
          stack_req    |-> garbage[op].stack_req,
          stack_change |-> garbage[op].stack_change]

\* Mutants of AddToBlock: the growth misses the last push; the gas is not
\* accumulated.
AddToBlock_growth(b, info) ==
    [gas_cost          |-> b.gas_cost + info.gas_cost,
     stack_req         |-> Max2(b.stack_req, info.stack_req - b.stack_change),
     stack_max_growth  |-> Max2(b.stack_max_growth, b.stack_change),
     stack_change      |-> b.stack_change + info.stack_change,
     begin_block_index |-> b.begin_block_index]

AddToBlock_free(b, info) ==
    [gas_cost          |-> b.gas_cost,
     stack_req         |-> Max2(b.stack_req, info.stack_req - b.stack_change),
     stack_max_growth  |-> Max2(b.stack_max_growth, b.stack_change + info.stack_change),
     stack_change      |-> b.stack_change + info.stack_change,
     begin_block_index |-> b.begin_block_index]

\* The block after one more instruction.
AddToBlock(b, info) ==
    LET change == b.stack_change + info.stack_change
    IN  [gas_cost          |-> b.gas_cost + info.gas_cost,
         stack_req         |-> Max2(b.stack_req, info.stack_req - b.stack_change),
         stack_max_growth  |-> Max2(b.stack_max_growth, change),
         stack_change      |-> change,
         begin_block_index |-> b.begin_block_index]

PushSize(op) == IF op \in ANY_PUSH THEN op - OP_PUSH1 + 1 ELSE 0

\* The big-endian value of n bytes from position p, the missing ones zero.
PushValue(c, p, n) ==
    LET byte(k)  == IF p + k <= Len(c) THEN c[p + k] ELSE 0
        v[k \in 0..n] == IF k = 0 THEN 0 ELSE (v[k - 1] * 256 + byte(k)) % WordSize
    IN  v[n]

\* Mutant of Argument: the gas of the block without the instruction itself.
Argument_early(op, p, b) ==
    IF op \in ANY_PUSH THEN PushValue(code, p + 1, PushSize(op))
    ELSE IF op \in CorrectedOps \cup {OP_GAS} THEN b.gas_cost - gas_costs[op]
    ELSE IF op = OP_PC THEN p
    ELSE 0

\* The InstructionArgument the analysis stores for the instruction at p.
Argument(op, p, b) ==
    IF op \in ANY_PUSH THEN PushValue(code, p + 1, PushSize(op))
    ELSE IF op \in CorrectedOps \cup {OP_GAS} THEN b.gas_cost
    ELSE IF op = OP_PC THEN p
    ELSE 0

Instruction(op, arg) == [fn |-> op, arg |-> arg, block |-> BlockInfo_init]
BEGINBLOCK == Instruction(OP_JUMPDEST, 0)

Terminators == {OP_JUMP, OP_JUMPI, OP_STOP, OP_RETURN, OP_REVERT, OP_SELFDESTRUCT}

\* Dump the block into its BEGINBLOCK.
SaveBlock(is, b) == [is EXCEPT ![b.begin_block_index].block = BlockAnalysis_close(b)]

-----------------------------------------------------------------------------
(***************************************************************************)
(* History: for each instruction its BEGINBLOCK, its position in the code, *)
(* the base gas and stack change of the block up to and without it, and    *)
(* whether no undefined opcode precedes it in the block.                   *)
(***************************************************************************)
TraceBegin(i, p) == [begin |-> i, pos |-> p, cost |-> 0, change |-> 0, clean |-> TRUE]

TraceOp(p, b) ==
    LET last == Len(instrs)
    IN  [begin |-> b.begin_block_index, pos |-> p, cost |-> b.gas_cost,
         change |-> b.stack_change,
         clean |-> trace[last].clean /\ instrs[last].fn \notin UndefinedOps]

-----------------------------------------------------------------------------
\* What the uninitialised entries of the opcodes that occur may contain.
Garbages == [{code[i] : i \in 1..Len(code)} \cap UndefinedOps -> Garbage]

AnalysisInit ==
    /\ code \in Codes
    /\ garbage \in Garbages
    /\ phase = "analyze"
    /\ code_pos = 0
    /\ block = BlockAnalysis_init(1)
    /\ instrs = <<BEGINBLOCK>>
    /\ jumpdest_offsets = <<>>
    /\ jumpdest_targets = <<>>
    /\ trace = <<TraceBegin(1, 0)>>

\* Mutant of JumpdestAt: no look-ahead, blocks end at terminators only.
JumpdestAt_never(p) == p < 0

\* A position of code starts a JUMPDEST for the look-ahead of the analysis.
JumpdestAt(p) == p < Len(code) /\ code[p + 1] = OP_JUMPDEST

(***************************************************************************)
(* One iteration of the loop of analyze(): one instruction with its push   *)
(* data, and the start of a new block where the code ends the current one. *)
(***************************************************************************)
AnalyzeOp ==
    /\ phase = "analyze"
    /\ code_pos < Len(code)
    /\ LET op   == code[code_pos + 1]
           b    == AddToBlock(block, OpInfo(op))
           next == Min2(code_pos + 1 + PushSize(op), Len(code))
           is   == IF op = OP_JUMPDEST THEN instrs
                   ELSE Append(instrs, Instruction(op, Argument(op, code_pos, b)))
           tr   == IF op = OP_JUMPDEST THEN trace
                   ELSE Append(trace, TraceOp(code_pos, block))
           ends == op \in Terminators \/ JumpdestAt(next)
       IN  /\ code_pos' = next
           /\ jumpdest_offsets' = IF op = OP_JUMPDEST
                                  THEN Append(jumpdest_offsets, code_pos)
                                  ELSE jumpdest_offsets
           /\ jumpdest_targets' = IF op = OP_JUMPDEST
                                  THEN Append(jumpdest_targets, Len(instrs))
                                  ELSE jumpdest_targets
           /\ IF ends
              THEN /\ instrs' = Append(SaveBlock(is, b), BEGINBLOCK)
                   /\ trace'  = Append(tr, TraceBegin(Len(is) + 1, next))
                   /\ block'  = BlockAnalysis_init(Len(is) + 1)
              ELSE instrs' = is /\ trace' = tr /\ block' = b
    /\ UNCHANGED <<code, garbage, phase>>

\* Mutant of FinishAnalysis: the last block is not terminated.
FinishAnalysis_open ==
    /\ phase = "analyze"
    /\ code_pos = Len(code)
    /\ instrs' = SaveBlock(instrs, block)
    /\ phase'  = "execute"
    /\ UNCHANGED <<code, garbage, code_pos, block, jumpdest_offsets, jumpdest_targets, trace>>

\* After the loop: save the last block and terminate it with STOP.
FinishAnalysis ==
    /\ phase = "analyze"
    /\ code_pos = Len(code)
    /\ instrs' = Append(SaveBlock(instrs, block), Instruction(OP_STOP, 0))
    /\ trace'  = Append(trace, TraceOp(code_pos, block))
    /\ phase'  = "execute"
    /\ UNCHANGED <<code, garbage, code_pos, block, jumpdest_offsets, jumpdest_targets>>

-----------------------------------------------------------------------------
(***************************************************************************)
(* cvec_int32_lower_bound is a binary search; it is what find_jumpdest     *)
(* uses and what makes the order of jumpdest_offsets matter.               *)
(***************************************************************************)
lower_bound(s, raw) ==
    LET ranges == {r \in (0..Len(s)) \X (0..Len(s)) : r[1] <= r[2]}
        search[r \in ranges] ==
            LET mid == r[1] + ((r[2] - r[1]) \div 2)
            IN  IF r[1] = r[2] THEN r[1]
                ELSE IF raw = s[mid + 1] THEN mid
                ELSE IF raw < s[mid + 1] THEN search[<<r[1], mid>>]
                ELSE search[<<mid + 1, r[2]>>]
    IN  search[<<0, Len(s)>>]

\* The index in instrs to jump to, or -1.
find_jumpdest(offset) ==
    LET it == lower_bound(jumpdest_offsets, offset) + 1
    IN  IF it \in DOMAIN jumpdest_offsets /\ jumpdest_offsets[it] = offset
        THEN jumpdest_targets[it]
        ELSE -1
=============================================================================
