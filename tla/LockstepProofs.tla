--------------------------- MODULE LockstepProofs ---------------------------
(***************************************************************************)
(* Proofs about the analysis, the Advanced interpreter and its agreement   *)
(* with the Baseline interpreter, for every code, every gas limit, every   *)
(* outcome of the core implementations and every content of the            *)
(* uninitialised table entries: first what keeps the execution safe, then  *)
(* that the analysis is exact, then the simulation behind the properties   *)
(* of Lockstep.                                                            *)
(***************************************************************************)
EXTENDS Lockstep, WellFoundedInduction, TLAPS


\* What the next turn of the loop of analyze(), or its end, may save of the
\* open block, before the casts of BlockAnalysis_close.
Pending ==
    IF code_pos < Len(code) THEN AddToBlock(block, OpInfo(code[code_pos + 1])) ELSE block

\* The casts lose nothing.  These are conditions on the blocks a code has and
\* not on its length.
StackFits ==
    phase = "analyze" =>
        Pending.stack_req <= INT16_MAX /\ Pending.stack_max_growth <= INT16_MAX
CostFits == phase = "analyze" => Pending.gas_cost <= UINT32_MAX
CastsFit == StackFits /\ CostFits

\* Codes so short that they have no other blocks: 128 is the magnitude of an
\* int8_t, the type of the entries of OpTable, and 32000 the highest base cost.
CodeFits == \A c \in Codes : 128 * Len(c) + 127 <= INT16_MAX
GasFits == \A c \in Codes : 32000 * Len(c) <= UINT32_MAX

-----------------------------------------------------------------------------
(***************************************************************************)
(* The inductive invariant.                                                *)
(***************************************************************************)

\* The instruction table: the first instruction is a BEGINBLOCK, the last one
\* of a finished analysis is STOP, every instruction belongs to a block that
\* a BEGINBLOCK starts, and the prepaid gas of a corrected instruction is a
\* number.
TableInv ==
    /\ Len(instrs) >= 1
    /\ instrs[1].fn = OP_JUMPDEST
    /\ phase # "analyze" => instrs[Len(instrs)].fn = OP_STOP /\ Len(instrs) >= 2
    /\ \A i \in 1..Len(instrs) :
          /\ trace[i].begin \in 1..i
          /\ instrs[trace[i].begin].fn = OP_JUMPDEST
          /\ instrs[i].fn = OP_JUMPDEST <=> trace[i].begin = i
          /\ instrs[i].fn \in CorrectedOps \cup {OP_GAS} => instrs[i].arg \in Nat

\* Where the analysis stands: the open block is the block of the last
\* instruction, a JUMPDEST is only met right after a BEGINBLOCK, and the
\* execution has not started.
OpenInv ==
    phase = "analyze" =>
        /\ block.begin_block_index = trace[Len(instrs)].begin
        /\ JumpdestAt(code_pos) =>
              /\ instrs[Len(instrs)].fn = OP_JUMPDEST
              /\ trace[Len(instrs)].pos = code_pos
        /\ ip = 1 /\ size = 0

\* The open block's numbers: its stack change is the one after the last
\* instruction, and all are bounded by the bytes seen.
BoundInv ==
    phase = "analyze" =>
        /\ (trace[Len(instrs)].clean /\ instrs[Len(instrs)].fn \notin UndefinedOps) =>
              block.stack_change = trace[Len(instrs)].change
                                     + stack_height_change[instrs[Len(instrs)].fn]
        /\ block.stack_change >= -(128 * code_pos)
        /\ block.stack_change <= 128 * code_pos
        /\ block.stack_req <= 128 * code_pos + 127
        /\ block.stack_max_growth <= 128 * code_pos

\* Consecutive instructions of a block: the stack change before the second is
\* the one before the first plus the first's own.
ChainInv ==
    \A i \in 2..Len(instrs) :
        instrs[i].fn # OP_JUMPDEST =>
            /\ trace[i].begin = trace[i-1].begin
            /\ trace[i].clean = (trace[i-1].clean /\ instrs[i-1].fn \notin UndefinedOps)
            /\ trace[i].clean => trace[i].change = trace[i-1].change
                                     + stack_height_change[instrs[i-1].fn]

BeginInv ==
    \A i \in 1..Len(instrs) :
        instrs[i].fn = OP_JUMPDEST => trace[i].clean /\ trace[i].change = 0

\* The numbers that cover an instruction: those of the open block while the
\* analysis is in it, else those saved in its BEGINBLOCK.
StackReq == [b \in 1..Len(instrs) |-> IF phase = "analyze" /\ b = block.begin_block_index
                                      THEN block.stack_req ELSE instrs[b].block.stack_req]
Growth == [b \in 1..Len(instrs) |-> IF phase = "analyze" /\ b = block.begin_block_index
                                    THEN block.stack_max_growth
                                    ELSE instrs[b].block.stack_max_growth]

\* A block's requirements cover each of its instructions.
CoverInv ==
    \A i \in 1..Len(instrs) :
        /\ instrs[i].fn \notin UndefinedOps \cup {OP_JUMPDEST, OP_STOP}
        /\ trace[i].clean
        => /\ StackReq[trace[i].begin] >= stack_height_required[instrs[i].fn] - trace[i].change
           /\ Growth[trace[i].begin] >= trace[i].change + stack_height_change[instrs[i].fn]

\* The execution: the stack fits, and inside a block its height is what the
\* check of the BEGINBLOCK allowed, moved by the block's stack change so far.
ExecInv ==
    phase = "execute" /\ ip # 0 =>
        /\ size \in 0..StackLimit
        /\ instrs[ip].fn # OP_JUMPDEST =>
              /\ trace[ip].clean
              /\ size - trace[ip].change >= instrs[trace[ip].begin].block.stack_req
              /\ size - trace[ip].change + instrs[trace[ip].begin].block.stack_max_growth
                   <= StackLimit

\* The part that needs no assumption on the code, and the whole.
TableOK == TypeOK /\ TableInv /\ JumpTableSound /\ OpenInv
IInv == TableOK /\ BoundInv /\ ChainInv /\ BeginInv /\ CoverInv /\ ExecInv

-----------------------------------------------------------------------------
(***************************************************************************)
(* The tables.                                                             *)
(***************************************************************************)

\* The ranges of the traits, and that no instruction pops more than it
\* requires.
LEMMA TraitsFacts ==
    \A op \in Byte : /\ stack_height_required[op] \in 0..17
                     /\ stack_height_change[op] \in -6..1
                     /\ stack_height_required[op] + stack_height_change[op] >= 0
<1> DEFINE Few == CopyOps \cup PairOps \cup {60, 80, 86, 240, 241, 242, 244, 245, 250, 255}
<1> SUFFICES ASSUME NEW op \in Byte
             PROVE  /\ stack_height_required[op] \in 0..17
                    /\ stack_height_change[op] \in -6..1
                    /\ stack_height_required[op] + stack_height_change[op] >= 0
  OBVIOUS
<1>1. CASE op \in BinaryOps
  <2>1. op \notin TernaryOps \cup UnaryOps \cup DUPs \cup SWAPs \cup LOGs
    BY <1>1 DEF BinaryOps, TernaryOps, UnaryOps, DUPs, SWAPs, LOGs
  <2>2. op \notin Few \cup NullaryOps
    BY <1>1 DEF BinaryOps, CopyOps, PairOps, NullaryOps, ANY_PUSH, ANY_SMALL_PUSH, ANY_LARGE_PUSH
  <2>3. stack_height_required[op] = 2 /\ stack_height_change[op] = -1
    BY <1>1, <2>1, <2>2 DEF stack_height_required, stack_height_change
  <2> QED BY <2>3
<1>2. CASE op \in TernaryOps
  <2>1. op \notin BinaryOps \cup UnaryOps \cup DUPs \cup SWAPs \cup LOGs
    BY <1>2 DEF BinaryOps, TernaryOps, UnaryOps, DUPs, SWAPs, LOGs
  <2>2. op \notin Few \cup NullaryOps
    BY <1>2 DEF TernaryOps, CopyOps, PairOps, NullaryOps, ANY_PUSH, ANY_SMALL_PUSH, ANY_LARGE_PUSH
  <2>3. stack_height_required[op] = 3 /\ stack_height_change[op] = -2
    BY <1>2, <2>1, <2>2 DEF stack_height_required, stack_height_change
  <2> QED BY <2>3
<1>3. CASE op \in Few \cup LOGs
  <2>1. op \notin BinaryOps \cup TernaryOps \cup UnaryOps \cup DUPs \cup SWAPs
    BY <1>3 DEF BinaryOps, TernaryOps, UnaryOps, DUPs, SWAPs, LOGs, CopyOps, PairOps
  <2>2. op \notin NullaryOps
    BY <1>3 DEF NullaryOps, ANY_PUSH, ANY_SMALL_PUSH, ANY_LARGE_PUSH, LOGs, CopyOps, PairOps
  <2>3. CASE op \in Few
    BY <2>1, <2>2, <2>3 DEF stack_height_required, stack_height_change, CopyOps, PairOps, LOGs
  <2>4. CASE op \in LOGs /\ op \notin Few
    <3>1. op \in 160..164
      BY <2>4 DEF LOGs
    <3>2. stack_height_required[op] = op - 158 /\ stack_height_change[op] = 158 - op
      BY <2>1, <2>2, <2>4 DEF stack_height_required, stack_height_change
    <3> QED BY <3>1, <3>2
  <2> QED BY <1>3, <2>3, <2>4
<1>4. CASE op \notin BinaryOps \cup TernaryOps \cup Few \cup LOGs
  <2>1. stack_height_change[op] \in {0, 1}
    BY <1>4 DEF stack_height_change
  <2>2. \/ stack_height_required[op] \in {0, 1}
        \/ op \in DUPs /\ stack_height_required[op] = op - 127
        \/ op \in SWAPs /\ stack_height_required[op] = op - 142
    BY <1>4 DEF stack_height_required
  <2>3. stack_height_required[op] \in 0..17
    BY <2>2 DEF DUPs, SWAPs
  <2> QED BY <2>1, <2>3
<1> QED BY <1>1, <1>2, <1>3, <1>4

LEMMA GasFacts == \A op \in Byte : gas_costs[op] \in Int /\ gas_costs[op] >= -1
<1> SUFFICES ASSUME NEW op \in Byte PROVE gas_costs[op] \in Int /\ gas_costs[op] >= -1
  OBVIOUS
<1>1. op \in LOGs => (op - 159) * 375 \in Int /\ (op - 159) * 375 >= -1
  BY DEF LOGs
<1>2. CASE gas_costs[op] \in {0, 1, 2, 3, 5, 8, 10, 20, 30, 100, 5000, 32000, -1}
  BY <1>2
<1>3. CASE gas_costs[op] = (op - 159) * 375 /\ op \in LOGs
  BY <1>1, <1>3
<1>4. \/ gas_costs[op] \in {0, 1, 2, 3, 5, 8, 10, 20, 30, 100, 5000, 32000, -1}
      \/ gas_costs[op] = (op - 159) * 375 /\ op \in LOGs
  BY Z3 DEF gas_costs, undefined
<1> QED BY <1>2, <1>3, <1>4

\* Opcodes with a meaning of their own are defined ones.
LEMMA DefinedFacts ==
    /\ OP_JUMPDEST \in Byte \ UndefinedOps
    /\ OP_STOP \in Byte \ UndefinedOps
    /\ stack_height_change[OP_JUMPDEST] = 0
    /\ UndefinedOps \subseteq Byte
  BY DEF OP_JUMPDEST, OP_STOP, UndefinedOps, gas_costs, Byte, LOGs, undefined, ANY_PUSH,
         ANY_SMALL_PUSH, ANY_LARGE_PUSH, DUPs, SWAPs, stack_height_change, BinaryOps,
         TernaryOps, NullaryOps, CopyOps, PairOps

LEMMA AppendFacts ==
    ASSUME NEW S, NEW s \in Seq(S), NEW e \in S
    PROVE  /\ Append(s, e) \in Seq(S)
           /\ Len(Append(s, e)) = Len(s) + 1
           /\ \A i \in 1..Len(s) : Append(s, e)[i] = s[i]
           /\ Append(s, e)[Len(s) + 1] = e
  OBVIOUS

\* The dispatch classes: what wraps which opcode, and how far each moves the
\* top.  Opcodes after which the execution continues are not STOP.
LEMMA ClassFacts ==
    /\ PlainOps \cup FallibleOps \cup CorrectedOps \cup ANY_PUSH \cup DUPs \cup SWAPs
         \cup {OP_PC, OP_GAS, OP_JUMP, OP_JUMPI} \subseteq Byte \ {OP_STOP, OP_JUMPDEST}
    /\ OP_SSTORE \in CorrectedOps /\ CallOps \subseteq CorrectedOps
    /\ (CorrectedOps \cup {OP_GAS}) \cap ANY_PUSH = {}
    /\ StopOps \subseteq Byte \ {OP_STOP, OP_JUMPDEST}
    /\ {OP_INVALID, OP_SELFDESTRUCT} \subseteq Byte \ {OP_STOP, OP_JUMPDEST}
  BY DEF PlainOps, FallibleOps, CorrectedOps, CallOps, StopOps, OP_SSTORE, OP_RETURN, OP_REVERT,
         OP_INVALID, OP_SELFDESTRUCT, OP_STOP, OP_JUMPDEST, OP_PC, OP_GAS, OP_JUMP, OP_JUMPI,
         LOGs, ANY_PUSH, ANY_SMALL_PUSH, ANY_LARGE_PUSH, DUPs, SWAPs, Byte

-----------------------------------------------------------------------------
(***************************************************************************)
(* One step of the analysis.                                               *)
(***************************************************************************)

LEMMA OpInfoFacts ==
    ASSUME TypeOK, code_pos < Len(code)
    PROVE  /\ code \in Seq(Byte)
           /\ code[code_pos + 1] \in Byte
           /\ OpInfo(code[code_pos + 1]).gas_cost \in Nat
           /\ OpInfo(code[code_pos + 1]).stack_req \in -128..127
           /\ OpInfo(code[code_pos + 1]).stack_change \in -128..127
           /\ PushSize(code[code_pos + 1]) \in 0..32
<1> DEFINE op == code[code_pos + 1]
<1>1. code \in Seq(Byte) /\ op \in Byte
  <2>1. code \in Codes /\ code_pos \in 0..Len(code)
    BY DEF TypeOK
  <2>2. code \in Seq(Byte)
    BY <2>1, CodesAssumption
  <2>3. code_pos + 1 \in 1..Len(code)
    BY <2>1, <2>2
  <2> QED BY <2>2, <2>3
<1>2. PushSize(op) \in 0..32
  <2>1. \A x \in Byte : PushSize(x) \in 0..32
    BY SMTT(60) DEF PushSize, ANY_PUSH, ANY_SMALL_PUSH, ANY_LARGE_PUSH, OP_PUSH1, Byte
  <2> QED BY <1>1, <2>1
<1>3. CASE op \notin UndefinedOps
  <2>1. gas_costs[op] \in Nat
    <3> HIDE DEF op
    <3>1. gas_costs[op] # undefined
      BY <1>1, <1>3 DEF UndefinedOps
    <3>2. gas_costs[op] \in Int /\ gas_costs[op] >= -1
      BY <1>1, GasFacts
    <3> QED BY ONLY <3>1, <3>2 DEF undefined
  <2>2. /\ OpInfo(op).gas_cost = gas_costs[op]
        /\ OpInfo(op).stack_req = stack_height_required[op]
        /\ OpInfo(op).stack_change = stack_height_change[op]
    BY <1>3 DEF OpInfo
  <2>3. stack_height_required[op] \in 0..17 /\ stack_height_change[op] \in -6..1
    BY <1>1, TraitsFacts, Zenon
  <2>4. stack_height_required[op] \in -128..127 /\ stack_height_change[op] \in -128..127
    BY ONLY <2>3
  <2> QED BY <1>1, <1>2, <2>1, <2>2, <2>4, Zenon
<1>4. CASE op \in UndefinedOps
  <2>1. code_pos + 1 \in 1..Len(code)
    BY DEF TypeOK
  <2>2. garbage[op] \in Garbage
    BY <1>4, <2>1 DEF TypeOK, Garbages
  <2>3. garbage[op].stack_req \in -128..127 /\ garbage[op].stack_change \in -128..127
    BY <2>2, GarbageAssumption
  <2>4. CASE op = 247
    BY <1>1, <1>2, <1>4, <2>4 DEF OpInfo
  <2>5. CASE op # 247
    <3>1. OpInfo(op) = [gas_cost |-> 0, stack_req |-> garbage[op].stack_req,
                       stack_change |-> garbage[op].stack_change]
      BY <1>4, <2>5 DEF OpInfo
    <3>2. /\ OpInfo(op).gas_cost = 0
          /\ OpInfo(op).stack_req = garbage[op].stack_req
          /\ OpInfo(op).stack_change = garbage[op].stack_change
      BY <3>1
    <3>3. 0 \in Nat
      OBVIOUS
    <3> QED BY <1>1, <1>2, <2>3, <3>2, <3>3, Zenon
  <2> QED BY <2>4, <2>5
<1> QED BY <1>3, <1>4

LEMMA AddToBlockFacts ==
    ASSUME NEW I, NEW b \in [gas_cost : Nat, stack_req : Nat, stack_max_growth : Nat,
                             stack_change : Int, begin_block_index : I],
           NEW info, info.gas_cost \in Nat, info.stack_req \in Int, info.stack_change \in Int
    PROVE  LET c == AddToBlock(b, info)
           IN  /\ c \in [gas_cost : Nat, stack_req : Nat, stack_max_growth : Nat,
                         stack_change : Int, begin_block_index : I]
               /\ c.begin_block_index = b.begin_block_index
               /\ c.gas_cost = b.gas_cost + info.gas_cost
               /\ c.stack_change = b.stack_change + info.stack_change
               /\ c.stack_req >= b.stack_req /\ c.stack_req >= info.stack_req - b.stack_change
               /\ c.stack_req \in {b.stack_req, info.stack_req - b.stack_change}
               /\ c.stack_max_growth >= b.stack_max_growth
               /\ c.stack_max_growth >= c.stack_change
               /\ c.stack_max_growth \in {b.stack_max_growth, c.stack_change}
  BY DEF AddToBlock, Max2

\* The casts of BlockAnalysis_close yield numbers, and the number itself when
\* it fits.
LEMMA CloseFacts ==
    ASSUME NEW I, NEW b \in [gas_cost : Nat, stack_req : Nat, stack_max_growth : Nat,
                             stack_change : Int, begin_block_index : I]
    PROVE  /\ BlockAnalysis_close(b) \in BlockInfo
           /\ b.stack_req <= INT16_MAX => BlockAnalysis_close(b).stack_req = b.stack_req
           /\ b.stack_max_growth <= INT16_MAX =>
                BlockAnalysis_close(b).stack_max_growth = b.stack_max_growth
<1> DEFINE M == INT16_MAX + 1
<1>1. M \in Nat /\ M > 0 /\ UINT32_MAX + 1 \in Nat /\ UINT32_MAX + 1 > 0
  BY WidthAssumption
<1>2. \A x \in Int : Int16(x) \in Int /\ (x \in 0..INT16_MAX => Int16(x) = x)
  BY <1>1, WidthAssumption DEF Int16
<1>3. \A x \in Int : Uint32(x) \in Int
  BY <1>1, WidthAssumption DEF Uint32
<1> QED BY <1>2, <1>3, WidthAssumption DEF BlockAnalysis_close, BlockInfo

Records == [fn : Byte, arg : Args, block : BlockInfo]
TraceRecords == [begin : Nat, pos : Nat, cost : Nat, change : Int, clean : BOOLEAN]

\* Dumping a block changes the block field of its BEGINBLOCK and nothing else.
LEMMA SaveBlockFacts ==
    ASSUME NEW is \in Seq(Records),
           NEW b, b.begin_block_index \in 1..Len(is), BlockAnalysis_close(b) \in BlockInfo
    PROVE  /\ SaveBlock(is, b) \in Seq(Records)
           /\ Len(SaveBlock(is, b)) = Len(is)
           /\ \A i \in 1..Len(is) :
                 /\ SaveBlock(is, b)[i].fn = is[i].fn
                 /\ SaveBlock(is, b)[i].arg = is[i].arg
                 /\ i # b.begin_block_index => SaveBlock(is, b)[i].block = is[i].block
           /\ SaveBlock(is, b)[b.begin_block_index].block = BlockAnalysis_close(b)
<1> DEFINE k == b.begin_block_index
           X == BlockAnalysis_close(b)
           new == [is[k] EXCEPT !.block = X]
<1>1. SaveBlock(is, b) = [is EXCEPT ![k] = new]
  BY DEF SaveBlock
<1>2. is[k] \in Records
  OBVIOUS
<1>3. new \in Records /\ new.fn = is[k].fn /\ new.arg = is[k].arg /\ new.block = X
  BY <1>2 DEF Records
<1> HIDE DEF new, X
<1>4. [is EXCEPT ![k] = new] \in Seq(Records)
  BY <1>3
<1> QED BY <1>1, <1>3, <1>4 DEF X

\* What one turn of the loop of analyze() looks at.
Op      == code[code_pos + 1]
NewB    == AddToBlock(block, OpInfo(Op))
NextPos == Min2(code_pos + 1 + PushSize(Op), Len(code))
Ends    == Op \in Terminators \/ JumpdestAt(NextPos)
Top     == IF Op = OP_JUMPDEST THEN Len(instrs) ELSE Len(instrs) + 1
NewArg  == Argument(Op, code_pos, NewB)

\* One turn of the loop, instruction by instruction.
LEMMA AnalyzeOpFacts ==
    ASSUME TypeOK, TableInv, AnalyzeOp
    PROVE  /\ code_pos' = NextPos /\ NextPos \in (code_pos + 1)..Len(code)
           /\ phase = "analyze" /\ phase' = "analyze" /\ code' = code /\ garbage' = garbage
           /\ instrs' \in Seq(Records)
           /\ Len(instrs') = (IF Ends THEN Top + 1 ELSE Top)
           /\ \A i \in 1..Len(instrs) :
                 /\ instrs'[i].fn = instrs[i].fn /\ instrs'[i].arg = instrs[i].arg
                 /\ i # block.begin_block_index => instrs'[i].block = instrs[i].block
           /\ Op # OP_JUMPDEST => instrs'[Top].fn = Op /\ instrs'[Top].arg = NewArg
           /\ Ends => /\ instrs'[Top + 1] = BEGINBLOCK
                      /\ instrs'[block.begin_block_index].block = BlockAnalysis_close(NewB)
                      /\ block' = BlockAnalysis_init(Top + 1)
           /\ ~Ends => block' = NewB
<1> DEFINE is == IF Op = OP_JUMPDEST THEN instrs ELSE Append(instrs, Instruction(Op, NewArg))
<1>0. /\ code_pos < Len(code) /\ code \in Seq(Byte) /\ Op \in Byte
      /\ OpInfo(Op).gas_cost \in Nat
      /\ OpInfo(Op).stack_req \in Int /\ OpInfo(Op).stack_change \in Int
      /\ PushSize(Op) \in Nat /\ code_pos \in Nat /\ Len(code) \in Nat
  <2>1. code_pos < Len(code)
    BY DEF AnalyzeOp
  <2>2. code_pos \in Nat
    BY DEF TypeOK
  <2>3. /\ code \in Seq(Byte) /\ Op \in Byte
        /\ OpInfo(Op).gas_cost \in Nat
        /\ OpInfo(Op).stack_req \in -128..127 /\ OpInfo(Op).stack_change \in -128..127
        /\ PushSize(Op) \in 0..32
    BY <2>1, OpInfoFacts DEF Op
  <2>4. \A x : (x \in -128..127 => x \in Int) /\ (x \in 0..32 => x \in Nat)
    OBVIOUS
  <2>5. Len(code) \in Nat
    BY <2>3
  <2> QED BY <2>1, <2>2, <2>3, <2>4, <2>5, Zenon
<1>1. NextPos \in (code_pos + 1)..Len(code)
  BY <1>0 DEF NextPos, Min2
<1>2. NewB \in [gas_cost : Nat, stack_req : Nat, stack_max_growth : Nat,
                stack_change : Int, begin_block_index : 1..Len(instrs)]
      /\ NewB.begin_block_index = block.begin_block_index
  <2>1. block \in [gas_cost : Nat, stack_req : Nat, stack_max_growth : Nat,
                   stack_change : Int, begin_block_index : 1..Len(instrs)]
    BY DEF TypeOK
  <2>2. /\ OpInfo(Op).gas_cost \in Nat
        /\ OpInfo(Op).stack_req \in Int /\ OpInfo(Op).stack_change \in Int
    BY <1>0
  <2> QED BY <2>1, <2>2, AddToBlockFacts, SMTT(30) DEF NewB
<1>3. BlockAnalysis_close(NewB) \in BlockInfo
  BY <1>2, CloseFacts
<1>4. BlockInfo_init \in BlockInfo /\ 0 \in Args
  BY DEF BlockInfo_init, BlockInfo, Args
<1>5. NewArg \in Args
  <2>1. NewB.gas_cost \in Args /\ code_pos \in Args
    BY <1>0, <1>2 DEF Args
  <2>2. Op \in ANY_PUSH => PushValue(code, code_pos + 1, PushSize(Op)) \in Args
    <3>1. code_pos + 1 \in 1..Len(code)
      BY <1>0
    <3> QED BY <3>1 DEF Args, Op
  <2> QED BY <1>4, <2>1, <2>2 DEF NewArg, Argument
<1>6. Instruction(Op, NewArg) \in Records /\ BEGINBLOCK \in Records
      /\ Instruction(Op, NewArg).fn = Op /\ Instruction(Op, NewArg).arg = NewArg
  BY <1>0, <1>4, <1>5, DefinedFacts DEF Records, Instruction, BEGINBLOCK
<1>7. instrs \in Seq(Records) /\ Len(instrs) \in Nat
  BY DEF TypeOK, Records
<1>8. /\ is \in Seq(Records) /\ Len(is) = Top
      /\ \A i \in 1..Len(instrs) : is[i] = instrs[i]
      /\ Op # OP_JUMPDEST => is[Top].fn = Op /\ is[Top].arg = NewArg
  <2>1. CASE Op = OP_JUMPDEST
    BY <1>7, <2>1 DEF Top
  <2>2. CASE Op # OP_JUMPDEST
    <3> DEFINE e == Instruction(Op, NewArg)
    <3>1. e \in Records /\ e.fn = Op /\ e.arg = NewArg
      BY <1>6
    <3> HIDE DEF e
    <3>2. is = Append(instrs, e)
      BY <2>2 DEF e
    <3> HIDE DEF is
    <3> QED BY <1>7, <3>1, <3>2, <2>2, AppendFacts DEF Top
  <2> QED BY <2>1, <2>2
<1>9. Top \in Nat /\ Len(instrs) <= Top
  BY <1>7 DEF Top
<1>10. code_pos' = NextPos /\ phase = "analyze" /\ phase' = "analyze" /\ code' = code
       /\ garbage' = garbage
  BY DEF AnalyzeOp, NextPos, Op
<1>11. CASE Ends
  <2> DEFINE sv == SaveBlock(is, NewB)
  <2>1. instrs' = Append(sv, BEGINBLOCK) /\ block' = BlockAnalysis_init(Len(is) + 1)
    BY <1>11 DEF AnalyzeOp, Ends, NextPos, NewB, Op, NewArg
  <2> HIDE DEF is
  <2>2. NewB.begin_block_index \in 1..Len(is) /\ NewB.begin_block_index \in 1..Len(instrs)
    BY <1>2, <1>7, <1>8, <1>9
  <2>4. /\ sv \in Seq(Records) /\ Len(sv) = Top
        /\ \A i \in 1..Len(is) : /\ sv[i].fn = is[i].fn /\ sv[i].arg = is[i].arg
                                 /\ i # block.begin_block_index => sv[i].block = is[i].block
        /\ sv[block.begin_block_index].block = BlockAnalysis_close(NewB)
    <3>1. /\ sv \in Seq(Records) /\ Len(sv) = Len(is)
          /\ \A i \in 1..Len(is) :
                /\ sv[i].fn = is[i].fn /\ sv[i].arg = is[i].arg
                /\ i # NewB.begin_block_index => sv[i].block = is[i].block
          /\ sv[NewB.begin_block_index].block = BlockAnalysis_close(NewB)
      BY <1>3, <1>8, <2>2, SaveBlockFacts
    <3> HIDE DEF sv
    <3> QED BY <1>2, <1>8, <3>1
  <2> HIDE DEF sv
  <2>5. /\ instrs' \in Seq(Records) /\ Len(instrs') = Top + 1
        /\ \A i \in 1..Top : instrs'[i] = sv[i]
        /\ instrs'[Top + 1] = BEGINBLOCK
    BY <1>6, <2>1, <2>4, AppendFacts
  <2>6. \A i \in 1..Len(instrs) :
           /\ instrs'[i].fn = instrs[i].fn /\ instrs'[i].arg = instrs[i].arg
           /\ i # block.begin_block_index => instrs'[i].block = instrs[i].block
    BY <1>7, <1>8, <1>9, <2>4, <2>5
  <2>7. Op # OP_JUMPDEST => instrs'[Top].fn = Op /\ instrs'[Top].arg = NewArg
    BY <1>7, <1>8, <1>9, <2>4, <2>5 DEF Top
  <2>8. instrs'[block.begin_block_index].block = BlockAnalysis_close(NewB)
    BY <1>2, <1>8, <2>2, <2>4, <2>5
  <2> QED BY <1>1, <1>8, <1>10, <1>11, <2>1, <2>5, <2>6, <2>7, <2>8
<1>12. CASE ~Ends
  <2>1. instrs' = is /\ block' = NewB
    BY <1>12 DEF AnalyzeOp, Ends, NextPos, NewB, Op, NewArg
  <2> HIDE DEF is
  <2> QED BY <1>1, <1>8, <1>10, <1>12, <2>1
<1> QED BY <1>11, <1>12

\* The history of one turn of the loop.
LEMMA AnalyzeOpTrace ==
    ASSUME TypeOK, TableInv, AnalyzeOp
    PROVE  /\ trace' \in Seq(TraceRecords)
           /\ Len(trace') = Len(instrs')
           /\ \A i \in 1..Len(instrs) : trace'[i] = trace[i]
           /\ Op # OP_JUMPDEST => trace'[Top] = TraceOp(code_pos, block)
           /\ Ends => trace'[Top + 1] = TraceBegin(Top + 1, NextPos)
<1> DEFINE te == TraceOp(code_pos, block)
           tr == IF Op = OP_JUMPDEST THEN trace ELSE Append(trace, te)
           is == IF Op = OP_JUMPDEST THEN instrs ELSE Append(instrs, Instruction(Op, NewArg))
           tb == TraceBegin(Top + 1, NextPos)
<1>1. trace \in Seq(TraceRecords) /\ Len(trace) = Len(instrs) /\ Len(instrs) \in Nat
      /\ instrs \in Seq(Records)
  BY DEF TypeOK, TraceRecords, Records
<1>2. te \in TraceRecords
  <2>1. block.begin_block_index \in Nat /\ block.gas_cost \in Nat /\ block.stack_change \in Int
    BY DEF TypeOK
  <2>2. code_pos \in Nat
    BY DEF TypeOK
  <2>3. (trace[Len(instrs)].clean /\ instrs[Len(instrs)].fn \notin UndefinedOps) \in BOOLEAN
    OBVIOUS
  <2> QED BY <2>1, <2>2, <2>3 DEF TraceOp, TraceRecords
<1>3. NextPos \in Nat /\ Top \in Nat /\ Len(instrs') = (IF Ends THEN Top + 1 ELSE Top)
  <2>1. code_pos \in Nat
    BY DEF TypeOK
  <2>2. NextPos \in (code_pos + 1)..Len(code)
    BY AnalyzeOpFacts
  <2>3. Len(code) \in Nat
    BY CodesAssumption DEF TypeOK
  <2> QED BY <1>1, <2>1, <2>2, <2>3, AnalyzeOpFacts DEF Top
<1>4. tb \in TraceRecords
  BY <1>3 DEF TraceBegin, TraceRecords
<1>5. Len(is) = Top
  <2> DEFINE e == Instruction(Op, NewArg)
  <2>1. Len(Append(instrs, e)) = Len(instrs) + 1
    BY <1>1
  <2> QED BY <2>1 DEF Top
<1>6. \/ Ends /\ trace' = Append(tr, TraceBegin(Len(is) + 1, NextPos))
      \/ ~Ends /\ trace' = tr
  BY DEF AnalyzeOp, Ends, NextPos, NewB, Op, NewArg
<1>7. (Ends /\ trace' = Append(tr, tb)) \/ (~Ends /\ trace' = tr)
  BY <1>5, <1>6
<1> HIDE DEF te, tb, is
<1>8. /\ tr \in Seq(TraceRecords) /\ Len(tr) = Top
      /\ \A i \in 1..Len(instrs) : tr[i] = trace[i]
      /\ Op # OP_JUMPDEST => tr[Top] = te
  BY <1>1, <1>2, AppendFacts DEF Top
<1> HIDE DEF tr
<1>9. CASE Ends
  <2>1. /\ trace' \in Seq(TraceRecords) /\ Len(trace') = Top + 1
        /\ \A i \in 1..Top : trace'[i] = tr[i]
        /\ trace'[Top + 1] = tb
    BY <1>4, <1>7, <1>8, <1>9, AppendFacts
  <2>2. \A i \in 1..Len(instrs) : i \in 1..Top
    BY <1>1 DEF Top
  <2>3. Op # OP_JUMPDEST => Top \in 1..Top
    BY <1>1 DEF Top
  <2> QED BY <1>3, <1>8, <1>9, <2>1, <2>2, <2>3 DEF te, tb
<1>10. CASE ~Ends
  BY <1>3, <1>7, <1>8, <1>10 DEF te
<1> QED BY <1>9, <1>10

\* The instructions after one turn: the old ones, the new one, the next block.
LEMMA AnalyzeOpCases ==
    ASSUME TypeOK, TableInv, AnalyzeOp
    PROVE  /\ Len(instrs) \in Nat /\ Top \in Nat /\ Len(instrs') \in Nat
           /\ Len(instrs) <= Top /\ Top <= Len(instrs') /\ Len(instrs) >= 1
           /\ Op # OP_JUMPDEST => Top = Len(instrs) + 1
           /\ Op = OP_JUMPDEST => Top = Len(instrs)
           /\ \A i \in 1..Len(instrs') : \/ i \in 1..Len(instrs)
                                         \/ i = Top /\ Op # OP_JUMPDEST /\ i = Len(instrs) + 1
                                         \/ i = Top + 1 /\ Ends
<1>1. Len(instrs) \in Nat /\ Len(instrs) >= 1
  BY DEF TypeOK, TableInv
<1>2. Len(instrs') = (IF Ends THEN Top + 1 ELSE Top)
  BY AnalyzeOpFacts
<1>3. Top \in Nat /\ Len(instrs) <= Top /\ (Op # OP_JUMPDEST => Top = Len(instrs) + 1)
      /\ (Op = OP_JUMPDEST => Top = Len(instrs))
  BY <1>1 DEF Top
<1> QED BY <1>1, <1>2, <1>3

LEMMA AnalyzeOpTypes ==
    ASSUME TableOK, AnalyzeOp, UNCHANGED stateVars
    PROVE  TypeOK'
<1> USE DEF TableOK
<1>1. code_pos' \in 0..Len(code') /\ code' \in Codes /\ code' = code
  <2>1. code_pos \in Nat /\ Len(code) \in Nat /\ code \in Codes
    BY CodesAssumption DEF TypeOK
  <2>2. code_pos' = NextPos /\ NextPos \in (code_pos + 1)..Len(code) /\ code' = code
    BY AnalyzeOpFacts
  <2> QED BY <2>1, <2>2
<1>2. garbage' \in Garbages'
  <2>1. garbage' = garbage /\ garbage \in Garbages
    BY AnalyzeOpFacts DEF TypeOK
  <2>2. Garbages' = Garbages
    BY <1>1 DEF Garbages
  <2> QED BY <2>1, <2>2
<1>3. phase' \in {"analyze", "execute", "done"}
  BY AnalyzeOpFacts
<1>4. instrs' \in Seq([fn : Byte, arg : Args', block : BlockInfo])
  <2>1. Args' = Args
    BY <1>1 DEF Args
  <2> QED BY <2>1, AnalyzeOpFacts DEF Records
<1>5. trace' \in Seq([begin : Nat, pos : Nat, cost : Nat, change : Int, clean : BOOLEAN])
      /\ Len(trace') = Len(instrs')
  BY AnalyzeOpTrace DEF TraceRecords
<1>6. block' \in [gas_cost : Nat, stack_req : Nat, stack_max_growth : Nat,
                  stack_change : Int, begin_block_index : 1..Len(instrs')]
  <2>1. CASE Ends
    <3>1. Top + 1 \in 1..Len(instrs')
      BY <2>1, AnalyzeOpFacts, AnalyzeOpCases
    <3> QED BY <2>1, <3>1, AnalyzeOpFacts DEF BlockAnalysis_init
  <2>2. CASE ~Ends
    <3>1. block' = NewB
      BY <2>2, AnalyzeOpFacts
    <3>2. /\ OpInfo(Op).gas_cost \in Nat
          /\ OpInfo(Op).stack_req \in -128..127
          /\ OpInfo(Op).stack_change \in -128..127
      BY OpInfoFacts DEF Op, AnalyzeOp
    <3>3. OpInfo(Op).stack_req \in Int /\ OpInfo(Op).stack_change \in Int
      BY <3>2
    <3>4. block \in [gas_cost : Nat, stack_req : Nat, stack_max_growth : Nat,
                     stack_change : Int, begin_block_index : 1..Len(instrs)]
      BY DEF TypeOK
    <3>5. NewB \in [gas_cost : Nat, stack_req : Nat, stack_max_growth : Nat,
                    stack_change : Int, begin_block_index : 1..Len(instrs)]
      BY <3>2, <3>3, <3>4, AddToBlockFacts DEF NewB
    <3>6. 1..Len(instrs) \subseteq 1..Len(instrs')
      BY AnalyzeOpCases
    <3> QED BY <3>1, <3>5, <3>6
  <2> QED BY <2>1, <2>2
<1>7. jumpdest_offsets' \in Seq(Nat) /\ jumpdest_targets' \in Seq(Nat)
  <2>1. code_pos \in Nat /\ Len(instrs) \in Nat
    BY DEF TypeOK
  <2> QED BY <2>1 DEF AnalyzeOp, TypeOK
<1>8. ip' \in 0..Len(instrs')
  <2>1. ip' = ip /\ ip \in 0..Len(instrs)
    BY DEF stateVars, TypeOK
  <2> QED BY <2>1, AnalyzeOpCases
<1>9. /\ size' \in Int
      /\ gas_left' \in Int /\ current_block_cost' \in Int
      /\ status' \in Statuses /\ exit_code' \in Statuses \cup {"NONE"}
      /\ result' \in [status : Statuses \cup {"NONE"}, gas_left : Int]
  BY DEF stateVars, TypeOK
<1> QED BY <1>1, <1>2, <1>3, <1>4, <1>5, <1>6, <1>7, <1>8, <1>9 DEF TypeOK, Statuses

LEMMA AnalyzeOpTable ==
    ASSUME TableOK, AnalyzeOp, UNCHANGED stateVars
    PROVE  TableInv'
<1> USE DEF TableOK
<1>1. Len(instrs') >= 1 /\ instrs'[1].fn = OP_JUMPDEST
  <2>1. /\ Len(instrs) \in Nat /\ Top \in Nat /\ Len(instrs') \in Nat
        /\ Len(instrs) <= Top /\ Top <= Len(instrs') /\ Len(instrs) >= 1
    BY AnalyzeOpCases
  <2>2. \A i \in 1..Len(instrs) : instrs'[i].fn = instrs[i].fn
    BY AnalyzeOpFacts
  <2>3. instrs[1].fn = OP_JUMPDEST
    BY DEF TableInv
  <2> QED BY <2>1, <2>2, <2>3
<1>2. phase' = "analyze"
  BY AnalyzeOpFacts
<1>3. ASSUME NEW i \in 1..Len(instrs')
      PROVE  /\ trace'[i].begin \in 1..i
             /\ instrs'[trace'[i].begin].fn = OP_JUMPDEST
             /\ instrs'[i].fn = OP_JUMPDEST <=> trace'[i].begin = i
             /\ instrs'[i].fn \in CorrectedOps \cup {OP_GAS} => instrs'[i].arg \in Nat
  <2>1. CASE i \in 1..Len(instrs)
    <3>1. /\ trace'[i].begin = trace[i].begin /\ instrs'[i].fn = instrs[i].fn
          /\ instrs'[i].arg = instrs[i].arg
      BY <2>1, AnalyzeOpFacts, AnalyzeOpTrace
    <3>2. trace[i].begin \in 1..Len(instrs)
      BY <2>1, AnalyzeOpCases DEF TableInv
    <3>3. instrs'[trace[i].begin].fn = instrs[trace[i].begin].fn
      BY <3>2, AnalyzeOpFacts
    <3> QED BY <2>1, <3>1, <3>2, <3>3 DEF TableInv
  <2>2. CASE i = Top /\ Op # OP_JUMPDEST /\ i = Len(instrs) + 1
    <3>1. trace'[i].begin = block.begin_block_index
      BY <2>2, AnalyzeOpTrace DEF TraceOp
    <3>2. Len(instrs) \in 1..Len(instrs)
      BY AnalyzeOpCases
    <3>3. block.begin_block_index = trace[Len(instrs)].begin /\ phase = "analyze"
      BY AnalyzeOpFacts DEF OpenInv
    <3>4. /\ trace[Len(instrs)].begin \in 1..Len(instrs)
          /\ instrs[trace[Len(instrs)].begin].fn = OP_JUMPDEST
      BY <3>2 DEF TableInv
    <3>5. instrs'[trace'[i].begin].fn = OP_JUMPDEST
      BY <3>1, <3>3, <3>4, AnalyzeOpFacts
    <3>6. instrs'[i].fn = Op /\ instrs'[i].arg = NewArg
      BY <2>2, AnalyzeOpFacts
    <3>7. Op \in CorrectedOps \cup {OP_GAS} => NewArg \in Nat
      <4>1. NewB.gas_cost \in Nat
        <5>1. OpInfo(Op).gas_cost \in Nat
          BY OpInfoFacts DEF Op, AnalyzeOp
        <5>2. block.gas_cost \in Nat
          BY DEF TypeOK
        <5> QED BY <5>1, <5>2 DEF NewB, AddToBlock
      <4> QED BY <4>1, ClassFacts DEF NewArg, Argument
    <3>8. trace'[i].begin \in 1..i /\ trace'[i].begin # i
      BY <2>2, <3>1, <3>2, <3>3, <3>4
    <3> QED BY <2>2, <3>5, <3>6, <3>7, <3>8
  <2>3. CASE i = Top + 1 /\ Ends
    <3>1. instrs'[i] = BEGINBLOCK /\ trace'[i] = TraceBegin(i, NextPos)
      BY <2>3, AnalyzeOpFacts, AnalyzeOpTrace
    <3>2. OP_JUMPDEST \notin CorrectedOps \cup {OP_GAS}
      BY ClassFacts
    <3>3. instrs'[i].fn = OP_JUMPDEST /\ trace'[i].begin = i
      BY <3>1 DEF BEGINBLOCK, Instruction, TraceBegin
    <3> QED BY <3>2, <3>3
  <2> QED BY <2>1, <2>2, <2>3, AnalyzeOpCases
<1> QED BY <1>1, <1>2, <1>3 DEF TableInv

LEMMA AnalyzeOpJumps ==
    ASSUME TableOK, AnalyzeOp, UNCHANGED stateVars
    PROVE  JumpTableSound'
<1> USE DEF TableOK
<1> DEFINE Sound(i) == /\ jumpdest_offsets'[i] < code_pos'
                       /\ code'[jumpdest_offsets'[i] + 1] = OP_JUMPDEST
                       /\ jumpdest_targets'[i] \in 1..Len(instrs')
                       /\ instrs'[jumpdest_targets'[i]].fn = OP_JUMPDEST
                       /\ trace'[jumpdest_targets'[i]].pos = jumpdest_offsets'[i]
<1>0. /\ code_pos \in Nat /\ code_pos' \in Nat /\ code_pos < code_pos' /\ code' = code
      /\ Len(instrs) \in Nat /\ Len(instrs) >= 1 /\ Len(instrs) <= Len(instrs')
      /\ Len(instrs') \in Nat /\ phase = "analyze"
  <2>1. code_pos \in Nat /\ Len(code) \in Nat
    BY CodesAssumption DEF TypeOK
  <2>2. code_pos' = NextPos /\ NextPos \in (code_pos + 1)..Len(code) /\ code' = code
        /\ phase = "analyze"
    BY AnalyzeOpFacts
  <2> QED BY <2>1, <2>2, AnalyzeOpCases
<1>1. jumpdest_offsets \in Seq(Nat) /\ jumpdest_targets \in Seq(Nat)
  BY DEF TypeOK
<1>2. Len(jumpdest_targets) = Len(jumpdest_offsets)
  BY DEF JumpTableSound
<1>3. ASSUME NEW i \in 1..Len(jumpdest_offsets), jumpdest_offsets'[i] = jumpdest_offsets[i],
             jumpdest_targets'[i] = jumpdest_targets[i]
      PROVE  Sound(i)
  <2> DEFINE o == jumpdest_offsets[i]
             t == jumpdest_targets[i]
  <2>1. /\ o < code_pos /\ code[o + 1] = OP_JUMPDEST /\ t \in 1..Len(instrs)
        /\ instrs[t].fn = OP_JUMPDEST /\ trace[t].pos = o
    BY DEF JumpTableSound
  <2>2. o \in Nat
    BY <1>1
  <2>3. instrs'[t].fn = instrs[t].fn /\ trace'[t] = trace[t]
    BY <2>1, AnalyzeOpFacts, AnalyzeOpTrace
  <2> QED BY <1>0, <1>3, <2>1, <2>2, <2>3
<1>4. CASE Op = OP_JUMPDEST
  <2>1. /\ jumpdest_offsets' = Append(jumpdest_offsets, code_pos)
        /\ jumpdest_targets' = Append(jumpdest_targets, Len(instrs))
    BY <1>4 DEF AnalyzeOp, Op
  <2>2. JumpdestAt(code_pos)
    BY <1>4 DEF JumpdestAt, Op, AnalyzeOp
  <2>3. instrs[Len(instrs)].fn = OP_JUMPDEST /\ trace[Len(instrs)].pos = code_pos
    BY <1>0, <2>2 DEF OpenInv
  <2> DEFINE n == Len(jumpdest_offsets)
  <2>4. /\ Len(jumpdest_offsets') = n + 1 /\ Len(jumpdest_targets') = n + 1
        /\ jumpdest_offsets'[n + 1] = code_pos /\ jumpdest_targets'[n + 1] = Len(instrs)
        /\ \A i \in 1..n : jumpdest_offsets'[i] = jumpdest_offsets[i]
        /\ \A i \in 1..n : jumpdest_targets'[i] = jumpdest_targets[i]
        /\ n \in Nat
    BY <1>0, <1>1, <1>2, <2>1
  <2>5. \A i \in 1..Len(jumpdest_offsets') : Sound(i)
    <3>1. \A i \in 1..n : Sound(i)
      BY <1>3, <2>4
    <3>2. Len(instrs) \in 1..Len(instrs)
      BY <1>0
    <3>3. instrs'[Len(instrs)].fn = OP_JUMPDEST /\ trace'[Len(instrs)].pos = code_pos
      BY <2>3, <3>2, AnalyzeOpFacts, AnalyzeOpTrace
    <3>4. code[code_pos + 1] = OP_JUMPDEST
      BY <1>4 DEF Op
    <3>5. Sound(n + 1)
      BY <1>0, <2>4, <3>3, <3>4
    <3>6. \A i \in 1..(n + 1) : i \in 1..n \/ i = n + 1
      BY <2>4
    <3> HIDE DEF Sound
    <3> QED BY <2>4, <3>1, <3>5, <3>6
  <2>6. ASSUME NEW i \in 1..Len(jumpdest_offsets'), NEW j \in 1..Len(jumpdest_offsets'), i < j
        PROVE  jumpdest_offsets'[i] < jumpdest_offsets'[j]
    <3>1. i \in 1..n
      BY <2>4, <2>6
    <3>2. jumpdest_offsets[i] < code_pos
      BY <3>1 DEF JumpTableSound
    <3>3. CASE j = n + 1
      BY <2>4, <3>1, <3>2, <3>3
    <3>4. CASE j \in 1..n
      BY <2>4, <2>6, <3>1, <3>4 DEF JumpTableSound
    <3> QED BY <2>4, <3>3, <3>4
  <2> QED BY <2>4, <2>5, <2>6 DEF JumpTableSound
<1>5. CASE Op # OP_JUMPDEST
  <2>1. jumpdest_offsets' = jumpdest_offsets /\ jumpdest_targets' = jumpdest_targets
    BY <1>5 DEF AnalyzeOp, Op
  <2>2. \A i \in 1..Len(jumpdest_offsets') : Sound(i)
    BY <1>3, <2>1
  <2> QED BY <1>2, <2>1, <2>2 DEF JumpTableSound
<1> QED BY <1>4, <1>5

LEMMA AnalyzeOpOpen ==
    ASSUME TableOK, AnalyzeOp, UNCHANGED stateVars
    PROVE  OpenInv'
<1> USE DEF TableOK
<1> DEFINE last == Len(instrs')
<1>0. phase = "analyze" /\ code_pos' = NextPos /\ code' = code
  BY AnalyzeOpFacts
<1>1. ip' = 1 /\ size' = 0
  BY <1>0 DEF OpenInv, stateVars
<1>2. CASE Ends
  <2>1. last = Top + 1 /\ trace'[last] = TraceBegin(last, NextPos) /\ instrs'[last] = BEGINBLOCK
        /\ block' = BlockAnalysis_init(last)
    BY <1>2, AnalyzeOpFacts, AnalyzeOpTrace
  <2> QED BY <1>0, <1>1, <2>1
          DEF OpenInv, TraceBegin, BEGINBLOCK, Instruction, BlockAnalysis_init
<1>3. CASE ~Ends
  <2>1. ~JumpdestAt(code_pos)'
    BY <1>0, <1>3 DEF Ends, JumpdestAt
  <2>2. last = Top /\ block' = NewB
    BY <1>3, AnalyzeOpFacts
  <2>3. NewB.begin_block_index = block.begin_block_index
    BY DEF NewB, AddToBlock
  <2>4. CASE Op = OP_JUMPDEST
    <3>1. last = Len(instrs) /\ last \in 1..Len(instrs)
      BY <2>2, <2>4, AnalyzeOpCases
    <3>2. trace'[last] = trace[last]
      BY <3>1, AnalyzeOpTrace
    <3> QED BY <1>0, <1>1, <2>1, <2>2, <2>3, <3>1, <3>2 DEF OpenInv
  <2>5. CASE Op # OP_JUMPDEST
    <3>1. trace'[last].begin = block.begin_block_index
      BY <2>2, <2>5, AnalyzeOpTrace DEF TraceOp
    <3> QED BY <1>1, <2>1, <2>2, <2>3, <3>1 DEF OpenInv
  <2> QED BY <2>4, <2>5
<1> QED BY <1>2, <1>3

-----------------------------------------------------------------------------
(***************************************************************************)
(* The end of the analysis.                                                *)
(***************************************************************************)
LEMMA FinishAnalysisFacts ==
    ASSUME TypeOK, TableInv, FinishAnalysis
    PROVE  LET n == Len(instrs)
           IN  /\ n \in Nat /\ n >= 1
               /\ instrs' \in Seq(Records) /\ Len(instrs') = n + 1
               /\ \A i \in 1..n :
                     /\ instrs'[i].fn = instrs[i].fn /\ instrs'[i].arg = instrs[i].arg
                     /\ i # block.begin_block_index => instrs'[i].block = instrs[i].block
               /\ block.begin_block_index \in 1..n
               /\ instrs'[block.begin_block_index].block = BlockAnalysis_close(block)
               /\ instrs'[n + 1] = Instruction(OP_STOP, 0)
               /\ trace' \in Seq(TraceRecords) /\ Len(trace') = n + 1
               /\ \A i \in 1..n : trace'[i] = trace[i]
               /\ trace'[n + 1] = TraceOp(code_pos, block)
<1> DEFINE n == Len(instrs)
           sv == SaveBlock(instrs, block)
           te == TraceOp(code_pos, block)
           e  == Instruction(OP_STOP, 0)
<1>1. block \in [gas_cost : Nat, stack_req : Nat, stack_max_growth : Nat,
                 stack_change : Int, begin_block_index : 1..n]
  BY DEF TypeOK
<1>2. BlockAnalysis_close(block) \in BlockInfo
  BY <1>1, CloseFacts
<1>3. instrs \in Seq(Records) /\ trace \in Seq(TraceRecords) /\ Len(trace) = n /\ n \in Nat /\ n >= 1
  BY DEF TypeOK, Records, TraceRecords, TableInv
<1>4. block.begin_block_index \in 1..n
  BY <1>1
<1>5. /\ sv \in Seq(Records) /\ Len(sv) = n
      /\ \A i \in 1..n : /\ sv[i].fn = instrs[i].fn /\ sv[i].arg = instrs[i].arg
                         /\ i # block.begin_block_index => sv[i].block = instrs[i].block
      /\ sv[block.begin_block_index].block = BlockAnalysis_close(block)
  BY <1>2, <1>3, <1>4, SaveBlockFacts
<1>6. e \in Records
  BY DefinedFacts DEF Records, Instruction, BlockInfo_init, BlockInfo, Args
<1>7. te \in TraceRecords
  <2>1. code_pos \in Nat
    BY DEF TypeOK
  <2> QED BY <1>1, <2>1 DEF TraceOp, TraceRecords
<1>8. instrs' = Append(sv, e) /\ trace' = Append(trace, te)
  BY DEF FinishAnalysis
<1> HIDE DEF sv, te, e
<1>9. /\ instrs' \in Seq(Records) /\ Len(instrs') = n + 1
      /\ \A i \in 1..n : instrs'[i] = sv[i]
      /\ instrs'[n + 1] = e
  BY <1>5, <1>6, <1>8, AppendFacts
<1>10. /\ trace' \in Seq(TraceRecords) /\ Len(trace') = n + 1
       /\ \A i \in 1..n : trace'[i] = trace[i]
       /\ trace'[n + 1] = te
  BY <1>3, <1>7, <1>8, AppendFacts
<1> QED BY <1>3, <1>4, <1>5, <1>9, <1>10 DEF e, te

LEMMA FinishAnalysisTable ==
    ASSUME TableOK, FinishAnalysis, UNCHANGED stateVars
    PROVE  TableOK'
<1> USE DEF TableOK
<1> DEFINE n == Len(instrs)
<1>0. /\ phase = "analyze" /\ phase' = "execute" /\ code' = code /\ garbage' = garbage
      /\ code_pos' = code_pos /\ block' = block /\ jumpdest_offsets' = jumpdest_offsets
      /\ jumpdest_targets' = jumpdest_targets
  BY DEF FinishAnalysis
<1>1. n \in Nat /\ n >= 1 /\ Len(instrs') = n + 1
  BY FinishAnalysisFacts
<1>2. TypeOK'
  <2>1. code' \in Codes /\ code_pos' \in 0..Len(code')
    BY <1>0 DEF TypeOK
  <2>2. garbage' \in Garbages'
    <3>1. Garbages' = Garbages
      BY <1>0 DEF Garbages
    <3> QED BY <1>0, <3>1 DEF TypeOK
  <2>3. phase' \in {"analyze", "execute", "done"}
    BY <1>0
  <2>4. instrs' \in Seq([fn : Byte, arg : Args', block : BlockInfo])
    <3>1. Args' = Args
      BY <1>0 DEF Args
    <3> QED BY <3>1, FinishAnalysisFacts DEF Records
  <2>5. trace' \in Seq([begin : Nat, pos : Nat, cost : Nat, change : Int, clean : BOOLEAN])
        /\ Len(trace') = Len(instrs')
    BY FinishAnalysisFacts DEF TraceRecords
  <2>6. block' \in [gas_cost : Nat, stack_req : Nat, stack_max_growth : Nat,
                    stack_change : Int, begin_block_index : 1..Len(instrs')]
    <3>1. 1..n \subseteq 1..Len(instrs')
      BY <1>1
    <3> QED BY <1>0, <3>1 DEF TypeOK
  <2>7. ip' \in 0..Len(instrs')
    <3>1. ip' = ip /\ ip \in 0..n
      BY DEF stateVars, TypeOK
    <3> QED BY <1>1, <3>1
  <2>8. /\ jumpdest_offsets' \in Seq(Nat) /\ jumpdest_targets' \in Seq(Nat)
        /\ size' \in Int
        /\ gas_left' \in Int /\ current_block_cost' \in Int
        /\ status' \in Statuses /\ exit_code' \in Statuses \cup {"NONE"}
        /\ result' \in [status : Statuses \cup {"NONE"}, gas_left : Int]
    BY <1>0 DEF stateVars, TypeOK
  <2> QED BY <2>1, <2>2, <2>3, <2>4, <2>5, <2>6, <2>7, <2>8 DEF TypeOK, Statuses
<1>3. TableInv'
  <2>1. instrs'[1].fn = OP_JUMPDEST
    BY <1>1, FinishAnalysisFacts DEF TableInv
  <2>2. instrs'[n + 1].fn = OP_STOP
    BY FinishAnalysisFacts DEF Instruction
  <2>3. ASSUME NEW i \in 1..Len(instrs')
        PROVE  /\ trace'[i].begin \in 1..i
               /\ instrs'[trace'[i].begin].fn = OP_JUMPDEST
               /\ instrs'[i].fn = OP_JUMPDEST <=> trace'[i].begin = i
               /\ instrs'[i].fn \in CorrectedOps \cup {OP_GAS} => instrs'[i].arg \in Nat
    <3>1. CASE i \in 1..n
      <4>1. /\ trace'[i].begin = trace[i].begin /\ instrs'[i].fn = instrs[i].fn
            /\ instrs'[i].arg = instrs[i].arg
        BY <3>1, FinishAnalysisFacts
      <4>2. trace[i].begin \in 1..n
        BY <1>1, <3>1 DEF TableInv
      <4>3. instrs'[trace[i].begin].fn = instrs[trace[i].begin].fn
        BY <4>2, FinishAnalysisFacts
      <4> QED BY <3>1, <4>1, <4>2, <4>3 DEF TableInv
    <3>2. CASE i = n + 1
      <4>1. trace'[i].begin = block.begin_block_index /\ block.begin_block_index \in 1..n
        BY <3>2, FinishAnalysisFacts DEF TraceOp
      <4>2. n \in 1..n /\ block.begin_block_index = trace[n].begin
        BY <1>0, <1>1 DEF OpenInv
      <4>3. instrs[block.begin_block_index].fn = OP_JUMPDEST
        BY <4>2 DEF TableInv
      <4>4. instrs'[block.begin_block_index].fn = OP_JUMPDEST
        BY <4>1, <4>3, FinishAnalysisFacts
      <4>5. OP_STOP # OP_JUMPDEST /\ OP_STOP \notin CorrectedOps \cup {OP_GAS}
        BY ClassFacts DEF OP_STOP, OP_JUMPDEST
      <4>6. trace'[i].begin \in 1..i /\ trace'[i].begin # i
        BY <1>1, <3>2, <4>1
      <4> QED BY <2>2, <3>2, <4>1, <4>4, <4>5, <4>6
    <3> QED BY <1>1, <3>1, <3>2
  <2> QED BY <1>1, <2>1, <2>2, <2>3 DEF TableInv
<1>4. JumpTableSound'
  <2>1. ASSUME NEW i \in 1..Len(jumpdest_offsets)
        PROVE  /\ jumpdest_targets[i] \in 1..Len(instrs')
               /\ instrs'[jumpdest_targets[i]].fn = OP_JUMPDEST
               /\ trace'[jumpdest_targets[i]].pos = jumpdest_offsets[i]
    <3> DEFINE t == jumpdest_targets[i]
    <3>1. /\ t \in 1..n /\ instrs[t].fn = OP_JUMPDEST /\ trace[t].pos = jumpdest_offsets[i]
      BY DEF JumpTableSound
    <3> QED BY <1>1, <3>1, FinishAnalysisFacts
  <2> QED BY <1>0, <2>1 DEF JumpTableSound
<1>5. OpenInv'
  BY <1>0 DEF OpenInv
<1> QED BY <1>2, <1>3, <1>4, <1>5

-----------------------------------------------------------------------------
(***************************************************************************)
(* The execution.                                                          *)
(***************************************************************************)

\* What a turn of the execution loop may change, with its types.
StateOK ==
    /\ ip \in 0..Len(instrs) /\ size \in Int
    /\ gas_left \in Int /\ current_block_cost \in Int
    /\ status \in Statuses /\ exit_code \in Statuses \cup {"NONE"}
    /\ result \in [status : Statuses \cup {"NONE"}, gas_left : Int]

\* After an instruction that is not STOP there is another one.
LEMMA ContinueFacts ==
    ASSUME TableOK, NEW ops, OP_STOP \notin ops, Running(ops)
    PROVE  ip \in 1..Len(instrs) /\ ip + 1 \in 1..Len(instrs) /\ Instr.fn \in ops
<1>1. ip \in 0..Len(instrs) /\ ip # 0 /\ phase = "execute" /\ Instr.fn \in ops /\ Len(instrs) \in Nat
  BY DEF TableOK, TypeOK, Running
<1>2. instrs[Len(instrs)].fn = OP_STOP
  BY <1>1 DEF TableOK, TableInv
<1>3. ip # Len(instrs)
  BY <1>1, <1>2 DEF Instr
<1> QED BY <1>1, <1>3

\* Where a jump goes: the BEGINBLOCK of a jump destination, or out.
LEMMA JumpFacts ==
    ASSUME TableOK, NEW dst, JumpTo(dst)
    PROVE  \/ ip' = 0 /\ exit_code' = "BAD_JUMP_DESTINATION" /\ status' = status
           \/ /\ ip' \in 1..Len(instrs) /\ instrs[ip'].fn = OP_JUMPDEST
              /\ exit_code' = exit_code /\ status' = status
<1> DEFINE d  == ToInt(dst)
           it == lower_bound(jumpdest_offsets, d) + 1
           target == find_jumpdest(d)
<1>1. \/ target = -1
      \/ it \in DOMAIN jumpdest_offsets /\ target = jumpdest_targets[it]
  BY DEF find_jumpdest
<1>2. CASE target = -1
  BY <1>2 DEF JumpTo, AdvancedExecutionState_exit
<1>3. CASE it \in DOMAIN jumpdest_offsets /\ target = jumpdest_targets[it]
  <2> HIDE DEF it, target
  <2>0. jumpdest_offsets \in Seq(Nat)
    BY DEF TableOK, TypeOK
  <2>1. it \in 1..Len(jumpdest_offsets)
    BY <1>3, <2>0
  <2>2. target \in 1..Len(instrs) /\ instrs[target].fn = OP_JUMPDEST
    BY <1>3, <2>1 DEF TableOK, JumpTableSound
  <2>3. ~(target < 0)
    BY <2>2
  <2>4. ip' = target /\ status' = status /\ exit_code' = exit_code
    BY <2>3 DEF JumpTo, target
  <2> QED BY <2>2, <2>4
<1> QED BY <1>1, <1>2, <1>3

LEMMA MoveTopFacts ==
    ASSUME TableOK, Instr.fn \in Byte, NEW v, MoveTop(v)
    PROVE  size' \in Int /\ size' = size + stack_height_change[Instr.fn]
<1>1. size' = size + stack_height_change[Instr.fn]
  BY DEF MoveTop
<1>2. stack_height_change[Instr.fn] \in Int
  BY TraitsFacts
<1>3. size \in Int
  BY DEF TableOK, TypeOK
<1> QED BY <1>1, <1>2, <1>3

LEMMA ExecuteState ==
    ASSUME TableOK, NEW o \in Outcomes, Execute(o)
    PROVE  StateOK' /\ UNCHANGED analysisVars /\ phase = "execute"
<1>0. /\ size \in Int /\ gas_left \in Int /\ current_block_cost \in Int
      /\ status \in Statuses /\ exit_code \in Statuses \cup {"NONE"}
      /\ result \in [status : Statuses \cup {"NONE"}, gas_left : Int]
      /\ Len(instrs) \in Nat
  BY DEF TableOK, TypeOK
<1>1. o.cost \in Int /\ o.status \in Statuses
  BY OutcomesAssumption DEF Statuses
<1>2. {"SUCCESS", "REVERT", "OUT_OF_GAS", "STACK_UNDERFLOW", "STACK_OVERFLOW",
       "BAD_JUMP_DESTINATION", "UNDEFINED_INSTRUCTION", "INVALID_INSTRUCTION"} \subseteq Statuses
  BY DEF Statuses
<1>3. ASSUME NEW s \in Statuses, AdvancedExecutionState_exit(s)
      PROVE  /\ ip' \in 0..Len(instrs) /\ status' \in Statuses
             /\ exit_code' \in Statuses \cup {"NONE"}
  BY <1>0, <1>3 DEF AdvancedExecutionState_exit
<1>4. ASSUME NEW ops, OP_STOP \notin ops, Running(ops), Continue
      PROVE  /\ ip' \in 0..Len(instrs) /\ status' \in Statuses
             /\ exit_code' \in Statuses \cup {"NONE"}
  <2>1. ip + 1 \in 1..Len(instrs)
    BY <1>4, ContinueFacts
  <2> QED BY <1>0, <1>4, <2>1 DEF Continue
<1>5. ASSUME NEW ops, Running(ops), Instr.fn \in CorrectedOps \cup {OP_GAS}
      PROVE  gas_left_correction \in Int
  <2>1. ip \in 1..Len(instrs)
    BY <1>5 DEF Running, TableOK, TypeOK
  <2>2. Instr.arg \in Nat
    BY <1>5, <2>1 DEF TableOK, TableInv, Instr
  <2> QED BY <1>0, <2>2 DEF gas_left_correction
<1>6. ASSUME NEW ops, Running(ops)
      PROVE  phase = "execute" /\ Instr.fn \in ops
  BY <1>6 DEF Running
<1>7. ASSUME UNCHANGED analysisVars, ip' \in 0..Len(instrs), size' \in Int, gas_left' \in Int,
             current_block_cost' \in Int, status' \in Statuses,
             exit_code' \in Statuses \cup {"NONE"}, result' = result
      PROVE  StateOK'
  BY <1>0, <1>7 DEF StateOK, Statuses, analysisVars
<1>8. CASE opx_beginblock
  <2>1. Running({OP_JUMPDEST}) /\ OP_STOP \notin {OP_JUMPDEST}
    BY <1>8 DEF opx_beginblock, OP_STOP, OP_JUMPDEST
  <2>2. Instr.block.gas_cost \in Int
    <3>1. ip \in 1..Len(instrs) /\ instrs \in Seq(Records)
      BY <2>1, ContinueFacts DEF TableOK, TypeOK, Records
    <3>2. Instr \in Records
      BY <3>1 DEF Instr
    <3> QED BY <3>2 DEF Records, BlockInfo
  <2>3. /\ ip' \in 0..Len(instrs) /\ status' \in Statuses
        /\ exit_code' \in Statuses \cup {"NONE"}
    BY <1>2, <1>3, <1>4, <1>8, <2>1 DEF opx_beginblock
  <2>4. gas_left' \in Int /\ current_block_cost' \in Int /\ size' = size /\ result' = result
        /\ UNCHANGED analysisVars
    BY <1>0, <1>8, <2>2 DEF opx_beginblock
  <2> QED BY <1>0, <1>6, <1>7, <2>1, <2>3, <2>4
<1>9. CASE op_plain(o)
  <2>1. Running(PlainOps) /\ OP_STOP \notin PlainOps /\ Instr.fn \in Byte
    BY <1>6, <1>9, ClassFacts DEF op_plain
  <2>2. size' \in Int
    BY <1>9, <2>1, MoveTopFacts DEF op_plain
  <2> QED BY <1>0, <1>4, <1>6, <1>7, <1>9, <2>1, <2>2 DEF op_plain
<1>10. CASE op_fallible(o)
  <2>1. Running(FallibleOps) /\ OP_STOP \notin FallibleOps /\ Instr.fn \in Byte
    BY <1>6, <1>10, ClassFacts DEF op_fallible
  <2>2. size' \in Int
    BY <1>10, <2>1, MoveTopFacts DEF op_fallible
  <2>3. /\ ip' \in 0..Len(instrs) /\ status' \in Statuses
        /\ exit_code' \in Statuses \cup {"NONE"}
    BY <1>1, <1>2, <1>3, <1>4, <1>10, <2>1 DEF op_fallible
  <2>4. gas_left' \in Int
    BY <1>0, <1>1, <1>10 DEF op_fallible
  <2> QED BY <1>0, <1>6, <1>7, <1>10, <2>1, <2>2, <2>3, <2>4 DEF op_fallible
<1>11. CASE op_sstore(o)
  <2>1. Running({OP_SSTORE}) /\ OP_STOP \notin {OP_SSTORE} /\ Instr.fn \in Byte
        /\ Instr.fn \in CorrectedOps
    BY <1>6, <1>11, ClassFacts DEF op_sstore
  <2>2. size' \in Int
    BY <1>11, <2>1, MoveTopFacts DEF op_sstore
  <2>3. /\ ip' \in 0..Len(instrs) /\ status' \in Statuses
        /\ exit_code' \in Statuses \cup {"NONE"}
    BY <1>1, <1>2, <1>3, <1>4, <1>11, <2>1 DEF op_sstore
  <2>4. gas_left_correction \in Int
    BY <1>5, <2>1
  <2>5. gas_left' \in Int
    BY <1>0, <1>1, <1>11, <2>4 DEF op_sstore
  <2> QED BY <1>0, <1>6, <1>7, <1>11, <2>1, <2>2, <2>3, <2>5 DEF op_sstore
<1>12. CASE op_call(o)
  <2>1. Running(CallOps) /\ OP_STOP \notin CallOps /\ Instr.fn \in Byte
        /\ Instr.fn \in CorrectedOps
    BY <1>6, <1>12, ClassFacts DEF op_call
  <2>2. size' \in Int
    BY <1>12, <2>1, MoveTopFacts DEF op_call
  <2>3. /\ ip' \in 0..Len(instrs) /\ status' \in Statuses
        /\ exit_code' \in Statuses \cup {"NONE"}
    BY <1>1, <1>2, <1>3, <1>4, <1>12, <2>1 DEF op_call
  <2>4. gas_left_correction \in Int
    BY <1>5, <2>1
  <2>5. gas_left' \in Int
    BY <1>0, <1>1, <1>12, <2>4 DEF op_call
  <2> QED BY <1>0, <1>6, <1>7, <1>12, <2>1, <2>2, <2>3, <2>5 DEF op_call
<1>13. ASSUME NEW dst, JumpTo(dst)
       PROVE  /\ ip' \in 0..Len(instrs) /\ status' \in Statuses
              /\ exit_code' \in Statuses \cup {"NONE"}
  BY <1>0, <1>2, <1>13, JumpFacts
<1>14. CASE op_jump
  BY <1>0, <1>6, <1>7, <1>13, <1>14 DEF op_jump
<1>15. CASE op_jumpi
  <2>1. Running({OP_JUMPI}) /\ OP_STOP \notin {OP_JUMPI}
    BY <1>15 DEF op_jumpi, OP_STOP, OP_JUMPI
  <2>2. /\ ip' \in 0..Len(instrs) /\ status' \in Statuses
        /\ exit_code' \in Statuses \cup {"NONE"}
    BY <1>4, <1>13, <1>15, <2>1 DEF op_jumpi
  <2> QED BY <1>0, <1>6, <1>7, <1>15, <2>1, <2>2 DEF op_jumpi
<1>16. CASE op_pc
  BY <1>0, <1>4, <1>6, <1>7, <1>16 DEF op_pc, Stack_push, OP_PC, OP_STOP
<1>17. CASE op_gas
  BY <1>0, <1>4, <1>6, <1>7, <1>17 DEF op_gas, Stack_push, OP_GAS, OP_STOP
<1>18. CASE op_push
  BY <1>0, <1>4, <1>6, <1>7, <1>18, ClassFacts DEF op_push, Stack_push
<1>19. CASE op_dup
  BY <1>0, <1>4, <1>6, <1>7, <1>19, ClassFacts DEF op_dup, Stack_push
<1>20. CASE op_swap
  BY <1>0, <1>4, <1>6, <1>7, <1>20, ClassFacts DEF op_swap
<1>21. CASE op_stop
  BY <1>0, <1>2, <1>3, <1>6, <1>7, <1>21 DEF op_stop
<1>22. CASE op_return(o)
  BY <1>0, <1>1, <1>2, <1>3, <1>6, <1>7, <1>22 DEF op_return
<1>23. CASE op_invalid
  BY <1>0, <1>2, <1>3, <1>6, <1>7, <1>23 DEF op_invalid
<1>24. CASE op_selfdestruct(o)
  <2>1. gas_left' \in Int
    BY <1>0, <1>1, <1>24, ScaleAssumption DEF op_selfdestruct
  <2> QED BY <1>0, <1>1, <1>2, <1>3, <1>6, <1>7, <1>24, <2>1 DEF op_selfdestruct
<1>25. CASE op_undefined
  BY <1>0, <1>2, <1>3, <1>6, <1>7, <1>25 DEF op_undefined
<1> QED BY <1>8, <1>9, <1>10, <1>11, <1>12, <1>14, <1>15, <1>16, <1>17, <1>18, <1>19, <1>20,
           <1>21, <1>22, <1>23, <1>24, <1>25 DEF Execute

LEMMA TypesKept ==
    ASSUME TypeOK, StateOK', phase' \in {"analyze", "execute", "done"},
           UNCHANGED <<code, garbage, code_pos, block, instrs, jumpdest_offsets,
                       jumpdest_targets, trace>>
    PROVE  TypeOK'
<1>1. Args' = Args
  BY DEF Args
<1>2. Garbages' = Garbages
  BY DEF Garbages
<1>3. /\ code' \in Codes /\ garbage' \in Garbages' /\ code_pos' \in 0..Len(code')
      /\ block' \in [gas_cost : Nat, stack_req : Nat, stack_max_growth : Nat,
                     stack_change : Int, begin_block_index : 1..Len(instrs')]
      /\ instrs' \in Seq([fn : Byte, arg : Args', block : BlockInfo])
      /\ trace' \in Seq([begin : Nat, pos : Nat, cost : Nat, change : Int, clean : BOOLEAN])
      /\ Len(trace') = Len(instrs')
      /\ jumpdest_offsets' \in Seq(Nat) /\ jumpdest_targets' \in Seq(Nat)
  BY <1>1, <1>2 DEF TypeOK
<1> QED BY <1>3 DEF TypeOK, StateOK

\* TableOK only speaks of the types of what the execution changes.
LEMMA ExecuteTable ==
    ASSUME TableOK, NEW o \in Outcomes, Execute(o)
    PROVE  TableOK'
<1>1. StateOK' /\ UNCHANGED analysisVars /\ phase = "execute"
  BY ExecuteState
<1>2. TypeOK'
  <2>1. phase \in {"analyze", "execute", "done"}
    BY <1>1
  <2> QED BY <1>1, <2>1, TypesKept DEF TableOK, analysisVars
<1>3. TableInv' /\ JumpTableSound' /\ OpenInv'
  BY <1>1 DEF TableOK, TableInv, JumpTableSound, OpenInv, analysisVars
<1> QED BY <1>2, <1>3 DEF TableOK

LEMMA FinishTable ==
    ASSUME TableOK, Finish
    PROVE  TableOK'
<1>1. /\ phase = "execute" /\ phase' = "done" /\ UNCHANGED <<code, garbage, code_pos, block,
           instrs, jumpdest_offsets, jumpdest_targets, trace, ip, size, space, gas_left,
           current_block_cost, status, exit_code>>
  BY DEF Finish
<1>2. result' \in [status : Statuses \cup {"NONE"}, gas_left : Int]
  BY DEF Finish, TableOK, TypeOK
<1>3. TypeOK'
  <2>1. StateOK'
    BY <1>1, <1>2 DEF TableOK, TypeOK, StateOK, Statuses
  <2> QED BY <1>1, <2>1, TypesKept DEF TableOK
<1>4. TableInv' /\ JumpTableSound' /\ OpenInv'
  BY <1>1 DEF TableOK, TableInv, JumpTableSound, OpenInv
<1> QED BY <1>3, <1>4 DEF TableOK

LEMMA StutterTable ==
    ASSUME TableOK, UNCHANGED vars
    PROVE  TableOK'
<1>1. UNCHANGED analysisVars /\ UNCHANGED stateVars
  BY DEF vars
<1>2. StateOK'
  BY <1>1 DEF TableOK, TypeOK, StateOK, Statuses, stateVars, analysisVars
<1>3. TypeOK'
  <2>1. phase \in {"analyze", "execute", "done"}
    BY DEF TableOK, TypeOK
  <2> QED BY <1>1, <1>2, <2>1, TypesKept DEF TableOK, analysisVars
<1>4. TableInv' /\ JumpTableSound' /\ OpenInv'
  BY <1>1 DEF TableOK, TableInv, JumpTableSound, OpenInv, JumpdestAt, analysisVars, stateVars
<1> QED BY <1>3, <1>4 DEF TableOK

LEMMA InitTable == Init => TableOK
<1> SUFFICES ASSUME Init PROVE TableOK
  OBVIOUS
<1>1. /\ code \in Codes /\ garbage \in Garbages /\ phase = "analyze" /\ code_pos = 0
      /\ block = BlockAnalysis_init(1) /\ instrs = <<BEGINBLOCK>>
      /\ jumpdest_offsets = <<>> /\ jumpdest_targets = <<>> /\ trace = <<TraceBegin(1, 0)>>
      /\ ip = 1 /\ size = 0 /\ gas_left \in GasLimits /\ current_block_cost = 0
      /\ status = "SUCCESS" /\ result = NoResult /\ exit_code = "NONE"
  BY DEF Init, AnalysisInit
<1>2. BEGINBLOCK \in Records /\ BEGINBLOCK.fn = OP_JUMPDEST
  BY DefinedFacts DEF BEGINBLOCK, Instruction, Records, BlockInfo_init, BlockInfo, Args
<1>3. TraceBegin(1, 0) \in TraceRecords /\ TraceBegin(1, 0).begin = 1 /\ TraceBegin(1, 0).pos = 0
  BY DEF TraceBegin, TraceRecords
<1>4. instrs \in Seq(Records) /\ Len(instrs) = 1 /\ instrs[1] = BEGINBLOCK
  BY <1>1, <1>2
<1>5. trace \in Seq(TraceRecords) /\ Len(trace) = 1 /\ trace[1] = TraceBegin(1, 0)
  BY <1>1, <1>3
<1>6. TypeOK
  <2>1. code_pos \in 0..Len(code)
    BY <1>1, CodesAssumption
  <2>2. block \in [gas_cost : Nat, stack_req : Nat, stack_max_growth : Nat,
                   stack_change : Int, begin_block_index : 1..Len(instrs)]
    BY <1>1, <1>4 DEF BlockAnalysis_init
  <2>3. gas_left \in Int
    BY <1>1, LimitsAssumption
  <2>4. result \in [status : Statuses \cup {"NONE"}, gas_left : Int] /\ status \in Statuses
    BY <1>1 DEF NoResult, Statuses
  <2>5. jumpdest_offsets \in Seq(Nat) /\ jumpdest_targets \in Seq(Nat)
    BY <1>1
  <2>6. ip \in 0..Len(instrs) /\ size \in Int /\ current_block_cost \in Int
    BY <1>1, <1>4
  <2> QED BY <1>1, <1>4, <1>5, <2>1, <2>2, <2>3, <2>4, <2>5, <2>6
          DEF TypeOK, Records, TraceRecords
<1>7. TableInv
  <2>1. OP_JUMPDEST \notin CorrectedOps \cup {OP_GAS}
    BY ClassFacts
  <2> QED BY <1>1, <1>2, <1>3, <1>4, <1>5, <2>1 DEF TableInv
<1>8. JumpTableSound
  BY <1>1 DEF JumpTableSound
<1>9. OpenInv
  BY <1>1, <1>2, <1>3, <1>4, <1>5 DEF OpenInv, BlockAnalysis_init
<1> QED BY <1>6, <1>7, <1>8, <1>9 DEF TableOK

LEMMA TableInvariant == Spec => []TableOK
<1>1. ASSUME TableOK, [Next]_vars
      PROVE  TableOK'
  <2>1. CASE AnalyzeOp /\ UNCHANGED stateVars
    BY <1>1, <2>1, AnalyzeOpTypes, AnalyzeOpTable, AnalyzeOpJumps, AnalyzeOpOpen DEF TableOK
  <2>2. CASE FinishAnalysis /\ UNCHANGED stateVars
    BY <1>1, <2>2, FinishAnalysisTable
  <2>3. ASSUME NEW o \in Outcomes, Execute(o)
        PROVE  TableOK'
    BY <1>1, <2>3, ExecuteTable
  <2>4. CASE Finish
    BY <1>1, <2>4, FinishTable
  <2>5. CASE UNCHANGED vars
    BY <1>1, <2>5, StutterTable
  <2> QED BY <1>1, <2>1, <2>2, <2>3, <2>4, <2>5 DEF Next, Analyze, Done
<1> QED BY <1>1, InitTable, PTL DEF Spec

\* Type correctness: whatever the bytecode, the instruction table, the history
\* and the execution state keep the shapes of the structs of the code; in
\* particular the instruction pointer never leaves the table.
THEOREM TypeCorrect == Spec => []TypeOK
  BY TableInvariant, PTL DEF TableOK

\* The jump table analyze() builds is sorted, aligned and points at the right
\* BEGINBLOCKs at every moment, for every bytecode.
THEOREM JumpTableCorrect == Spec => []JumpTableSound
  BY TableInvariant, PTL DEF TableOK

-----------------------------------------------------------------------------
(***************************************************************************)
(* Stack safety: the analysis part.                                        *)
(***************************************************************************)

\* The numbers of the block after one more instruction.
LEMMA NewBFacts ==
    ASSUME TableOK, BoundInv, AnalyzeOp
    PROVE  /\ NewB \in [gas_cost : Nat, stack_req : Nat, stack_max_growth : Nat,
                        stack_change : Int, begin_block_index : 1..Len(instrs)]
           /\ NewB.begin_block_index = block.begin_block_index
           /\ NewB.stack_req >= block.stack_req
           /\ NewB.stack_max_growth >= block.stack_max_growth
           /\ Op \notin UndefinedOps =>
                /\ NewB.stack_change = block.stack_change + stack_height_change[Op]
                /\ NewB.stack_req >= stack_height_required[Op] - block.stack_change
                /\ NewB.stack_max_growth >= block.stack_change + stack_height_change[Op]
           /\ NewB.stack_change >= -(128 * NextPos)
           /\ NewB.stack_change <= 128 * NextPos
           /\ NewB.stack_req <= 128 * NextPos + 127
           /\ NewB.stack_max_growth <= 128 * NextPos
<1> DEFINE info == OpInfo(Op)
           change == stack_height_change[Op]
<1>1. /\ info.gas_cost \in Nat /\ info.stack_req \in -128..127 /\ info.stack_change \in -128..127
  BY OpInfoFacts DEF Op, AnalyzeOp, TableOK
<1>2. Op \notin UndefinedOps =>
        info.stack_req = stack_height_required[Op] /\ info.stack_change = stack_height_change[Op]
  BY DEF OpInfo
<1> HIDE DEF info
<1>3. info.stack_req \in Int /\ info.stack_change \in Int
  BY <1>1
<1>4. block \in [gas_cost : Nat, stack_req : Nat, stack_max_growth : Nat,
                 stack_change : Int, begin_block_index : 1..Len(instrs)]
  BY DEF TableOK, TypeOK
<1>5. NewB = AddToBlock(block, info)
  BY DEF NewB, info
<1>6. /\ NewB \in [gas_cost : Nat, stack_req : Nat, stack_max_growth : Nat,
                   stack_change : Int, begin_block_index : 1..Len(instrs)]
      /\ NewB.begin_block_index = block.begin_block_index
      /\ NewB.stack_change = block.stack_change + info.stack_change
      /\ NewB.stack_req >= block.stack_req
      /\ NewB.stack_req >= info.stack_req - block.stack_change
      /\ NewB.stack_req \in {block.stack_req, info.stack_req - block.stack_change}
      /\ NewB.stack_max_growth >= block.stack_max_growth
      /\ NewB.stack_max_growth >= NewB.stack_change
      /\ NewB.stack_max_growth \in {block.stack_max_growth, NewB.stack_change}
  <2>1. info.gas_cost \in Nat
    BY <1>1
  <2>2. /\ NewB \in [gas_cost : Nat, stack_req : Nat, stack_max_growth : Nat,
                     stack_change : Int, begin_block_index : 1..Len(instrs)]
        /\ NewB.begin_block_index = block.begin_block_index
    BY <1>3, <1>4, <1>5, <2>1, AddToBlockFacts
  <2>3. /\ NewB.stack_change = block.stack_change + info.stack_change
        /\ NewB.stack_req = Max2(block.stack_req, info.stack_req - block.stack_change)
        /\ NewB.stack_max_growth = Max2(block.stack_max_growth, NewB.stack_change)
    BY <1>5 DEF AddToBlock
  <2>4. \A x, y \in Int : Max2(x, y) >= x /\ Max2(x, y) >= y /\ Max2(x, y) \in {x, y}
    BY DEF Max2
  <2>5. /\ block.stack_req \in Int /\ info.stack_req - block.stack_change \in Int
        /\ block.stack_max_growth \in Int /\ NewB.stack_change \in Int
    BY <1>3, <1>4, <2>2
  <2> QED BY <2>2, <2>3, <2>4, <2>5
<1>7. phase = "analyze" /\ code_pos \in Nat /\ NextPos \in Nat /\ NextPos >= code_pos + 1
  <2>1. code_pos \in Nat /\ Len(code) \in Nat
    BY CodesAssumption DEF TableOK, TypeOK
  <2>2. NextPos \in (code_pos + 1)..Len(code) /\ phase = "analyze"
    BY AnalyzeOpFacts DEF TableOK
  <2> QED BY <2>1, <2>2
<1>8. /\ block.stack_change >= -(128 * code_pos) /\ block.stack_change <= 128 * code_pos
      /\ block.stack_req <= 128 * code_pos + 127
      /\ block.stack_max_growth <= 128 * code_pos
  BY <1>7 DEF BoundInv
<1> DEFINE bc == block.stack_change
           br == block.stack_req
           bg == block.stack_max_growth
           nc == NewB.stack_change
           nr == NewB.stack_req
           ng == NewB.stack_max_growth
           ic == info.stack_change
           ir == info.stack_req
<1>9. /\ bc \in Int /\ br \in Int /\ bg \in Int /\ nc \in Int /\ nr \in Int /\ ng \in Int
      /\ ic \in -128..127 /\ ir \in -128..127
  BY <1>1, <1>4, <1>6
<1>10. /\ nc = bc + ic /\ nr \in {br, ir - bc} /\ ng \in {bg, nc}
       /\ bc >= -(128 * code_pos) /\ bc <= 128 * code_pos
       /\ br <= 128 * code_pos + 127 /\ bg <= 128 * code_pos
  BY <1>6, <1>8
<1> HIDE DEF bc, br, bg, nc, nr, ng, ic, ir
<1>11. /\ nc >= -(128 * NextPos) /\ nc <= 128 * NextPos
       /\ nr <= 128 * NextPos + 127 /\ ng <= 128 * NextPos
  BY <1>7, <1>9, <1>10
<1> USE DEF bc, br, bg, nc, nr, ng, ic, ir
<1> QED BY <1>2, <1>6, <1>11

LEMMA AnalyzeOpBound ==
    ASSUME TableOK, BoundInv, AnalyzeOp
    PROVE  BoundInv'
<1> DEFINE last == Len(instrs')
<1>0. phase = "analyze" /\ code_pos' = NextPos /\ NextPos \in Nat /\ Len(instrs) \in 1..Len(instrs)
  <2>1. code_pos \in Nat /\ Len(code) \in Nat
    BY CodesAssumption DEF TableOK, TypeOK
  <2>2. NextPos \in (code_pos + 1)..Len(code) /\ phase = "analyze" /\ code_pos' = NextPos
    BY AnalyzeOpFacts DEF TableOK
  <2> QED BY <2>1, <2>2, AnalyzeOpCases DEF TableOK
<1>1. CASE Ends
  <2>1. last = Top + 1 /\ trace'[last] = TraceBegin(last, NextPos) /\ instrs'[last] = BEGINBLOCK
        /\ block' = BlockAnalysis_init(last)
    BY <1>1, AnalyzeOpFacts, AnalyzeOpTrace DEF TableOK
  <2>2. trace'[last].change = 0 /\ instrs'[last].fn = OP_JUMPDEST /\ block'.stack_change = 0
        /\ block'.stack_req = 0 /\ block'.stack_max_growth = 0
    BY <2>1 DEF TraceBegin, BEGINBLOCK, Instruction, BlockAnalysis_init
  <2> HIDE DEF last
  <2>3. block'.stack_change = trace'[last].change + stack_height_change[instrs'[last].fn]
    BY <2>2, DefinedFacts
  <2> QED BY <1>0, <2>2, <2>3 DEF BoundInv, last
<1>2. CASE ~Ends
  <2>1. last = Top /\ block' = NewB
    BY <1>2, AnalyzeOpFacts DEF TableOK
  <2>2. CASE Op = OP_JUMPDEST
    <3>1. last = Len(instrs)
      BY <2>1, <2>2, AnalyzeOpCases DEF TableOK
    <3>2. trace'[last] = trace[last] /\ instrs'[last].fn = instrs[last].fn
      BY <1>0, <3>1, AnalyzeOpFacts, AnalyzeOpTrace DEF TableOK
    <3>3. NewB.stack_change = block.stack_change
      <4>1. block.stack_change \in Int
        BY DEF TableOK, TypeOK
      <4> QED BY <2>2, <4>1, NewBFacts, DefinedFacts
    <3> HIDE DEF last
    <3>4. (trace[last].clean /\ instrs[last].fn \notin UndefinedOps) =>
            block.stack_change = trace[last].change + stack_height_change[instrs[last].fn]
      BY <1>0, <3>1 DEF BoundInv
    <3> QED BY <1>0, <2>1, <3>2, <3>3, <3>4, NewBFacts DEF BoundInv, last
  <2>3. CASE Op # OP_JUMPDEST
    <3>1. instrs'[last].fn = Op /\ trace'[last] = TraceOp(code_pos, block)
      BY <2>1, <2>3, AnalyzeOpFacts, AnalyzeOpTrace DEF TableOK
    <3>2. trace'[last].change = block.stack_change
      BY <3>1 DEF TraceOp
    <3> QED BY <1>0, <2>1, <3>1, <3>2, NewBFacts DEF BoundInv
  <2> QED BY <2>2, <2>3
<1> QED BY <1>1, <1>2

\* The new instruction of a turn follows the last one of the table.
LEMMA AnalyzeOpChain ==
    ASSUME TableOK, BoundInv, ChainInv, BeginInv, AnalyzeOp
    PROVE  ChainInv' /\ BeginInv'
<1> DEFINE n == Len(instrs)
<1>0. /\ n \in Nat /\ n >= 1 /\ n \in 1..n /\ Len(instrs') \in Nat /\ phase = "analyze"
      /\ OP_JUMPDEST \notin UndefinedOps
  BY AnalyzeOpFacts, AnalyzeOpCases, DefinedFacts DEF TableOK
<1>1. ASSUME NEW i \in 2..Len(instrs'), instrs'[i].fn # OP_JUMPDEST
      PROVE  /\ trace'[i].begin = trace'[i-1].begin
             /\ trace'[i].clean = (trace'[i-1].clean /\ instrs'[i-1].fn \notin UndefinedOps)
             /\ trace'[i].clean => trace'[i].change = trace'[i-1].change
                                       + stack_height_change[instrs'[i-1].fn]
  <2>0. i \in 1..Len(instrs')
    BY <1>0
  <2>1. CASE i \in 1..n
    <3>1. i - 1 \in 1..n /\ i \in 2..n
      BY <1>0, <2>1
    <3>2. /\ trace'[i] = trace[i] /\ trace'[i-1] = trace[i-1] /\ instrs'[i].fn = instrs[i].fn
          /\ instrs'[i-1].fn = instrs[i-1].fn
      BY <2>1, <3>1, AnalyzeOpFacts, AnalyzeOpTrace DEF TableOK
    <3> QED BY <1>1, <3>1, <3>2 DEF ChainInv
  <2>2. CASE i = Top /\ Op # OP_JUMPDEST /\ i = n + 1
    <3>1. i - 1 = n
      BY <1>0, <2>2
    <3>2. trace'[n] = trace[n] /\ instrs'[n].fn = instrs[n].fn
      BY <1>0, AnalyzeOpFacts, AnalyzeOpTrace DEF TableOK
    <3>3. trace'[i] = TraceOp(code_pos, block)
      BY <2>2, AnalyzeOpTrace DEF TableOK
    <3>4. /\ trace'[i].begin = block.begin_block_index /\ trace'[i].change = block.stack_change
          /\ trace'[i].clean = (trace[n].clean /\ instrs[n].fn \notin UndefinedOps)
      BY <3>3 DEF TraceOp
    <3>5. block.begin_block_index = trace[n].begin
      BY <1>0 DEF TableOK, OpenInv
    <3>6. (trace[n].clean /\ instrs[n].fn \notin UndefinedOps) =>
            block.stack_change = trace[n].change + stack_height_change[instrs[n].fn]
      BY <1>0 DEF BoundInv
    <3> QED BY <3>1, <3>2, <3>4, <3>5, <3>6
  <2>3. CASE i = Top + 1 /\ Ends
    <3>1. instrs'[i] = BEGINBLOCK
      BY <2>3, AnalyzeOpFacts DEF TableOK
    <3> QED BY <1>1, <3>1 DEF BEGINBLOCK, Instruction
  <2> QED BY <2>0, <2>1, <2>2, <2>3, AnalyzeOpCases DEF TableOK
<1>2. ASSUME NEW i \in 1..Len(instrs'), instrs'[i].fn = OP_JUMPDEST
      PROVE  trace'[i].clean /\ trace'[i].change = 0
  <2>1. CASE i \in 1..n
    BY <1>2, <2>1, AnalyzeOpFacts, AnalyzeOpTrace DEF BeginInv, TableOK
  <2>2. CASE i = Top /\ Op # OP_JUMPDEST /\ i = n + 1
    BY <1>2, <2>2, AnalyzeOpFacts DEF TableOK
  <2>3. CASE i = Top + 1 /\ Ends
    <3>1. trace'[i] = TraceBegin(i, NextPos)
      BY <2>3, AnalyzeOpTrace DEF TableOK
    <3> QED BY <3>1 DEF TraceBegin
  <2> QED BY <2>1, <2>2, <2>3, AnalyzeOpCases DEF TableOK
<1> QED BY <1>1, <1>2 DEF ChainInv, BeginInv

\* What a turn of the loop saves, and what the end of it does.
LEMMA PendingFacts ==
    ASSUME TableOK
    PROVE  /\ AnalyzeOp => Pending = NewB
           /\ FinishAnalysis => Pending = block
<1>1. code_pos \in Nat /\ Len(code) \in Nat
  BY CodesAssumption DEF TableOK, TypeOK
<1>2. AnalyzeOp => code_pos < Len(code)
  BY DEF AnalyzeOp
<1>3. FinishAnalysis => ~(code_pos < Len(code))
  BY <1>1 DEF FinishAnalysis
<1> QED BY <1>2, <1>3 DEF Pending, NewB, Op

\* The numbers that cover a block only grow during a turn; this is where the
\* casts of BlockAnalysis_close must not wrap.
LEMMA CoverGrows ==
    ASSUME StackFits, TableOK, BoundInv, AnalyzeOp, NEW b \in 1..Len(instrs)
    PROVE  /\ b = block.begin_block_index =>
                StackReq'[b] = NewB.stack_req /\ Growth'[b] = NewB.stack_max_growth
           /\ b # block.begin_block_index =>
                StackReq'[b] = StackReq[b] /\ Growth'[b] = Growth[b]
<1>0. phase = "analyze" /\ phase' = "analyze" /\ b \in 1..Len(instrs')
  BY AnalyzeOpFacts, AnalyzeOpCases DEF TableOK
<1>1. CASE Ends
  <2>1. block'.begin_block_index = Top + 1
    BY <1>1, AnalyzeOpFacts DEF TableOK, BlockAnalysis_init
  <2>2. b # Top + 1
    BY AnalyzeOpCases DEF TableOK
  <2>3. StackReq'[b] = instrs'[b].block.stack_req
        /\ Growth'[b] = instrs'[b].block.stack_max_growth
    BY <1>0, <2>1, <2>2 DEF StackReq, Growth
  <2>4. CASE b = block.begin_block_index
    <3>1. instrs'[b].block = BlockAnalysis_close(NewB)
      BY <1>1, <2>4, AnalyzeOpFacts DEF TableOK
    <3>2. NewB.stack_req <= INT16_MAX /\ NewB.stack_max_growth <= INT16_MAX
      BY <1>0, PendingFacts DEF StackFits
    <3>3. BlockAnalysis_close(NewB).stack_req = NewB.stack_req
          /\ BlockAnalysis_close(NewB).stack_max_growth = NewB.stack_max_growth
      BY <3>2, NewBFacts, CloseFacts
    <3> QED BY <2>3, <2>4, <3>1, <3>3
  <2>5. CASE b # block.begin_block_index
    <3>1. instrs'[b].block = instrs[b].block
      BY <2>5, AnalyzeOpFacts DEF TableOK
    <3> QED BY <2>3, <2>5, <3>1 DEF StackReq, Growth
  <2> QED BY <2>4, <2>5
<1>2. CASE ~Ends
  <2>1. block' = NewB /\ block'.begin_block_index = block.begin_block_index
    BY <1>2, AnalyzeOpFacts, NewBFacts DEF TableOK
  <2>2. b # block.begin_block_index => instrs'[b].block = instrs[b].block
    BY AnalyzeOpFacts DEF TableOK
  <2> QED BY <1>0, <2>1, <2>2 DEF StackReq, Growth
<1> QED BY <1>1, <1>2

LEMMA AnalyzeOpCover ==
    ASSUME StackFits, TableOK, BoundInv, CoverInv, AnalyzeOp
    PROVE  CoverInv'
<1> DEFINE n == Len(instrs)
<1>0. phase = "analyze" /\ n \in Nat /\ n \in 1..n /\ block.begin_block_index \in 1..n
  BY AnalyzeOpFacts, AnalyzeOpCases DEF TableOK, TypeOK
<1>1. ASSUME NEW i \in 1..Len(instrs'),
             instrs'[i].fn \notin UndefinedOps \cup {OP_JUMPDEST, OP_STOP}, trace'[i].clean
      PROVE  /\ StackReq'[trace'[i].begin] >= stack_height_required[instrs'[i].fn] - trace'[i].change
             /\ Growth'[trace'[i].begin] >= trace'[i].change + stack_height_change[instrs'[i].fn]
  <2>1. CASE i \in 1..n
    <3> DEFINE b  == trace[i].begin
               rq == stack_height_required[instrs[i].fn] - trace[i].change
               gr == trace[i].change + stack_height_change[instrs[i].fn]
    <3>1. trace'[i] = trace[i] /\ instrs'[i].fn = instrs[i].fn
      BY <2>1, AnalyzeOpFacts, AnalyzeOpTrace DEF TableOK
    <3>2. StackReq[b] >= rq /\ Growth[b] >= gr
      BY <1>1, <2>1, <3>1 DEF CoverInv
    <3>3. b \in 1..n
      BY <1>0, <2>1 DEF TableOK, TableInv
    <3>4. rq \in Int /\ gr \in Int
      <4>1. instrs[i].fn \in Byte /\ trace[i].change \in Int
        <5>1. instrs \in Seq(Records) /\ trace \in Seq(TraceRecords) /\ Len(trace) = n
          BY DEF TableOK, TypeOK, Records, TraceRecords
        <5>2. instrs[i] \in Records /\ trace[i] \in TraceRecords
          BY <2>1, <5>1
        <5> QED BY <5>2 DEF Records, TraceRecords
      <4>2. \A op \in Byte : stack_height_required[op] \in Int /\ stack_height_change[op] \in Int
        BY TraitsFacts
      <4> QED BY <4>1, <4>2
    <3> HIDE DEF rq, gr
    <3>5. CASE b = block.begin_block_index
      <4>1. StackReq[b] = block.stack_req /\ Growth[b] = block.stack_max_growth
        BY <1>0, <3>3, <3>5 DEF StackReq, Growth
      <4>2. StackReq'[b] = NewB.stack_req /\ Growth'[b] = NewB.stack_max_growth
        BY <3>3, <3>5, CoverGrows
      <4>3. /\ NewB.stack_req >= block.stack_req /\ NewB.stack_max_growth >= block.stack_max_growth
            /\ NewB.stack_req \in Int /\ NewB.stack_max_growth \in Int
        BY NewBFacts
      <4>4. block.stack_req \in Int /\ block.stack_max_growth \in Int
        BY DEF TableOK, TypeOK
      <4>5. NewB.stack_req >= rq /\ NewB.stack_max_growth >= gr
        BY <3>2, <3>4, <4>1, <4>3, <4>4
      <4>6. StackReq'[b] >= rq /\ Growth'[b] >= gr
        BY <4>2, <4>5
      <4> QED BY <3>1, <4>6 DEF rq, gr
    <3>6. CASE b # block.begin_block_index
      <4>1. StackReq'[b] >= rq /\ Growth'[b] >= gr
        BY <3>2, <3>3, <3>6, CoverGrows
      <4> QED BY <3>1, <4>1 DEF rq, gr
    <3> QED BY <3>5, <3>6
  <2>2. CASE i = Top /\ Op # OP_JUMPDEST /\ i = n + 1
    <3>1. instrs'[i].fn = Op /\ trace'[i] = TraceOp(code_pos, block)
      BY <2>2, AnalyzeOpFacts, AnalyzeOpTrace DEF TableOK
    <3>2. trace'[i].begin = block.begin_block_index /\ trace'[i].change = block.stack_change
      BY <3>1 DEF TraceOp
    <3>3. Op \notin UndefinedOps
      BY <1>1, <3>1
    <3>4. StackReq'[block.begin_block_index] = NewB.stack_req
          /\ Growth'[block.begin_block_index] = NewB.stack_max_growth
      BY <1>0, CoverGrows
    <3>5. /\ NewB.stack_req >= stack_height_required[Op] - block.stack_change
          /\ NewB.stack_max_growth >= block.stack_change + stack_height_change[Op]
      BY <3>3, NewBFacts
    <3> QED BY <3>1, <3>2, <3>4, <3>5
  <2>3. CASE i = Top + 1 /\ Ends
    <3>1. instrs'[i] = BEGINBLOCK
      BY <2>3, AnalyzeOpFacts DEF TableOK
    <3> QED BY <1>1, <3>1 DEF BEGINBLOCK, Instruction
  <2> QED BY <2>1, <2>2, <2>3, AnalyzeOpCases DEF TableOK
<1> QED BY <1>1 DEF CoverInv

\* Saving the last block keeps the numbers that cover the instructions.
LEMMA FinishAnalysisNumbers ==
    ASSUME StackFits, TableOK, BoundInv, FinishAnalysis, NEW b \in 1..Len(instrs)
    PROVE  StackReq'[b] = StackReq[b] /\ Growth'[b] = Growth[b]
<1> DEFINE n == Len(instrs)
<1>0. /\ TableOK /\ TypeOK /\ TableInv /\ BoundInv
      /\ phase = "analyze" /\ phase' = "execute" /\ n \in Nat /\ n \in 1..n
      /\ Len(instrs') = n + 1
  BY FinishAnalysisFacts DEF TableOK, FinishAnalysis
<1>1. StackReq'[b] = instrs'[b].block.stack_req /\ Growth'[b] = instrs'[b].block.stack_max_growth
  BY <1>0 DEF StackReq, Growth
<1>2. CASE b = block.begin_block_index
  <2>1. instrs'[b].block = BlockAnalysis_close(block)
    BY <1>0, <1>2, FinishAnalysisFacts
  <2>2. block.stack_req <= INT16_MAX /\ block.stack_max_growth <= INT16_MAX
    BY <1>0, PendingFacts DEF StackFits
  <2>3. block \in [gas_cost : Nat, stack_req : Nat, stack_max_growth : Nat,
                   stack_change : Int, begin_block_index : 1..n]
    BY <1>0 DEF TypeOK
  <2>4. BlockAnalysis_close(block).stack_req = block.stack_req
        /\ BlockAnalysis_close(block).stack_max_growth = block.stack_max_growth
    BY <2>2, <2>3, CloseFacts
  <2>5. StackReq[b] = block.stack_req /\ Growth[b] = block.stack_max_growth
    BY <1>0, <1>2 DEF StackReq, Growth
  <2> QED BY <1>1, <2>1, <2>4, <2>5
<1>3. CASE b # block.begin_block_index
  <2>1. instrs'[b].block = instrs[b].block
    BY <1>0, <1>3, FinishAnalysisFacts
  <2> QED BY <1>1, <1>3, <2>1 DEF StackReq, Growth
<1> QED BY <1>2, <1>3

LEMMA FinishAnalysisCover ==
    ASSUME StackFits, IInv, FinishAnalysis, UNCHANGED stateVars
    PROVE  BoundInv' /\ ChainInv' /\ BeginInv' /\ CoverInv' /\ ExecInv'
<1> DEFINE n == Len(instrs)
<1>0. /\ TableOK /\ TypeOK /\ TableInv /\ BoundInv /\ ChainInv /\ BeginInv /\ CoverInv
      /\ phase = "analyze" /\ phase' = "execute" /\ n \in Nat /\ n \in 1..n
      /\ Len(instrs') = n + 1 /\ OP_STOP # OP_JUMPDEST
  BY FinishAnalysisFacts DEF IInv, TableOK, FinishAnalysis, OP_STOP, OP_JUMPDEST
<1>1. BoundInv'
  BY <1>0 DEF BoundInv
<1>2. /\ instrs'[n + 1].fn = OP_STOP /\ trace'[n + 1].begin = block.begin_block_index
      /\ trace'[n + 1].change = block.stack_change
      /\ trace'[n + 1].clean = (trace[n].clean /\ instrs[n].fn \notin UndefinedOps)
  BY <1>0, FinishAnalysisFacts DEF Instruction, TraceOp
<1>3. ChainInv'
  <2>1. ASSUME NEW i \in 2..Len(instrs'), instrs'[i].fn # OP_JUMPDEST
        PROVE  /\ trace'[i].begin = trace'[i-1].begin
               /\ trace'[i].clean = (trace'[i-1].clean /\ instrs'[i-1].fn \notin UndefinedOps)
               /\ trace'[i].clean => trace'[i].change = trace'[i-1].change
                                         + stack_height_change[instrs'[i-1].fn]
    <3>1. CASE i \in 2..n
      <4>1. i - 1 \in 1..n /\ i \in 1..n
        BY <1>0, <3>1
      <4>2. /\ trace'[i] = trace[i] /\ trace'[i-1] = trace[i-1] /\ instrs'[i].fn = instrs[i].fn
            /\ instrs'[i-1].fn = instrs[i-1].fn
        BY <1>0, <4>1, FinishAnalysisFacts
      <4> QED BY <1>0, <2>1, <3>1, <4>2 DEF ChainInv
    <3>2. CASE i = n + 1
      <4>1. i - 1 = n
        BY <1>0, <3>2
      <4>2. trace'[n] = trace[n] /\ instrs'[n].fn = instrs[n].fn
        BY <1>0, FinishAnalysisFacts
      <4>3. block.begin_block_index = trace[n].begin
        BY <1>0 DEF TableOK, OpenInv
      <4>4. (trace[n].clean /\ instrs[n].fn \notin UndefinedOps) =>
              block.stack_change = trace[n].change + stack_height_change[instrs[n].fn]
        BY <1>0 DEF BoundInv
      <4> QED BY <1>2, <3>2, <4>1, <4>2, <4>3, <4>4
    <3>3. i \in 2..n \/ i = n + 1
      BY <1>0
    <3> QED BY <3>1, <3>2, <3>3
  <2> QED BY <2>1 DEF ChainInv
<1>4. BeginInv'
  <2>1. ASSUME NEW i \in 1..Len(instrs'), instrs'[i].fn = OP_JUMPDEST
        PROVE  trace'[i].clean /\ trace'[i].change = 0
    <3>1. i \in 1..n
      BY <1>0, <1>2, <2>1
    <3> QED BY <1>0, <2>1, <3>1, FinishAnalysisFacts DEF BeginInv
  <2> QED BY <2>1 DEF BeginInv
<1>5. ASSUME NEW b \in 1..n
      PROVE  StackReq'[b] = StackReq[b] /\ Growth'[b] = Growth[b]
  BY <1>0, FinishAnalysisNumbers
<1>6. CoverInv'
  <2>1. ASSUME NEW i \in 1..Len(instrs'),
               instrs'[i].fn \notin UndefinedOps \cup {OP_JUMPDEST, OP_STOP}, trace'[i].clean
        PROVE  /\ StackReq'[trace'[i].begin] >= stack_height_required[instrs'[i].fn] - trace'[i].change
               /\ Growth'[trace'[i].begin] >= trace'[i].change + stack_height_change[instrs'[i].fn]
    <3>1. i \in 1..n
      BY <1>0, <1>2, <2>1
    <3>2. trace'[i] = trace[i] /\ instrs'[i].fn = instrs[i].fn
      BY <1>0, <3>1, FinishAnalysisFacts
    <3>3. trace[i].begin \in 1..n
      BY <1>0, <3>1 DEF TableInv
    <3> QED BY <1>0, <1>5, <2>1, <3>1, <3>2, <3>3 DEF CoverInv
  <2> QED BY <2>1 DEF CoverInv
<1>7. ExecInv'
  <2>1. ip' = 1 /\ size' = 0
    BY <1>0 DEF TableOK, OpenInv, stateVars
  <2>2. instrs'[1].fn = OP_JUMPDEST
    BY <1>0, FinishAnalysisFacts DEF TableInv
  <2> QED BY <2>1, <2>2, LimitsAssumption DEF ExecInv
<1> QED BY <1>1, <1>3, <1>4, <1>6, <1>7

-----------------------------------------------------------------------------
(***************************************************************************)
(* Stack safety: the execution.                                            *)
(***************************************************************************)

\* The opcodes the execution continues after are defined.
LEMMA DefinedClasses ==
    (PlainOps \cup FallibleOps \cup CorrectedOps \cup ANY_PUSH \cup DUPs \cup SWAPs
       \cup {OP_PC, OP_GAS, OP_JUMP, OP_JUMPI}) \cap UndefinedOps = {}
<1> SUFFICES ASSUME NEW op \in PlainOps \cup FallibleOps \cup CorrectedOps \cup ANY_PUSH
                                 \cup DUPs \cup SWAPs \cup {OP_PC, OP_GAS, OP_JUMP, OP_JUMPI}
             PROVE  gas_costs[op] # -1 /\ op \in Byte
  BY DEF UndefinedOps, undefined
<1> QED
  BY DEF PlainOps, FallibleOps, CorrectedOps, CallOps, OP_SSTORE, OP_PC, OP_GAS, OP_JUMP,
         OP_JUMPI, LOGs, ANY_PUSH, ANY_SMALL_PUSH, ANY_LARGE_PUSH, DUPs, SWAPs, Byte,
         gas_costs, undefined

\* How far the wrappers that move the top themselves move it.
LEMMA ChangeFacts ==
    /\ \A op \in ANY_PUSH \cup DUPs \cup {OP_PC, OP_GAS} : stack_height_change[op] = 1
    /\ \A op \in SWAPs : stack_height_change[op] = 0
    /\ stack_height_change[OP_JUMP] = -1 /\ stack_height_change[OP_JUMPI] = -2
    /\ stack_height_change[OP_STOP] = 0 /\ stack_height_required[OP_STOP] = 0
  BY DEF stack_height_change, stack_height_required, Byte, BinaryOps, TernaryOps, UnaryOps,
         NullaryOps, CopyOps, PairOps, DUPs, SWAPs, LOGs, ANY_PUSH, ANY_SMALL_PUSH,
         ANY_LARGE_PUSH, OP_PC, OP_GAS, OP_JUMP, OP_JUMPI, OP_STOP

\* An instruction about to run finds the items it accesses and leaves a stack
\* that fits: the check of its BEGINBLOCK covers it.
LEMMA Covered ==
    ASSUME IInv, phase = "execute", ip # 0,
           Instr.fn \notin UndefinedOps \cup {OP_JUMPDEST, OP_STOP}
    PROVE  /\ ip \in 1..Len(instrs) /\ Instr.fn \in Byte /\ size \in Int
           /\ trace[ip].change \in Int /\ trace[ip].begin \in 1..Len(instrs)
           /\ instrs[trace[ip].begin].block.stack_req \in Int
           /\ instrs[trace[ip].begin].block.stack_max_growth \in Int
           /\ size >= stack_height_required[Instr.fn]
           /\ size + stack_height_change[Instr.fn] \in 0..StackLimit
<1>1. ip \in 1..Len(instrs) /\ size \in Int /\ instrs \in Seq(Records)
      /\ trace \in Seq(TraceRecords) /\ Len(trace) = Len(instrs)
  BY DEF IInv, TableOK, TypeOK, Records, TraceRecords
<1>2. instrs[ip] \in Records /\ trace[ip] \in TraceRecords
  BY <1>1
<1>3. Instr.fn \in Byte /\ trace[ip].change \in Int
  BY <1>2 DEF Records, TraceRecords, Instr
<1> DEFINE b == trace[ip].begin
           sr == instrs[b].block.stack_req
           sg == instrs[b].block.stack_max_growth
           ch == trace[ip].change
           rq == stack_height_required[Instr.fn]
           sc == stack_height_change[Instr.fn]
<1>4. b \in 1..Len(instrs)
  BY <1>1 DEF IInv, TableOK, TableInv
<1>5. instrs[b] \in Records
  BY <1>1, <1>4
<1>6. sr \in Int /\ sg \in Int
  BY <1>5 DEF Records, BlockInfo
<1>7. rq \in 0..17 /\ sc \in -6..1 /\ rq + sc >= 0
  BY <1>3, TraitsFacts
<1>8. trace[ip].clean /\ size - ch >= sr /\ size - ch + sg <= StackLimit
  BY DEF IInv, ExecInv, Instr
<1>9. StackReq[b] >= rq - ch /\ Growth[b] >= ch + sc
  BY <1>1, <1>8 DEF IInv, CoverInv, Instr
<1>10. StackReq[b] = sr /\ Growth[b] = sg
  BY <1>4 DEF StackReq, Growth
<1>11. sr >= rq - ch /\ sg >= ch + sc
  BY <1>9, <1>10
<1> HIDE DEF b, sr, sg, ch, rq, sc
<1>12. size >= rq /\ size + sc \in 0..StackLimit
  <2>1. ch \in Int
    BY <1>3 DEF ch
  <2> QED BY <1>1, <1>6, <1>7, <1>8, <1>11, <2>1, LimitsAssumption
<1> USE DEF b, sr, sg, ch, rq, sc
<1> QED BY <1>1, <1>3, <1>4, <1>6, <1>12

\* After it the next instruction is covered too.
LEMMA NextCovered ==
    ASSUME IInv, NEW ops, Running(ops), ops \cap (UndefinedOps \cup {OP_JUMPDEST, OP_STOP}) = {},
           UNCHANGED analysisVars, ip' = ip + 1, size' = size + stack_height_change[Instr.fn]
    PROVE  ExecInv'
<1>0. phase = "execute" /\ ip # 0 /\ Instr.fn \in ops /\ phase' = phase /\ instrs' = instrs
      /\ trace' = trace /\ OP_STOP \notin ops
      /\ Instr.fn \notin UndefinedOps \cup {OP_JUMPDEST, OP_STOP}
  BY DEF Running, analysisVars
<1>1. /\ ip \in 1..Len(instrs) /\ Instr.fn \in Byte /\ size \in Int
      /\ trace[ip].change \in Int /\ size + stack_height_change[Instr.fn] \in 0..StackLimit
  BY <1>0, Covered
<1>2. ip + 1 \in 1..Len(instrs)
  BY <1>0, ContinueFacts DEF IInv
<1>3. size' \in 0..StackLimit
  BY <1>1
<1>4. ASSUME instrs[ip + 1].fn # OP_JUMPDEST
      PROVE  /\ trace[ip + 1].clean
             /\ size' - trace[ip + 1].change >= instrs[trace[ip + 1].begin].block.stack_req
             /\ size' - trace[ip + 1].change
                  + instrs[trace[ip + 1].begin].block.stack_max_growth <= StackLimit
  <2>1. ip + 1 \in 2..Len(instrs) /\ (ip + 1) - 1 = ip
    BY <1>1, <1>2
  <2>2. trace[ip].clean
    BY <1>0 DEF IInv, ExecInv, Instr
  <2>3. /\ trace[ip + 1].begin = trace[ip].begin
        /\ trace[ip + 1].clean = (trace[ip].clean /\ instrs[ip].fn \notin UndefinedOps)
        /\ trace[ip + 1].clean =>
             trace[ip + 1].change = trace[ip].change + stack_height_change[instrs[ip].fn]
    BY <1>4, <2>1 DEF IInv, ChainInv
  <2>4. trace[ip + 1].clean
    BY <1>0, <2>2, <2>3 DEF Instr
  <2>5. trace[ip + 1].change = trace[ip].change + stack_height_change[Instr.fn]
    BY <2>3, <2>4 DEF Instr
  <2>6. stack_height_change[Instr.fn] \in Int
    BY <1>1, TraitsFacts
  <2>7. size' - trace[ip + 1].change = size - trace[ip].change
    BY <1>1, <2>5, <2>6
  <2>8. /\ size - trace[ip].change >= instrs[trace[ip].begin].block.stack_req
        /\ size - trace[ip].change + instrs[trace[ip].begin].block.stack_max_growth <= StackLimit
    BY <1>0 DEF IInv, ExecInv, Instr
  <2> QED BY <2>3, <2>4, <2>7, <2>8
<1> QED BY <1>0, <1>3, <1>4 DEF ExecInv

LEMMA BeginCovers ==
    ASSUME IInv, opx_beginblock
    PROVE  ExecInv'
<1>0. phase = "execute" /\ ip # 0 /\ Instr.fn = OP_JUMPDEST /\ UNCHANGED analysisVars
      /\ size' = size /\ OP_STOP \notin {OP_JUMPDEST} /\ Running({OP_JUMPDEST})
  BY DEF opx_beginblock, Running, OP_STOP, OP_JUMPDEST
<1>1. CASE ip' = 0
  BY <1>1 DEF ExecInv
<1>2. CASE /\ ip' = ip + 1 /\ size >= Instr.block.stack_req
           /\ size + Instr.block.stack_max_growth <= StackLimit
  <2>1. ip \in 1..Len(instrs) /\ ip + 1 \in 1..Len(instrs)
    BY <1>0, ContinueFacts DEF IInv
  <2>2. size \in 0..StackLimit
    BY <1>0 DEF IInv, ExecInv
  <2>3. ASSUME instrs[ip + 1].fn # OP_JUMPDEST
        PROVE  /\ trace[ip + 1].clean
               /\ size - trace[ip + 1].change >= instrs[trace[ip + 1].begin].block.stack_req
               /\ size - trace[ip + 1].change
                    + instrs[trace[ip + 1].begin].block.stack_max_growth <= StackLimit
    <3>1. ip + 1 \in 2..Len(instrs) /\ (ip + 1) - 1 = ip
      BY <2>1
    <3>2. trace[ip].begin = ip
      BY <1>0, <2>1 DEF IInv, TableOK, TableInv, Instr
    <3>3. trace[ip].clean /\ trace[ip].change = 0
      BY <1>0, <2>1 DEF IInv, BeginInv, Instr
    <3>4. /\ trace[ip + 1].begin = ip
          /\ trace[ip + 1].clean = (trace[ip].clean /\ instrs[ip].fn \notin UndefinedOps)
          /\ trace[ip + 1].clean =>
               trace[ip + 1].change = trace[ip].change + stack_height_change[instrs[ip].fn]
      BY <2>3, <3>1, <3>2 DEF IInv, ChainInv
    <3>5. trace[ip + 1].clean /\ trace[ip + 1].change = 0
      <4>1. instrs[ip].fn = OP_JUMPDEST
        BY <1>0 DEF Instr
      <4>2. trace[ip + 1].clean
        BY <3>3, <3>4, <4>1, DefinedFacts, Zenon
      <4>3. trace[ip + 1].change = 0 + 0
        BY <3>3, <3>4, <4>1, <4>2, DefinedFacts, Zenon
      <4> QED BY <4>2, <4>3
    <3>6. size - 0 = size
      BY <2>2
    <3> QED BY <1>2, <3>4, <3>5, <3>6 DEF Instr
  <2> QED BY <1>0, <1>2, <2>2, <2>3 DEF ExecInv, analysisVars
<1> QED BY <1>1, <1>2 DEF opx_beginblock, AdvancedExecutionState_exit, Continue

LEMMA ExecuteCovered ==
    ASSUME IInv, NEW o \in Outcomes, Execute(o)
    PROVE  ExecInv'
<1>0. UNCHANGED analysisVars /\ phase = "execute" /\ TableOK
  BY ExecuteState DEF IInv
<1>1. ASSUME NEW s, AdvancedExecutionState_exit(s)
      PROVE  ExecInv'
  BY <1>1 DEF AdvancedExecutionState_exit, ExecInv
<1> DEFINE Bad == UndefinedOps \cup {OP_JUMPDEST, OP_STOP}
<1>2. /\ PlainOps \cap Bad = {} /\ FallibleOps \cap Bad = {} /\ {OP_SSTORE} \cap Bad = {}
      /\ CallOps \cap Bad = {} /\ ANY_PUSH \cap Bad = {} /\ DUPs \cap Bad = {}
      /\ SWAPs \cap Bad = {} /\ {OP_PC} \cap Bad = {} /\ {OP_GAS} \cap Bad = {}
      /\ {OP_JUMP} \cap Bad = {} /\ {OP_JUMPI} \cap Bad = {}
  BY ClassFacts, DefinedClasses
<1> HIDE DEF Bad
<1>3. ASSUME NEW ops, Running(ops), ops \cap Bad = {}, Continue,
             size' = size + stack_height_change[Instr.fn]
      PROVE  ExecInv'
  <2>1. ip' = ip + 1
    BY <1>3 DEF Continue
  <2> QED BY <1>0, <1>3, <2>1, NextCovered DEF Bad
<1>4. ASSUME NEW ops, Running(ops), ops \cap Bad = {}, NEW dst, JumpTo(dst),
             size' = size + stack_height_change[Instr.fn]
      PROVE  ExecInv'
  <2>1. Instr.fn \notin Bad /\ ip # 0
    BY <1>4 DEF Running
  <2>2. size' \in 0..StackLimit
    BY <1>0, <1>4, <2>1, Covered DEF Bad
  <2>3. ip' = 0 \/ instrs[ip'].fn = OP_JUMPDEST
    BY <1>0, <1>4, JumpFacts
  <2> QED BY <1>0, <2>2, <2>3 DEF ExecInv, analysisVars
<1>5. ASSUME NEW ops, Running(ops)
      PROVE  Instr.fn \in ops
  BY <1>5 DEF Running
<1>6. ASSUME NEW v, MoveTop(v)
      PROVE  size' = size + stack_height_change[Instr.fn]
  BY <1>6 DEF MoveTop
<1>7. CASE opx_beginblock
  BY <1>7, BeginCovers
<1>8. CASE op_plain(o)
  BY <1>2, <1>3, <1>6, <1>8 DEF op_plain
<1>9. CASE op_fallible(o)
  BY <1>1, <1>2, <1>3, <1>6, <1>9 DEF op_fallible
<1>10. CASE op_sstore(o)
  BY <1>1, <1>2, <1>3, <1>6, <1>10 DEF op_sstore
<1>11. CASE op_call(o)
  BY <1>1, <1>2, <1>3, <1>6, <1>11 DEF op_call
<1>12. size \in Int
  BY <1>0 DEF TableOK, TypeOK
<1>13. CASE op_jump
  <2>1. size' = size + stack_height_change[Instr.fn]
    <3>1. Instr.fn = OP_JUMP /\ size' = size - 1
      BY <1>5, <1>13 DEF op_jump
    <3> QED BY <1>12, <3>1, ChangeFacts
  <2> QED BY <1>2, <1>4, <1>13, <2>1 DEF op_jump
<1>14. CASE op_jumpi
  <2>1. size' = size + stack_height_change[Instr.fn]
    <3>1. Instr.fn = OP_JUMPI /\ size' = size - 2
      BY <1>5, <1>14 DEF op_jumpi
    <3> QED BY <1>12, <3>1, ChangeFacts
  <2> QED BY <1>2, <1>3, <1>4, <1>14, <2>1 DEF op_jumpi
<1>15. CASE op_pc
  BY <1>2, <1>3, <1>5, <1>15, ChangeFacts DEF op_pc, Stack_push
<1>16. CASE op_gas
  BY <1>2, <1>3, <1>5, <1>16, ChangeFacts DEF op_gas, Stack_push
<1>17. CASE op_push
  BY <1>2, <1>3, <1>5, <1>17, ChangeFacts DEF op_push, Stack_push
<1>18. CASE op_dup
  BY <1>2, <1>3, <1>5, <1>18, ChangeFacts DEF op_dup, Stack_push
<1>19. CASE op_swap
  BY <1>2, <1>3, <1>5, <1>12, <1>19, ChangeFacts DEF op_swap
<1>20. CASE op_stop \/ op_return(o) \/ op_invalid \/ op_selfdestruct(o) \/ op_undefined
  BY <1>1, <1>20 DEF op_stop, op_return, op_invalid, op_selfdestruct, op_undefined
<1> QED BY <1>7, <1>8, <1>9, <1>10, <1>11, <1>13, <1>14, <1>15, <1>16, <1>17, <1>18, <1>19,
           <1>20 DEF Execute

\* BoundInv needs no condition on the code.
LEMMA BoundStep ==
    ASSUME TableOK, BoundInv, [Next]_vars
    PROVE  BoundInv'
<1>1. CASE AnalyzeOp
  BY <1>1, AnalyzeOpBound
<1>2. CASE FinishAnalysis
  BY <1>2 DEF FinishAnalysis, BoundInv
<1>3. ASSUME NEW o \in Outcomes, Execute(o)
      PROVE  BoundInv'
  <2>1. UNCHANGED analysisVars /\ phase = "execute"
    BY <1>3, ExecuteState
  <2> QED BY <2>1 DEF analysisVars, BoundInv
<1>4. CASE Finish
  BY <1>4 DEF Finish, BoundInv
<1>5. CASE UNCHANGED vars
  BY <1>5 DEF vars, analysisVars, BoundInv
<1> QED BY <1>1, <1>2, <1>3, <1>4, <1>5 DEF Next, Analyze, Done

LEMMA AnalysisPartKept ==
    ASSUME IInv, UNCHANGED <<code_pos, block, instrs, trace>>,
           phase' = phase \/ (phase = "execute" /\ phase' = "done")
    PROVE  BoundInv' /\ ChainInv' /\ BeginInv' /\ CoverInv'
  BY DEF IInv, BoundInv, ChainInv, BeginInv, CoverInv, StackReq, Growth

LEMMA InitCovered == Init => IInv
<1> SUFFICES ASSUME Init PROVE IInv
  OBVIOUS
<1>1. /\ TableOK /\ phase = "analyze" /\ code_pos = 0 /\ block = BlockAnalysis_init(1)
      /\ instrs = <<BEGINBLOCK>> /\ trace = <<TraceBegin(1, 0)>>
  BY InitTable DEF Init, AnalysisInit
<1>2. /\ Len(instrs) = 1 /\ instrs[1].fn = OP_JUMPDEST /\ trace[1].clean /\ trace[1].change = 0
  BY <1>1 DEF BEGINBLOCK, Instruction, TraceBegin
<1>3. BoundInv
  BY <1>1, <1>2, DefinedFacts DEF BoundInv, BlockAnalysis_init
<1>4. ChainInv /\ BeginInv /\ CoverInv /\ ExecInv
  BY <1>1, <1>2 DEF ChainInv, BeginInv, CoverInv, ExecInv
<1> QED BY <1>1, <1>3, <1>4 DEF IInv

\* The invariant is inductive.
LEMMA CoveredStep ==
    ASSUME StackFits, IInv, [Next]_vars
    PROVE  IInv'
<1>1. CASE AnalyzeOp /\ UNCHANGED stateVars
  <2>1. TableOK'
    BY <1>1, AnalyzeOpTypes, AnalyzeOpTable, AnalyzeOpJumps, AnalyzeOpOpen
       DEF TableOK, IInv
  <2>2. BoundInv' /\ ChainInv' /\ BeginInv' /\ CoverInv'
    BY <1>1, AnalyzeOpBound, AnalyzeOpChain, AnalyzeOpCover DEF IInv
  <2>3. ExecInv'
    BY <1>1 DEF ExecInv, AnalyzeOp
  <2> QED BY <2>1, <2>2, <2>3 DEF IInv
<1>2. CASE FinishAnalysis /\ UNCHANGED stateVars
  BY <1>2, FinishAnalysisTable, FinishAnalysisCover DEF IInv
<1>3. ASSUME NEW o \in Outcomes, Execute(o)
      PROVE  IInv'
  <2>1. UNCHANGED analysisVars
    BY <1>3, ExecuteState DEF IInv
  <2>2. BoundInv' /\ ChainInv' /\ BeginInv' /\ CoverInv'
    BY <2>1, AnalysisPartKept DEF analysisVars
  <2> QED BY <1>3, <2>2, ExecuteTable, ExecuteCovered DEF IInv
<1>4. CASE Finish
  <2>1. BoundInv' /\ ChainInv' /\ BeginInv' /\ CoverInv'
    BY <1>4, AnalysisPartKept DEF Finish
  <2>2. ExecInv'
    BY <1>4 DEF Finish, ExecInv
  <2> QED BY <1>4, <2>1, <2>2, FinishTable DEF IInv
<1>5. CASE UNCHANGED vars
  <2>1. BoundInv' /\ ChainInv' /\ BeginInv' /\ CoverInv'
    BY <1>5, AnalysisPartKept DEF vars, analysisVars
  <2>2. ExecInv'
    BY <1>5 DEF IInv, ExecInv, vars, analysisVars, stateVars
  <2> QED BY <1>5, <2>1, <2>2, StutterTable DEF IInv
<1> QED BY <1>1, <1>2, <1>3, <1>4, <1>5 DEF Next, Analyze, Done

LEMMA CoveredInvariant == Spec /\ []StackFits => []IInv
<1>1. IInv /\ StackFits /\ [Next]_vars => IInv'
  BY CoveredStep
<1> QED BY <1>1, InitCovered, PTL DEF Spec

\* Codes of at most (INT16_MAX - 127) / 128 bytes have no block whose numbers
\* the cast to int16_t changes.
LEMMA ShortStackFits ==
    ASSUME CodeFits, TableOK, BoundInv
    PROVE  StackFits
<1> SUFFICES ASSUME phase = "analyze"
             PROVE  Pending.stack_req <= INT16_MAX /\ Pending.stack_max_growth <= INT16_MAX
  BY DEF StackFits
<1> PICK l : l = Len(code)
  OBVIOUS
<1> PICK p : p = code_pos
  OBVIOUS
<1>1. l \in Nat /\ p \in Nat /\ p <= l /\ 128 * l + 127 <= INT16_MAX /\ INT16_MAX \in Int
  BY CodesAssumption, WidthAssumption DEF TableOK, TypeOK, CodeFits
<1> PICK r : r = block.stack_req
  OBVIOUS
<1> PICK g : g = block.stack_max_growth
  OBVIOUS
<1> PICK c : c = block.stack_change
  OBVIOUS
<1>2. /\ r \in Nat /\ g \in Nat /\ c \in Int
      /\ c >= -(128 * p) /\ c <= 128 * p /\ r <= 128 * p + 127 /\ g <= 128 * p
  BY DEF TableOK, TypeOK, BoundInv
<1>3. CASE ~(code_pos < Len(code))
  <2>1. r <= 128 * l + 127 /\ g <= 128 * l + 127
    BY <1>1, <1>2
  <2>2. r <= INT16_MAX /\ g <= INT16_MAX
    BY <1>1, <1>2, <2>1
  <2> QED BY <1>3, <2>2 DEF Pending
<1>4. CASE code_pos < Len(code)
  <2> PICK op : op = code[code_pos + 1]
    OBVIOUS
  <2> PICK q : q = OpInfo(op).stack_req
    OBVIOUS
  <2> PICK d : d = OpInfo(op).stack_change
    OBVIOUS
  <2>1. q \in -128..127 /\ d \in -128..127
    BY <1>4, OpInfoFacts DEF TableOK
  <2>2. Pending.stack_req = Max2(r, q - c) /\ Pending.stack_max_growth = Max2(g, c + d)
    BY <1>4 DEF Pending, AddToBlock
  <2>3. p + 1 <= l
    BY <1>1, <1>4
  <2>4. q \in Int /\ d \in Int /\ q <= 127 /\ d <= 127
    <3>1. \A x : x \in -128..127 => x \in Int /\ x <= 127
      OBVIOUS
    <3> QED BY <2>1, <3>1
  <2>5. q - c <= 128 * l + 127
    BY <1>1, <1>2, <2>3, <2>4, SMTT(40)
  <2>6. c + d <= 128 * l + 127
    BY <1>1, <1>2, <2>3, <2>4, SMTT(40)
  <2>7. r <= 128 * l + 127 /\ g <= 128 * l + 127
    BY <1>1, <1>2
  <2>8. \A x, y \in Int : x <= 128 * l + 127 /\ y <= 128 * l + 127 => Max2(x, y) <= INT16_MAX
    BY <1>1 DEF Max2
  <2>9. Max2(r, q - c) <= INT16_MAX /\ Max2(g, c + d) <= INT16_MAX
    BY <1>2, <2>4, <2>5, <2>6, <2>7, <2>8, SMTT(40)
  <2> QED BY <2>2, <2>9
<1> QED BY <1>3, <1>4

\* For every bytecode whose blocks fit the int16_t that BlockAnalysis_close
\* casts to, no core implementation ever reads below the stack or writes past
\* StackSpace, although only the BEGINBLOCKs check: the block-wise check of
\* opx_beginblock implies the check that each instruction would have needed.
THEOREM StackSafety == Spec /\ []StackFits => []StackSafe
<1>1. ASSUME IInv PROVE StackSafe
  <2> SUFFICES ASSUME phase = "execute", ip # 0
               PROVE  /\ size \in 0..StackLimit
                      /\ Instr.fn \notin UndefinedOps =>
                           Instr.fn = OP_JUMPDEST \/
                           /\ size >= stack_height_required[Instr.fn]
                           /\ size + stack_height_change[Instr.fn] \in 0..StackLimit
    BY DEF StackSafe
  <2>1. size \in 0..StackLimit
    BY <1>1 DEF IInv, ExecInv
  <2>2. CASE Instr.fn = OP_STOP
    <3>1. size >= 0 /\ size + 0 = size
      BY <2>1
    <3> QED BY <2>1, <2>2, <3>1, ChangeFacts
  <2>3. CASE Instr.fn # OP_STOP
    BY <1>1, <2>1, <2>3, Covered
  <2> QED BY <2>2, <2>3
<1> QED BY <1>1, CoveredInvariant, PTL

\* Short codes are safe without a condition on the run.
COROLLARY ShortCodeSafety == CodeFits => (Spec => []StackSafe)
<1> SUFFICES ASSUME CodeFits PROVE Spec => []StackSafe
  OBVIOUS
<1>1. IInv => StackFits
  BY ShortStackFits DEF IInv
<1>2. IInv /\ [Next]_vars => IInv'
  BY <1>1, CoveredStep
<1>3. Spec => []StackFits
  BY <1>1, <1>2, InitCovered, PTL DEF Spec
<1> QED BY <1>3, StackSafety, PTL


-----------------------------------------------------------------------------
(***************************************************************************)
(* Gas.                                                                    *)
(***************************************************************************)

\* A saved block costs no negative gas: the cast of BlockAnalysis_close wraps
\* within the unsigned numbers.
BlockGasInv ==
    \A i \in 1..Len(instrs) : instrs[i].fn = OP_JUMPDEST => instrs[i].block.gas_cost >= 0

LEMMA CloseGasNat ==
    ASSUME NEW b, b.gas_cost \in Nat
    PROVE  BlockAnalysis_close(b).gas_cost >= 0
<1> PICK x, m : x = b.gas_cost /\ m = UINT32_MAX + 1
  OBVIOUS
<1>1. x \in Nat /\ m \in Nat /\ m > 0
  BY WidthAssumption
<1>2. x % m >= 0 /\ x >= 0
  BY <1>1
<1>3. Uint32(x) >= 0
  BY <1>2 DEF Uint32
<1> QED BY <1>3 DEF BlockAnalysis_close

LEMMA BlockGasStep ==
    ASSUME TableOK, BlockGasInv, [Next]_vars
    PROVE  BlockGasInv'
<1>0. TypeOK /\ TableInv /\ Len(instrs) \in Nat /\ block.gas_cost \in Nat
  BY DEF TableOK, TypeOK
<1>1. CASE AnalyzeOp
  <2>1. /\ Len(instrs') = (IF Ends THEN Top + 1 ELSE Top)
        /\ \A i \in 1..Len(instrs) :
              /\ instrs'[i].fn = instrs[i].fn
              /\ i # block.begin_block_index => instrs'[i].block = instrs[i].block
        /\ Op # OP_JUMPDEST => instrs'[Top].fn = Op
        /\ Ends => /\ instrs'[Top + 1] = BEGINBLOCK
                   /\ instrs'[block.begin_block_index].block = BlockAnalysis_close(NewB)
    BY <1>0, <1>1, AnalyzeOpFacts
  <2>2. NewB.gas_cost \in Nat
    <3>1. OpInfo(Op).gas_cost \in Nat /\ NewB.gas_cost = block.gas_cost + OpInfo(Op).gas_cost
      BY <1>1, OpInfoFacts DEF Op, NewB, AddToBlock, AnalyzeOp, TableOK
    <3> QED BY <1>0, <3>1
  <2>3. ~Ends => \A i \in 1..Len(instrs) : instrs'[i].block = instrs[i].block
    BY <1>1, SMTT(40) DEF AnalyzeOp, Ends, Op, NextPos, Instruction
  <2>4. BEGINBLOCK.block.gas_cost = 0
    BY DEF BEGINBLOCK, Instruction, BlockInfo_init
  <2> SUFFICES ASSUME NEW i \in 1..Len(instrs'), instrs'[i].fn = OP_JUMPDEST
               PROVE  instrs'[i].block.gas_cost >= 0
    BY DEF BlockGasInv
  <2>5. CASE i \in 1..Len(instrs)
    <3>1. CASE i = block.begin_block_index /\ Ends
      BY <2>1, <2>2, <3>1, CloseGasNat
    <3>2. CASE ~(i = block.begin_block_index /\ Ends)
      BY <2>1, <2>3, <2>5, <3>2 DEF BlockGasInv
    <3> QED BY <3>1, <3>2
  <2>6. CASE i \notin 1..Len(instrs)
    <3>1. \/ i = Top + 1 /\ Ends
          \/ i = Top /\ Op # OP_JUMPDEST
      BY <1>0, <2>1, <2>6 DEF Top
    <3>2. i = Top + 1 /\ Ends
      BY <2>1, <3>1
    <3> QED BY <2>1, <2>4, <3>2
  <2> QED BY <2>5, <2>6
<1>2. CASE FinishAnalysis
  <2> PICK n : n = Len(instrs)
    OBVIOUS
  <2>1. /\ n \in Nat /\ Len(instrs') = n + 1
        /\ \A i \in 1..n :
              /\ instrs'[i].fn = instrs[i].fn
              /\ i # block.begin_block_index => instrs'[i].block = instrs[i].block
        /\ instrs'[block.begin_block_index].block = BlockAnalysis_close(block)
        /\ instrs'[n + 1] = Instruction(OP_STOP, 0)
    BY <1>0, <1>2, FinishAnalysisFacts
  <2>2. Instruction(OP_STOP, 0).fn # OP_JUMPDEST
    BY DEF Instruction, OP_STOP, OP_JUMPDEST
  <2> SUFFICES ASSUME NEW i \in 1..Len(instrs'), instrs'[i].fn = OP_JUMPDEST
               PROVE  instrs'[i].block.gas_cost >= 0
    BY DEF BlockGasInv
  <2>3. i \in 1..n
    BY <2>1, <2>2
  <2>4. CASE i = block.begin_block_index
    BY <1>0, <2>1, <2>4, CloseGasNat
  <2>5. CASE i # block.begin_block_index
    BY <2>1, <2>3, <2>5 DEF BlockGasInv
  <2> QED BY <2>4, <2>5
<1>3. ASSUME instrs' = instrs
      PROVE  BlockGasInv'
  BY <1>3 DEF BlockGasInv
<1>4. ASSUME NEW o \in Outcomes, Execute(o)
      PROVE  instrs' = instrs
  BY <1>4, ExecuteState DEF analysisVars
<1>5. CASE Finish
  BY <1>3, <1>5 DEF Finish
<1>6. CASE UNCHANGED vars
  BY <1>3, <1>6 DEF vars, analysisVars
<1> QED BY <1>1, <1>2, <1>3, <1>4, <1>5, <1>6 DEF Next, Analyze, Done

\* What one instruction does to the gas: nothing it was lent is kept, and
\* only what its core implementation charges can be negative.
LEMMA GasStep ==
    ASSUME TableOK, BlockGasInv, NEW o \in Outcomes, Execute(o), ip' # 0
    PROVE  gas_left' <= gas_left \/ gas_left' = gas_left - o.cost
<1> PICK g, c : g = gas_left /\ c = o.cost
  OBVIOUS
<1>1. g \in Int /\ c \in Int /\ current_block_cost \in Int /\ ip \in 0..Len(instrs)
  BY OutcomesAssumption DEF TableOK, TypeOK
<1>2. ASSUME NEW s, AdvancedExecutionState_exit(s)
      PROVE  FALSE
  BY <1>2 DEF AdvancedExecutionState_exit
<1>3. CASE opx_beginblock
  <2> PICK b : b = Instr.block.gas_cost
    OBVIOUS
  <2>1. gas_left' = g - b /\ gas_left' >= 0
    BY <1>2, <1>3 DEF opx_beginblock
  <2>2. b >= 0 /\ b \in Int
    <3>1. ip \in 1..Len(instrs) /\ instrs[ip].fn = OP_JUMPDEST
      BY <1>1, <1>3 DEF opx_beginblock, Running, Instr
    <3>2. instrs \in Seq(Records)
      BY DEF TableOK, TypeOK, Records
    <3>3. instrs[ip].block \in BlockInfo
      <4>1. instrs[ip] \in Records
        BY <3>1, <3>2
      <4> QED BY <4>1 DEF Records
    <3> QED BY <3>1, <3>3 DEF BlockGasInv, BlockInfo, Instr
  <2> QED BY <1>1, <2>1, <2>2
<1>4. ASSUME gas_left' = g
      PROVE  gas_left' <= gas_left
  BY <1>1, <1>4
<1>5. ASSUME gas_left' = g - c
      PROVE  gas_left' = gas_left - o.cost
  BY <1>5
<1>6. ASSUME Running(CorrectedOps)
      PROVE  gas_left_correction \in Int
  <2>1. ip \in 1..Len(instrs) /\ instrs[ip].fn \in CorrectedOps
    BY <1>1, <1>6 DEF Running, Instr
  <2>2. instrs[ip].arg \in Nat
    BY <2>1 DEF TableOK, TableInv
  <2> QED BY <1>1, <2>2 DEF gas_left_correction, Instr
<1>7. \A r \in Int : (g + r) - c - r = g - c /\ (g + r - c) - r = g - c
  BY <1>1
<1>8. CASE op_sstore(o)
  <2>1. Running(CorrectedOps)
    BY <1>8, ClassFacts DEF op_sstore, Running
  <2>2. gas_left' = (g + gas_left_correction) - c - gas_left_correction
    BY <1>2, <1>8 DEF op_sstore
  <2> QED BY <1>5, <1>6, <1>7, <2>1, <2>2
<1>9. CASE op_call(o)
  <2>1. Running(CorrectedOps)
    BY <1>9, ClassFacts DEF op_call, Running
  <2>2. gas_left' = (g + gas_left_correction - c) - gas_left_correction
    BY <1>2, <1>9 DEF op_call
  <2> QED BY <1>5, <1>6, <1>7, <2>1, <2>2
<1>10. CASE op_fallible(o)
  BY <1>2, <1>5, <1>10 DEF op_fallible
<1>11. CASE \/ op_plain(o) \/ op_jump \/ op_jumpi \/ op_pc \/ op_gas \/ op_push \/ op_dup
            \/ op_swap
  BY <1>4, <1>11 DEF op_plain, op_jump, op_jumpi, op_pc, op_gas, op_push, op_dup, op_swap
<1>12. CASE op_stop \/ op_return(o) \/ op_invalid \/ op_selfdestruct(o) \/ op_undefined
  BY <1>2, <1>12 DEF op_stop, op_return, op_invalid, op_selfdestruct, op_undefined
<1> QED BY <1>3, <1>8, <1>9, <1>10, <1>11, <1>12 DEF Execute

\* The step adds gas only because a core implementation charged a negative
\* amount, and adds exactly that amount.
Refunded ==
    \E o \in Outcomes : o.cost < 0 /\ Execute(o) /\ gas_left' = gas_left - o.cost

\* Where gas can come from, for every bytecode and every cost the core
\* implementations of instructions.h charge, negative ones included: never from
\* the interpreter itself.  op_sstore and op_call give back what they were lent
\* before the next instruction, and no block charges a negative amount, even
\* one whose gas wraps in BlockAnalysis_close.
THEOREM GasAccounted == Spec => [][ip' # 0 => gas_left' <= gas_left \/ Refunded]_vars
<1>1. Init => BlockGasInv
  BY DEF Init, AnalysisInit, BlockGasInv, BEGINBLOCK, Instruction, BlockInfo_init
<1>2. TableOK /\ BlockGasInv /\ [Next]_vars => BlockGasInv'
  BY BlockGasStep
<1>3. TableOK /\ BlockGasInv /\ [Next]_vars
          => [ip' # 0 => gas_left' <= gas_left \/ Refunded]_vars
  <2> SUFFICES ASSUME TableOK, BlockGasInv, [Next]_vars, ip' # 0
               PROVE  gas_left' <= gas_left \/ Refunded \/ UNCHANGED vars
    OBVIOUS
  <2>1. gas_left \in Int
    BY DEF TableOK, TypeOK
  <2>2. CASE gas_left' = gas_left
    BY <2>1, <2>2
  <2>3. ASSUME NEW o \in Outcomes, Execute(o)
        PROVE  gas_left' <= gas_left \/ Refunded
    <3>1. gas_left' <= gas_left \/ gas_left' = gas_left - o.cost
      BY <2>3, GasStep
    <3>2. gas_left' = gas_left - o.cost => gas_left' <= gas_left \/ o.cost < 0
      BY <2>1, OutcomesAssumption
    <3> QED BY <2>3, <3>1, <3>2 DEF Refunded
  <2> QED BY <2>2, <2>3 DEF Next, Analyze, Finish, Done, stateVars
<1> QED BY <1>1, <1>2, <1>3, TableInvariant, PTL DEF Spec

\* The executions in which no core implementation charges a negative amount: no
\* call has a gas operand of 2^63 or more, and no instruction a size that
\* check_memory_u256 fails to check and that turns the cost of LOG or of growing
\* memory negative.
CostsCharge == \A o \in Outcomes : o.cost \in Nat

\* There, gas is never gained by a step that goes on.  Without the hypothesis
\* the code does gain gas, for example in a call with a negative msg.gas.
THEOREM GasMonotone == CostsCharge => (Spec => GasNeverGained)
<1> SUFFICES ASSUME CostsCharge
             PROVE  Spec => GasNeverGained
  OBVIOUS
<1>1. [ip' # 0 => gas_left' <= gas_left \/ Refunded]_vars
          => [ip' # 0 => gas_left' <= gas_left]_vars
  BY DEF CostsCharge, Refunded
<1> QED BY <1>1, GasAccounted, PTL DEF GasNeverGained

-----------------------------------------------------------------------------
(***************************************************************************)
(* What analyze() computes, exactly: where each instruction of the table   *)
(* comes from, what it has cost up to there, and that the numbers saved in *)
(* a BEGINBLOCK are those of the instructions of its block and no more.    *)
(* The theorems above need only that a block's numbers are large enough;   *)
(* the comparison with the Baseline interpreter needs that they are exact. *)
(***************************************************************************)

Last == Len(instrs)
Begins(i) == instrs[i].fn = OP_JUMPDEST

\* Base gas of an opcode; the analysis counts an undefined one as free.
OpGas(op) == IF op \in UndefinedOps THEN 0 ELSE gas_costs[op]

\* A BEGINBLOCK stands for the JUMPDEST at its position, if there is one.
Lands(p) == IF JumpdestAt(p) THEN 1 ELSE 0
Spent(i) == IF Begins(i) THEN Lands(trace[i].pos) ELSE OpGas(instrs[i].fn)
EndOf(i) == IF Begins(i) THEN trace[i].pos + Lands(trace[i].pos)
            ELSE Min2(trace[i].pos + 1 + PushSize(instrs[i].fn), Len(code))

\* The opcode at a position of the code, which STOP follows.
ByteOp(p) == IF p < Len(code) THEN code[p + 1] ELSE OP_STOP

Open(b) == phase = "analyze" /\ b = block.begin_block_index
GasOf == [b \in 1..Len(instrs) |-> IF Open(b) THEN block.gas_cost ELSE instrs[b].block.gas_cost]

\* i is the last instruction of a block that is closed.
Closes(i) == IF i = Last THEN phase # "analyze" ELSE Begins(i + 1)

\* Where the instructions come from.
PosInv ==
    /\ \A i \in 1..Last :
          /\ trace[i].pos <= Len(code)
          /\ ~Begins(i) => instrs[i].fn = ByteOp(trace[i].pos)
    /\ \A i \in 2..Last :
          /\ trace[i].pos = EndOf(i - 1)
          /\ Begins(i - 1) /\ Begins(i) => JumpdestAt(trace[i - 1].pos)
    /\ phase = "analyze" =>
          code_pos = EndOf(Last) \/ (Begins(Last) /\ code_pos = trace[Last].pos)

\* What the instructions of a block have cost.
CostInv ==
    /\ \A i \in 1..Last : Begins(i) => trace[i].cost = 0
    /\ \A i \in 2..Last : ~Begins(i) => trace[i].cost = trace[i - 1].cost + Spent(i - 1)

\* The open block.
OpenCostInv ==
    phase = "analyze" =>
        /\ block.gas_cost = trace[Last].cost
                              + (IF Begins(Last) THEN code_pos - trace[Last].pos ELSE Spent(Last))
        /\ block.gas_cost <= 32000 * code_pos
        /\ Begins(Last) => /\ block.stack_req = 0 /\ block.stack_max_growth = 0
                           /\ block.stack_change = 0

\* The gas of a block covers each instruction, and is that of its last one.
GasInv ==
    /\ \A i \in 1..Last : ~Begins(i) => GasOf[trace[i].begin] >= trace[i].cost + Spent(i)
    /\ \A i \in 1..Last :
          Closes(i) => instrs[trace[i].begin].block.gas_cost = trace[i].cost + Spent(i)
    /\ \A b \in 1..Last : Begins(b) /\ ~Open(b) => \E i \in 1..Last : trace[i].begin = b /\ Closes(i)

\* The stack numbers of a block are those of one of its instructions, unless
\* an undefined opcode ends it early.
AttainInv ==
    \A b \in 1..Last : Begins(b) =>
        \/ \E j \in 1..Last : trace[j].begin = b /\ instrs[j].fn \in UndefinedOps
        \/ /\ \/ StackReq[b] = 0
              \/ \E j \in 1..Last : /\ trace[j].begin = b /\ ~Begins(j)
                                    /\ StackReq[b] = stack_height_required[instrs[j].fn]
                                                       - trace[j].change
           /\ \/ Growth[b] = 0
              \/ \E j \in 1..Last : /\ trace[j].begin = b /\ ~Begins(j)
                                    /\ Growth[b] = trace[j].change
                                                     + stack_height_change[instrs[j].fn]

\* The arguments the analysis stored.
ArgInv ==
    \A i \in 1..Last :
        /\ instrs[i].fn \in CorrectedOps \cup {OP_GAS} =>
              instrs[i].arg = trace[i].cost + gas_costs[instrs[i].fn]
        /\ instrs[i].fn = OP_PC => instrs[i].arg = trace[i].pos
        /\ instrs[i].fn \in ANY_PUSH =>
              instrs[i].arg = PushValue(code, trace[i].pos + 1, PushSize(instrs[i].fn))

\* Blocks are contiguous, and a terminator is the last instruction of one.
ContigInv ==
    /\ \A i \in 1..Last : \A m \in trace[i].begin..i : trace[m].begin = trace[i].begin
    /\ \A i \in 2..Last : instrs[i - 1].fn \in Terminators => Begins(i)
    /\ phase = "analyze" => instrs[Last].fn \notin Terminators

ExactInv == PosInv /\ CostInv /\ OpenCostInv /\ GasInv /\ AttainInv /\ ArgInv /\ ContigInv

-----------------------------------------------------------------------------
(***************************************************************************)
(* One turn of the loop, field by field.                                   *)
(***************************************************************************)

LEMMA GasBounds ==
    ASSUME NEW op \in Byte
    PROVE  OpGas(op) \in Nat /\ OpGas(op) <= 32000
<1>1. CASE op \in UndefinedOps
  BY <1>1 DEF OpGas
<1>2. CASE op \notin UndefinedOps
  <2>1. gas_costs[op] # -1
    BY <1>2 DEF UndefinedOps, undefined
  <2>2. op \in LOGs => (op - 159) * 375 \in Nat /\ (op - 159) * 375 <= 32000
    BY DEF LOGs
  <2>3. \/ gas_costs[op] \in {0, 1, 2, 3, 5, 8, 10, 20, 30, 100, 5000, 32000, -1}
        \/ gas_costs[op] = (op - 159) * 375 /\ op \in LOGs
    BY Z3 DEF gas_costs, undefined
  <2>4. gas_costs[op] \in Nat /\ gas_costs[op] <= 32000
    BY <2>1, <2>2, <2>3
  <2> QED BY <1>2, <2>4 DEF OpGas
<1> QED BY <1>1, <1>2

LEMMA JumpdestGas == OpGas(OP_JUMPDEST) = 1 /\ OpGas(OP_STOP) = 0 /\ OP_STOP # OP_JUMPDEST
  BY DefinedFacts DEF OpGas, gas_costs, OP_JUMPDEST, OP_STOP, LOGs, ANY_PUSH, ANY_SMALL_PUSH,
     ANY_LARGE_PUSH, DUPs, SWAPs, Byte

\* The types of the fields that the invariants compute with.
LEMMA FieldTypes ==
    ASSUME TableOK
    PROVE  /\ Last \in Nat /\ Last >= 1 /\ Len(code) \in Nat /\ code_pos \in Nat
           /\ code_pos <= Len(code)
           /\ \A i \in 1..Last :
                 /\ instrs[i].fn \in Byte
                 /\ trace[i].pos \in Nat /\ trace[i].cost \in Nat /\ trace[i].change \in Int
                 /\ trace[i].begin \in 1..Last
                 /\ Spent(i) \in Nat /\ Spent(i) <= 32000 /\ Lands(trace[i].pos) \in {0, 1}
           /\ block.gas_cost \in Nat /\ block.stack_req \in Nat /\ block.stack_max_growth \in Nat
           /\ block.stack_change \in Int /\ block.begin_block_index \in 1..Last
<1>1. Last \in Nat /\ Last >= 1 /\ Len(code) \in Nat /\ code_pos \in Nat /\ code_pos <= Len(code)
  BY CodesAssumption DEF TableOK, TypeOK, TableInv, Last
<1>2. instrs \in Seq(Records) /\ trace \in Seq(TraceRecords) /\ Len(trace) = Last
  BY DEF TableOK, TypeOK, Records, TraceRecords, Last
<1>3. ASSUME NEW i \in 1..Last
      PROVE  /\ instrs[i].fn \in Byte
             /\ trace[i].pos \in Nat /\ trace[i].cost \in Nat /\ trace[i].change \in Int
             /\ trace[i].begin \in 1..Last
             /\ Spent(i) \in Nat /\ Spent(i) <= 32000 /\ Lands(trace[i].pos) \in {0, 1}
  <2>1. instrs[i] \in Records /\ trace[i] \in TraceRecords
    BY <1>2 DEF Last
  <2>2. instrs[i].fn \in Byte /\ trace[i].pos \in Nat /\ trace[i].cost \in Nat
        /\ trace[i].change \in Int
    BY <2>1 DEF Records, TraceRecords
  <2>3. trace[i].begin \in 1..Last
    BY <1>1 DEF TableOK, TableInv, Last
  <2>4. Lands(trace[i].pos) \in {0, 1}
    BY DEF Lands
  <2>5. Spent(i) \in Nat /\ Spent(i) <= 32000
    <3>1. OpGas(instrs[i].fn) \in Nat /\ OpGas(instrs[i].fn) <= 32000
      BY <2>2, GasBounds
    <3>2. \A x : x \in {0, 1} => x \in Nat /\ x <= 32000
      OBVIOUS
    <3> QED BY <2>4, <3>1, <3>2 DEF Spent
  <2> QED BY <2>2, <2>3, <2>4, <2>5
<1>4. /\ block.gas_cost \in Nat /\ block.stack_req \in Nat /\ block.stack_max_growth \in Nat
      /\ block.stack_change \in Int /\ block.begin_block_index \in 1..Last
  BY DEF TableOK, TypeOK, Last
<1> QED BY <1>1, <1>3, <1>4

\* The same of one instruction.
LEMMA SlotTypes ==
    ASSUME TableOK, NEW i \in 1..Last
    PROVE  /\ instrs[i].fn \in Byte
           /\ trace[i].pos \in Nat /\ trace[i].cost \in Nat /\ trace[i].change \in Int
           /\ trace[i].begin \in 1..Last
           /\ Spent(i) \in Nat
BY FieldTypes

\* What surrounds the instructions.
LEMMA SizeTypes ==
    ASSUME TableOK
    PROVE  Last \in Nat /\ Last >= 1 /\ Len(code) \in Nat /\ code_pos \in Nat
BY FieldTypes

\* One turn of the loop: the instructions there were, the new one, and the
\* BEGINBLOCK of the next block.
LEMMA TurnView ==
    ASSUME TableOK, BoundInv, AnalyzeOp
    PROVE  /\ Op \in Byte /\ Op = ByteOp(code_pos) /\ code_pos < Len(code)
           /\ code' = code /\ phase = "analyze" /\ phase' = "analyze" /\ code_pos' = NextPos
           /\ NextPos \in (code_pos + 1)..Len(code)
           /\ NextPos = Min2(code_pos + 1 + PushSize(Op), Len(code))
           /\ Op = OP_JUMPDEST => NextPos = code_pos + 1
           /\ Op = OP_JUMPDEST <=> JumpdestAt(code_pos)
           /\ Last \in Nat /\ Last >= 1
           /\ Top = (IF Op = OP_JUMPDEST THEN Last ELSE Last + 1)
           /\ Last' = (IF Ends THEN Top + 1 ELSE Top)
           /\ \A i \in 1..Last : /\ instrs'[i].fn = instrs[i].fn /\ instrs'[i].arg = instrs[i].arg
                                 /\ trace'[i] = trace[i]
                                 /\ i # block.begin_block_index =>
                                      instrs'[i].block = instrs[i].block
           /\ Op # OP_JUMPDEST =>
                 /\ instrs'[Top].fn = Op /\ instrs'[Top].arg = NewArg
                 /\ trace'[Top].pos = code_pos /\ trace'[Top].cost = block.gas_cost
                 /\ trace'[Top].change = block.stack_change
                 /\ trace'[Top].begin = block.begin_block_index
           /\ Ends =>
                 /\ instrs'[Top + 1].fn = OP_JUMPDEST
                 /\ trace'[Top + 1].pos = NextPos /\ trace'[Top + 1].cost = 0
                 /\ trace'[Top + 1].begin = Top + 1
                 /\ instrs'[block.begin_block_index].block = BlockAnalysis_close(NewB)
                 /\ block' = BlockAnalysis_init(Top + 1)
           /\ ~Ends => block' = NewB
           /\ NewB.begin_block_index = block.begin_block_index
           /\ NewB.gas_cost = block.gas_cost + OpGas(Op)
           /\ Op = OP_JUMPDEST => Begins(Last) /\ trace[Last].pos = code_pos
           /\ block.begin_block_index = trace[Last].begin
<1>1. TypeOK /\ TableInv /\ OpenInv
  BY DEF TableOK
<1>2. code_pos < Len(code) /\ phase = "analyze"
  BY DEF AnalyzeOp
<1>3. Op \in Byte /\ Op = ByteOp(code_pos)
  BY <1>1, <1>2, OpInfoFacts DEF Op, ByteOp
<1>4. /\ code' = code /\ phase' = "analyze" /\ code_pos' = NextPos
      /\ NextPos \in (code_pos + 1)..Len(code)
      /\ NextPos = Min2(code_pos + 1 + PushSize(Op), Len(code))
  BY <1>1, AnalyzeOpFacts DEF NextPos
<1>5. Op = OP_JUMPDEST => NextPos = code_pos + 1
  <2>1. OP_JUMPDEST \notin ANY_PUSH
    BY DEF OP_JUMPDEST, ANY_PUSH, ANY_SMALL_PUSH, ANY_LARGE_PUSH
  <2>2. Op = OP_JUMPDEST => PushSize(Op) = 0
    BY <2>1 DEF PushSize
  <2> QED BY <1>2, <2>2, FieldTypes DEF NextPos, Min2
<1>6. Op = OP_JUMPDEST <=> JumpdestAt(code_pos)
  BY <1>2 DEF JumpdestAt, Op
<1>7. Last \in Nat /\ Last >= 1 /\ Top = (IF Op = OP_JUMPDEST THEN Last ELSE Last + 1)
      /\ Last' = (IF Ends THEN Top + 1 ELSE Top)
  BY <1>1, FieldTypes, AnalyzeOpFacts DEF Top, Last
<1>8. \A i \in 1..Last : /\ instrs'[i].fn = instrs[i].fn /\ instrs'[i].arg = instrs[i].arg
                         /\ trace'[i] = trace[i]
                         /\ i # block.begin_block_index => instrs'[i].block = instrs[i].block
  BY <1>1, AnalyzeOpFacts, AnalyzeOpTrace DEF Last
<1>9. Op # OP_JUMPDEST =>
                 /\ instrs'[Top].fn = Op /\ instrs'[Top].arg = NewArg
                 /\ trace'[Top].pos = code_pos /\ trace'[Top].cost = block.gas_cost
                 /\ trace'[Top].change = block.stack_change
                 /\ trace'[Top].begin = block.begin_block_index
  BY <1>1, AnalyzeOpFacts, AnalyzeOpTrace DEF TraceOp
<1>10. Ends =>
                 /\ instrs'[Top + 1].fn = OP_JUMPDEST
                 /\ trace'[Top + 1].pos = NextPos /\ trace'[Top + 1].cost = 0
                 /\ trace'[Top + 1].begin = Top + 1
                 /\ instrs'[block.begin_block_index].block = BlockAnalysis_close(NewB)
                 /\ block' = BlockAnalysis_init(Top + 1)
  BY <1>1, AnalyzeOpFacts, AnalyzeOpTrace DEF TraceBegin, BEGINBLOCK, Instruction
<1>11. (~Ends => block' = NewB) /\ NewB.begin_block_index = block.begin_block_index
  BY <1>1, AnalyzeOpFacts, NewBFacts
<1>12. NewB.gas_cost = block.gas_cost + OpGas(Op)
  <2>1. OpInfo(Op).gas_cost = OpGas(Op)
    BY DEF OpInfo, OpGas
  <2>2. NewB.gas_cost = block.gas_cost + OpInfo(Op).gas_cost
    BY DEF NewB, AddToBlock
  <2> QED BY <2>1, <2>2
<1>13. Op = OP_JUMPDEST => Begins(Last) /\ trace[Last].pos = code_pos
  BY <1>1, <1>2, <1>6 DEF OpenInv, Begins, Last
<1>14. block.begin_block_index = trace[Last].begin
  BY <1>1, <1>2 DEF OpenInv, Last
<1> HIDE DEF TableOK
<1> QED BY <1>2, <1>3, <1>4, <1>5, <1>6, <1>7, <1>8, <1>9, <1>10, <1>11, <1>12, <1>13, <1>14

-----------------------------------------------------------------------------
(***************************************************************************)
(* One turn of the loop keeps the invariants.                              *)
(***************************************************************************)

\* The instruction at i of the new table.
LEMMA TurnCases ==
    ASSUME TableOK, BoundInv, AnalyzeOp, NEW i \in 1..Last'
    PROVE  \/ i \in 1..Last
           \/ i = Top /\ Op # OP_JUMPDEST /\ i = Last + 1
           \/ i = Top + 1 /\ Ends
  BY TurnView

\* Old instructions read the same.
LEMMA TurnKeeps ==
    ASSUME TableOK, BoundInv, AnalyzeOp, NEW i \in 1..Last
    PROVE  /\ i \in 1..Last' /\ trace'[i] = trace[i] /\ (Begins(i)' <=> Begins(i))
           /\ Spent(i)' = Spent(i) /\ EndOf(i)' = EndOf(i)
           /\ \A p : JumpdestAt(p)' <=> JumpdestAt(p)
<1>1. code' = code /\ instrs'[i].fn = instrs[i].fn /\ trace'[i] = trace[i] /\ i \in 1..Last'
  BY TurnView
<1> QED BY <1>1 DEF Begins, Spent, EndOf, Lands, JumpdestAt, OpGas, PushSize

LEMMA TurnPos ==
    ASSUME TableOK, BoundInv, PosInv, AnalyzeOp
    PROVE  PosInv'
<1> PICK n : n = Last
  OBVIOUS
<1> PICK t : t = Top
  OBVIOUS
<1>0. /\ n \in Nat /\ n >= 1 /\ n \in 1..n /\ code_pos \in Nat /\ Len(code) \in Nat
      /\ NextPos \in Nat /\ NextPos <= Len(code) /\ code' = code
  BY FieldTypes, TurnView, SMTT(40)
<1>1. ASSUME NEW i \in 1..Last'
      PROVE  /\ trace'[i].pos <= Len(code)
             /\ ~Begins(i)' => instrs'[i].fn = ByteOp(trace'[i].pos)
  <2>1. CASE i \in 1..n
    <3>1. trace'[i] = trace[i] /\ (Begins(i)' <=> Begins(i)) /\ instrs'[i].fn = instrs[i].fn
      BY <2>1, TurnKeeps, TurnView
    <3> QED BY <2>1, <3>1 DEF PosInv
  <2>2. CASE i = t /\ Op # OP_JUMPDEST /\ i = n + 1
    BY <1>0, <2>2, TurnView
  <2>3. CASE i = t + 1 /\ Ends
    BY <1>0, <2>3, TurnView DEF Begins
  <2> QED BY <2>1, <2>2, <2>3, TurnCases
<1>2. t \in 1..Last' /\ EndOf(t)' = NextPos
  <2>0. t \in 1..Last'
    BY <1>0, TurnView
  <2>1. CASE Op = OP_JUMPDEST
    <3>1. t = n /\ Begins(n) /\ trace[n].pos = code_pos /\ JumpdestAt(code_pos)
          /\ NextPos = code_pos + 1
      BY <2>1, TurnView
    <3>2. EndOf(n)' = EndOf(n)
      BY <1>0, TurnKeeps
    <3>3. EndOf(n) = NextPos
      BY <1>0, <3>1 DEF EndOf, Lands
    <3> QED BY <2>0, <3>1, <3>2, <3>3
  <2>2. CASE Op # OP_JUMPDEST
    <3>1. instrs'[t].fn = Op /\ trace'[t].pos = code_pos
      BY <2>2, TurnView
    <3>2. NextPos = Min2(code_pos + 1 + PushSize(Op), Len(code))
      BY TurnView
    <3>3. ~Begins(t)'
      BY <2>2, <3>1 DEF Begins
    <3> QED BY <1>0, <2>0, <3>1, <3>2, <3>3 DEF EndOf, Begins, PushSize
  <2> QED BY <2>1, <2>2
<1>3. ASSUME NEW i \in 2..Last'
      PROVE  /\ trace'[i].pos = EndOf(i - 1)'
             /\ Begins(i - 1)' /\ Begins(i)' => JumpdestAt(trace'[i - 1].pos)
  <2>0. i \in 1..Last'
    OBVIOUS
  <2>1. CASE i \in 1..n
    <3>1. i - 1 \in 1..n /\ i \in 2..n
      BY <1>0, <2>1
    <3>2. /\ trace'[i] = trace[i] /\ trace'[i - 1] = trace[i - 1]
          /\ (Begins(i)' <=> Begins(i)) /\ (Begins(i - 1)' <=> Begins(i - 1))
          /\ EndOf(i - 1)' = EndOf(i - 1)
          /\ \A p : JumpdestAt(p)' <=> JumpdestAt(p)
      BY <2>1, <3>1, TurnKeeps
    <3> QED BY <3>1, <3>2 DEF PosInv
  <2>2. CASE i = t /\ Op # OP_JUMPDEST /\ i = n + 1
    <3>1. i - 1 = n
      BY <1>0, <2>2
    <3>2. trace'[i].pos = code_pos /\ instrs'[i].fn = Op
      BY <2>2, TurnView
    <3>3. ~Begins(i)'
      BY <2>2, <3>2 DEF Begins
    <3>4. EndOf(n)' = EndOf(n)
      BY <1>0, TurnKeeps
    <3>5. code_pos = EndOf(n)
      <4>1. ~JumpdestAt(code_pos) /\ phase = "analyze"
        BY <2>2, TurnView
      <4>2. Begins(n) /\ code_pos = trace[n].pos => EndOf(n) = trace[n].pos
        BY <1>0, <4>1 DEF EndOf, Lands
      <4> QED BY <4>1, <4>2 DEF PosInv
    <3> QED BY <3>1, <3>2, <3>3, <3>4, <3>5
  <2>3. CASE i = t + 1 /\ Ends
    <3>1. i - 1 = t
      BY <1>0, <2>3, TurnView
    <3>2. trace'[i].pos = NextPos
      BY <2>3, TurnView
    <3>3. ASSUME Begins(t)'
          PROVE  JumpdestAt(trace'[t].pos)
      <4>1. Op = OP_JUMPDEST
        BY <3>3, TurnView DEF Begins
      <4>2. t = n /\ trace[n].pos = code_pos /\ JumpdestAt(code_pos) /\ trace'[n] = trace[n]
        BY <1>0, <4>1, TurnView
      <4> QED BY <1>0, <4>2 DEF JumpdestAt
    <3> QED BY <1>2, <3>1, <3>2, <3>3
  <2> QED BY <2>0, <2>1, <2>2, <2>3, TurnCases
<1>4. code_pos' = EndOf(Last)' \/ (Begins(Last)' /\ code_pos' = trace'[Last'].pos)
  <2>1. CASE Ends
    <3>1. Last' = t + 1 /\ instrs'[t + 1].fn = OP_JUMPDEST /\ trace'[t + 1].pos = NextPos
          /\ code_pos' = NextPos
      BY <2>1, TurnView
    <3> QED BY <3>1 DEF Begins
  <2>2. CASE ~Ends
    <3>1. Last' = t /\ code_pos' = NextPos
      BY <2>2, TurnView
    <3>2. EndOf(Last)' = EndOf(t)'
      BY <3>1
    <3> QED BY <1>2, <3>1, <3>2
  <2> QED BY <2>1, <2>2
<1>5. \A p : JumpdestAt(p)' <=> JumpdestAt(p)
  BY <1>0, TurnKeeps
<1> QED BY <1>0, <1>1, <1>3, <1>4, <1>5 DEF PosInv, ByteOp

\* A JUMPDEST adds nothing to the stack numbers of a new block.
LEMMA JumpdestTraits ==
    ASSUME Op = OP_JUMPDEST, block.stack_req = 0, block.stack_max_growth = 0,
           block.stack_change = 0
    PROVE  NewB.stack_req = 0 /\ NewB.stack_max_growth = 0 /\ NewB.stack_change = 0
<1>1. stack_height_required[OP_JUMPDEST] = 0 /\ stack_height_change[OP_JUMPDEST] = 0
  BY DEF OP_JUMPDEST, Byte, stack_height_required, BinaryOps, TernaryOps, UnaryOps,
     CopyOps, PairOps, DUPs, SWAPs, LOGs, stack_height_change, NullaryOps, ANY_PUSH,
     ANY_SMALL_PUSH, ANY_LARGE_PUSH
<1>2. OpInfo(Op).stack_req = 0 /\ OpInfo(Op).stack_change = 0
  BY <1>1, DefinedFacts DEF OpInfo
<1>3. /\ NewB.stack_req = Max2(block.stack_req, OpInfo(Op).stack_req - block.stack_change)
      /\ NewB.stack_max_growth = Max2(block.stack_max_growth, NewB.stack_change)
      /\ NewB.stack_change = block.stack_change + OpInfo(Op).stack_change
  BY DEF NewB, AddToBlock
<1> QED BY <1>2, <1>3 DEF Max2

\* Unless a JUMPDEST is next, the open block has paid for all it has.
LEMMA OpenExact ==
    ASSUME TableOK, PosInv, OpenCostInv, phase = "analyze", ~JumpdestAt(code_pos)
    PROVE  /\ code_pos = EndOf(Last)
           /\ block.gas_cost = trace[Last].cost + Spent(Last)
<1>0. trace[Last].pos \in Nat /\ trace[Last].cost \in Nat /\ Spent(Last) \in Nat
      /\ code_pos \in Nat
  BY FieldTypes
<1>1. CASE ~Begins(Last)
  BY <1>1 DEF OpenCostInv, PosInv
<1>2. CASE Begins(Last) /\ code_pos = trace[Last].pos
  <2>1. block.gas_cost = trace[Last].cost + (code_pos - trace[Last].pos)
    BY <1>2 DEF OpenCostInv
  <2>2. Spent(Last) = 0 /\ EndOf(Last) = trace[Last].pos + 0
    BY <1>2 DEF Spent, EndOf, Lands
  <2> QED BY <1>0, <1>2, <2>1, <2>2
<1>3. CASE Begins(Last) /\ code_pos = EndOf(Last)
  <2>1. block.gas_cost = trace[Last].cost + (code_pos - trace[Last].pos)
    BY <1>3 DEF OpenCostInv
  <2>2. code_pos = trace[Last].pos + Spent(Last)
    BY <1>3 DEF EndOf, Spent
  <2>3. code_pos - trace[Last].pos = Spent(Last)
    BY <1>0, <2>2
  <2> QED BY <1>3, <2>1, <2>3
<1> QED BY <1>1, <1>2, <1>3 DEF PosInv

LEMMA TurnCost ==
    ASSUME TableOK, BoundInv, PosInv, CostInv, OpenCostInv, AnalyzeOp
    PROVE  CostInv' /\ OpenCostInv'
<1> PICK n : n = Last
  OBVIOUS
<1> PICK t : t = Top
  OBVIOUS
<1>0. /\ n \in Nat /\ n >= 1 /\ n \in 1..n /\ code_pos \in Nat /\ Len(code) \in Nat
      /\ NextPos \in Nat /\ NextPos >= code_pos + 1 /\ phase = "analyze" /\ code_pos' = NextPos
      /\ t \in Nat
  BY FieldTypes, TurnView, SMTT(40)
<1>1. ASSUME NEW i \in 1..Last', Begins(i)'
      PROVE  trace'[i].cost = 0
  <2>1. CASE i \in 1..n
    BY <1>1, <2>1, TurnKeeps DEF CostInv
  <2>2. CASE i = t /\ Op # OP_JUMPDEST /\ i = n + 1
    BY <1>1, <2>2, TurnView DEF Begins
  <2>3. CASE i = t + 1 /\ Ends
    BY <2>3, TurnView
  <2> QED BY <2>1, <2>2, <2>3, TurnCases
<1>2. ASSUME NEW i \in 2..Last', ~Begins(i)'
      PROVE  trace'[i].cost = trace'[i - 1].cost + Spent(i - 1)'
  <2>0. i \in 1..Last'
    OBVIOUS
  <2>1. CASE i \in 1..n
    <3>1. i - 1 \in 1..n /\ i \in 2..n
      BY <1>0, <2>1
    <3> QED BY <1>2, <2>1, <3>1, TurnKeeps DEF CostInv
  <2>2. CASE i = t /\ Op # OP_JUMPDEST /\ i = n + 1
    <3>1. i - 1 = n /\ trace'[i].cost = block.gas_cost
      BY <1>0, <2>2, TurnView
    <3>2. trace'[n] = trace[n] /\ Spent(n)' = Spent(n)
      BY <1>0, TurnKeeps
    <3>3. block.gas_cost = trace[n].cost + Spent(n)
      BY <1>0, <2>2, TurnView, OpenExact
    <3> QED BY <3>1, <3>2, <3>3
  <2>3. CASE i = t + 1 /\ Ends
    BY <1>2, <2>3, TurnView DEF Begins
  <2> QED BY <2>0, <2>1, <2>2, <2>3, TurnCases
<1>3. OpenCostInv'
  <2>0. /\ block.gas_cost \in Nat /\ block.gas_cost <= 32000 * code_pos
        /\ NewB.gas_cost = block.gas_cost + OpGas(Op)
        /\ OpGas(Op) \in Nat /\ OpGas(Op) <= 32000
    BY <1>0, TurnView, FieldTypes, GasBounds DEF OpenCostInv
  <2>1. CASE Ends
    <3>1. Last' = t + 1 /\ Begins(t + 1)' /\ trace'[t + 1].pos = NextPos /\ trace'[t + 1].cost = 0
          /\ block' = BlockAnalysis_init(t + 1)
      BY <2>1, TurnView DEF Begins
    <3>2. block'.gas_cost = 0 /\ block'.stack_req = 0 /\ block'.stack_max_growth = 0
          /\ block'.stack_change = 0
      BY <3>1 DEF BlockAnalysis_init
    <3>3. 0 = 0 + (NextPos - NextPos) /\ 0 <= 32000 * NextPos
      BY <1>0
    <3> QED BY <1>0, <3>1, <3>2, <3>3 DEF OpenCostInv
  <2>2. CASE ~Ends
    <3>1. Last' = t /\ block' = NewB
      BY <2>2, TurnView
    <3>2. NewB.gas_cost <= 32000 * NextPos
      <4> PICK g \in Nat : g = block.gas_cost
        BY <2>0
      <4> PICK c \in Nat : c = OpGas(Op)
        BY <2>0
      <4> PICK x \in Nat : x = NextPos
        BY <1>0
      <4>1. g <= 32000 * code_pos /\ c <= 32000 /\ x >= code_pos + 1
        BY <1>0, <2>0
      <4>2. g + c <= 32000 * x
        BY <1>0, <4>1
      <4> QED BY <2>0, <4>2
    <3>3. CASE Op = OP_JUMPDEST
      <4>1. t = n /\ Begins(n) /\ trace[n].pos = code_pos /\ NextPos = code_pos + 1
        BY <3>3, TurnView
      <4>2. trace'[n] = trace[n] /\ Begins(n)'
        BY <1>0, <4>1, TurnKeeps
      <4>3. trace[n].cost = 0 /\ block.gas_cost = trace[n].cost + (code_pos - trace[n].pos)
            /\ block.stack_req = 0 /\ block.stack_max_growth = 0 /\ block.stack_change = 0
        BY <1>0, <4>1 DEF CostInv, OpenCostInv
      <4>4. OpGas(Op) = 1
        BY <3>3, JumpdestGas
      <4>5. NewB.gas_cost = 1
        BY <1>0, <2>0, <4>1, <4>3, <4>4
      <4>6. NewB.gas_cost = trace'[n].cost + (NextPos - trace'[n].pos)
        BY <1>0, <4>1, <4>2, <4>3, <4>5
      <4>7. NewB.stack_req = 0 /\ NewB.stack_max_growth = 0 /\ NewB.stack_change = 0
        BY <3>3, <4>3, JumpdestTraits
      <4> QED BY <1>0, <3>1, <3>2, <4>1, <4>2, <4>6, <4>7 DEF OpenCostInv
    <3>4. CASE Op # OP_JUMPDEST
      <4>1. instrs'[t].fn = Op /\ trace'[t].cost = block.gas_cost
        BY <3>4, TurnView
      <4>2. ~Begins(t)' /\ Spent(t)' = OpGas(Op)
        BY <3>4, <4>1 DEF Begins, Spent, OpGas
      <4> QED BY <1>0, <2>0, <3>1, <3>2, <4>1, <4>2 DEF OpenCostInv
    <3> QED BY <3>3, <3>4
  <2> QED BY <2>1, <2>2
<1> QED BY <1>1, <1>2, <1>3 DEF CostInv

\* Contiguity and terminators.
LEMMA TurnContig ==
    ASSUME TableOK, BoundInv, ContigInv, AnalyzeOp
    PROVE  ContigInv'
<1> PICK n : n = Last
  OBVIOUS
<1> PICK t : t = Top
  OBVIOUS
<1>0. /\ n \in Nat /\ n >= 1 /\ n \in 1..n /\ t \in Nat
  BY FieldTypes, TurnView, SMTT(40)
<1>1. ASSUME NEW i \in 1..Last', NEW m \in trace'[i].begin..i
      PROVE  trace'[m].begin = trace'[i].begin
  <2>1. CASE i \in 1..n
    <3>1. trace'[i] = trace[i] /\ trace[i].begin \in 1..n
      BY <2>1, TurnKeeps, FieldTypes
    <3>2. m \in 1..n
      BY <1>0, <2>1, <3>1
    <3>3. trace'[m] = trace[m]
      BY <3>2, TurnKeeps
    <3> QED BY <2>1, <3>1, <3>3 DEF ContigInv
  <2>2. CASE i = t /\ Op # OP_JUMPDEST /\ i = n + 1
    <3>1. trace'[i].begin = trace[n].begin /\ trace[n].begin \in 1..n
      BY <1>0, <2>2, TurnView, FieldTypes
    <3>2. CASE m = i
      BY <3>2
    <3>3. CASE m # i
      <4>1. m \in 1..n /\ m \in trace[n].begin..n
        BY <1>0, <2>2, <3>1, <3>3
      <4>2. trace'[m] = trace[m]
        BY <4>1, TurnKeeps
      <4> QED BY <1>0, <3>1, <4>1, <4>2 DEF ContigInv
    <3> QED BY <3>2, <3>3
  <2>3. CASE i = t + 1 /\ Ends
    <3>1. trace'[i].begin = i
      BY <2>3, TurnView
    <3> QED BY <1>0, <2>3, <3>1
  <2> QED BY <2>1, <2>2, <2>3, TurnCases
<1>2. OP_JUMPDEST \notin Terminators
  BY DEF Terminators, OP_JUMPDEST, OP_JUMP, OP_JUMPI, OP_STOP, OP_RETURN, OP_REVERT, OP_SELFDESTRUCT
<1>3. Op \in Terminators => Ends
  BY DEF Ends
<1>4. instrs[n].fn \notin Terminators /\ instrs'[n].fn = instrs[n].fn
  BY <1>0, TurnView DEF ContigInv
<1>5. ASSUME NEW i \in 2..Last', instrs'[i - 1].fn \in Terminators
      PROVE  Begins(i)'
  <2>0. i \in 1..Last'
    OBVIOUS
  <2>1. CASE i \in 1..n
    <3>1. i - 1 \in 1..n /\ i \in 2..n
      BY <1>0, <2>1
    <3>2. instrs'[i - 1].fn = instrs[i - 1].fn /\ (Begins(i)' <=> Begins(i))
      BY <2>1, <3>1, TurnView, TurnKeeps
    <3> QED BY <1>5, <3>1, <3>2 DEF ContigInv
  <2>2. CASE i = t /\ Op # OP_JUMPDEST /\ i = n + 1
    <3>1. i - 1 = n
      BY <1>0, <2>2
    <3> QED BY <1>4, <1>5, <3>1
  <2>3. CASE i = t + 1 /\ Ends
    BY <2>3, TurnView DEF Begins
  <2> QED BY <2>0, <2>1, <2>2, <2>3, TurnCases
<1>6. instrs'[Last'].fn \notin Terminators
  <2>1. CASE Ends
    BY <1>2, <2>1, TurnView
  <2>2. CASE ~Ends
    <3>1. Last' = t /\ Op \notin Terminators
      BY <1>3, <2>2, TurnView
    <3> QED BY <1>4, <3>1, TurnView
  <2> QED BY <2>1, <2>2
<1> QED BY <1>1, <1>5, <1>6 DEF ContigInv

LEMMA PcIsPlain == OP_PC \notin ANY_PUSH \cup CorrectedOps \cup {OP_GAS}
  BY DEF OP_PC, OP_GAS, OP_SSTORE, CorrectedOps, CallOps, ANY_PUSH, ANY_SMALL_PUSH, ANY_LARGE_PUSH

LEMMA TurnArg ==
    ASSUME TableOK, BoundInv, ArgInv, AnalyzeOp
    PROVE  ArgInv'
<1> PICK n : n = Last
  OBVIOUS
<1> PICK t : t = Top
  OBVIOUS
<1>0. code' = code
  BY TurnView
<1>1. ASSUME NEW i \in 1..Last'
      PROVE  /\ instrs'[i].fn \in CorrectedOps \cup {OP_GAS} =>
                  instrs'[i].arg = trace'[i].cost + gas_costs[instrs'[i].fn]
             /\ instrs'[i].fn = OP_PC => instrs'[i].arg = trace'[i].pos
             /\ instrs'[i].fn \in ANY_PUSH =>
                  instrs'[i].arg = PushValue(code, trace'[i].pos + 1, PushSize(instrs'[i].fn))
  <2>1. CASE i \in 1..n
    <3>1. instrs'[i].fn = instrs[i].fn /\ instrs'[i].arg = instrs[i].arg /\ trace'[i] = trace[i]
      BY <2>1, TurnView
    <3> QED BY <2>1, <3>1 DEF ArgInv
  <2>2. CASE i = t /\ Op # OP_JUMPDEST /\ i = n + 1
    <3>1. /\ instrs'[i].fn = Op /\ instrs'[i].arg = NewArg /\ trace'[i].pos = code_pos
          /\ trace'[i].cost = block.gas_cost /\ NewB.gas_cost = block.gas_cost + OpGas(Op)
      BY <2>2, TurnView
    <3>2. CASE Op \in ANY_PUSH
      <4>1. Op \notin CorrectedOps \cup {OP_GAS} /\ Op # OP_PC
        BY <3>2, ClassFacts, PcIsPlain
      <4> QED BY <3>1, <3>2, <4>1 DEF NewArg, Argument
    <3>3. CASE Op \in CorrectedOps \cup {OP_GAS}
      <4>1. Op \notin ANY_PUSH /\ Op # OP_PC
        BY <3>3, ClassFacts, PcIsPlain
      <4>2. OpGas(Op) = gas_costs[Op]
        BY <3>3, DefinedClasses DEF OpGas
      <4> QED BY <3>1, <3>3, <4>1, <4>2 DEF NewArg, Argument
    <3>4. CASE Op \notin ANY_PUSH \cup CorrectedOps \cup {OP_GAS}
      BY <3>1, <3>4 DEF NewArg, Argument
    <3> QED BY <3>2, <3>3, <3>4
  <2>3. CASE i = t + 1 /\ Ends
    <3>1. OP_JUMPDEST \notin CorrectedOps \cup {OP_GAS, OP_PC} \cup ANY_PUSH
      BY ClassFacts
    <3> QED BY <2>3, <3>1, TurnView
  <2> QED BY <2>1, <2>2, <2>3, TurnCases
<1> QED BY <1>0, <1>1 DEF ArgInv

\* Block gas that fits survives the cast of BlockAnalysis_close.
LEMMA CloseGas ==
    ASSUME NEW b, b.gas_cost \in Nat, b.gas_cost <= UINT32_MAX
    PROVE  BlockAnalysis_close(b).gas_cost = b.gas_cost
  BY WidthAssumption DEF BlockAnalysis_close, Uint32

\* What a turn does to the gas of the blocks.
LEMMA TurnBlockGas ==
    ASSUME CostFits, TableOK, BoundInv, OpenCostInv, AnalyzeOp
    PROVE  /\ Ends => instrs'[block.begin_block_index].block.gas_cost = NewB.gas_cost
           /\ \A b \in 1..Last : b # block.begin_block_index =>
                 GasOf'[b] = GasOf[b] /\ instrs'[b].block = instrs[b].block
           /\ GasOf'[block.begin_block_index] = NewB.gas_cost
<1>1. phase = "analyze" /\ phase' = "analyze" /\ block.begin_block_index \in 1..Last
      /\ \A b \in 1..Last : b \in 1..Last'
  BY TurnView, FieldTypes, SMTT(40)
<1>2. NewB.gas_cost \in Nat /\ NewB.gas_cost <= UINT32_MAX
  BY <1>1, TurnView, FieldTypes, GasBounds, PendingFacts, SMTT(40) DEF CostFits
<1>3. ASSUME Ends
      PROVE  instrs'[block.begin_block_index].block.gas_cost = NewB.gas_cost
  BY <1>2, <1>3, TurnView, CloseGas
<1>4. ASSUME NEW b \in 1..Last, b # block.begin_block_index
      PROVE  GasOf'[b] = GasOf[b] /\ instrs'[b].block = instrs[b].block
  <2>1. instrs'[b].block = instrs[b].block
    BY <1>4, TurnView
  <2>2. ~Open(b) /\ ~Open(b)'
    <3>1. CASE Ends
      <4>1. block'.begin_block_index = Top + 1 /\ b # Top + 1
        BY <3>1, TurnView DEF BlockAnalysis_init
      <4> QED BY <1>4, <4>1 DEF Open
    <3>2. CASE ~Ends
      BY <1>4, <3>2, TurnView DEF Open
    <3> QED BY <3>1, <3>2
  <2> QED BY <1>1, <2>1, <2>2 DEF GasOf, Last
<1>5. GasOf'[block.begin_block_index] = NewB.gas_cost
  <2> PICK b : b = block.begin_block_index
    OBVIOUS
  <2>1. CASE Ends
    <3>1. block'.begin_block_index = Top + 1 /\ b # Top + 1
      BY <1>1, <2>1, TurnView DEF BlockAnalysis_init
    <3>2. ~Open(b)'
      BY <3>1 DEF Open
    <3> QED BY <1>1, <1>3, <2>1, <3>2 DEF GasOf, Last
  <2>2. CASE ~Ends
    <3>1. block' = NewB /\ NewB.begin_block_index = b
      BY <2>2, TurnView
    <3>2. Open(b)'
      BY <1>1, <3>1 DEF Open
    <3> QED BY <1>1, <3>1, <3>2 DEF GasOf, Last
  <2> QED BY <2>1, <2>2
<1> QED BY <1>3, <1>4, <1>5

\* The instruction the turn ends on, before the BEGINBLOCK of the next block.
LEMMA TurnTop ==
    ASSUME TableOK, BoundInv, PosInv, CostInv, OpenCostInv, AnalyzeOp, NEW t, t = Top
    PROVE  /\ t \in 1..Last' /\ trace'[t].begin = block.begin_block_index
           /\ NewB.gas_cost = trace'[t].cost + Spent(t)'
<1> PICK n : n = Last
  OBVIOUS
<1>0. n \in 1..n /\ n \in Nat /\ phase = "analyze" /\ t \in 1..Last'
      /\ NewB.gas_cost = block.gas_cost + OpGas(Op)
  BY TurnView
<1>1. CASE Op = OP_JUMPDEST
  <2>1. t = n /\ Begins(n) /\ trace[n].pos = code_pos /\ JumpdestAt(code_pos)
        /\ block.begin_block_index = trace[n].begin
    BY <1>1, TurnView
  <2>2. trace'[n] = trace[n] /\ Spent(n)' = Spent(n)
    BY <1>0, TurnKeeps
  <2>3. block.gas_cost = trace[n].cost + (code_pos - trace[n].pos) /\ trace[n].cost = 0
    BY <1>0, <2>1 DEF OpenCostInv, CostInv
  <2>4. Spent(n) = 1 /\ OpGas(Op) = 1
    BY <1>1, <2>1, JumpdestGas DEF Spent, Lands
  <2>5. code_pos \in Nat
    BY FieldTypes
  <2> QED BY <1>0, <2>1, <2>2, <2>3, <2>4, <2>5
<1>2. CASE Op # OP_JUMPDEST
  <2>1. instrs'[t].fn = Op /\ trace'[t].cost = block.gas_cost
        /\ trace'[t].begin = block.begin_block_index
    BY <1>2, TurnView
  <2>2. Spent(t)' = OpGas(Op)
    BY <1>2, <2>1 DEF Begins, Spent, OpGas
  <2> QED BY <1>0, <2>1, <2>2
<1> QED BY <1>1, <1>2

LEMMA TurnGas ==
    ASSUME CostFits, TableOK, BoundInv, PosInv, CostInv, OpenCostInv, ContigInv, GasInv, AnalyzeOp
    PROVE  GasInv'
<1> PICK n : n = Last
  OBVIOUS
<1> PICK t : t = Top
  OBVIOUS
<1> PICK o : o = block.begin_block_index
  OBVIOUS
<1>0. /\ n \in Nat /\ n >= 1 /\ n \in 1..n /\ t \in Nat /\ o \in 1..n /\ o = trace[n].begin
      /\ phase = "analyze" /\ phase' = "analyze" /\ n <= t
  BY FieldTypes, TurnView, SMTT(40)
<1>1. ASSUME NEW i \in 1..Last', ~Begins(i)'
      PROVE  GasOf'[trace'[i].begin] >= trace'[i].cost + Spent(i)'
  <2>1. CASE i \in 1..n
    <3>1. trace'[i] = trace[i] /\ Spent(i)' = Spent(i) /\ ~Begins(i)
      BY <1>1, <2>1, TurnKeeps
    <3> PICK b : b = trace[i].begin
      OBVIOUS
    <3>2. GasOf[b] >= trace[i].cost + Spent(i) /\ b \in 1..n
      BY <2>1, <3>1, FieldTypes DEF GasInv
    <3>3. CASE b # o
      BY <3>1, <3>2, <3>3, TurnBlockGas
    <3>4. CASE b = o
      <4>1. GasOf[o] = block.gas_cost /\ GasOf'[o] = NewB.gas_cost
        BY <1>0, TurnBlockGas DEF GasOf, Open, Last
      <4>2. NewB.gas_cost = block.gas_cost + OpGas(Op) /\ OpGas(Op) \in Nat
            /\ block.gas_cost \in Nat
        BY TurnView, FieldTypes, GasBounds
      <4>3. trace[i].cost \in Nat /\ Spent(i) \in Nat
        BY <2>1, FieldTypes
      <4> PICK x \in Nat : x = trace[i].cost
        BY <4>3
      <4> PICK y \in Nat : y = Spent(i)
        BY <4>3
      <4> PICK g \in Nat : g = block.gas_cost
        BY <4>2
      <4> PICK c \in Nat : c = OpGas(Op)
        BY <4>2
      <4>4. g >= x + y
        BY <3>2, <3>4, <4>1
      <4>5. g + c >= x + y
        BY <4>4
      <4> QED BY <3>1, <3>4, <4>1, <4>2, <4>5
    <3> QED BY <3>3, <3>4
  <2>2. CASE i = t
    <3>1. trace'[t].begin = o /\ NewB.gas_cost = trace'[t].cost + Spent(t)'
      BY TurnTop
    <3>2. NewB.gas_cost \in Int
      BY TurnView, FieldTypes, GasBounds, SMTT(40)
    <3> QED BY <2>2, <3>1, <3>2, TurnBlockGas
  <2>3. CASE i = t + 1 /\ Ends
    BY <1>1, <2>3, TurnView DEF Begins
  <2> QED BY <2>1, <2>2, <2>3, TurnCases
<1>2. ASSUME NEW i \in 1..Last', Closes(i)'
      PROVE  instrs'[trace'[i].begin].block.gas_cost = trace'[i].cost + Spent(i)'
  <2>0. i # Last' /\ Begins(i + 1)' /\ i + 1 \in 1..Last'
    BY <1>0, <1>2, TurnView DEF Closes
  <2>1. CASE i + 1 \in 1..n
    <3>1. Begins(i + 1) /\ trace[i + 1].begin = i + 1 /\ i \in 1..n /\ i # n
      <4>1. Begins(i + 1) /\ i \in 1..n /\ i # n
        BY <1>0, <2>0, <2>1, TurnKeeps
      <4> QED BY <2>1, <4>1 DEF TableOK, TableInv, Begins, Last
    <3>2. Closes(i)
      BY <1>0, <3>1 DEF Closes
    <3>3. trace'[i] = trace[i] /\ Spent(i)' = Spent(i)
      BY <3>1, TurnKeeps
    <3> PICK b : b = trace[i].begin
      OBVIOUS
    <3>4. b \in 1..n /\ b \in 1..i
      BY <1>0, <3>1 DEF TableOK, TableInv, Last
    <3>5. b # o
      <4> SUFFICES ASSUME b = o PROVE FALSE
        OBVIOUS
      <4>1. i + 1 \in trace[n].begin..n
        BY <1>0, <2>1, <3>1, <3>4
      <4>2. trace[i + 1].begin = trace[n].begin
        BY <1>0, <4>1 DEF ContigInv
      <4> QED BY <1>0, <3>1, <3>4, <4>2
    <3>6. instrs'[b].block = instrs[b].block
      BY <3>4, <3>5, TurnBlockGas
    <3> QED BY <3>1, <3>2, <3>3, <3>6 DEF GasInv
  <2>2. CASE i + 1 = t /\ Op # OP_JUMPDEST /\ i + 1 = n + 1
    BY <2>0, <2>2, TurnView DEF Begins
  <2>3. CASE i + 1 = t + 1 /\ Ends
    <3>1. i = t
      BY <1>0, <2>3
    <3>2. trace'[t].begin = o /\ NewB.gas_cost = trace'[t].cost + Spent(t)'
      BY TurnTop
    <3> QED BY <2>3, <3>1, <3>2, TurnBlockGas
  <2> QED BY <2>0, <2>1, <2>2, <2>3, TurnCases
<1>3. ASSUME NEW b \in 1..Last', Begins(b)', ~Open(b)'
      PROVE  \E i \in 1..Last' : trace'[i].begin = b /\ Closes(i)'
  <2>1. CASE b \in 1..n /\ b # o
    <3>1. Begins(b) /\ ~Open(b)
      BY <1>3, <2>1, TurnKeeps DEF Open
    <3>2. PICK i \in 1..n : trace[i].begin = b /\ Closes(i)
      BY <2>1, <3>1 DEF GasInv
    <3>3. i # n /\ Begins(i + 1) /\ i + 1 \in 1..n
      BY <1>0, <3>2 DEF Closes
    <3>4. trace'[i] = trace[i] /\ i \in 1..Last' /\ i + 1 \in 1..Last' /\ Begins(i + 1)'
      BY <3>3, TurnKeeps
    <3>5. i # Last'
      BY <1>0, <3>4, TurnView
    <3> QED BY <3>2, <3>4, <3>5 DEF Closes
  <2>2. CASE b = o
    <3>1. Ends
      <4> SUFFICES ASSUME ~Ends PROVE FALSE
        OBVIOUS
      <4>1. block'.begin_block_index = o
        BY TurnView
      <4> QED BY <1>0, <1>3, <2>2, <4>1 DEF Open
    <3>2. Last' = t + 1 /\ Begins(t + 1)' /\ t \in 1..Last' /\ trace'[t].begin = o
      BY <3>1, TurnView, TurnTop DEF Begins
    <3>3. Closes(t)'
      BY <1>0, <3>2 DEF Closes
    <3> QED BY <2>2, <3>2, <3>3
  <2>3. CASE b = t /\ Op # OP_JUMPDEST /\ b = n + 1
    BY <1>3, <2>3, TurnView DEF Begins
  <2>4. CASE b = t + 1 /\ Ends
    <3>1. block'.begin_block_index = b
      BY <2>4, TurnView DEF BlockAnalysis_init
    <3> QED BY <1>0, <1>3, <3>1 DEF Open
  <2> QED BY <2>1, <2>2, <2>3, <2>4, TurnCases
<1> QED BY <1>1, <1>2, <1>3 DEF GasInv

LEMMA TurnAttain ==
    ASSUME StackFits, TableOK, BoundInv, CostInv, OpenCostInv, AttainInv, AnalyzeOp
    PROVE  AttainInv'
<1> PICK n : n = Last
  OBVIOUS
<1> PICK t : t = Top
  OBVIOUS
<1> PICK o : o = block.begin_block_index
  OBVIOUS
<1>0. /\ n \in Nat /\ n >= 1 /\ n \in 1..n /\ t \in Nat /\ o \in 1..n /\ o = trace[n].begin
      /\ phase = "analyze" /\ phase' = "analyze" /\ n <= t /\ \A j \in 1..n : j \in 1..Last'
  <2>1. n \in Nat /\ n >= 1 /\ o \in 1..n
    BY FieldTypes
  <2>2. t \in Nat /\ n <= t /\ o = trace[n].begin /\ phase = "analyze" /\ phase' = "analyze"
    BY TurnView
  <2>3. Last' \in Nat /\ n <= Last'
    BY <2>1, TurnView
  <2> QED BY <2>1, <2>2, <2>3
<1> DEFINE Undef(b) == \E j \in 1..Last' : trace'[j].begin = b /\ instrs'[j].fn \in UndefinedOps
           Req(b, v) == \/ v = 0
                        \/ \E j \in 1..Last' : /\ trace'[j].begin = b /\ ~Begins(j)'
                                               /\ v = stack_height_required[instrs'[j].fn]
                                                        - trace'[j].change
           Gro(b, v) == \/ v = 0
                        \/ \E j \in 1..Last' : /\ trace'[j].begin = b /\ ~Begins(j)'
                                               /\ v = trace'[j].change
                                                        + stack_height_change[instrs'[j].fn]
<1>1. ASSUME NEW b \in 1..n, Begins(b)
      PROVE  Undef(b) \/ (Req(b, StackReq[b]) /\ Gro(b, Growth[b]))
  <2>1. ASSUME NEW j \in 1..n
        PROVE  j \in 1..Last' /\ trace'[j] = trace[j] /\ instrs'[j].fn = instrs[j].fn
               /\ (Begins(j)' <=> Begins(j))
    BY <1>0, TurnView, TurnKeeps
  <2> QED BY <1>1, <2>1 DEF AttainInv
<1>2. ASSUME NEW b \in 1..Last', Begins(b)'
      PROVE  Undef(b) \/ (Req(b, StackReq'[b]) /\ Gro(b, Growth'[b]))
  <2>1. CASE b \in 1..n /\ b # o
    <3>1. Begins(b) /\ StackReq'[b] = StackReq[b] /\ Growth'[b] = Growth[b]
      BY <1>2, <2>1, TurnKeeps, CoverGrows DEF Last
    <3> QED BY <1>1, <2>1, <3>1
  <2>2. CASE b = o
    <3>1. StackReq'[o] = NewB.stack_req /\ Growth'[o] = NewB.stack_max_growth
      BY <1>0, CoverGrows DEF Last
    <3>2. StackReq[o] = block.stack_req /\ Growth[o] = block.stack_max_growth /\ Begins(o)
      BY <1>0, <1>2, <2>2, TurnKeeps DEF StackReq, Growth, Last
    <3>3. CASE Op = OP_JUMPDEST
      <4>1. Begins(n)
        BY <3>3, TurnView
      <4>2. block.stack_req = 0 /\ block.stack_max_growth = 0 /\ block.stack_change = 0
        BY <1>0, <4>1 DEF OpenCostInv
      <4>3. NewB.stack_req = 0 /\ NewB.stack_max_growth = 0
        BY <3>3, <4>2, JumpdestTraits
      <4> QED BY <2>2, <3>1, <4>3
    <3>4. CASE Op # OP_JUMPDEST
      <4>1. /\ instrs'[t].fn = Op /\ trace'[t].change = block.stack_change /\ trace'[t].begin = o
            /\ t \in 1..Last'
        BY <1>0, <3>4, TurnView
      <4>2. ~Begins(t)'
        BY <3>4, <4>1 DEF Begins
      <4>3. CASE Op \in UndefinedOps
        BY <2>2, <4>1, <4>3
      <4>4. CASE Op \notin UndefinedOps
        <5>1. /\ NewB.stack_req \in {block.stack_req, stack_height_required[Op] - block.stack_change}
              /\ NewB.stack_max_growth \in {block.stack_max_growth,
                                            block.stack_change + stack_height_change[Op]}
          <6>1. /\ OpInfo(Op).stack_req = stack_height_required[Op]
                /\ OpInfo(Op).stack_change = stack_height_change[Op]
            BY <4>4 DEF OpInfo
          <6>2. /\ NewB.stack_req = Max2(block.stack_req, OpInfo(Op).stack_req - block.stack_change)
                /\ NewB.stack_max_growth =
                     Max2(block.stack_max_growth, block.stack_change + OpInfo(Op).stack_change)
            BY DEF NewB, AddToBlock
          <6>3. \A x, y : Max2(x, y) \in {x, y}
            BY DEF Max2
          <6> QED BY <6>1, <6>2, <6>3
        <5>2. Req(o, stack_height_required[Op] - block.stack_change)
              /\ Gro(o, block.stack_change + stack_height_change[Op])
          BY <4>1, <4>2
        <5>3. Undef(o) \/ (Req(o, block.stack_req) /\ Gro(o, block.stack_max_growth))
          BY <1>0, <1>1, <3>2
        <5> HIDE DEF Req, Gro, Undef
        <5> QED BY <2>2, <3>1, <5>1, <5>2, <5>3
      <4> QED BY <4>3, <4>4
    <3> QED BY <3>3, <3>4
  <2>3. CASE b = t /\ Op # OP_JUMPDEST /\ b = n + 1
    BY <1>2, <2>3, TurnView DEF Begins
  <2>4. CASE b = t + 1 /\ Ends
    <3>1. block'.begin_block_index = b /\ block'.stack_req = 0 /\ block'.stack_max_growth = 0
      BY <2>4, TurnView DEF BlockAnalysis_init
    <3>2. StackReq'[b] = 0 /\ Growth'[b] = 0
      BY <1>0, <3>1 DEF StackReq, Growth, Last
    <3> QED BY <3>2
  <2> QED BY <2>1, <2>2, <2>3, <2>4, TurnCases
<1> QED BY <1>2 DEF AttainInv

-----------------------------------------------------------------------------
(***************************************************************************)
(* The end of the analysis.                                                *)
(***************************************************************************)

LEMMA EndView ==
    ASSUME TableOK, FinishAnalysis
    PROVE  /\ code' = code /\ phase = "analyze" /\ phase' = "execute" /\ code_pos = Len(code)
           /\ ~JumpdestAt(code_pos)
           /\ Last \in Nat /\ Last >= 1 /\ Last' = Last + 1
           /\ block.begin_block_index \in 1..Last /\ block.begin_block_index = trace[Last].begin
           /\ \A i \in 1..Last : /\ instrs'[i].fn = instrs[i].fn /\ instrs'[i].arg = instrs[i].arg
                                 /\ trace'[i] = trace[i]
                                 /\ i # block.begin_block_index =>
                                      instrs'[i].block = instrs[i].block
           /\ instrs'[Last + 1].fn = OP_STOP
           /\ trace'[Last + 1].pos = code_pos /\ trace'[Last + 1].cost = block.gas_cost
           /\ trace'[Last + 1].change = block.stack_change
           /\ trace'[Last + 1].begin = block.begin_block_index
           /\ instrs'[block.begin_block_index].block = BlockAnalysis_close(block)
<1>1. TypeOK /\ TableInv /\ OpenInv
  BY DEF TableOK
<1>2. code' = code /\ phase = "analyze" /\ phase' = "execute" /\ code_pos = Len(code)
  BY DEF FinishAnalysis
<1>3. ~JumpdestAt(code_pos)
  BY <1>2, FieldTypes DEF JumpdestAt
<1>4. block.begin_block_index = trace[Last].begin
  BY <1>1, <1>2 DEF OpenInv, Last
<1>5. /\ Last \in Nat /\ Last >= 1 /\ Last' = Last + 1 /\ block.begin_block_index \in 1..Last
      /\ \A i \in 1..Last : /\ instrs'[i].fn = instrs[i].fn /\ instrs'[i].arg = instrs[i].arg
                            /\ trace'[i] = trace[i]
                            /\ i # block.begin_block_index => instrs'[i].block = instrs[i].block
      /\ instrs'[Last + 1] = Instruction(OP_STOP, 0)
      /\ trace'[Last + 1] = TraceOp(code_pos, block)
      /\ instrs'[block.begin_block_index].block = BlockAnalysis_close(block)
  BY <1>1, FinishAnalysisFacts DEF Last
<1>6. /\ instrs'[Last + 1].fn = OP_STOP
      /\ trace'[Last + 1].pos = code_pos /\ trace'[Last + 1].cost = block.gas_cost
      /\ trace'[Last + 1].change = block.stack_change
      /\ trace'[Last + 1].begin = block.begin_block_index
  BY <1>5 DEF Instruction, TraceOp
<1> QED BY <1>2, <1>3, <1>4, <1>5, <1>6

LEMMA EndKeeps ==
    ASSUME TableOK, FinishAnalysis, NEW i \in 1..Last
    PROVE  /\ i \in 1..Last' /\ trace'[i] = trace[i] /\ (Begins(i)' <=> Begins(i))
           /\ Spent(i)' = Spent(i) /\ EndOf(i)' = EndOf(i)
           /\ \A p : JumpdestAt(p)' <=> JumpdestAt(p)
<1>1. code' = code /\ instrs'[i].fn = instrs[i].fn /\ trace'[i] = trace[i] /\ i \in 1..Last'
  BY EndView
<1> QED BY <1>1 DEF Begins, Spent, EndOf, Lands, JumpdestAt, OpGas, PushSize

LEMMA EndExact ==
    ASSUME CastsFit, TableOK, BoundInv, ExactInv, FinishAnalysis
    PROVE  ExactInv'
<1> PICK n : n = Last
  OBVIOUS
<1> PICK o : o = block.begin_block_index
  OBVIOUS
<1>0. /\ n \in Nat /\ n >= 1 /\ n \in 1..n /\ Last' = n + 1 /\ o \in 1..n /\ o = trace[n].begin
      /\ phase = "analyze" /\ phase' = "execute" /\ code' = code /\ code_pos = Len(code)
      /\ Len(code) \in Nat /\ n + 1 \in 1..Last' /\ \A j \in 1..n : j \in 1..Last'
  BY FieldTypes, EndView
<1>1. PosInv /\ CostInv /\ OpenCostInv /\ GasInv /\ AttainInv /\ ArgInv /\ ContigInv
  BY DEF ExactInv
<1>2. \A i \in 1..Last' : i \in 1..n \/ i = n + 1
  BY <1>0
<1>3. /\ instrs'[n + 1].fn = OP_STOP /\ ~Begins(n + 1)' /\ Spent(n + 1)' = 0
      /\ trace'[n + 1].pos = code_pos /\ trace'[n + 1].cost = block.gas_cost
      /\ trace'[n + 1].begin = o
  <2>1. /\ instrs'[n + 1].fn = OP_STOP
        /\ trace'[n + 1].pos = code_pos /\ trace'[n + 1].cost = block.gas_cost
        /\ trace'[n + 1].begin = o
    BY EndView
  <2>2. ~Begins(n + 1)'
    BY <2>1, JumpdestGas DEF Begins
  <2>3. Spent(n + 1)' = 0
    BY <2>1, <2>2, JumpdestGas DEF Spent, OpGas, Begins
  <2> QED BY <2>1, <2>2, <2>3
<1>4. code_pos = EndOf(n) /\ block.gas_cost = trace[n].cost + Spent(n)
  BY <1>0, <1>1, EndView, OpenExact
<1>5. PosInv'
  <2>1. ASSUME NEW i \in 1..Last'
        PROVE  /\ trace'[i].pos <= Len(code)
               /\ ~Begins(i)' => instrs'[i].fn = ByteOp(trace'[i].pos)
    <3>1. CASE i \in 1..n
      <4>1. trace'[i] = trace[i] /\ (Begins(i)' <=> Begins(i)) /\ instrs'[i].fn = instrs[i].fn
        BY <3>1, EndKeeps, EndView
      <4> QED BY <1>1, <3>1, <4>1 DEF PosInv
    <3>2. CASE i = n + 1
      BY <1>0, <1>3, <3>2 DEF ByteOp
    <3> QED BY <1>2, <3>1, <3>2
  <2>2. ASSUME NEW i \in 2..Last'
        PROVE  /\ trace'[i].pos = EndOf(i - 1)'
               /\ Begins(i - 1)' /\ Begins(i)' => JumpdestAt(trace'[i - 1].pos)
    <3>1. CASE i \in 1..n
      <4>1. i - 1 \in 1..n /\ i \in 2..n
        BY <1>0, <3>1
      <4>2. /\ trace'[i] = trace[i] /\ trace'[i - 1] = trace[i - 1]
            /\ (Begins(i)' <=> Begins(i)) /\ (Begins(i - 1)' <=> Begins(i - 1))
            /\ EndOf(i - 1)' = EndOf(i - 1)
        BY <3>1, <4>1, EndKeeps
      <4> QED BY <1>1, <4>1, <4>2 DEF PosInv
    <3>2. CASE i = n + 1
      <4>1. i - 1 = n /\ EndOf(n)' = EndOf(n)
        BY <1>0, <3>2, EndKeeps
      <4> QED BY <1>3, <1>4, <3>2, <4>1
    <3>3. i \in 1..Last'
      OBVIOUS
    <3> QED BY <1>2, <3>1, <3>2, <3>3
  <2>3. \A p : JumpdestAt(p)' <=> JumpdestAt(p)
    BY <1>0, EndKeeps
  <2> QED BY <1>0, <2>1, <2>2, <2>3 DEF PosInv, ByteOp
<1>6. CostInv'
  <2>1. ASSUME NEW i \in 1..Last', Begins(i)'
        PROVE  trace'[i].cost = 0
    BY <1>1, <1>2, <1>3, <2>1, EndKeeps DEF CostInv
  <2>2. ASSUME NEW i \in 2..Last', ~Begins(i)'
        PROVE  trace'[i].cost = trace'[i - 1].cost + Spent(i - 1)'
    <3>1. CASE i \in 1..n
      <4>1. i - 1 \in 1..n /\ i \in 2..n
        BY <1>0, <3>1
      <4> QED BY <1>1, <2>2, <3>1, <4>1, EndKeeps DEF CostInv
    <3>2. CASE i = n + 1
      <4>1. i - 1 = n /\ trace'[n] = trace[n] /\ Spent(n)' = Spent(n)
        BY <1>0, <3>2, EndKeeps
      <4> QED BY <1>3, <1>4, <3>2, <4>1
    <3>3. i \in 1..Last'
      OBVIOUS
    <3> QED BY <1>2, <3>1, <3>2, <3>3
  <2> QED BY <2>1, <2>2 DEF CostInv
<1>7. OpenCostInv'
  BY <1>0 DEF OpenCostInv
<1>8. GasInv'
  <2>0. /\ \A b \in 1..n : GasOf'[b] = GasOf[b]
        /\ \A b \in 1..n : GasOf'[b] = instrs'[b].block.gas_cost
        /\ GasOf[o] = block.gas_cost
    <3>1. block.gas_cost \in Nat /\ block.gas_cost <= UINT32_MAX
      BY <1>0, FieldTypes, PendingFacts DEF CastsFit, CostFits
    <3>2. instrs'[o].block.gas_cost = block.gas_cost
      BY <3>1, EndView, CloseGas
    <3>3. ASSUME NEW b \in 1..n
          PROVE  GasOf'[b] = instrs'[b].block.gas_cost
      BY <1>0, <3>3 DEF GasOf, Open, Last
    <3>4. GasOf[o] = block.gas_cost
      BY <1>0 DEF GasOf, Open, Last
    <3>5. ASSUME NEW b \in 1..n, b # o
          PROVE  GasOf'[b] = GasOf[b]
      <4>1. instrs'[b].block = instrs[b].block /\ ~Open(b)
        BY <3>5, EndView DEF Open
      <4>2. GasOf[b] = instrs[b].block.gas_cost
        BY <4>1 DEF GasOf, Last
      <4> QED BY <3>3, <4>1, <4>2
    <3> QED BY <1>0, <3>2, <3>3, <3>4, <3>5
  <2>1. ASSUME NEW i \in 1..Last', ~Begins(i)'
        PROVE  GasOf'[trace'[i].begin] >= trace'[i].cost + Spent(i)'
    <3>1. CASE i \in 1..n
      <4>1. trace'[i] = trace[i] /\ Spent(i)' = Spent(i) /\ ~Begins(i) /\ trace[i].begin \in 1..n
        BY <2>1, <3>1, EndKeeps, FieldTypes
      <4> QED BY <1>1, <2>0, <3>1, <4>1 DEF GasInv
    <3>2. CASE i = n + 1
      <4>1. block.gas_cost \in Nat
        BY FieldTypes
      <4>2. block.gas_cost >= block.gas_cost + 0
        BY <4>1
      <4> QED BY <1>0, <1>3, <2>0, <3>2, <4>2
    <3> QED BY <1>2, <3>1, <3>2
  <2>2. ASSUME NEW i \in 1..Last', Closes(i)'
        PROVE  instrs'[trace'[i].begin].block.gas_cost = trace'[i].cost + Spent(i)'
    <3>1. CASE i = n + 1
      <4>1. block.gas_cost \in Nat
        BY FieldTypes
      <4>2. block.gas_cost = block.gas_cost + 0
        BY <4>1
      <4> QED BY <1>0, <1>3, <2>0, <3>1, <4>2
    <3>2. CASE i \in 1..n
      <4>1. i # Last' /\ Begins(i + 1)'
        BY <1>0, <2>2, <3>2 DEF Closes
      <4>2. i # n
        BY <1>3, <4>1
      <4>3. i + 1 \in 1..n
        BY <1>0, <3>2, <4>2
      <4>4. Begins(i + 1) /\ trace[i + 1].begin = i + 1
        <5>1. Begins(i + 1)
          BY <4>1, <4>3, EndKeeps
        <5> QED BY <4>3, <5>1 DEF TableOK, TableInv, Begins, Last
      <4>5. Closes(i)
        BY <1>0, <3>2, <4>2, <4>4 DEF Closes
      <4>6. trace'[i] = trace[i] /\ Spent(i)' = Spent(i)
        BY <3>2, EndKeeps
      <4> PICK b : b = trace[i].begin
        OBVIOUS
      <4>7. b \in 1..n /\ b \in 1..i
        BY <1>0, <3>2 DEF TableOK, TableInv, Last
      <4>8. b # o
        <5> SUFFICES ASSUME b = o PROVE FALSE
          OBVIOUS
        <5>1. i + 1 \in trace[n].begin..n
          BY <1>0, <3>2, <4>3, <4>7
        <5>2. trace[i + 1].begin = trace[n].begin
          BY <1>0, <1>1, <5>1 DEF ContigInv
        <5> QED BY <1>0, <3>2, <4>4, <4>7, <5>2
      <4>9. instrs'[b].block = instrs[b].block
        BY <4>7, <4>8, EndView
      <4> QED BY <1>1, <3>2, <4>5, <4>6, <4>9 DEF GasInv
    <3> QED BY <1>2, <3>1, <3>2
  <2>3. ASSUME NEW b \in 1..Last', Begins(b)', ~Open(b)'
        PROVE  \E i \in 1..Last' : trace'[i].begin = b /\ Closes(i)'
    <3>0. b \in 1..n
      BY <1>2, <1>3, <2>3
    <3>1. CASE b # o
      <4>1. Begins(b) /\ ~Open(b)
        BY <2>3, <3>0, <3>1, EndKeeps DEF Open
      <4>2. PICK i \in 1..n : trace[i].begin = b /\ Closes(i)
        BY <1>1, <3>0, <4>1 DEF GasInv
      <4>3. i # n /\ Begins(i + 1) /\ i + 1 \in 1..n
        BY <1>0, <4>2 DEF Closes
      <4>4. trace'[i] = trace[i] /\ i \in 1..Last' /\ i # Last' /\ Begins(i + 1)'
        BY <1>0, <4>3, EndKeeps
      <4> QED BY <4>2, <4>4 DEF Closes
    <3>2. CASE b = o
      <4>1. Closes(n + 1)'
        BY <1>0 DEF Closes
      <4> QED BY <1>0, <1>3, <3>2, <4>1
    <3> QED BY <3>1, <3>2
  <2> QED BY <2>1, <2>2, <2>3 DEF GasInv
<1>9. AttainInv'
  <2>1. ASSUME NEW b \in 1..Last', Begins(b)'
        PROVE  b \in 1..n /\ Begins(b) /\ StackReq'[b] = StackReq[b] /\ Growth'[b] = Growth[b]
    <3>1. b \in 1..n
      BY <1>2, <1>3, <2>1
    <3> QED BY <2>1, <3>1, EndKeeps, FinishAnalysisNumbers DEF Last, CastsFit
  <2>2. ASSUME NEW j \in 1..n
        PROVE  j \in 1..Last' /\ trace'[j] = trace[j] /\ instrs'[j].fn = instrs[j].fn
               /\ (Begins(j)' <=> Begins(j))
    BY <1>0, EndView, EndKeeps
  <2> QED BY <1>1, <2>1, <2>2 DEF AttainInv
<1>10. ArgInv'
  <2>1. OP_STOP \notin CorrectedOps \cup {OP_GAS, OP_PC} \cup ANY_PUSH
    BY ClassFacts
  <2>2. ASSUME NEW i \in 1..n
        PROVE  /\ instrs'[i].fn = instrs[i].fn /\ instrs'[i].arg = instrs[i].arg
               /\ trace'[i] = trace[i]
    BY EndView
  <2> QED BY <1>0, <1>1, <1>2, <1>3, <2>1, <2>2 DEF ArgInv
<1>11. ContigInv'
  <2>1. ASSUME NEW i \in 1..Last', NEW m \in trace'[i].begin..i
        PROVE  trace'[m].begin = trace'[i].begin
    <3>1. CASE i \in 1..n
      <4>1. trace'[i] = trace[i] /\ trace[i].begin \in 1..n
        BY <3>1, EndKeeps, FieldTypes, SMTT(40)
      <4>2. m \in 1..n
        BY <1>0, <3>1, <4>1
      <4>3. trace'[m] = trace[m]
        BY <4>2, EndKeeps
      <4> QED BY <1>1, <3>1, <4>1, <4>3 DEF ContigInv
    <3>2. CASE i = n + 1 /\ m # i
      <4>1. m \in 1..n /\ m \in trace[n].begin..n
        BY <1>0, <1>3, <3>2
      <4>2. trace'[m] = trace[m]
        BY <4>1, EndKeeps
      <4> QED BY <1>0, <1>1, <1>3, <3>2, <4>1, <4>2 DEF ContigInv
    <3> QED BY <1>2, <3>1, <3>2
  <2>2. ASSUME NEW i \in 2..Last', instrs'[i - 1].fn \in Terminators
        PROVE  Begins(i)'
    <3>1. i - 1 \in 1..n /\ (i \in 2..n \/ i - 1 = n)
      BY <1>0
    <3>2. instrs'[i - 1].fn = instrs[i - 1].fn
      BY <3>1, EndView
    <3>3. i \in 2..n
      BY <1>0, <1>1, <2>2, <3>1, <3>2 DEF ContigInv
    <3>4. Begins(i)' <=> Begins(i)
      BY <3>3, EndKeeps
    <3> QED BY <1>1, <2>2, <3>2, <3>3, <3>4 DEF ContigInv
  <2> QED BY <1>0, <2>1, <2>2 DEF ContigInv
<1> QED BY <1>5, <1>6, <1>7, <1>8, <1>9, <1>10, <1>11 DEF ExactInv

-----------------------------------------------------------------------------
\* The execution leaves the tables alone.
LEMMA ExactKept ==
    ASSUME ExactInv, UNCHANGED <<code, code_pos, block, instrs, trace>>,
           phase' = phase \/ (phase = "execute" /\ phase' = "done")
    PROVE  ExactInv'
<1>1. /\ code' = code /\ code_pos' = code_pos /\ block' = block /\ instrs' = instrs
      /\ trace' = trace /\ (phase' = "analyze" <=> phase = "analyze")
  OBVIOUS
<1>2. Last' = Last
  BY <1>1 DEF Last
<1>3. \A p : JumpdestAt(p)' <=> JumpdestAt(p)
  BY <1>1 DEF JumpdestAt
<1>4. \A p : Lands(p)' = Lands(p)
  BY <1>3 DEF Lands
<1>5. \A i : Begins(i)' <=> Begins(i)
  BY <1>1 DEF Begins
<1>6. \A i : Spent(i)' = Spent(i)
  BY <1>1, <1>4, <1>5 DEF Spent, OpGas
<1>7. \A i : EndOf(i)' = EndOf(i)
  BY <1>1, <1>4, <1>5 DEF EndOf
<1>8. \A b : Open(b)' <=> Open(b)
  BY <1>1 DEF Open
<1>9. GasOf' = GasOf
  BY <1>1, <1>8 DEF GasOf
<1>10. \A i : Closes(i)' <=> Closes(i)
  BY <1>1, <1>2, <1>5 DEF Closes
<1>11. StackReq' = StackReq /\ Growth' = Growth
  BY <1>1 DEF StackReq, Growth
<1>12. \A p : ByteOp(p)' = ByteOp(p)
  BY <1>1 DEF ByteOp
<1>13. PosInv'
  <2>1. PosInv
    BY DEF ExactInv
  <2> QED BY <1>1, <2>1 DEF PosInv, EndOf, Lands, JumpdestAt, ByteOp, Begins, Last
<1>14. CostInv'
  BY <1>1, <1>2, <1>5, <1>6 DEF ExactInv, CostInv
<1>15. OpenCostInv'
  <2>1. (Begins(Last)' <=> Begins(Last)) /\ Spent(Last)' = Spent(Last)
    BY <1>1, <1>2 DEF Begins, Spent, OpGas, Lands, JumpdestAt
  <2> QED BY <1>1, <1>2, <2>1 DEF ExactInv, OpenCostInv
<1>16. GasInv'
  BY <1>1, <1>2, <1>5, <1>6, <1>8, <1>9, <1>10 DEF ExactInv, GasInv
<1>17. AttainInv'
  BY <1>1, <1>2, <1>5, <1>11 DEF ExactInv, AttainInv
<1>18. ArgInv'
  BY <1>1, <1>2 DEF ExactInv, ArgInv
<1>19. ContigInv'
  BY <1>1, <1>2, <1>5 DEF ExactInv, ContigInv
<1> QED BY <1>13, <1>14, <1>15, <1>16, <1>17, <1>18, <1>19 DEF ExactInv

LEMMA InitExact == Init => ExactInv
<1> SUFFICES ASSUME Init PROVE ExactInv
  OBVIOUS
<1>1. /\ phase = "analyze" /\ code_pos = 0 /\ block = BlockAnalysis_init(1)
      /\ instrs = <<BEGINBLOCK>> /\ trace = <<TraceBegin(1, 0)>> /\ Len(code) \in Nat
  BY CodesAssumption DEF Init, AnalysisInit
<1>2. /\ Last = 1 /\ instrs[1].fn = OP_JUMPDEST /\ Begins(1)
      /\ trace[1].pos = 0 /\ trace[1].cost = 0 /\ trace[1].begin = 1
  BY <1>1 DEF BEGINBLOCK, Instruction, TraceBegin, Last, Begins
<1>3. /\ block.gas_cost = 0 /\ block.stack_req = 0 /\ block.stack_max_growth = 0
      /\ block.stack_change = 0 /\ block.begin_block_index = 1
  BY <1>1 DEF BlockAnalysis_init
<1>4. PosInv
  BY <1>1, <1>2 DEF PosInv
<1>5. CostInv /\ OpenCostInv
  BY <1>1, <1>2, <1>3 DEF CostInv, OpenCostInv
<1>6. GasInv
  <2>1. ~Closes(1) /\ Open(1)
    BY <1>1, <1>2, <1>3 DEF Closes, Open
  <2> QED BY <1>2, <2>1 DEF GasInv
<1>7. AttainInv
  <2>1. StackReq[1] = 0 /\ Growth[1] = 0
    BY <1>1, <1>2, <1>3 DEF StackReq, Growth, Last
  <2> QED BY <1>2, <2>1 DEF AttainInv
<1>8. ArgInv
  <2>1. OP_JUMPDEST \notin CorrectedOps \cup {OP_GAS, OP_PC} \cup ANY_PUSH
    BY ClassFacts
  <2> QED BY <1>2, <2>1 DEF ArgInv
<1>9. ContigInv
  <2>1. OP_JUMPDEST \notin Terminators
    BY DEF Terminators, OP_JUMPDEST, OP_JUMP, OP_JUMPI, OP_STOP, OP_RETURN, OP_REVERT,
       OP_SELFDESTRUCT
  <2> QED BY <1>1, <1>2, <2>1 DEF ContigInv
<1> QED BY <1>4, <1>5, <1>6, <1>7, <1>8, <1>9 DEF ExactInv

LEMMA ExactStep ==
    ASSUME CastsFit, IInv, ExactInv, [Next]_vars
    PROVE  ExactInv'
<1>0. TableOK /\ BoundInv /\ StackFits /\ CostFits
  BY DEF IInv, CastsFit
<1>1. CASE AnalyzeOp
  BY <1>0, <1>1, TurnPos, TurnCost, TurnContig, TurnArg, TurnGas, TurnAttain DEF ExactInv
<1>2. CASE FinishAnalysis
  BY <1>0, <1>2, EndExact
<1>3. ASSUME NEW o \in Outcomes, Execute(o)
      PROVE  ExactInv'
  <2>1. UNCHANGED analysisVars
    BY <1>0, <1>3, ExecuteState
  <2> QED BY <2>1, ExactKept DEF analysisVars
<1>4. CASE Finish
  BY <1>4, ExactKept DEF Finish
<1>5. CASE UNCHANGED vars
  BY <1>5, ExactKept DEF vars, analysisVars
<1> QED BY <1>1, <1>2, <1>3, <1>4, <1>5 DEF Next, Analyze, Done

\* The analysis is exact: for every bytecode whose blocks fit struct BlockInfo,
\* block by block, the table says where each instruction comes from and what
\* it costs, and a BEGINBLOCK demands what the instructions of its block demand.
THEOREM AnalysisExact == Spec /\ []CastsFit => [](IInv /\ ExactInv)
<1>1. IInv /\ ExactInv /\ CastsFit /\ [Next]_vars => IInv' /\ ExactInv'
  BY CoveredStep, ExactStep DEF CastsFit
<1> QED BY <1>1, InitCovered, InitExact, PTL DEF Spec

\* The gas of a block of a short code fits too.
LEMMA ShortCostFits ==
    ASSUME GasFits, TableOK, OpenCostInv
    PROVE  CostFits
<1> SUFFICES ASSUME phase = "analyze" PROVE Pending.gas_cost <= UINT32_MAX
  BY DEF CostFits
<1> PICK l \in Nat : l = Len(code)
  BY FieldTypes
<1> PICK p \in Nat : p = code_pos
  BY FieldTypes
<1> PICK g \in Nat : g = block.gas_cost
  BY FieldTypes
<1>1. p <= l /\ g <= 32000 * p /\ 32000 * l <= UINT32_MAX /\ UINT32_MAX \in Int
  BY FieldTypes, WidthAssumption DEF OpenCostInv, GasFits, TableOK, TypeOK
<1>2. CASE ~(code_pos < Len(code))
  <2>1. g <= UINT32_MAX
    BY <1>1
  <2> QED BY <1>2, <2>1 DEF Pending
<1>3. CASE code_pos < Len(code)
  <2>1. code[code_pos + 1] \in Byte
    BY <1>3, CodesAssumption DEF TableOK, TypeOK
  <2> PICK op \in Byte : op = code[code_pos + 1]
    BY <2>1
  <2> PICK c : c = OpGas(op)
    OBVIOUS
  <2>2. c \in Nat /\ c <= 32000
    BY GasBounds
  <2>3. Pending.gas_cost = g + c
    BY <1>3 DEF Pending, AddToBlock, OpInfo, OpGas
  <2>4. p + 1 <= l
    BY <1>3
  <2>5. g + c <= UINT32_MAX
    BY <1>1, <2>2, <2>4
  <2> QED BY <2>3, <2>5
<1> QED BY <1>2, <1>3

\* The hypothesis of AnalysisExact, and of the comparison below, is one that
\* every short code satisfies: up to 255 bytes, with the widths of the code.
THEOREM ShortCodesFit == CodeFits /\ GasFits => (Spec => []CastsFit)
<1> SUFFICES ASSUME CodeFits, GasFits PROVE Spec => []CastsFit
  OBVIOUS
<1>1. IInv /\ ExactInv => CastsFit
  BY ShortStackFits, ShortCostFits DEF IInv, ExactInv, CastsFit
<1>2. IInv /\ ExactInv /\ [Next]_vars => IInv' /\ ExactInv'
  BY <1>1, CoveredStep, ExactStep DEF CastsFit
<1> QED BY <1>1, <1>2, InitCovered, InitExact, PTL DEF Spec
-----------------------------------------------------------------------------
(***************************************************************************)
(* find_jumpdest: the binary search of cvec_int32_lower_bound is correct.  *)
(***************************************************************************)

\* Every set of naturals has a least element: the recursions below are
\* reasoned about by their smallest counterexample.
LEMMA NatMin ==
    ASSUME NEW T, T \subseteq Nat, T # {}
    PROVE  \E x \in T : \A y \in T : x <= y
<1>1. IsWellFoundedOn(OpToRel(<, Nat), Nat)
  BY NatLessThanWellFounded
<1>2. PICK x \in T : \A y \in T : ~(<<y, x>> \in OpToRel(<, Nat))
  BY <1>1, WFMin
<1>3. ASSUME NEW y \in T PROVE x <= y
  <2>1. ~(<<y, x>> \in OpToRel(<, Nat))
    BY <1>2
  <2>2. ~(y < x)
    BY <2>1 DEF OpToRel
  <2> QED BY <2>2
<1> QED BY <1>3

\* The recursion of lower_bound, one turn at a time; m splits a range when the
\* elements before it are below raw and the one at it is not.
Increasing(s) == s \in Seq(Nat) /\ \A i, j \in 1..Len(s) : i < j => s[i] < s[j]
Ranges(s) == {r \in (0..Len(s)) \X (0..Len(s)) : r[1] <= r[2]}
Middle(r) == r[1] + ((r[2] - r[1]) \div 2)
Splits(s, raw, r, m) ==
    /\ m \in r[1]..r[2]
    /\ m < r[2] => raw <= s[m + 1]
    /\ \A j \in r[1]..(m - 1) : s[j + 1] < raw

Turn(s, raw, r, f) ==
    IF r[1] = r[2] THEN r[1]
    ELSE IF raw = s[Middle(r) + 1] THEN Middle(r)
    ELSE IF raw < s[Middle(r) + 1] THEN f[<<r[1], Middle(r)>>]
    ELSE f[<<Middle(r) + 1, r[2]>>]

LEMMA SearchDef ==
    ASSUME NEW s, NEW raw
    PROVE  lower_bound(s, raw) =
             (CHOOSE f : f = [r \in Ranges(s) |-> Turn(s, raw, r, f)])[<<0, Len(s)>>]
  BY Zenon DEF lower_bound, Ranges, Turn, Middle


LEMMA MiddleFacts ==
    ASSUME NEW s \in Seq(Nat), NEW r \in Ranges(s), r[1] # r[2]
    PROVE  /\ r[1] \in Nat /\ r[2] \in Nat /\ r[1] < r[2] /\ r[2] <= Len(s)
           /\ Middle(r) \in Nat /\ r[1] <= Middle(r) /\ Middle(r) < r[2]
           /\ <<r[1], Middle(r)>> \in Ranges(s) /\ <<Middle(r) + 1, r[2]>> \in Ranges(s)
           /\ Middle(r) + 1 \in 1..Len(s)
<1>1. r[1] \in 0..Len(s) /\ r[2] \in 0..Len(s) /\ r[1] <= r[2] /\ Len(s) \in Nat
  BY DEF Ranges
<1>2. PICK a, b : a = r[1] /\ b = r[2]
  OBVIOUS
<1>3. a \in Nat /\ b \in Nat /\ a < b /\ b <= Len(s)
  BY <1>1, <1>2
<1>4. (b - a) \div 2 \in Nat /\ (b - a) \div 2 < b - a
  BY <1>3
<1>5. Middle(r) = a + ((b - a) \div 2)
  BY <1>2 DEF Middle
<1>6. Middle(r) \in Nat /\ a <= Middle(r) /\ Middle(r) < b
  BY <1>3, <1>4, <1>5
<1>7. Middle(r) \in 0..Len(s) /\ Middle(r) + 1 \in 0..Len(s) /\ Middle(r) + 1 \in 1..Len(s)
  BY <1>1, <1>3, <1>6
<1> QED BY <1>1, <1>2, <1>3, <1>6, <1>7 DEF Ranges

\* The split point of a range exists.
LEMMA SplitExists ==
    ASSUME NEW s, Increasing(s), NEW raw \in Int, NEW r \in Ranges(s)
    PROVE  \E m : Splits(s, raw, r, m)
<1>1. r[1] \in Nat /\ r[2] \in Nat /\ r[1] <= r[2] /\ r[2] <= Len(s) /\ Len(s) \in Nat
  BY DEF Ranges, Increasing
<1> DEFINE T == {m \in r[1]..r[2] : m < r[2] => raw <= s[m + 1]}
<1>2. T \subseteq Nat /\ r[2] \in T
  BY <1>1
<1>3. PICK m \in T : \A y \in T : m <= y
  BY <1>2, NatMin
<1>4. ASSUME NEW j \in r[1]..(m - 1)
      PROVE  s[j + 1] < raw
  <2>1. j \in r[1]..r[2] /\ j < m /\ j < r[2] /\ j + 1 \in 1..Len(s)
    BY <1>1, <1>3
  <2>2. j \notin T
    BY <1>2, <1>3, <2>1
  <2>3. s[j + 1] \in Nat
    BY <2>1 DEF Increasing
  <2> QED BY <2>1, <2>2, <2>3
<1> QED BY <1>3, <1>4 DEF Splits

\* It is unique.
LEMMA SplitUnique ==
    ASSUME NEW s, Increasing(s), NEW raw \in Int, NEW r \in Ranges(s),
           NEW m, NEW n, Splits(s, raw, r, m), Splits(s, raw, r, n)
    PROVE  m = n
<1>1. r[1] \in Nat /\ r[2] \in Nat /\ r[2] <= Len(s) /\ Len(s) \in Nat
      /\ m \in r[1]..r[2] /\ n \in r[1]..r[2]
  BY DEF Ranges, Increasing, Splits
<1>2. ASSUME NEW a \in r[1]..r[2], NEW b \in r[1]..r[2], a < b,
             Splits(s, raw, r, a), Splits(s, raw, r, b)
      PROVE  FALSE
  <2>1. a \in r[1]..(b - 1) /\ a < r[2] /\ a + 1 \in 1..Len(s)
    BY <1>1, <1>2
  <2>2. s[a + 1] < raw /\ raw <= s[a + 1] /\ s[a + 1] \in Nat
    BY <1>2, <2>1 DEF Splits, Increasing
  <2> QED BY <2>2
<1> QED BY <1>1, <1>2

\* A turn of the search keeps it.
LEMMA SplitTurn ==
    ASSUME NEW s, Increasing(s), NEW raw \in Int, NEW r \in Ranges(s), NEW f,
           r[1] # r[2] => /\ Splits(s, raw, <<r[1], Middle(r)>>, f[<<r[1], Middle(r)>>])
                          /\ Splits(s, raw, <<Middle(r) + 1, r[2]>>, f[<<Middle(r) + 1, r[2]>>])
    PROVE  Splits(s, raw, r, Turn(s, raw, r, f))
<1>1. r[1] \in Nat /\ r[2] \in Nat /\ r[2] <= Len(s) /\ Len(s) \in Nat
  BY DEF Ranges, Increasing
<1>2. CASE r[1] = r[2]
  <2>1. Turn(s, raw, r, f) = r[1]
    BY <1>2 DEF Turn
  <2> QED BY <1>1, <1>2, <2>1 DEF Splits
<1>3. CASE r[1] # r[2]
  <2> PICK a, b, m : a = r[1] /\ b = r[2] /\ m = Middle(r)
    OBVIOUS
  <2>1. /\ a \in Nat /\ b \in Nat /\ a < b /\ m \in Nat /\ a <= m /\ m < b /\ b <= Len(s)
        /\ m + 1 \in 1..Len(s)
    BY <1>3, MiddleFacts DEF Increasing
  <2>2. /\ \A j \in a..(m - 1) : s[j + 1] \in Nat /\ s[j + 1] < s[m + 1]
        /\ \A j \in a..m : s[j + 1] \in Nat /\ s[j + 1] <= s[m + 1]
        /\ s[m + 1] \in Nat
    <3>1. s \in Seq(Nat) /\ \A i, j \in 1..Len(s) : i < j => s[i] < s[j]
      BY DEF Increasing
    <3>0. \A i \in 1..Len(s) : s[i] \in Nat
      BY <3>1
    <3>2. ASSUME NEW j \in a..m
          PROVE  s[j + 1] \in Nat /\ s[j + 1] <= s[m + 1] /\ (j # m => s[j + 1] < s[m + 1])
      <4>1. j + 1 \in 1..Len(s) /\ (j # m => j + 1 < m + 1)
        BY <1>1, <2>1
      <4>2. s[j + 1] \in Nat /\ s[m + 1] \in Nat
        BY <2>1, <3>0, <4>1
      <4>3. j # m => s[j + 1] < s[m + 1]
        BY <2>1, <3>1, <4>1
      <4> QED BY <4>2, <4>3
    <3> QED BY <2>1, <3>2
  <2>3. CASE raw = s[m + 1]
    <3>1. Turn(s, raw, r, f) = m
      BY <1>3, <2>3 DEF Turn
    <3> QED BY <2>1, <2>2, <2>3, <3>1 DEF Splits
  <2>4. CASE raw < s[m + 1]
    <3>1. Turn(s, raw, r, f) = f[<<a, m>>]
      BY <1>3, <2>2, <2>4 DEF Turn
    <3>2. PICK x : x = f[<<a, m>>]
      OBVIOUS
    <3>3. /\ x \in a..m /\ (x < m => raw <= s[x + 1])
          /\ \A j \in a..(x - 1) : s[j + 1] < raw
      BY <1>3, <3>2 DEF Splits
    <3>4. x \in a..b /\ (x < b => raw <= s[x + 1])
      BY <2>1, <2>2, <2>4, <3>3
    <3> QED BY <3>1, <3>2, <3>3, <3>4 DEF Splits
  <2>5. CASE raw > s[m + 1]
    <3>1. Turn(s, raw, r, f) = f[<<m + 1, b>>]
      BY <1>3, <2>2, <2>5 DEF Turn
    <3>2. PICK x : x = f[<<m + 1, b>>]
      OBVIOUS
    <3>3. /\ x \in (m + 1)..b /\ (x < b => raw <= s[x + 1])
          /\ \A j \in (m + 1)..(x - 1) : s[j + 1] < raw
      BY <1>3, <3>2 DEF Splits
    <3>4. \A j \in a..(x - 1) : s[j + 1] < raw
      <4> SUFFICES ASSUME NEW j \in a..(x - 1) PROVE s[j + 1] < raw
        OBVIOUS
      <4>1. j \in a..m \/ j \in (m + 1)..(x - 1)
        BY <2>1, <3>3
      <4> QED BY <2>1, <2>2, <2>5, <3>3, <4>1, SMTT(40)
    <3> QED BY <2>1, <3>1, <3>2, <3>3, <3>4, SMTT(40) DEF Splits
  <2> QED BY <2>2, <2>3, <2>4, <2>5
<1> QED BY <1>2, <1>3

\* The search is a function: the recursion ends.
LEMMA SearchUnfolds ==
    ASSUME NEW s, Increasing(s), NEW raw \in Int
    PROVE  \E f : /\ f = [r \in Ranges(s) |-> Turn(s, raw, r, f)]
                  /\ lower_bound(s, raw) = f[<<0, Len(s)>>]
<1> DEFINE F == [r \in Ranges(s) |-> CHOOSE m : Splits(s, raw, r, m)]
<1>1. \A r \in Ranges(s) : Splits(s, raw, r, F[r])
  BY SplitExists, Zenon
<1>2. \A r \in Ranges(s) : Splits(s, raw, r, Turn(s, raw, r, F))
  <2> TAKE r \in Ranges(s)
  <2>1. r[1] # r[2] => <<r[1], Middle(r)>> \in Ranges(s) /\ <<Middle(r) + 1, r[2]>> \in Ranges(s)
    BY MiddleFacts DEF Increasing
  <2>2. r[1] # r[2] => /\ Splits(s, raw, <<r[1], Middle(r)>>, F[<<r[1], Middle(r)>>])
                       /\ Splits(s, raw, <<Middle(r) + 1, r[2]>>, F[<<Middle(r) + 1, r[2]>>])
    BY <1>1, <2>1
  <2> HIDE DEF F
  <2> QED BY <2>2, SplitTurn
<1>3. \A r \in Ranges(s) : F[r] = Turn(s, raw, r, F)
  <2> HIDE DEF F
  <2> QED BY <1>1, <1>2, SplitUnique
<1>4. F = [r \in Ranges(s) |-> Turn(s, raw, r, F)]
  <2>1. F = [r \in Ranges(s) |-> F[r]]
    OBVIOUS
  <2> HIDE DEF F
  <2> QED BY <1>3, <2>1
<1> DEFINE P(f) == f = [r \in Ranges(s) |-> Turn(s, raw, r, f)]
<1>5. P(CHOOSE f : P(f))
  <2>1. \E f : P(f)
    BY <1>4
  <2> HIDE DEF P
  <2> QED BY <2>1, Zenon
<1>6. lower_bound(s, raw) = (CHOOSE f : P(f))[<<0, Len(s)>>]
  BY SearchDef
<1> WITNESS CHOOSE f : P(f)
<1> QED BY <1>5, <1>6

\* cvec_int32_lower_bound finds the first element that is not below raw.
LEMMA LowerBound ==
    ASSUME NEW s, Increasing(s), NEW raw \in Int
    PROVE  Splits(s, raw, <<0, Len(s)>>, lower_bound(s, raw))
<1>1. PICK f : /\ f = [r \in Ranges(s) |-> Turn(s, raw, r, f)]
               /\ lower_bound(s, raw) = f[<<0, Len(s)>>]
  BY SearchUnfolds
<1>2. \A r \in Ranges(s) : f[r] = Turn(s, raw, r, f)
  BY <1>1
<1> DEFINE Bad == {r \in Ranges(s) : ~Splits(s, raw, r, f[r])}
           Lens == {r[2] - r[1] : r \in Bad}
<1>3. Bad = {}
  <2> SUFFICES ASSUME Bad # {} PROVE FALSE
    OBVIOUS
  <2>1. Lens \subseteq Nat /\ Lens # {}
    BY DEF Ranges
  <2>2. PICK n \in Lens : \A y \in Lens : n <= y
    BY <2>1, NatMin
  <2>3. PICK r \in Bad : n = r[2] - r[1]
    OBVIOUS
  <2>4. ASSUME NEW q \in Ranges(s), q[2] - q[1] < n
        PROVE  Splits(s, raw, q, f[q])
    <3>1. q[2] - q[1] \in Int /\ n \in Int
      BY <2>1 DEF Ranges
    <3>2. q[2] - q[1] \notin Lens
      BY <2>2, <2>4, <3>1
    <3> QED BY <3>2
  <2>5. ASSUME r[1] # r[2]
        PROVE  /\ Splits(s, raw, <<r[1], Middle(r)>>, f[<<r[1], Middle(r)>>])
               /\ Splits(s, raw, <<Middle(r) + 1, r[2]>>, f[<<Middle(r) + 1, r[2]>>])
    <3>1. /\ r[1] \in Nat /\ r[2] \in Nat /\ r[1] < r[2]
          /\ Middle(r) \in Nat /\ r[1] <= Middle(r) /\ Middle(r) < r[2]
          /\ <<r[1], Middle(r)>> \in Ranges(s) /\ <<Middle(r) + 1, r[2]>> \in Ranges(s)
      BY <2>5, MiddleFacts DEF Increasing
    <3>2. Middle(r) - r[1] < n /\ r[2] - (Middle(r) + 1) < n
      BY <2>3, <3>1
    <3> HIDE DEF Bad, Lens
    <3>3. <<r[1], Middle(r)>>[2] - <<r[1], Middle(r)>>[1] < n
      BY <3>2
    <3>4. <<Middle(r) + 1, r[2]>>[2] - <<Middle(r) + 1, r[2]>>[1] < n
      BY <3>2
    <3> QED BY <2>4, <3>1, <3>3, <3>4
  <2>6. r \in Ranges(s) /\ ~Splits(s, raw, r, f[r])
    OBVIOUS
  <2> HIDE DEF Bad, Lens
  <2>7. Splits(s, raw, r, Turn(s, raw, r, f))
    BY <2>5, <2>6, SplitTurn
  <2> QED BY <1>2, <2>6, <2>7
<1>4. <<0, Len(s)>> \in Ranges(s)
  BY DEF Ranges, Increasing
<1> QED BY <1>1, <1>3, <1>4


\* The positions jumps may go to.
JumpSet == {jumpdest_offsets[i] : i \in 1..Len(jumpdest_offsets)}

\* find_jumpdest returns the BEGINBLOCK at the position it is asked for, if the
\* jump table has that position.
LEMMA FindJumpdest ==
    ASSUME TableOK, NEW w
    PROVE  /\ ~(find_jumpdest(w) < 0) =>
                 /\ w \in JumpSet /\ find_jumpdest(w) \in 1..Last
                 /\ Begins(find_jumpdest(w)) /\ trace[find_jumpdest(w)].pos = w
           /\ w \in JumpSet => ~(find_jumpdest(w) < 0)
<1> DEFINE it == lower_bound(jumpdest_offsets, w) + 1
           fd == find_jumpdest(w)
           n  == Len(jumpdest_offsets)
<1>1. /\ jumpdest_offsets \in Seq(Nat) /\ DOMAIN jumpdest_offsets = 1..n /\ n \in Nat
      /\ Increasing(jumpdest_offsets)
      /\ \A i \in 1..n : /\ jumpdest_targets[i] \in 1..Last /\ Begins(jumpdest_targets[i])
                         /\ trace[jumpdest_targets[i]].pos = jumpdest_offsets[i]
  BY DEF TableOK, TypeOK, JumpTableSound, Increasing, Last, Begins
<1>2. fd = IF it \in DOMAIN jumpdest_offsets /\ jumpdest_offsets[it] = w
           THEN jumpdest_targets[it] ELSE -1
  BY DEF find_jumpdest
<1>3. ASSUME it \in 1..n, jumpdest_offsets[it] = w
      PROVE  fd = jumpdest_targets[it] /\ ~(fd < 0) /\ w \in JumpSet
  <2> HIDE DEF it, fd
  <2>1. fd = jumpdest_targets[it]
    BY <1>1, <1>2, <1>3
  <2>2. fd \in 1..Last
    <3> HIDE DEF n, Last
    <3> QED BY <1>1, <1>3, <2>1
  <2>3. Last \in Nat
    BY FieldTypes
  <2> QED BY <1>3, <2>1, <2>2, <2>3 DEF JumpSet
<1>4. ASSUME ~(it \in 1..n /\ jumpdest_offsets[it] = w)
      PROVE  fd = -1
  <2> HIDE DEF it, fd
  <2> QED BY <1>1, <1>2, <1>4
<1>5. ASSUME w \in JumpSet
      PROVE  it \in 1..n /\ jumpdest_offsets[it] = w
  <2>1. PICK i \in 1..n : w = jumpdest_offsets[i]
    BY <1>5 DEF JumpSet
  <2>2. w \in Nat
    BY <1>1, <2>1
  <2>3. Splits(jumpdest_offsets, w, <<0, n>>, lower_bound(jumpdest_offsets, w))
    BY <1>1, <2>2, LowerBound
  <2> PICK m : m = lower_bound(jumpdest_offsets, w)
    OBVIOUS
  <2>4. /\ m \in 0..n /\ (m < n => w <= jumpdest_offsets[m + 1])
        /\ \A j \in 0..(m - 1) : jumpdest_offsets[j + 1] < w
    BY <2>3 DEF Splits
  <2>5. i > m
    <3> SUFFICES ASSUME i <= m PROVE FALSE
      BY <1>1, <2>4
    <3>1. i - 1 \in 0..(m - 1) /\ (i - 1) + 1 = i
      BY <1>1, <2>4
    <3>2. jumpdest_offsets[i] < w
      BY <2>4, <3>1
    <3> QED BY <2>1, <2>2, <3>2
  <2>6. m + 1 \in 1..n /\ m < n /\ (i = m + 1 \/ m + 1 < i)
    BY <1>1, <2>4, <2>5
  <2>7. w <= jumpdest_offsets[m + 1] /\ jumpdest_offsets[m + 1] \in Nat
    BY <1>1, <2>4, <2>6
  <2>8. m + 1 < i => jumpdest_offsets[m + 1] < jumpdest_offsets[i]
    BY <1>1, <2>6 DEF Increasing
  <2>9. jumpdest_offsets[m + 1] = w
    BY <2>1, <2>2, <2>6, <2>7, <2>8
  <2> QED BY <2>6, <2>9
<1> HIDE DEF it, fd
<1>6. ~(fd < 0) => it \in 1..n /\ jumpdest_offsets[it] = w
  BY <1>4
<1>7. ~(fd < 0) => /\ w \in JumpSet /\ fd \in 1..Last /\ Begins(fd) /\ trace[fd].pos = w
  BY <1>1, <1>3, <1>6
<1>8. w \in JumpSet => ~(fd < 0)
  BY <1>3, <1>5
<1> QED BY <1>7, <1>8 DEF fd
-----------------------------------------------------------------------------
(***************************************************************************)
(* The two readings of the bytecode: push data and jump destinations.      *)
(***************************************************************************)

\* The instance of the tables that the Baseline reads is the same.
LEMMA SameTables ==
    /\ Ref!OP_STOP = OP_STOP /\ Ref!OP_MSTORE8 = OP_MSTORE8 /\ Ref!OP_SSTORE = OP_SSTORE
    /\ Ref!OP_JUMP = OP_JUMP /\ Ref!OP_JUMPI = OP_JUMPI /\ Ref!OP_PC = OP_PC
    /\ Ref!OP_GAS = OP_GAS /\ Ref!OP_JUMPDEST = OP_JUMPDEST /\ Ref!OP_RETURN = OP_RETURN
    /\ Ref!OP_INVALID = OP_INVALID /\ Ref!OP_SELFDESTRUCT = OP_SELFDESTRUCT
    /\ Ref!ANY_PUSH = ANY_PUSH /\ Ref!DUPs = DUPs /\ Ref!SWAPs = SWAPs
    /\ Ref!PlainOps = PlainOps /\ Ref!FallibleOps = FallibleOps
    /\ Ref!CorrectedOps = CorrectedOps /\ Ref!StopOps = StopOps /\ Ref!ResultOps = ResultOps
    /\ Ref!undefined = undefined /\ Ref!gas_costs = gas_costs
    /\ Ref!stack_height_required = stack_height_required
    /\ Ref!stack_height_change = stack_height_change
<1>1. /\ Ref!OP_STOP = OP_STOP /\ Ref!OP_MSTORE8 = OP_MSTORE8 /\ Ref!OP_SSTORE = OP_SSTORE
      /\ Ref!OP_JUMP = OP_JUMP /\ Ref!OP_JUMPI = OP_JUMPI /\ Ref!OP_PC = OP_PC
      /\ Ref!OP_GAS = OP_GAS /\ Ref!OP_JUMPDEST = OP_JUMPDEST /\ Ref!OP_RETURN = OP_RETURN
      /\ Ref!OP_REVERT = OP_REVERT /\ Ref!OP_INVALID = OP_INVALID
      /\ Ref!OP_SELFDESTRUCT = OP_SELFDESTRUCT /\ Ref!undefined = undefined
  BY DEF Ref!OP_STOP, OP_STOP, Ref!OP_MSTORE8, OP_MSTORE8, Ref!OP_SSTORE, OP_SSTORE, Ref!OP_JUMP,
     OP_JUMP, Ref!OP_JUMPI, OP_JUMPI, Ref!OP_PC, OP_PC, Ref!OP_GAS, OP_GAS, Ref!OP_JUMPDEST,
     OP_JUMPDEST, Ref!OP_RETURN, OP_RETURN, Ref!OP_REVERT, OP_REVERT, Ref!OP_INVALID, OP_INVALID,
     Ref!OP_SELFDESTRUCT, OP_SELFDESTRUCT, Ref!undefined, undefined
<1>2. Ref!ANY_PUSH = ANY_PUSH /\ Ref!DUPs = DUPs /\ Ref!SWAPs = SWAPs /\ Ref!LOGs = LOGs
  BY DEF Ref!ANY_PUSH, ANY_PUSH, Ref!ANY_SMALL_PUSH, ANY_SMALL_PUSH, Ref!ANY_LARGE_PUSH,
     ANY_LARGE_PUSH, Ref!DUPs, DUPs, Ref!SWAPs, SWAPs, Ref!LOGs, LOGs
<1>3. /\ Ref!BinaryOps = BinaryOps /\ Ref!TernaryOps = TernaryOps /\ Ref!UnaryOps = UnaryOps
      /\ Ref!CopyOps = CopyOps /\ Ref!PairOps = PairOps /\ Ref!CallOps = CallOps
      /\ Ref!Byte = Byte
  BY Zenon DEF Ref!BinaryOps, BinaryOps, Ref!TernaryOps, TernaryOps, Ref!UnaryOps, UnaryOps,
     Ref!CopyOps, CopyOps, Ref!PairOps, PairOps, Ref!CallOps, CallOps, Ref!Byte, Byte
<1>4. Ref!NullaryOps = NullaryOps
  BY <1>2, Zenon DEF Ref!NullaryOps, NullaryOps
<1>5. Ref!gas_costs = gas_costs
  BY SMT DEF Ref!gas_costs, gas_costs, Ref!undefined, undefined, Ref!Byte, Byte, Ref!ANY_PUSH,
     ANY_PUSH, Ref!ANY_SMALL_PUSH, ANY_SMALL_PUSH, Ref!ANY_LARGE_PUSH, ANY_LARGE_PUSH,
     Ref!DUPs, DUPs, Ref!SWAPs, SWAPs, Ref!LOGs, LOGs
<1>6. Ref!stack_height_required = stack_height_required
  BY Zenon DEF Ref!stack_height_required, stack_height_required, Ref!Byte, Byte, Ref!BinaryOps,
     BinaryOps, Ref!TernaryOps, TernaryOps, Ref!UnaryOps, UnaryOps, Ref!CopyOps, CopyOps,
     Ref!PairOps, PairOps, Ref!DUPs, DUPs, Ref!SWAPs, SWAPs, Ref!LOGs, LOGs
<1>7. Ref!stack_height_change = stack_height_change
  BY Zenon DEF Ref!stack_height_change, stack_height_change, Ref!Byte, Byte, Ref!BinaryOps, BinaryOps,
     Ref!TernaryOps, TernaryOps, Ref!NullaryOps, NullaryOps, Ref!CopyOps, CopyOps,
     Ref!PairOps, PairOps, Ref!DUPs, DUPs, Ref!LOGs, LOGs, Ref!ANY_PUSH, ANY_PUSH,
     Ref!ANY_SMALL_PUSH, ANY_SMALL_PUSH, Ref!ANY_LARGE_PUSH, ANY_LARGE_PUSH
<1>8. Ref!PlainOps = PlainOps
  BY Zenon DEF Ref!PlainOps, PlainOps
<1>9. Ref!FallibleOps = FallibleOps
  BY <1>2, Zenon DEF Ref!FallibleOps, FallibleOps
<1>10. Ref!CorrectedOps = CorrectedOps /\ Ref!StopOps = StopOps
  BY <1>1, <1>3, Zenon DEF Ref!CorrectedOps, CorrectedOps, Ref!StopOps, StopOps
<1>11. Ref!ResultOps = ResultOps
  BY <1>1, <1>2, <1>3, <1>4, Zenon DEF Ref!ResultOps, ResultOps
<1> QED BY <1>1, <1>2, <1>5, <1>6, <1>7, <1>8, <1>9, <1>10, <1>11

LEMMA PushDef ==
    ASSUME NEW c, NEW p, NEW n
    PROVE  PushValue(c, p, n) =
             (CHOOSE v : v = [k \in 0..n |-> IF k = 0 THEN 0
                 ELSE (v[k - 1] * 256 + (IF p + k <= Len(c) THEN c[p + k] ELSE 0)) % WordSize])[n]
  BY Zenon DEF PushValue

LEMMA PushedDef ==
    ASSUME NEW p, NEW n
    PROVE  Ref!PushedWord(p, n) =
             (CHOOSE v : v = [k \in 0..n |-> IF k = 0 THEN 0
                 ELSE (v[k - 1] * 256 + Ref!ByteAt(p + k)) % WordSize])[n]
  BY Zenon DEF Ref!PushedWord

\* Both read the data of a PUSH alike.
LEMMA SamePush ==
    ASSUME NEW p \in Nat, NEW n \in Nat, Len(code) \in Nat
    PROVE  Ref!PushedWord(p, n) = PushValue(code, p + 1, n)
<1> DEFINE A(v) == [k \in 0..n |-> IF k = 0 THEN 0
                      ELSE (v[k - 1] * 256
                             + (IF (p + 1) + k <= Len(code) THEN code[(p + 1) + k] ELSE 0)) % WordSize]
           B(v) == [k \in 0..n |-> IF k = 0 THEN 0
                      ELSE (v[k - 1] * 256 + Ref!ByteAt(p + k)) % WordSize]
<1>1. \A k \in 0..n : Ref!ByteAt(p + k)
                        = IF (p + 1) + k <= Len(code) THEN code[(p + 1) + k] ELSE 0
  <2> TAKE k \in 0..n
  <2>1. (p + 1) + k = (p + k) + 1 /\ (p + k < Len(code) <=> (p + 1) + k <= Len(code))
    OBVIOUS
  <2> QED BY <2>1 DEF Ref!ByteAt
<1>2. \A v : A(v) = B(v)
  BY <1>1
<1>3. PushValue(code, p + 1, n) = (CHOOSE v : v = A(v))[n]
  BY PushDef
<1>4. Ref!PushedWord(p, n) = (CHOOSE v : v = B(v))[n]
  BY PushedDef
<1> HIDE DEF A, B
<1>5. (CHOOSE v : v = A(v)) = (CHOOSE v : v = B(v))
  BY <1>2
<1> QED BY <1>3, <1>4, <1>5

\* The position after the instruction at q; whether one starts at p, given
\* which positions before p are starts; and the recursion of analyze().
After(q) == q + 1 + Ref!NumPush(Ref!OpAt(q))
StartsAt(p, f) == p = 0 \/ \E q \in 0..(p - 1) : f[q] /\ p = After(q)
Starts == CHOOSE f : f = [x \in 0..Len(code) |-> StartsAt(x, f)]

\* They depend on the code alone.
CodeAt(c, q) == IF q < Len(c) THEN c[q + 1] ELSE Ref!OP_STOP
StartsIn(c) ==
    CHOOSE f : f = [x \in 0..Len(c) |-> x = 0 \/ \E q \in 0..(x - 1) :
                       f[q] /\ x = q + 1 + (IF CodeAt(c, q) \in Ref!ANY_PUSH
                                           THEN CodeAt(c, q) - 95 ELSE 0)]

LEMMA StartsKept ==
    ASSUME code' = code
    PROVE  Starts' = Starts
<1>1. Starts = StartsIn(code)
  BY Zenon DEF Starts, StartsAt, After, StartsIn, CodeAt, Ref!OpAt, Ref!NumPush
<1>2. Starts' = StartsIn(code')
  BY Zenon DEF Starts, StartsAt, After, StartsIn, CodeAt, Ref!OpAt, Ref!NumPush
<1> QED BY <1>1, <1>2, Zenon

LEMMA StartsDef ==
    Ref!jumpdest_map = {p \in 0..(Len(code) - 1) : Starts[p] /\ code[p + 1] = OP_JUMPDEST}
  BY Zenon DEF Ref!jumpdest_map, StartsAt, After, Starts, Ref!OP_JUMPDEST, OP_JUMPDEST

LEMMA AfterFacts ==
    ASSUME code \in Seq(Byte), NEW q \in Nat
    PROVE  /\ After(q) \in Nat /\ After(q) > q /\ Len(code) \in Nat
           /\ q < Len(code) => After(q) = q + 1 + PushSize(code[q + 1])
<1>1. Ref!OpAt(q) \in Byte
  BY SameTables, DefinedFacts DEF Ref!OpAt
<1>2. PICK op : op = Ref!OpAt(q)
  OBVIOUS
<1>3. op \in Nat /\ Ref!NumPush(op) = (IF op \in ANY_PUSH THEN op - 95 ELSE 0)
      /\ Ref!NumPush(op) = PushSize(op) /\ PushSize(op) \in Nat
  <2>1. op \in Nat /\ (op \in ANY_PUSH => op >= 96)
    <3>1. op \in Byte
      BY <1>1, <1>2
    <3> QED BY <3>1 DEF ANY_PUSH, ANY_SMALL_PUSH, ANY_LARGE_PUSH, Byte
  <2>2. Ref!ANY_PUSH = ANY_PUSH
    BY SameTables
  <2>3. Ref!NumPush(op) = (IF op \in ANY_PUSH THEN op - 95 ELSE 0)
    BY <2>2 DEF Ref!NumPush
  <2>4. PushSize(op) = (IF op \in ANY_PUSH THEN op - 96 + 1 ELSE 0)
    BY DEF PushSize, OP_PUSH1
  <2> QED BY <2>1, <2>3, <2>4
<1>4. After(q) = q + 1 + PushSize(op)
  BY <1>2, <1>3 DEF After
<1>5. q < Len(code) => op = code[q + 1]
  BY <1>2 DEF Ref!OpAt
<1> QED BY <1>3, <1>4, <1>5

\* The recursion has a solution: the least set that holds 0 and is closed under
\* After.
LEMMA StartsUnfold ==
    ASSUME code \in Seq(Byte)
    PROVE  \A x \in 0..Len(code) : Starts[x] <=> StartsAt(x, Starts)
<1> DEFINE n == Len(code)
           Closed(S) == 0 \in S /\ \A q \in S : After(q) \in 0..n => After(q) \in S
           In(x) == \A S \in SUBSET (0..n) : Closed(S) => x \in S
           F == [x \in 0..n |-> In(x)]
<1>0. n \in Nat /\ \A q \in 0..n : After(q) \in Nat /\ After(q) > q
  BY AfterFacts
<1>1. In(0)
  OBVIOUS
<1>2. ASSUME NEW q \in 0..n, In(q), After(q) \in 0..n
      PROVE  In(After(q))
  BY <1>2
<1>3. ASSUME NEW x \in 0..n, In(x), x # 0
      PROVE  \E q \in 0..(x - 1) : In(q) /\ x = After(q)
  <2> SUFFICES ASSUME ~\E q \in 0..(x - 1) : In(q) /\ x = After(q)
               PROVE  FALSE
    OBVIOUS
  <2> DEFINE T == {y \in 0..n : In(y)} \ {x}
  <2>1. T \in SUBSET (0..n) /\ x \notin T
    OBVIOUS
  <2>2. 0 \in T
    BY <1>0, <1>1, <1>3
  <2>3. ASSUME NEW q \in T, After(q) \in 0..n
        PROVE  After(q) \in T
    <3>1. q \in 0..n /\ In(q) /\ q < After(q)
      BY <1>0
    <3>2. In(After(q))
      BY <1>2, <2>3, <3>1
    <3>3. After(q) # x
      <4> HIDE DEF In
      <4> SUFFICES ASSUME After(q) = x PROVE FALSE
        OBVIOUS
      <4>1. q \in 0..(x - 1)
        BY <1>0, <3>1
      <4> QED BY <3>1, <4>1
    <3> HIDE DEF In
    <3> QED BY <2>3, <3>2, <3>3
  <2>4. Closed(T)
    BY <2>2, <2>3
  <2> HIDE DEF T
  <2> QED BY <1>3, <2>1, <2>4
<1>4. ASSUME NEW x \in 0..n
      PROVE  F[x] = StartsAt(x, F)
  <2>1. \A q \in 0..n : F[q] = In(q)
    OBVIOUS
  <2>2. F[x] <=> StartsAt(x, F)
    <3> HIDE DEF F, In
    <3>1. \A q \in 0..(x - 1) : q \in 0..n
      BY <1>0
    <3>2. StartsAt(x, F) <=> (x = 0 \/ \E q \in 0..(x - 1) : In(q) /\ x = After(q))
      BY <2>1, <3>1 DEF StartsAt
    <3>3. In(x) <=> (x = 0 \/ \E q \in 0..(x - 1) : In(q) /\ x = After(q))
      <4>1. ASSUME NEW q \in 0..(x - 1), In(q), x = After(q)
            PROVE  In(x)
        BY <1>2, <3>1, <4>1
      <4> QED BY <1>1, <1>3, <4>1
    <3> QED BY <2>1, <3>2, <3>3
  <2>3. F[x] \in BOOLEAN /\ StartsAt(x, F) \in BOOLEAN
    BY DEF StartsAt
  <2> HIDE DEF F, In
  <2> QED BY <2>2, <2>3
<1> DEFINE P(f) == f = [x \in 0..n |-> StartsAt(x, f)]
<1>5. P(F)
  <2>1. F = [x \in 0..n |-> F[x]]
    OBVIOUS
  <2> HIDE DEF F
  <2> QED BY <1>4, <2>1
<1>6. P(Starts)
  <2>1. Starts = CHOOSE f : P(f)
    BY Zenon DEF Starts
  <2> HIDE DEF P
  <2> QED BY <1>5, <2>1, Zenon
<1>7. ASSUME NEW x \in 0..n
      PROVE  Starts[x] = StartsAt(x, Starts)
  <2>1. Starts = [y \in 0..n |-> StartsAt(y, Starts)]
    BY <1>6
  <2> PICK g : g = Starts
    OBVIOUS
  <2>2. g = [y \in 0..n |-> StartsAt(y, g)]
    BY <2>1
  <2>3. g[x] = StartsAt(x, g)
    BY <2>2, Zenon
  <2> QED BY <2>3
<1> QED BY <1>7


\* The jump table so far: it has the JUMPDESTs before code_pos that start an
\* instruction, and no instruction that starts before code_pos reaches past it.
JumpInv ==
    /\ code_pos < Len(code) => Starts[code_pos]
    /\ \A q \in 0..(code_pos - 1) : Starts[q] => After(q) <= code_pos \/ code_pos = Len(code)
    /\ \A q \in 0..(code_pos - 1) : q \in JumpSet <=> Starts[q] /\ JumpdestAt(q)
    /\ JumpSet \subseteq 0..(code_pos - 1)
    /\ phase # "analyze" => code_pos = Len(code)

LEMMA JumpInit == Init => JumpInv
<1> SUFFICES ASSUME Init PROVE JumpInv
  OBVIOUS
<1>1. /\ code \in Seq(Byte) /\ code_pos = 0 /\ jumpdest_offsets = <<>> /\ phase = "analyze"
      /\ Len(code) \in Nat
  BY CodesAssumption DEF Init, AnalysisInit
<1>2. JumpSet = {}
  BY <1>1 DEF JumpSet
<1>3. Starts[0]
  BY <1>1, StartsUnfold DEF StartsAt
<1> QED BY <1>1, <1>2, <1>3 DEF JumpInv

\* No instruction starts inside the one that the analysis is at.
LEMMA NoneInside ==
    ASSUME TableOK, JumpInv, code_pos < Len(code),
           NEW q \in Nat, code_pos < q, q < Min2(After(code_pos), Len(code)), Starts[q]
    PROVE  FALSE
<1>1. code \in Seq(Byte) /\ code_pos \in Nat /\ Len(code) \in Nat
  BY CodesAssumption DEF TableOK, TypeOK
<1>2. PICK s, c, a, n : s = Starts /\ c = code_pos /\ a = After(code_pos) /\ n = Len(code)
  OBVIOUS
<1>3. a \in Nat /\ c \in Nat /\ n \in Nat
  BY <1>1, <1>2, AfterFacts
<1> DEFINE T == {x \in Nat : c < x /\ x < Min2(a, n) /\ s[x]}
<1>4. T \subseteq Nat /\ T # {}
  BY <1>2
<1>5. PICK x \in T : \A y \in T : x <= y
  BY <1>4, NatMin
<1>6. x \in 0..n /\ x # 0 /\ c < x /\ x < a /\ x < n
  BY <1>3, <1>5 DEF Min2
<1>7. PICK r \in 0..(x - 1) : s[r] /\ x = After(r)
  BY <1>1, <1>2, <1>5, <1>6, StartsUnfold DEF StartsAt
<1>8. CASE r > c
  <2>1. r \in T
    BY <1>3, <1>6, <1>7, <1>8 DEF Min2
  <2> QED BY <1>5, <1>6, <1>7, <2>1
<1>9. CASE r = c
  BY <1>2, <1>6, <1>7, <1>9
<1>10. CASE r < c
  <2>1. r \in 0..(code_pos - 1)
    BY <1>2, <1>3, <1>6, <1>7, <1>10
  <2>2. After(r) <= c
    BY <1>2, <1>7, <2>1 DEF JumpInv
  <2> QED BY <1>3, <1>6, <1>7, <2>2
<1> QED BY <1>3, <1>6, <1>7, <1>8, <1>9, <1>10

LEMMA JumpTurn ==
    ASSUME TableOK, BoundInv, JumpInv, AnalyzeOp
    PROVE  JumpInv'
<1>1. code \in Seq(Byte) /\ code_pos \in Nat /\ Len(code) \in Nat
  BY CodesAssumption DEF TableOK, TypeOK
<1> PICK c, n, d : c = code_pos /\ n = Len(code) /\ d = NextPos
  OBVIOUS
<1> PICK s : s = Starts
  OBVIOUS
<1>2. /\ code' = code /\ code_pos' = d /\ d \in (c + 1)..n /\ c < n /\ phase' = "analyze"
      /\ c \in Nat /\ n \in Nat
  BY <1>1, TurnView
<1>3. \A q : After(q)' = After(q) /\ (JumpdestAt(q)' <=> JumpdestAt(q))
  BY <1>2 DEF After, Ref!OpAt, Ref!NumPush, JumpdestAt
<1>4. Starts' = s
  BY <1>2, StartsKept
<1>5. After(c) \in Nat /\ d = Min2(After(c), n)
  BY <1>1, <1>2, AfterFacts, TurnView DEF Op
<1>6. \A q \in 0..(d - 1) : q \in 0..(c - 1) \/ q = c \/ ~s[q]
  <2> SUFFICES ASSUME NEW q \in 0..(d - 1), c < q, s[q] PROVE FALSE
    BY <1>2
  <2> QED BY <1>1, <1>2, <1>5, NoneInside
<1>7. d < n => s[d]
  <2> SUFFICES ASSUME d < n PROVE s[d]
    OBVIOUS
  <2>1. d = After(c) /\ c \in 0..(d - 1) /\ d \in 0..n
    BY <1>2, <1>5 DEF Min2
  <2>2. s[c]
    BY <1>2 DEF JumpInv
  <2> QED BY <1>1, <2>1, <2>2, StartsUnfold DEF StartsAt
<1>8. ASSUME NEW q \in 0..(d - 1), s[q]
      PROVE  After(q) <= d \/ d = n
  <2>1. CASE q = c
    BY <1>2, <1>5, <2>1 DEF Min2
  <2>2. CASE q \in 0..(c - 1)
    <3>1. After(q) <= c /\ After(q) \in Nat
      <4>1. q \in 0..(code_pos - 1) /\ q \in Nat /\ Starts[q] /\ code_pos # Len(code)
        BY <1>2, <1>8, <2>2
      <4>2. After(q) <= code_pos
        BY <4>1 DEF JumpInv
      <4>3. After(q) \in Nat
        BY <1>1, <4>1, AfterFacts
      <4> QED BY <4>2, <4>3
    <3> QED BY <1>2, <3>1
  <2> QED BY <1>6, <1>8, <2>1, <2>2
<1>9. JumpSet' = (IF JumpdestAt(c) THEN JumpSet \cup {c} ELSE JumpSet)
  <2>1. jumpdest_offsets \in Seq(Nat) /\ (Op = OP_JUMPDEST <=> JumpdestAt(c))
    BY TurnView DEF TableOK, TypeOK
  <2>2. CASE Op = OP_JUMPDEST
    <3>1. jumpdest_offsets' = Append(jumpdest_offsets, c)
      BY <2>2 DEF AnalyzeOp, Op
    <3> PICK m : m = Len(jumpdest_offsets)
      OBVIOUS
    <3>2. /\ Len(jumpdest_offsets') = m + 1 /\ jumpdest_offsets'[m + 1] = c /\ m \in Nat
          /\ \A i \in 1..m : jumpdest_offsets'[i] = jumpdest_offsets[i]
      BY <1>2, <2>1, <3>1
    <3>3. \A i \in 1..(m + 1) : i \in 1..m \/ i = m + 1
      BY <3>2
    <3> QED BY <2>1, <2>2, <3>2, <3>3 DEF JumpSet
  <2>3. CASE Op # OP_JUMPDEST
    BY <2>1, <2>3 DEF AnalyzeOp, Op, JumpSet
  <2> QED BY <2>2, <2>3
<1>10. ASSUME NEW q \in 0..(d - 1)
       PROVE  q \in JumpSet' <=> s[q] /\ JumpdestAt(q)
  <2>1. JumpSet \subseteq 0..(c - 1)
    BY DEF JumpInv
  <2>2. CASE q = c
    <3>1. s[c]
      BY <1>2 DEF JumpInv
    <3>2. c \notin JumpSet
      BY <1>2, <2>1
    <3> QED BY <1>9, <2>2, <3>1, <3>2
  <2>3. CASE q \in 0..(c - 1)
    <3>1. q # c
      BY <1>2, <2>3
    <3> QED BY <1>9, <2>3, <3>1 DEF JumpInv
  <2>4. CASE ~s[q] /\ q # c /\ q \notin 0..(c - 1)
    BY <1>9, <2>1, <2>4
  <2> QED BY <1>6, <2>2, <2>3, <2>4
<1>11. JumpSet' \subseteq 0..(d - 1)
  <2>1. JumpSet \subseteq 0..(c - 1)
    BY DEF JumpInv
  <2> QED BY <1>2, <1>9, <2>1
<1> QED BY <1>2, <1>3, <1>4, <1>7, <1>8, <1>10, <1>11 DEF JumpInv

LEMMA JumpKept ==
    ASSUME JumpInv, UNCHANGED <<code, code_pos, jumpdest_offsets>>,
           phase' = phase \/ code_pos = Len(code)
    PROVE  JumpInv'
<1>1. \A q : After(q)' = After(q) /\ (JumpdestAt(q)' <=> JumpdestAt(q))
  BY DEF After, Ref!OpAt, Ref!NumPush, JumpdestAt
<1>2. Starts' = Starts /\ JumpSet' = JumpSet
  BY StartsKept DEF JumpSet
<1> QED BY <1>1, <1>2 DEF JumpInv

LEMMA JumpStep ==
    ASSUME TableOK, BoundInv, JumpInv, [Next]_vars
    PROVE  JumpInv'
<1>1. CASE AnalyzeOp
  BY <1>1, JumpTurn
<1>2. CASE FinishAnalysis
  BY <1>2, JumpKept DEF FinishAnalysis
<1>3. ASSUME NEW o \in Outcomes, Execute(o)
      PROVE  JumpInv'
  BY <1>3, JumpKept, ExecuteState DEF analysisVars
<1>4. CASE Finish
  BY <1>4, JumpKept DEF Finish, JumpInv
<1>5. CASE UNCHANGED vars
  BY <1>5, JumpKept DEF vars, analysisVars
<1> QED BY <1>1, <1>2, <1>3, <1>4, <1>5 DEF Next, Analyze, Done

\* The jump tables of the two interpreters are the same.
LEMMA JumpsComplete ==
    ASSUME TableOK, JumpInv, phase # "analyze"
    PROVE  JumpSet = Ref!jumpdest_map
<1>1. code_pos = Len(code) /\ Len(code) \in Nat
  BY CodesAssumption DEF JumpInv, TableOK, TypeOK
<1>2. \A q \in 0..(Len(code) - 1) : q \in JumpSet <=> Starts[q] /\ code[q + 1] = OP_JUMPDEST
  BY <1>1 DEF JumpInv, JumpdestAt
<1> QED BY <1>1, <1>2, StartsDef DEF JumpInv


-----------------------------------------------------------------------------
(***************************************************************************)
(* One step of the Baseline.                                               *)
(***************************************************************************)

Singles == {OP_STOP, OP_MSTORE8, OP_JUMP, OP_JUMPI, OP_PC, OP_GAS, OP_JUMPDEST, OP_INVALID,
            OP_SELFDESTRUCT}

\* No opcode is of two classes.
LEMMA ClassesDisjoint ==
    /\ PlainOps \cap (FallibleOps \cup CorrectedOps) = {}
    /\ PlainOps \cap (ANY_PUSH \cup DUPs \cup SWAPs) = {}
    /\ PlainOps \cap (StopOps \cup Singles) = {}
    /\ FallibleOps \cap (CorrectedOps \cup ANY_PUSH \cup DUPs \cup SWAPs) = {}
    /\ FallibleOps \cap (StopOps \cup Singles) = {}
    /\ CorrectedOps \cap (ANY_PUSH \cup DUPs \cup SWAPs) = {}
    /\ CorrectedOps \cap (StopOps \cup Singles) = {}
    /\ ANY_PUSH \cap (DUPs \cup SWAPs) = {}
    /\ ANY_PUSH \cap (StopOps \cup Singles) = {}
    /\ DUPs \cap SWAPs = {}
    /\ (DUPs \cup SWAPs) \cap (StopOps \cup Singles) = {}
    /\ StopOps \cap Singles = {}
<1>1. Singles = {0, 83, 86, 87, 88, 90, 91, 254, 255} /\ StopOps = {243, 253}
      /\ CorrectedOps = {85, 240, 241, 242, 244, 245, 250} /\ ANY_PUSH = 96..127
  BY DEF Singles, StopOps, CorrectedOps, CallOps, OP_STOP, OP_MSTORE8, OP_JUMP, OP_JUMPI, OP_PC,
     OP_GAS, OP_JUMPDEST, OP_INVALID, OP_SELFDESTRUCT, OP_RETURN, OP_REVERT, OP_SSTORE, ANY_PUSH,
     ANY_SMALL_PUSH, ANY_LARGE_PUSH
<1>2. /\ PlainOps \cap (FallibleOps \cup CorrectedOps) = {}
      /\ PlainOps \cap (ANY_PUSH \cup DUPs \cup SWAPs) = {}
      /\ PlainOps \cap (StopOps \cup Singles) = {}
  BY <1>1 DEF PlainOps, FallibleOps, LOGs, DUPs, SWAPs
<1>3. /\ FallibleOps \cap (CorrectedOps \cup ANY_PUSH \cup DUPs \cup SWAPs) = {}
      /\ FallibleOps \cap (StopOps \cup Singles) = {}
  BY <1>1 DEF FallibleOps, LOGs, DUPs, SWAPs
<1>4. /\ CorrectedOps \cap (ANY_PUSH \cup DUPs \cup SWAPs) = {}
      /\ CorrectedOps \cap (StopOps \cup Singles) = {}
      /\ ANY_PUSH \cap (DUPs \cup SWAPs) = {}
      /\ ANY_PUSH \cap (StopOps \cup Singles) = {}
  BY <1>1 DEF DUPs, SWAPs
<1>5. /\ DUPs \cap SWAPs = {}
      /\ (DUPs \cup SWAPs) \cap (StopOps \cup Singles) = {}
      /\ StopOps \cap Singles = {}
  BY <1>1 DEF DUPs, SWAPs
<1> QED BY <1>2, <1>3, <1>4, <1>5

LEMMA SinglesDistinct ==
    /\ {OP_JUMP, OP_JUMPI} \cap {OP_STOP, OP_MSTORE8, OP_PC, OP_GAS, OP_JUMPDEST, OP_INVALID,
                                 OP_SELFDESTRUCT} = {}
    /\ OP_PC \notin {OP_STOP, OP_MSTORE8, OP_GAS, OP_JUMPDEST, OP_INVALID, OP_SELFDESTRUCT}
    /\ OP_GAS \notin {OP_STOP, OP_MSTORE8, OP_JUMPDEST, OP_INVALID, OP_SELFDESTRUCT}
    /\ OP_STOP \notin {OP_MSTORE8, OP_JUMPDEST, OP_INVALID, OP_SELFDESTRUCT}
    /\ OP_INVALID \notin {OP_MSTORE8, OP_JUMPDEST, OP_SELFDESTRUCT}
    /\ OP_SELFDESTRUCT \notin {OP_MSTORE8, OP_JUMPDEST}
    /\ OP_JUMP # OP_JUMPI /\ OP_JUMPDEST # OP_MSTORE8
  BY DEF OP_STOP, OP_MSTORE8, OP_JUMP, OP_JUMPI, OP_PC, OP_GAS, OP_JUMPDEST, OP_INVALID,
     OP_SELFDESTRUCT

\* Items accessed by the instructions that move them about.
LEMMA RequiredFacts ==
    /\ \A op \in DUPs : stack_height_required[op] = op - 127
    /\ \A op \in SWAPs : stack_height_required[op] = op - 142
    /\ stack_height_required[OP_JUMP] = 1 /\ stack_height_required[OP_JUMPI] = 2
    /\ stack_height_required[OP_JUMPDEST] = 0
  BY DEF stack_height_required, Byte, BinaryOps, TernaryOps, UnaryOps, CopyOps, PairOps, DUPs,
     SWAPs, LOGs, OP_JUMP, OP_JUMPI, OP_JUMPDEST

\* An instruction that leaves no result does not grow the stack.
LEMMA ResultlessFacts ==
    ASSUME NEW op \in PlainOps \cup FallibleOps \cup CorrectedOps, op \notin ResultOps
    PROVE  stack_height_change[op] \in Int /\ stack_height_change[op] <= 0
<1>1. op \in Byte /\ op \notin ANY_PUSH \cup DUPs /\ op \notin {OP_PC, OP_GAS}
  BY ClassFacts, ClassesDisjoint DEF Singles
<1>2. op \notin NullaryOps
  BY <1>1 DEF ResultOps
<1>3. stack_height_change[op] \in -6..1
  BY <1>1, TraitsFacts
<1>4. stack_height_change[op] # 1
  <2>1. op \notin LOGs => stack_height_change[op] \in {-6, -5, -4, -3, -2, -1, 0}
    BY <1>1, <1>2 DEF stack_height_change
  <2>2. \A l \in LOGs : stack_height_change[l] = 158 - l /\ 158 - l # 1
    BY DEF stack_height_change, Byte, BinaryOps, TernaryOps, NullaryOps, CopyOps, PairOps, DUPs,
       LOGs, ANY_PUSH, ANY_SMALL_PUSH, ANY_LARGE_PUSH
  <2> QED BY <2>1, <2>2
<1> QED BY <1>3, <1>4


\* What the check of an instruction says; the tables differ in MSTORE8 only.
LEMMA CheckFacts ==
    ASSUME NEW op \in Byte, op # OP_MSTORE8, height \in Int, gas \in Int
    PROVE  /\ Ref!check_requirements(op) = "SUCCESS" <=>
                 /\ op \notin UndefinedOps
                 /\ ~(stack_height_change[op] > 0 /\ height = StackLimit)
                 /\ height >= stack_height_required[op]
                 /\ gas >= gas_costs[op]
           /\ op \in UndefinedOps => Ref!check_requirements(op) = "UNDEFINED_INSTRUCTION"
           /\ Ref!check_requirements(op) # "SUCCESS" =>
                 /\ ~Succeeded(Ref!check_requirements(op))
                 /\ Ref!check_requirements(op) # "RUNNING"
           /\ op = OP_JUMPDEST /\ Ref!check_requirements(op) # "SUCCESS" =>
                 height < 0 \/ Ref!check_requirements(op) = "OUT_OF_GAS"
           /\ Ref!base_costs[op] = gas_costs[op]
<1>1. Ref!base_costs[op] = gas_costs[op]
  BY SameTables DEF Ref!base_costs, gas_costs
<1>2. op \in UndefinedOps <=> gas_costs[op] = undefined
  BY DEF UndefinedOps
<1>3. /\ gas_costs[op] \in Int /\ stack_height_required[op] \in Int
      /\ stack_height_change[op] \in Int
  BY GasFacts, TraitsFacts
<1>4. op = OP_JUMPDEST => op \notin UndefinedOps /\ stack_height_change[op] = 0
                          /\ stack_height_required[op] = 0
  BY DefinedFacts, RequiredFacts
<1> DEFINE u == op \in UndefinedOps
           f == stack_height_change[op] > 0 /\ height = StackLimit
           s == height < stack_height_required[op]
           g == gas < gas_costs[op]
           c == Ref!check_requirements(op)
<1>5. c = IF u THEN "UNDEFINED_INSTRUCTION" ELSE IF f THEN "STACK_OVERFLOW"
          ELSE IF s THEN "STACK_UNDERFLOW" ELSE IF g THEN "OUT_OF_GAS" ELSE "SUCCESS"
  BY <1>1, <1>2, SameTables DEF Ref!check_requirements
<1>6. (~s <=> height >= stack_height_required[op]) /\ (~g <=> gas >= gas_costs[op])
      /\ (op = OP_JUMPDEST => ~u /\ ~f /\ (s => height < 0))
  BY <1>3, <1>4
<1>7. /\ c = "SUCCESS" <=> ~u /\ ~f /\ ~s /\ ~g
      /\ u => c = "UNDEFINED_INSTRUCTION"
      /\ c # "SUCCESS" => c \in {"UNDEFINED_INSTRUCTION", "STACK_OVERFLOW", "STACK_UNDERFLOW",
                                 "OUT_OF_GAS"}
      /\ ~u /\ ~f /\ ~s /\ c # "SUCCESS" => c = "OUT_OF_GAS"
  <2> HIDE DEF u, f, s, g, c
  <2> QED BY <1>5
<1>8. c # "SUCCESS" => ~Succeeded(c) /\ c # "RUNNING"
  BY <1>7 DEF Succeeded
<1> QED BY <1>1, <1>6, <1>7, <1>8

\* The instruction the Baseline is at.
At == Ref!OpAt(pc)
Paid == gas - gas_costs[At]
Onward == pc + 1 + Ref!NumPush(At)

\* The types of the Baseline's state.
RefOK == /\ pc \in Nat /\ gas \in Int /\ height \in Int
         /\ DOMAIN stack = 1..StackLimit /\ At \in Byte \ {OP_MSTORE8}

\* A step fails the check, or the instruction runs.
LEMMA StepFacts ==
    ASSUME RefOK, NEW o, Ref!Step(o)
    PROVE  /\ outcome = "RUNNING"
           /\ \/ /\ ~Succeeded(outcome') /\ outcome' # "RUNNING" /\ gas' = gas
                 /\ At = OP_JUMPDEST => height < 0 \/ (outcome' = "OUT_OF_GAS" /\ gas < 1)
                 /\ At \in UndefinedOps => outcome' = "UNDEFINED_INSTRUCTION"
                 /\ \/ At \in UndefinedOps
                    \/ stack_height_change[At] > 0 /\ height = StackLimit
                    \/ height < stack_height_required[At]
                    \/ gas < gas_costs[At]
                 /\ UNCHANGED <<pc, height, stack>>
              \/ /\ At \notin UndefinedOps
                 /\ ~(stack_height_change[At] > 0 /\ height = StackLimit)
                 /\ height >= stack_height_required[At]
                 /\ gas >= gas_costs[At]
                 /\ Ref!Impl(At, Paid, o)
<1> PICK op : op = At
  OBVIOUS
<1>1. op \in Byte /\ op # OP_MSTORE8 /\ height \in Int /\ gas \in Int
  BY DEF RefOK
<1>2. outcome = "RUNNING"
  BY DEF Ref!Step
<1>3. CASE Ref!check_requirements(op) = "SUCCESS"
  <2>1. Ref!Impl(op, gas - Ref!base_costs[op], o)
    BY <1>3 DEF Ref!Step, At
  <2>2. Ref!base_costs[op] = gas_costs[op]
    BY <1>1, CheckFacts
  <2>3. Ref!Impl(At, Paid, o)
    BY <2>1, <2>2 DEF Paid
  <2> QED BY <1>1, <1>2, <1>3, <2>3, CheckFacts
<1>4. CASE Ref!check_requirements(op) # "SUCCESS"
  <2>1. /\ outcome' = Ref!check_requirements(op) /\ gas' = gas
        /\ pc' = pc /\ height' = height /\ stack' = stack
    BY <1>4 DEF Ref!Step, At, Ref!Stop
  <2>2. op = OP_JUMPDEST => gas_costs[op] = 1 /\ stack_height_change[op] = 0
                            /\ stack_height_required[op] = 0 /\ op \notin UndefinedOps
    BY JumpdestGas, DefinedFacts, RequiredFacts DEF OpGas
  <2>3. ~Succeeded(outcome') /\ outcome' # "RUNNING"
    BY <1>1, <1>4, <2>1, CheckFacts
  <2>4. \/ op \in UndefinedOps
        \/ stack_height_change[op] > 0 /\ height = StackLimit
        \/ height < stack_height_required[op]
        \/ gas < gas_costs[op]
    <3>1. gas_costs[op] \in Int /\ stack_height_required[op] \in Int
      BY <1>1, GasFacts, TraitsFacts
    <3> QED BY <1>1, <1>4, <3>1, CheckFacts
  <2>5. op = OP_JUMPDEST => height < 0 \/ (outcome' = "OUT_OF_GAS" /\ gas < 1)
    BY <1>1, <1>4, <2>1, <2>2, <2>4, CheckFacts
  <2>6. op \in UndefinedOps => outcome' = "UNDEFINED_INSTRUCTION"
    BY <1>1, <2>1, CheckFacts
  <2> QED BY <1>2, <2>1, <2>3, <2>4, <2>5, <2>6
<1> QED BY <1>3, <1>4


\* What the instruction at pc does once its check has succeeded, by class.
Goes(p, st) == /\ pc' = p /\ height' = height + stack_height_change[At] /\ stack' = st
               /\ outcome' = outcome
Halts(s) == outcome' = s /\ UNCHANGED <<pc, height, stack>>
Left(o) == IF At \in ResultOps
           THEN [stack EXCEPT ![height + stack_height_change[At]] = o.value] ELSE stack

LEMMA ImplPlain ==
    ASSUME NEW o, Ref!Impl(At, Paid, o), At \in PlainOps \cup {OP_JUMPDEST}
    PROVE  gas' = Paid /\ Goes(Onward, Left(o))
<1>1. /\ At \notin FallibleOps \cup CorrectedOps \cup ANY_PUSH \cup DUPs \cup SWAPs \cup StopOps
      /\ At \notin {OP_MSTORE8, OP_JUMP, OP_JUMPI, OP_PC, OP_GAS, OP_STOP, OP_INVALID,
                    OP_SELFDESTRUCT}
  BY ClassesDisjoint, SinglesDistinct DEF Singles
<1> QED BY <1>1, SameTables DEF Ref!Impl, Ref!Go, Ref!Set, Goes, Left, Onward, At

LEMMA ImplFallible ==
    ASSUME NEW o, Ref!Impl(At, Paid, o), At \in FallibleOps \cup CorrectedOps
    PROVE  /\ gas' = Paid - o.cost
           /\ IF gas' < 0 \/ (At = OP_SSTORE /\ Paid <= SstoreGate) THEN Halts("OUT_OF_GAS")
              ELSE IF o.status # "SUCCESS" THEN Halts(o.status)
              ELSE Goes(Onward, Left(o))
<1>1. /\ At \notin PlainOps \cup ANY_PUSH \cup DUPs \cup SWAPs \cup StopOps
      /\ At \notin {OP_JUMP, OP_JUMPI, OP_PC, OP_GAS, OP_STOP, OP_INVALID, OP_SELFDESTRUCT,
                    OP_JUMPDEST}
  BY ClassesDisjoint DEF Singles
<1> QED BY <1>1, SameTables DEF Ref!Impl, Ref!Go, Ref!Stop, Halts, Ref!Set, Goes, Left, Onward, At

LEMMA ImplJump ==
    ASSUME NEW o, Ref!Impl(At, Paid, o), At \in {OP_JUMP, OP_JUMPI}
    PROVE  /\ gas' = Paid
           /\ IF At = OP_JUMPI /\ stack[height - 1] = 0 THEN Goes(Onward, stack)
              ELSE IF stack[height] \in Ref!jumpdest_map THEN Goes(stack[height], stack)
              ELSE Halts("BAD_JUMP_DESTINATION")
<1>1. /\ At \notin PlainOps \cup FallibleOps \cup CorrectedOps \cup ANY_PUSH \cup DUPs \cup SWAPs
                     \cup StopOps
      /\ At \notin {OP_MSTORE8, OP_PC, OP_GAS, OP_STOP, OP_INVALID, OP_SELFDESTRUCT, OP_JUMPDEST}
  BY ClassesDisjoint, SinglesDistinct DEF Singles
<1> QED BY <1>1, SameTables DEF Ref!Impl, Ref!Go, Ref!Stop, Halts, Goes, Onward, At

LEMMA ImplPush ==
    ASSUME NEW o, Ref!Impl(At, Paid, o)
    PROVE  /\ At = OP_PC => /\ gas' = Paid
                            /\ Goes(Onward, [stack EXCEPT ![height + stack_height_change[At]] = pc])
           /\ At = OP_GAS => /\ gas' = Paid
                             /\ Goes(Onward, [stack EXCEPT ![height + stack_height_change[At]]
                                                = Paid % WordSize])
           /\ At \in ANY_PUSH => /\ gas' = Paid
                                 /\ Goes(Onward, [stack EXCEPT ![height + stack_height_change[At]]
                                                    = Ref!PushedWord(pc, Ref!NumPush(At))])
<1>1. ASSUME At \in {OP_PC, OP_GAS}
      PROVE  /\ At \notin PlainOps \cup FallibleOps \cup CorrectedOps \cup ANY_PUSH \cup DUPs
                            \cup SWAPs \cup StopOps
             /\ At \notin {OP_MSTORE8, OP_JUMP, OP_JUMPI, OP_STOP, OP_INVALID, OP_SELFDESTRUCT,
                           OP_JUMPDEST}
             /\ OP_PC # OP_GAS
  BY <1>1, ClassesDisjoint, SinglesDistinct DEF Singles
<1>2. CASE At = OP_PC
  <2>1. At \notin ANY_PUSH /\ At # OP_GAS
    BY <1>1, <1>2
  <2> QED BY <1>1, <1>2, <2>1, SameTables DEF Ref!Impl, Ref!Go, Ref!Set, Goes, Onward, At
<1>3. CASE At = OP_GAS
  <2>1. At \notin ANY_PUSH /\ At # OP_PC
    BY <1>1, <1>3
  <2> QED BY <1>1, <1>3, <2>1, SameTables DEF Ref!Impl, Ref!Go, Ref!Set, Goes, Onward, At
<1>4. CASE At \in ANY_PUSH
  <2>1. /\ At \notin PlainOps \cup FallibleOps \cup CorrectedOps \cup DUPs \cup SWAPs \cup StopOps
        /\ At \notin {OP_MSTORE8, OP_PC, OP_GAS, OP_JUMP, OP_JUMPI, OP_STOP, OP_INVALID,
                      OP_SELFDESTRUCT, OP_JUMPDEST}
    BY <1>4, ClassesDisjoint DEF Singles
  <2> QED BY <1>4, <2>1, SameTables DEF Ref!Impl, Ref!Go, Ref!Set, Goes, Onward, At
<1> QED BY <1>2, <1>3, <1>4

LEMMA ImplMove ==
    ASSUME NEW o, Ref!Impl(At, Paid, o)
    PROVE  /\ At \in DUPs => /\ gas' = Paid
                             /\ Goes(Onward, [stack EXCEPT ![height + stack_height_change[At]]
                                                = stack[height + 128 - At]])
           /\ At \in SWAPs => /\ gas' = Paid
                              /\ Goes(Onward, [stack EXCEPT ![height] = stack[height + 143 - At],
                                                            ![height + 143 - At] = stack[height]])
<1>1. ASSUME At \in DUPs \cup SWAPs
      PROVE  /\ At \notin PlainOps \cup FallibleOps \cup CorrectedOps \cup ANY_PUSH \cup StopOps
             /\ At \notin {OP_MSTORE8, OP_JUMP, OP_JUMPI, OP_STOP, OP_INVALID, OP_SELFDESTRUCT,
                           OP_JUMPDEST, OP_PC, OP_GAS}
  BY <1>1, ClassesDisjoint DEF Singles
<1>2. CASE At \in DUPs
  <2>1. At \notin SWAPs
    BY <1>2, ClassesDisjoint
  <2> QED BY <1>1, <1>2, <2>1, SameTables DEF Ref!Impl, Ref!Go, Ref!Set, Goes, Onward, At
<1>3. CASE At \in SWAPs
  <2>1. At \notin DUPs
    BY <1>3, ClassesDisjoint
  <2> QED BY <1>1, <1>3, <2>1, SameTables DEF Ref!Impl, Ref!Go, Ref!Set, Goes, Onward, At
<1> QED BY <1>2, <1>3

LEMMA ImplEnd ==
    ASSUME NEW o, Ref!Impl(At, Paid, o)
    PROVE  /\ At = OP_STOP => gas' = Paid /\ Halts("SUCCESS")
           /\ At = OP_INVALID => gas' = Paid /\ Halts("INVALID_INSTRUCTION")
           /\ At \in StopOps =>
                 /\ gas' = Paid - o.cost
                 /\ Halts(IF gas' < 0 THEN "OUT_OF_GAS"
                          ELSE IF At = OP_RETURN THEN "SUCCESS" ELSE "REVERT")
           /\ At = OP_SELFDESTRUCT =>
                 /\ gas' = Paid - o.cost - (IF o.fresh THEN NewAccount ELSE 0)
                 /\ Halts(IF o.status # "SUCCESS" THEN o.status
                          ELSE IF gas' < 0 THEN "OUT_OF_GAS" ELSE "SUCCESS")
<1>1. ASSUME At \in {OP_STOP, OP_INVALID, OP_SELFDESTRUCT} \cup StopOps
      PROVE  /\ At \notin PlainOps \cup FallibleOps \cup CorrectedOps \cup ANY_PUSH \cup DUPs
                            \cup SWAPs
             /\ At \notin {OP_MSTORE8, OP_JUMP, OP_JUMPI, OP_JUMPDEST, OP_PC, OP_GAS}
  BY <1>1, ClassesDisjoint, SinglesDistinct DEF Singles
<1>2. CASE At = OP_STOP
  <2>1. At \notin StopOps /\ At \notin {OP_INVALID, OP_SELFDESTRUCT}
    BY <1>2, ClassesDisjoint, SinglesDistinct DEF Singles
  <2> QED BY <1>1, <1>2, <2>1, SameTables DEF Ref!Impl, Ref!Stop, Halts
<1>3. CASE At = OP_INVALID
  <2>1. At \notin StopOps /\ At \notin {OP_STOP, OP_SELFDESTRUCT}
    BY <1>3, ClassesDisjoint, SinglesDistinct DEF Singles
  <2> QED BY <1>1, <1>3, <2>1, SameTables DEF Ref!Impl, Ref!Stop, Halts
<1>4. CASE At \in StopOps
  <2>1. At \notin {OP_INVALID, OP_STOP, OP_SELFDESTRUCT}
    BY <1>4, ClassesDisjoint DEF Singles
  <2> QED BY <1>1, <1>4, <2>1, SameTables DEF Ref!Impl, Ref!Stop, Halts
<1>5. CASE At = OP_SELFDESTRUCT
  <2>1. At \notin StopOps /\ At \notin {OP_STOP, OP_INVALID}
    BY <1>5, ClassesDisjoint, SinglesDistinct DEF Singles
  <2> QED BY <1>1, <1>5, <2>1, SameTables DEF Ref!Impl, Ref!Stop, Halts
<1> QED BY <1>2, <1>3, <1>4, <1>5


-----------------------------------------------------------------------------
(***************************************************************************)
(* The simulation.                                                         *)
(***************************************************************************)

\* The code has no MSTORE8, which the port lacks, and its positions fit the
\* int that op_jump converts a destination to.  No core implementation charges
\* a negative amount, or fails with REVERT, the status of the REVERT instruction
\* alone.
NoMstore8 == \A c \in Codes : \A i \in 1..Len(c) : c[i] # OP_MSTORE8
Addressable == \A c \in Codes : 2 * Len(c) <= IntSize
PlainOutcomes ==
    Outcomes # {} /\ \A o \in Outcomes : o.cost \in Nat /\ o.status \notin {"REVERT", "RUNNING"}
Comparable == NoMstore8 /\ Addressable /\ PlainOutcomes

\* What the port does differently, excluded: a jump to a position after the
\* conversion to int that is not the word on the stack, and a SELFDESTRUCT
\* that cannot pay for the new account.
JumpsTrue ==
    phase = "execute" /\ ip # 0 /\ Instr.fn \in {OP_JUMP, OP_JUMPI} =>
        (ToInt(space[size]) \in JumpSet => ToInt(space[size]) = space[size])
DestructFunded ==
    phase = "execute" /\ ip # 0 /\ Instr.fn = OP_SELFDESTRUCT =>
        \A o \in Outcomes : o.fresh /\ gas_left >= o.cost => gas_left >= o.cost + NewAccount

\* Where the Baseline is, the padding after the code being its end.
Here == Min2(pc, Len(code))
Pos == trace[ip].pos
Run(a, b) == \A q \in a..(b - 1) : JumpdestAt(q)

\* The Baseline cannot reach the end of the run of JUMPDESTs it is in.
JDoom == \E q \in 0..Len(code) : pc <= q /\ Run(pc, q + 1) /\ gas < q - pc + 1

\* The Baseline is about to execute instruction k and can not get past
\* instruction j of the same block, whatever the instructions between do.
Blocked(k, j) ==
    \/ instrs[j].fn \in UndefinedOps
    \/ gas - (trace[k].pos - Here) < trace[j].cost + Spent(j) - trace[k].cost
    \/ height < stack_height_required[instrs[j].fn] - (trace[j].change - trace[k].change)
    \/ height + stack_height_change[instrs[j].fn] + (trace[j].change - trace[k].change) > StackLimit
DoomAt(k, j) ==
    /\ ~Begins(k) /\ trace[j].begin = trace[k].begin /\ trace[k].clean
    /\ Here <= trace[k].pos /\ Run(Here, trace[k].pos)
    /\ Blocked(k, j)
IDoom == \E k \in 1..Last : \E j \in k..Last : DoomAt(k, j)

Same == height = size /\ \A i \in 1..size : stack[i] = space[i]

RefInv ==
    /\ pc \in Nat /\ gas \in Int /\ height \in 0..StackLimit
    /\ DOMAIN stack = 1..StackLimit /\ DOMAIN space = 1..StackLimit
    /\ outcome = "RUNNING" => gas >= 0

StartInv ==
    phase = "analyze" => /\ pc = 0 /\ height = 0 /\ gas = gas_left /\ outcome = "RUNNING"
                          /\ trace[1].pos = 0

\* At a BEGINBLOCK the Baseline may be before or behind, within a run of
\* JUMPDESTs, in which it may also have run out of gas.
AtBegin ==
    /\ outcome = "RUNNING" => Run(Here, Pos) /\ Run(Pos, Here) /\ gas = gas_left + (Pos - Here)
    /\ outcome # "RUNNING" => /\ outcome = "OUT_OF_GAS" /\ Pos <= pc /\ Run(Pos, pc + 1)
                              /\ gas_left = pc - Pos

\* Inside a block it has at most JUMPDESTs to step over, and the gas differs by
\* what the block has prepaid.
AtInstr ==
    /\ outcome = "RUNNING"
    /\ current_block_cost = instrs[trace[ip].begin].block.gas_cost
    /\ Here <= Pos /\ Run(Here, Pos)
    /\ gas = gas_left + (current_block_cost - trace[ip].cost) + (Pos - Here)

MidInv ==
    phase = "execute" /\ ip # 0 =>
        /\ gas_left >= 0 /\ Same
        /\ Begins(ip) => AtBegin
        /\ ~Begins(ip) => AtInstr

Agree ==
    /\ Succeeded(exit_code) <=> Succeeded(outcome)
    /\ Succeeded(outcome) => exit_code = outcome /\ gas_left = gas

\* Once the Advanced interpreter has stopped, the Baseline has stopped alike or
\* is bound to fail.
EndInv ==
    phase # "analyze" /\ ip = 0 =>
        /\ outcome = "RUNNING" => ~Succeeded(exit_code) /\ (JDoom \/ IDoom)
        /\ outcome # "RUNNING" => Agree

LockInv == RefInv /\ StartInv /\ MidInv /\ EndInv /\ (phase = "done" => ip = 0)

-----------------------------------------------------------------------------
\* The Baseline's opcode is the byte of the code.
LEMMA AtFacts ==
    ASSUME TableOK, RefInv, NoMstore8
    PROVE  /\ RefOK /\ At = ByteOp(Here) /\ Here \in Nat /\ Here <= Len(code) /\ Len(code) \in Nat
           /\ At = OP_JUMPDEST => JumpdestAt(pc) /\ Here = pc /\ pc < Len(code)
           /\ JumpdestAt(Here) => At = OP_JUMPDEST
           /\ At # OP_STOP => Here = pc /\ pc < Len(code)
<1>1. code \in Codes /\ code \in Seq(Byte) /\ Len(code) \in Nat /\ pc \in Nat
  BY CodesAssumption DEF TableOK, TypeOK, RefInv
<1>2. OP_STOP \in Byte /\ OP_STOP # OP_MSTORE8 /\ OP_STOP # OP_JUMPDEST /\ Ref!OP_STOP = OP_STOP
  BY DefinedFacts, SinglesDistinct, SameTables
<1>3. CASE pc < Len(code)
  <2>1. Here = pc /\ At = code[pc + 1] /\ ByteOp(Here) = code[pc + 1] /\ pc + 1 \in 1..Len(code)
    BY <1>1, <1>3 DEF Here, Min2, At, Ref!OpAt, ByteOp
  <2>2. At \in Byte \ {OP_MSTORE8}
    BY <1>1, <2>1 DEF NoMstore8
  <2> QED BY <1>1, <1>3, <2>1, <2>2, LimitsAssumption DEF RefInv, RefOK, JumpdestAt
<1>4. CASE ~(pc < Len(code))
  <2>1. Here = Len(code) /\ At = OP_STOP /\ ByteOp(Here) = OP_STOP
    BY <1>1, <1>2, <1>4 DEF Here, Min2, At, Ref!OpAt, ByteOp
  <2>2. ~JumpdestAt(Here)
    BY <1>1, <2>1 DEF JumpdestAt
  <2> QED BY <1>1, <1>2, <2>1, <2>2, LimitsAssumption DEF RefInv, RefOK
<1> QED BY <1>3, <1>4


\* The gas of the rest of the block, after the instruction at ip.
Corr == current_block_cost - trace[ip].cost - OpGas(At)

\* An instruction that both are at: the states are equal up to the prepaid gas,
\* which is none for the last instruction of a block.
LEMMA Ready ==
    ASSUME IInv, ExactInv, LockInv, NoMstore8, phase = "execute", ip # 0, Instr.fn # OP_JUMPDEST,
           Aligned
    PROVE  /\ RefOK /\ At = Instr.fn /\ ip \in 1..Last /\ ~Begins(ip) /\ Here = Pos
           /\ At # OP_JUMPDEST /\ outcome = "RUNNING"
           /\ height = size /\ size \in Nat /\ size <= StackLimit
           /\ \A i \in 1..size : stack[i] = space[i]
           /\ DOMAIN stack = 1..StackLimit /\ DOMAIN space = 1..StackLimit
           /\ gas_left \in Nat /\ Corr \in Nat /\ gas = gas_left + Corr + OpGas(At)
           /\ Closes(ip) => Corr = 0
           /\ At \in Terminators => Corr = 0
           /\ At \in CorrectedOps \cup {OP_GAS} => gas_left_correction = Corr
<1>0. TableOK /\ RefInv /\ MidInv /\ PosInv /\ GasInv /\ ArgInv /\ ContigInv
  BY DEF IInv, LockInv, ExactInv
<1>1. ip \in 1..Last /\ ~Begins(ip) /\ Here = Pos /\ outcome = "RUNNING" /\ Last \in Nat
  BY <1>0, FieldTypes DEF TableOK, TypeOK, Last, Begins, Instr, Aligned, Here, Pos
<1>2. AtInstr /\ Same /\ gas_left >= 0
  BY <1>1, <1>0 DEF MidInv
<1>3. RefOK /\ At = Instr.fn
  BY <1>0, <1>1, AtFacts DEF PosInv, Instr, Pos
<1>4. size \in Nat /\ size <= StackLimit /\ height = size
  BY <1>2, <1>0, LimitsAssumption DEF Same, RefInv
<1>5. gas_left \in Nat
  BY <1>0, <1>2 DEF TableOK, TypeOK
<1> PICK cb, co, sp, p : cb = current_block_cost /\ co = trace[ip].cost /\ sp = OpGas(At)
                         /\ p = Pos
  OBVIOUS
<1>6. Spent(ip) = sp
  BY <1>1, <1>3 DEF Spent, Instr
<1>7. cb \in Int /\ co \in Nat /\ sp \in Nat /\ p \in Nat
  <2>1. current_block_cost \in Int
    BY <1>0 DEF TableOK, TypeOK
  <2>2. trace[ip].cost \in Nat /\ trace[ip].pos \in Nat /\ Spent(ip) \in Nat
    BY <1>0, <1>1, SlotTypes
  <2> QED BY <1>6, <2>1, <2>2, Zenon DEF Pos
<1>8. trace[ip].begin \in 1..Last /\ GasOf[trace[ip].begin] = cb
  <2>1. trace[ip].begin \in 1..Last
    BY <1>0, <1>1, SlotTypes
  <2> QED BY <1>1, <1>2, <2>1 DEF GasOf, Open, AtInstr, Last
<1>9. cb >= co + sp
  BY <1>0, <1>1, <1>6, <1>8 DEF GasInv
<1>10. Corr = cb - co - sp
  BY DEF Corr
<1>11. gas = gas_left + (cb - co) + (p - p)
  BY <1>1, <1>2 DEF AtInstr
<1>12. Corr \in Nat /\ gas = gas_left + Corr + sp
  BY <1>5, <1>7, <1>9, <1>10, <1>11
<1>13. Closes(ip) => Corr = 0
  <2>1. Closes(ip) => cb = co + sp
    BY <1>0, <1>1, <1>2, <1>6 DEF GasInv, AtInstr
  <2> QED BY <1>7, <1>10, <2>1
<1>14. At \in Terminators => Closes(ip)
  <2> SUFFICES ASSUME At \in Terminators PROVE Closes(ip)
    OBVIOUS
  <2>1. CASE ip = Last
    BY <2>1 DEF Closes
  <2>2. CASE ip # Last
    <3>1. ip + 1 \in 2..Last /\ (ip + 1) - 1 = ip
      BY <1>1, <2>2
    <3>2. Begins(ip + 1)
      BY <1>0, <1>3, <3>1 DEF ContigInv, Instr
    <3> QED BY <2>2, <3>2 DEF Closes
  <2> QED BY <2>1, <2>2
<1>15. At \in CorrectedOps \cup {OP_GAS} => gas_left_correction = Corr
  <2> SUFFICES ASSUME At \in CorrectedOps \cup {OP_GAS} PROVE gas_left_correction = Corr
    OBVIOUS
  <2>1. Instr.arg = co + gas_costs[At]
    BY <1>0, <1>1, <1>3 DEF ArgInv, Instr
  <2>2. At \notin UndefinedOps
    BY DefinedClasses
  <2>3. gas_costs[At] = sp
    BY <2>2 DEF OpGas
  <2> QED BY <1>7, <1>10, <2>1, <2>3 DEF gas_left_correction
<1>16. \A i \in 1..size : stack[i] = space[i]
  BY <1>2 DEF Same
<1> QED BY <1>0, <1>1, <1>3, <1>4, <1>5, <1>12, <1>13, <1>14, <1>15, <1>16 DEF RefInv, Instr

\* A defined one runs in both: the check of the Baseline succeeds.
LEMMA ReadyRuns ==
    ASSUME IInv, ExactInv, LockInv, NoMstore8, phase = "execute", ip # 0, Instr.fn # OP_JUMPDEST,
           Aligned, Instr.fn \notin UndefinedOps, NEW o, Ref!Step(o)
    PROVE  /\ Ref!Impl(At, Paid, o) /\ Paid = gas_left + Corr
           /\ stack_height_required[At] \in Nat /\ stack_height_change[At] \in Int
           /\ stack_height_change[At] <= 1
           /\ size >= stack_height_required[At]
           /\ size + stack_height_change[At] \in Nat
           /\ size + stack_height_change[At] <= StackLimit
<1>1. /\ RefOK /\ At = Instr.fn /\ height = size /\ size \in Nat /\ gas_left \in Nat /\ Corr \in Nat
      /\ gas = gas_left + Corr + OpGas(At) /\ At # OP_JUMPDEST /\ StackLimit \in Nat
      /\ size <= StackLimit
  BY Ready, LimitsAssumption
<1>2. At \in Byte /\ OpGas(At) = gas_costs[At] /\ gas_costs[At] \in Int
  BY <1>1, GasFacts DEF RefOK, OpGas
<1>3. OpGas(At) \in Nat
  BY <1>2, GasBounds
<1> PICK rq, ch : rq = stack_height_required[At] /\ ch = stack_height_change[At]
  OBVIOUS
<1>4. rq \in 0..17 /\ ch \in -6..1
  BY <1>2, TraitsFacts
<1>5. size >= rq /\ size + ch \in 0..StackLimit
  <2>1. CASE At = OP_STOP
    BY <1>1, <2>1, ChangeFacts
  <2>2. CASE At # OP_STOP
    BY <1>1, <2>2, Covered
  <2> QED BY <2>1, <2>2
<1>6. ~(ch > 0 /\ height = StackLimit)
  BY <1>1, <1>4, <1>5
<1>7. gas >= gas_costs[At] /\ Paid = gas_left + Corr
  BY <1>1, <1>2, <1>3 DEF Paid
<1>8. Ref!Impl(At, Paid, o)
  <2>1. ~(height < rq) /\ ~(gas < gas_costs[At])
    BY <1>1, <1>2, <1>4, <1>5, <1>7
  <2> QED BY <1>1, <1>6, <2>1, StepFacts
<1> QED BY <1>1, <1>4, <1>5, <1>7, <1>8


-----------------------------------------------------------------------------
(***************************************************************************)
(* What becomes of an instruction that both execute.                       *)
(***************************************************************************)

Shaped == DOMAIN stack' = 1..StackLimit /\ DOMAIN space' = 1..StackLimit

Moved == /\ size' = size + stack_height_change[At] /\ height' = size'
         /\ \A i \in 1..size' : stack'[i] = space'[i]

\* Both go on with the next instruction.
BothGo == /\ ip' = ip + 1 /\ pc' = Onward /\ outcome' = "RUNNING" /\ Moved /\ Shaped
          /\ gas_left' \in Nat /\ gas' = gas_left' + Corr
          /\ current_block_cost' = current_block_cost

\* Both jump to the same destination.
BothJump == /\ \E t \in 1..Last : ip' = t /\ Begins(t) /\ pc' = trace[t].pos
            /\ outcome' = "RUNNING" /\ Moved /\ Shaped
            /\ gas_left' \in Nat /\ gas' = gas_left'

\* Both stop.
BothStop == /\ ip' = 0 /\ outcome' # "RUNNING" /\ Agree' /\ Shaped
            /\ pc' = pc /\ height' = height /\ gas' \in Int

\* The Advanced interpreter has no gas left for the rest of the block; the
\* Baseline has spent less so far.
Outrun == /\ ip' = 0 /\ ~Succeeded(exit_code') /\ outcome' = "RUNNING"
          /\ pc' = Onward /\ height' = size + stack_height_change[At] /\ Shaped
          /\ gas' \in Nat /\ gas' < Corr

Both == BothGo \/ BothJump \/ BothStop \/ Outrun

\* The same write to both stacks.
LEMMA SetBoth ==
    ASSUME NEW s, NEW t, NEW n \in Nat, NEW m \in Nat, NEW v, NEW L \in Nat,
           DOMAIN s = 1..L, DOMAIN t = 1..L, \A i \in 1..n : s[i] = t[i], m <= n + 1, m <= L
    PROVE  /\ \A i \in 1..m : [s EXCEPT ![m] = v][i] = [t EXCEPT ![m] = v][i]
           /\ DOMAIN [s EXCEPT ![m] = v] = 1..L /\ DOMAIN [t EXCEPT ![m] = v] = 1..L
<1> SUFFICES ASSUME NEW i \in 1..m
             PROVE  [s EXCEPT ![m] = v][i] = [t EXCEPT ![m] = v][i]
  OBVIOUS
<1>1. i \in 1..L /\ (i = m \/ i \in 1..n)
  OBVIOUS
<1> QED BY <1>1

\* The wrapper's move of the top, with or without a result.
LEMMA MoveBoth ==
    ASSUME IInv, ExactInv, LockInv, NoMstore8, phase = "execute", ip # 0, Instr.fn # OP_JUMPDEST,
           Aligned, At \in PlainOps \cup FallibleOps \cup CorrectedOps, NEW o, Ref!Step(o),
           MoveTop(o.value)
    PROVE  /\ size' = size + stack_height_change[At] /\ DOMAIN space' = 1..StackLimit
           /\ DOMAIN Left(o) = 1..StackLimit
           /\ \A i \in 1..size' : Left(o)[i] = space'[i]
<1>0. At \notin UndefinedOps
  BY DefinedClasses
<1>1. /\ At = Instr.fn /\ height = size /\ size \in Nat /\ StackLimit \in Nat
      /\ \A i \in 1..size : stack[i] = space[i]
      /\ DOMAIN stack = 1..StackLimit /\ DOMAIN space = 1..StackLimit
  BY Ready, LimitsAssumption
<1> PICK m : m = size + stack_height_change[At]
  OBVIOUS
<1>2. m \in Nat /\ m <= StackLimit /\ m <= size + 1 /\ stack_height_change[At] \in Int
  BY <1>0, <1>1, ReadyRuns
<1>3. size' = m /\ space' = IF At \in ResultOps THEN [space EXCEPT ![m] = o.value] ELSE space
  BY <1>1 DEF MoveTop
<1>4. Left(o) = IF At \in ResultOps THEN [stack EXCEPT ![m] = o.value] ELSE stack
  BY <1>1 DEF Left
<1>5. CASE At \in ResultOps
  <2>1. \A i \in 1..m : [stack EXCEPT ![m] = o.value][i] = [space EXCEPT ![m] = o.value][i]
    BY <1>1, <1>2, SetBoth
  <2>2. /\ DOMAIN [stack EXCEPT ![m] = o.value] = 1..StackLimit
        /\ DOMAIN [space EXCEPT ![m] = o.value] = 1..StackLimit
    BY <1>1
  <2> QED BY <1>3, <1>4, <1>5, <2>1, <2>2
<1>6. CASE At \notin ResultOps
  <2>1. m <= size
    BY <1>1, <1>2, <1>6, ResultlessFacts
  <2>2. \A i \in 1..m : i \in 1..size
    BY <1>1, <1>2, <2>1
  <2> QED BY <1>1, <1>3, <1>4, <1>6, <2>2
<1> QED BY <1>5, <1>6

LEMMA BothPlain ==
    ASSUME IInv, ExactInv, LockInv, NoMstore8, Aligned, NEW o, op_plain(o), Ref!Step(o)
    PROVE  BothGo
<1>0. phase = "execute" /\ ip # 0 /\ Instr.fn \in PlainOps /\ Instr.fn # OP_JUMPDEST
      /\ Instr.fn \notin UndefinedOps
  BY ClassFacts, DefinedClasses DEF op_plain, Running
<1>1. /\ At = Instr.fn /\ height = size /\ size \in Nat /\ gas_left \in Nat /\ Corr \in Nat
      /\ outcome = "RUNNING"
  BY <1>0, Ready
<1>2. Ref!Impl(At, Paid, o) /\ Paid = gas_left + Corr
  BY <1>0, ReadyRuns
<1>3. gas' = Paid /\ Goes(Onward, Left(o))
  BY <1>0, <1>1, <1>2, ImplPlain
<1>4. ip' = ip + 1 /\ gas_left' = gas_left /\ current_block_cost' = current_block_cost
      /\ MoveTop(o.value)
  BY DEF op_plain, Continue
<1>5. /\ size' = size + stack_height_change[At] /\ DOMAIN space' = 1..StackLimit
      /\ DOMAIN Left(o) = 1..StackLimit
      /\ \A i \in 1..size' : Left(o)[i] = space'[i]
  BY <1>0, <1>1, <1>4, MoveBoth
<1> QED BY <1>1, <1>2, <1>3, <1>4, <1>5 DEF BothGo, Moved, Shaped, Goes

\* Gas of the Baseline, given that of the Advanced interpreter.
LEMMA NotNegative ==
    ASSUME NEW g, NEW l \in Int, NEW c \in Nat, g = l + c
    PROVE  g \in Int /\ (l >= 0 => ~(g < 0)) /\ (l < 0 => g < c)
  OBVIOUS

LEMMA BothFallible ==
    ASSUME IInv, ExactInv, LockInv, NoMstore8, PlainOutcomes, Aligned, NEW o \in Outcomes,
           op_fallible(o), Ref!Step(o)
    PROVE  Both
<1>0. phase = "execute" /\ ip # 0 /\ Instr.fn \in FallibleOps /\ Instr.fn # OP_JUMPDEST
      /\ Instr.fn \notin UndefinedOps /\ OP_SSTORE \notin FallibleOps
  BY ClassFacts, DefinedClasses, ClassesDisjoint DEF op_fallible, Running
<1>1. /\ At = Instr.fn /\ height = size /\ size \in Nat /\ gas_left \in Nat /\ Corr \in Nat
      /\ outcome = "RUNNING" /\ DOMAIN stack = 1..StackLimit /\ ip \in Nat /\ ip + 1 # 0
  <2>1. ip \in 1..Last
    BY <1>0, Ready
  <2> QED BY <1>0, <2>1, Ready
<1>2. Ref!Impl(At, Paid, o) /\ Paid = gas_left + Corr
  BY <1>0, ReadyRuns
<1>3. /\ gas' = Paid - o.cost
      /\ IF gas' < 0 THEN Halts("OUT_OF_GAS")
         ELSE IF o.status # "SUCCESS" THEN Halts(o.status)
         ELSE Goes(Onward, Left(o))
  BY <1>0, <1>1, <1>2, ImplFallible
<1>4. /\ gas_left' = gas_left - o.cost /\ current_block_cost' = current_block_cost
      /\ MoveTop(o.value)
      /\ \/ gas_left' < 0 /\ ip' = 0 /\ exit_code' = "OUT_OF_GAS"
         \/ gas_left' >= 0 /\ o.status # "SUCCESS" /\ ip' = 0 /\ exit_code' = o.status
         \/ gas_left' >= 0 /\ o.status = "SUCCESS" /\ ip' = ip + 1
  BY DEF op_fallible, Continue, AdvancedExecutionState_exit
<1>5. /\ size' = size + stack_height_change[At] /\ DOMAIN space' = 1..StackLimit
      /\ DOMAIN Left(o) = 1..StackLimit
      /\ \A i \in 1..size' : Left(o)[i] = space'[i]
  BY <1>0, <1>1, <1>4, MoveBoth
<1>6. o.cost \in Nat /\ o.status \notin {"REVERT", "RUNNING"}
  BY DEF PlainOutcomes
<1>7. gas' = gas_left' + Corr /\ gas' \in Int /\ gas_left' \in Int
  BY <1>1, <1>2, <1>3, <1>4, <1>6
<1>8. ~Succeeded("OUT_OF_GAS") /\ (o.status # "SUCCESS" => ~Succeeded(o.status))
  BY <1>6 DEF Succeeded
<1>9. CASE ip' = ip + 1 /\ gas_left' >= 0 /\ o.status = "SUCCESS"
  <2>1. ~(gas' < 0)
    BY <1>1, <1>7, <1>9, NotNegative
  <2> QED BY <1>1, <1>3, <1>4, <1>5, <1>7, <1>9, <2>1 DEF Both, BothGo, Moved, Shaped, Goes
<1>10. CASE ip' = 0 /\ gas' < 0
  <2>1. ~Succeeded(exit_code')
    BY <1>4, <1>8, <1>10, <1>1, <1>7
  <2> QED BY <1>1, <1>3, <1>5, <1>7, <1>8, <1>10, <2>1 DEF Both, BothStop, Halts, Agree, Shaped
<1>11. CASE ip' = 0 /\ ~(gas' < 0) /\ o.status # "SUCCESS"
  <2>1. ~Succeeded(exit_code')
    BY <1>4, <1>8, <1>11
  <2> QED BY <1>1, <1>3, <1>5, <1>6, <1>7, <1>8, <1>11, <2>1
          DEF Both, BothStop, Halts, Agree, Shaped
<1>12. CASE ip' = 0 /\ ~(gas' < 0) /\ o.status = "SUCCESS"
  <2>1. gas_left' < 0 /\ exit_code' = "OUT_OF_GAS"
    BY <1>1, <1>4, <1>12
  <2>2. gas' \in Nat /\ gas' < Corr
    <3>1. gas' < Corr
      BY <1>1, <1>7, <2>1, NotNegative
    <3> QED BY <1>7, <1>12, <3>1
  <2> QED BY <1>1, <1>3, <1>5, <1>8, <1>12, <2>1, <2>2 DEF Both, Outrun, Goes, Shaped
<1> QED BY <1>4, <1>9, <1>10, <1>11, <1>12


\* Both fail.
LEMMA BothFail ==
    ASSUME ip' = 0, Shaped, UNCHANGED <<pc, height>>, gas' \in Int, outcome' # "RUNNING",
           ~Succeeded(outcome'), ~Succeeded(exit_code')
    PROVE  Both
  BY DEF Both, BothStop, Agree

\* The corrected instructions: what they share.
LEMMA Corrected ==
    ASSUME IInv, ExactInv, LockInv, NoMstore8, PlainOutcomes, Aligned, NEW o \in Outcomes,
           Running(CorrectedOps), MoveTop(o.value), Ref!Step(o)
    PROVE  /\ At = Instr.fn /\ outcome = "RUNNING" /\ Corr \in Nat /\ gas_left \in Nat
           /\ ip \in Nat /\ ip + 1 # 0 /\ gas_left_correction = Corr
           /\ gas_left + gas_left_correction = Paid /\ Paid \in Nat
           /\ o.cost \in Nat /\ ~Succeeded("OUT_OF_GAS") /\ "OUT_OF_GAS" # "RUNNING"
           /\ o.status # "SUCCESS" => ~Succeeded(o.status) /\ o.status # "RUNNING"
           /\ DOMAIN space' = 1..StackLimit
           /\ gas' = Paid - o.cost /\ gas' \in Int
           /\ Halts(outcome') => Shaped
           /\ IF gas' < 0 \/ (At = OP_SSTORE /\ Paid <= SstoreGate) THEN Halts("OUT_OF_GAS")
              ELSE IF o.status # "SUCCESS" THEN Halts(o.status)
              ELSE Goes(Onward, Left(o))
           /\ Goes(Onward, Left(o)) =>
                 /\ Moved /\ Shaped /\ pc' = Onward /\ outcome' = "RUNNING"
                 /\ height' = size + stack_height_change[At]
<1>0. phase = "execute" /\ ip # 0 /\ Instr.fn \in CorrectedOps /\ Instr.fn # OP_JUMPDEST
      /\ Instr.fn \notin UndefinedOps
  BY ClassFacts, DefinedClasses DEF Running
<1>1. /\ At = Instr.fn /\ height = size /\ size \in Nat /\ gas_left \in Nat /\ Corr \in Nat
      /\ outcome = "RUNNING" /\ DOMAIN stack = 1..StackLimit /\ ip \in 1..Last
      /\ gas_left_correction = Corr
  BY <1>0, Ready
<1>2. Ref!Impl(At, Paid, o) /\ Paid = gas_left + Corr
  BY <1>0, ReadyRuns
<1>3. /\ gas' = Paid - o.cost
      /\ IF gas' < 0 \/ (At = OP_SSTORE /\ Paid <= SstoreGate) THEN Halts("OUT_OF_GAS")
         ELSE IF o.status # "SUCCESS" THEN Halts(o.status)
         ELSE Goes(Onward, Left(o))
  BY <1>0, <1>1, <1>2, ImplFallible
<1>4. /\ size' = size + stack_height_change[At] /\ DOMAIN space' = 1..StackLimit
      /\ DOMAIN Left(o) = 1..StackLimit
      /\ \A i \in 1..size' : Left(o)[i] = space'[i]
  BY <1>0, <1>1, MoveBoth
<1>5. o.cost \in Nat /\ o.status \notin {"REVERT", "RUNNING"}
  BY DEF PlainOutcomes
<1>6. gas' \in Int /\ Paid \in Nat /\ ip \in Nat /\ ip + 1 # 0
  BY <1>1, <1>2, <1>3, <1>5
<1>7. ~Succeeded("OUT_OF_GAS") /\ (o.status # "SUCCESS" => ~Succeeded(o.status))
  BY <1>5 DEF Succeeded
<1>8. Halts(outcome') => Shaped
  BY <1>1, <1>4 DEF Halts, Shaped
<1>9. Goes(Onward, Left(o)) =>
         /\ Moved /\ Shaped /\ pc' = Onward /\ outcome' = "RUNNING"
         /\ height' = size + stack_height_change[At]
  BY <1>1, <1>4 DEF Goes, Moved, Shaped
<1> QED BY <1>1, <1>2, <1>3, <1>4, <1>5, <1>6, <1>7, <1>8, <1>9

LEMMA BothSstore ==
    ASSUME IInv, ExactInv, LockInv, NoMstore8, PlainOutcomes, Aligned, NEW o \in Outcomes,
           op_sstore(o), Ref!Step(o)
    PROVE  Both
<1>0. At = OP_SSTORE /\ OP_SSTORE \in CorrectedOps /\ Running(CorrectedOps) /\ MoveTop(o.value)
  <2>1. OP_SSTORE \in CorrectedOps
    BY DEF CorrectedOps
  <2>2. Running(CorrectedOps) /\ MoveTop(o.value) /\ Instr.fn = OP_SSTORE
    BY <2>1 DEF op_sstore, Running
  <2> QED BY <2>1, <2>2, Corrected
<1>1. /\ Corr \in Nat /\ gas_left \in Nat /\ ip \in Nat /\ ip + 1 # 0
      /\ gas_left_correction = Corr /\ gas_left + gas_left_correction = Paid /\ Paid \in Nat
      /\ o.cost \in Nat /\ ~Succeeded("OUT_OF_GAS")
      /\ o.status # "SUCCESS" => ~Succeeded(o.status) /\ o.status # "RUNNING"
      /\ gas' = Paid - o.cost /\ gas' \in Int
      /\ Halts(outcome') => Shaped
      /\ IF gas' < 0 \/ Paid <= SstoreGate THEN Halts("OUT_OF_GAS")
         ELSE IF o.status # "SUCCESS" THEN Halts(o.status)
         ELSE Goes(Onward, Left(o))
      /\ Goes(Onward, Left(o)) =>
            /\ Moved /\ Shaped /\ pc' = Onward /\ outcome' = "RUNNING"
            /\ height' = size + stack_height_change[At]
  BY <1>0, Corrected
<1>2. current_block_cost' = current_block_cost
  BY DEF op_sstore
<1>3. CASE o.status # "SUCCESS"
  <2>1. ip' = 0 /\ exit_code' = o.status
    BY <1>3 DEF op_sstore, AdvancedExecutionState_exit
  <2>2. PICK s : Halts(s) /\ ~Succeeded(s) /\ s # "RUNNING"
    BY <1>1, <1>3
  <2>3. outcome' = s /\ pc' = pc /\ height' = height /\ Shaped
    BY <1>1, <2>2 DEF Halts
  <2> QED BY <1>1, <1>3, <2>1, <2>2, <2>3, BothFail
<1>4. CASE o.status = "SUCCESS" /\ (gas' < 0 \/ Paid <= SstoreGate)
  <2>1. ip' = 0 /\ exit_code' = "OUT_OF_GAS"
    BY <1>1, <1>4, ScaleAssumption DEF op_sstore, AdvancedExecutionState_exit
  <2>2. Halts("OUT_OF_GAS")
    BY <1>1, <1>4
  <2>3. outcome' = "OUT_OF_GAS" /\ pc' = pc /\ height' = height /\ Shaped
    BY <1>1, <2>2 DEF Halts
  <2> QED BY <1>1, <2>1, <2>3, BothFail
<1>5. CASE o.status = "SUCCESS" /\ ~(gas' < 0 \/ Paid <= SstoreGate)
  <2>1. /\ gas_left' = Paid - o.cost - Corr
        /\ IF gas_left' < 0 THEN AdvancedExecutionState_exit("OUT_OF_GAS") ELSE Continue
    BY <1>1, <1>5, ScaleAssumption DEF op_sstore
  <2>2. Goes(Onward, Left(o))
    BY <1>1, <1>5
  <2>3. gas_left' \in Int /\ gas' = gas_left' + Corr /\ gas' \in Nat
    BY <1>1, <1>5, <2>1
  <2>4. CASE gas_left' < 0
    <3>1. ip' = 0 /\ exit_code' = "OUT_OF_GAS" /\ gas' < Corr
      BY <1>1, <2>1, <2>3, <2>4, NotNegative DEF AdvancedExecutionState_exit
    <3> QED BY <1>1, <2>2, <2>3, <3>1 DEF Both, Outrun
  <2>5. CASE ~(gas_left' < 0)
    <3>1. ip' = ip + 1 /\ gas_left' \in Nat
      BY <2>1, <2>3, <2>5 DEF Continue
    <3> QED BY <1>1, <1>2, <2>2, <2>3, <3>1 DEF Both, BothGo
  <2> QED BY <2>4, <2>5
<1> QED BY <1>3, <1>4, <1>5


LEMMA BothCall ==
    ASSUME IInv, ExactInv, LockInv, NoMstore8, PlainOutcomes, Aligned, NEW o \in Outcomes,
           op_call(o), Ref!Step(o)
    PROVE  Both
<1>0. At # OP_SSTORE /\ Running(CorrectedOps) /\ MoveTop(o.value)
  <2>1. CallOps \subseteq CorrectedOps /\ OP_SSTORE \notin CallOps
    BY DEF CorrectedOps, CallOps, OP_SSTORE
  <2>2. Running(CorrectedOps) /\ MoveTop(o.value) /\ Instr.fn # OP_SSTORE
    BY <2>1 DEF op_call, Running
  <2> QED BY <2>2, Corrected
<1>1. /\ Corr \in Nat /\ gas_left \in Nat /\ ip \in Nat /\ ip + 1 # 0
      /\ gas_left_correction = Corr /\ gas_left + gas_left_correction = Paid /\ Paid \in Nat
      /\ o.cost \in Nat /\ ~Succeeded("OUT_OF_GAS")
      /\ o.status # "SUCCESS" => ~Succeeded(o.status) /\ o.status # "RUNNING"
      /\ gas' = Paid - o.cost /\ gas' \in Int
      /\ Halts(outcome') => Shaped
      /\ IF gas' < 0 THEN Halts("OUT_OF_GAS")
         ELSE IF o.status # "SUCCESS" THEN Halts(o.status)
         ELSE Goes(Onward, Left(o))
      /\ Goes(Onward, Left(o)) =>
            /\ Moved /\ Shaped /\ pc' = Onward /\ outcome' = "RUNNING"
            /\ height' = size + stack_height_change[At]
  BY <1>0, Corrected
<1>2. current_block_cost' = current_block_cost
  BY DEF op_call
<1>3. CASE gas' < 0
  <2>1. ip' = 0 /\ exit_code' = "OUT_OF_GAS"
    BY <1>1, <1>3 DEF op_call, AdvancedExecutionState_exit
  <2>2. Halts("OUT_OF_GAS")
    BY <1>1, <1>3
  <2>3. outcome' = "OUT_OF_GAS" /\ pc' = pc /\ height' = height /\ Shaped
    BY <1>1, <2>2 DEF Halts
  <2> QED BY <1>1, <2>1, <2>3, BothFail
<1>4. CASE ~(gas' < 0) /\ o.status # "SUCCESS"
  <2>1. ip' = 0 /\ exit_code' = o.status
    BY <1>1, <1>4 DEF op_call, AdvancedExecutionState_exit
  <2>2. Halts(o.status)
    BY <1>1, <1>4
  <2>3. outcome' = o.status /\ pc' = pc /\ height' = height /\ Shaped
    BY <1>1, <2>2 DEF Halts
  <2> QED BY <1>1, <1>4, <2>1, <2>3, BothFail
<1>5. CASE o.status = "SUCCESS" /\ ~(gas' < 0)
  <2>1. /\ gas_left' = Paid - o.cost - Corr
        /\ IF gas_left' < 0 THEN AdvancedExecutionState_exit("OUT_OF_GAS") ELSE Continue
    BY <1>1, <1>5 DEF op_call
  <2>2. Goes(Onward, Left(o))
    BY <1>1, <1>5
  <2>3. gas_left' \in Int /\ gas' = gas_left' + Corr /\ gas' \in Nat
    BY <1>1, <1>5, <2>1
  <2>4. CASE gas_left' < 0
    <3>1. ip' = 0 /\ exit_code' = "OUT_OF_GAS" /\ gas' < Corr
      BY <1>1, <2>1, <2>3, <2>4, NotNegative DEF AdvancedExecutionState_exit
    <3> QED BY <1>1, <2>2, <2>3, <3>1 DEF Both, Outrun
  <2>5. CASE ~(gas_left' < 0)
    <3>1. ip' = ip + 1 /\ gas_left' \in Nat
      BY <2>1, <2>3, <2>5 DEF Continue
    <3> QED BY <1>1, <1>2, <2>2, <2>3, <3>1 DEF Both, BothGo
  <2> QED BY <2>4, <2>5
<1> QED BY <1>3, <1>4, <1>5


\* The instructions that push one item.
LEMMA BothPush ==
    ASSUME IInv, ExactInv, LockInv, NoMstore8, Aligned, NEW o, NEW v,
           Running(ANY_PUSH \cup DUPs \cup {OP_PC, OP_GAS}), Ref!Step(o), Stack_push(v), Continue,
           gas_left' = gas_left, current_block_cost' = current_block_cost, gas' = Paid,
           Goes(Onward, [stack EXCEPT ![height + stack_height_change[At]] = v])
    PROVE  BothGo
<1>0. phase = "execute" /\ ip # 0 /\ Instr.fn \in ANY_PUSH \cup DUPs \cup {OP_PC, OP_GAS}
      /\ Instr.fn # OP_JUMPDEST /\ Instr.fn \notin UndefinedOps
  BY ClassFacts, DefinedClasses DEF Running
<1>1. /\ At = Instr.fn /\ height = size /\ size \in Nat /\ gas_left \in Nat /\ Corr \in Nat
      /\ outcome = "RUNNING" /\ StackLimit \in Nat
      /\ \A i \in 1..size : stack[i] = space[i]
      /\ DOMAIN stack = 1..StackLimit /\ DOMAIN space = 1..StackLimit
  BY <1>0, Ready, LimitsAssumption
<1>2. Paid = gas_left + Corr /\ size + stack_height_change[At] <= StackLimit
  BY <1>0, <1>1, ReadyRuns
<1>3. stack_height_change[At] = 1
  BY <1>0, <1>1, ChangeFacts
<1> PICK m : m = size + 1
  OBVIOUS
<1>4. m \in Nat /\ m <= size + 1 /\ m <= StackLimit
  BY <1>1, <1>2, <1>3
<1>5. size' = m /\ space' = [space EXCEPT ![m] = v]
  BY DEF Stack_push
<1>6. /\ pc' = Onward /\ height' = m /\ stack' = [stack EXCEPT ![m] = v]
      /\ outcome' = "RUNNING"
  BY <1>1, <1>3 DEF Goes
<1>7. /\ \A i \in 1..m : stack'[i] = space'[i]
      /\ DOMAIN stack' = 1..StackLimit /\ DOMAIN space' = 1..StackLimit
  <2>1. /\ \A i \in 1..m : [stack EXCEPT ![m] = v][i] = [space EXCEPT ![m] = v][i]
        /\ DOMAIN [stack EXCEPT ![m] = v] = 1..StackLimit
        /\ DOMAIN [space EXCEPT ![m] = v] = 1..StackLimit
    BY <1>1, <1>4, SetBoth
  <2> QED BY <1>5, <1>6, <2>1
<1>8. ip' = ip + 1
  BY DEF Continue
<1> QED BY <1>1, <1>2, <1>3, <1>5, <1>6, <1>7, <1>8 DEF BothGo, Moved, Shaped

LEMMA BothPc ==
    ASSUME IInv, ExactInv, LockInv, NoMstore8, Aligned, NEW o, op_pc, Ref!Step(o)
    PROVE  BothGo
<1>0. Running({OP_PC}) /\ Stack_push(Instr.arg) /\ Continue /\ gas_left' = gas_left
      /\ current_block_cost' = current_block_cost
  BY DEF op_pc
<1>1. phase = "execute" /\ ip # 0 /\ Instr.fn = OP_PC /\ Instr.fn # OP_JUMPDEST
      /\ Instr.fn \notin UndefinedOps /\ OP_PC # OP_STOP
  BY <1>0, ClassFacts, DefinedClasses DEF Running
<1>2. At = OP_PC /\ ip \in 1..Last /\ Here = Pos
  BY <1>1, Ready
<1>3. Instr.arg = Pos
  BY <1>1, <1>2 DEF ExactInv, ArgInv, Instr, Pos
<1>4. Here = pc
  BY <1>1, <1>2, AtFacts DEF IInv, LockInv
<1>5. gas' = Paid /\ Goes(Onward, [stack EXCEPT ![height + stack_height_change[At]] = pc])
  BY <1>1, <1>2, ReadyRuns, ImplPush
<1>6. Running(ANY_PUSH \cup DUPs \cup {OP_PC, OP_GAS})
  BY <1>0 DEF Running
<1>7. Stack_push(pc)
  BY <1>0, <1>2, <1>3, <1>4
<1> QED BY <1>0, <1>5, <1>6, <1>7, BothPush

LEMMA BothGas ==
    ASSUME IInv, ExactInv, LockInv, NoMstore8, Aligned, NEW o, op_gas, Ref!Step(o)
    PROVE  BothGo
<1>0. Running({OP_GAS}) /\ Stack_push((gas_left + gas_left_correction) % WordSize) /\ Continue
      /\ gas_left' = gas_left /\ current_block_cost' = current_block_cost
  BY DEF op_gas
<1>1. phase = "execute" /\ ip # 0 /\ Instr.fn = OP_GAS /\ Instr.fn # OP_JUMPDEST
      /\ Instr.fn \notin UndefinedOps
  BY <1>0, ClassFacts, DefinedClasses DEF Running
<1>2. At = OP_GAS /\ gas_left_correction = Corr
  BY <1>1, Ready
<1>3. Paid = gas_left + Corr /\ Ref!Impl(At, Paid, o)
  BY <1>1, ReadyRuns
<1>4. gas' = Paid /\ Goes(Onward, [stack EXCEPT ![height + stack_height_change[At]]
                                      = Paid % WordSize])
  BY <1>2, <1>3, ImplPush
<1>5. Running(ANY_PUSH \cup DUPs \cup {OP_PC, OP_GAS})
  BY <1>0 DEF Running
<1>6. Stack_push(Paid % WordSize)
  BY <1>0, <1>2, <1>3
<1> QED BY <1>0, <1>4, <1>5, <1>6, BothPush

LEMMA NumPushFacts ==
    ASSUME NEW op \in ANY_PUSH
    PROVE  Ref!NumPush(op) = PushSize(op) /\ PushSize(op) \in Nat
<1>1. op \in 96..127 /\ Ref!ANY_PUSH = ANY_PUSH
  BY SameTables DEF ANY_PUSH, ANY_SMALL_PUSH, ANY_LARGE_PUSH
<1> QED BY <1>1 DEF Ref!NumPush, PushSize, OP_PUSH1

LEMMA BothAnyPush ==
    ASSUME IInv, ExactInv, LockInv, NoMstore8, Aligned, NEW o, op_push, Ref!Step(o)
    PROVE  BothGo
<1>0. Running(ANY_PUSH) /\ Stack_push(Instr.arg) /\ Continue /\ gas_left' = gas_left
      /\ current_block_cost' = current_block_cost
  BY DEF op_push
<1>1. phase = "execute" /\ ip # 0 /\ Instr.fn \in ANY_PUSH /\ Instr.fn # OP_JUMPDEST
      /\ Instr.fn \notin UndefinedOps /\ Instr.fn # OP_STOP
  BY <1>0, ClassFacts, DefinedClasses DEF Running
<1>2. At = Instr.fn /\ ip \in 1..Last /\ Here = Pos
  BY <1>1, Ready
<1>3. Instr.arg = PushValue(code, Pos + 1, PushSize(At))
  BY <1>1, <1>2 DEF ExactInv, ArgInv, Instr, Pos
<1>4. Here = pc /\ pc \in Nat /\ Len(code) \in Nat
  BY <1>1, <1>2, AtFacts DEF IInv, LockInv
<1>5. Ref!NumPush(At) = PushSize(At) /\ PushSize(At) \in Nat
  BY <1>1, <1>2, NumPushFacts
<1>6. Ref!PushedWord(pc, Ref!NumPush(At)) = Instr.arg
  BY <1>2, <1>3, <1>4, <1>5, SamePush
<1>7. gas' = Paid /\ Goes(Onward, [stack EXCEPT ![height + stack_height_change[At]] = Instr.arg])
  BY <1>1, <1>2, <1>6, ReadyRuns, ImplPush
<1>8. Running(ANY_PUSH \cup DUPs \cup {OP_PC, OP_GAS})
  BY <1>0 DEF Running
<1> QED BY <1>0, <1>7, <1>8, BothPush


LEMMA BothDup ==
    ASSUME IInv, ExactInv, LockInv, NoMstore8, Aligned, NEW o, op_dup, Ref!Step(o)
    PROVE  BothGo
<1>0. Running(DUPs) /\ Stack_push(space[size + 128 - Instr.fn]) /\ Continue
      /\ gas_left' = gas_left /\ current_block_cost' = current_block_cost
  BY DEF op_dup
<1>1. phase = "execute" /\ ip # 0 /\ Instr.fn \in DUPs /\ Instr.fn # OP_JUMPDEST
      /\ Instr.fn \notin UndefinedOps
  BY <1>0, ClassFacts, DefinedClasses DEF Running
<1>2. At = Instr.fn /\ height = size /\ size \in Nat /\ \A i \in 1..size : stack[i] = space[i]
  BY <1>1, Ready
<1>3. Ref!Impl(At, Paid, o) /\ size >= stack_height_required[At]
  BY <1>1, ReadyRuns
<1>4. stack_height_required[At] = At - 127 /\ At \in 128..143
  BY <1>1, <1>2, RequiredFacts DEF DUPs
<1>5. size + 128 - At \in 1..size
  BY <1>2, <1>3, <1>4
<1>6. stack[height + 128 - At] = space[size + 128 - Instr.fn]
  BY <1>2, <1>5
<1>7. gas' = Paid /\ Goes(Onward, [stack EXCEPT ![height + stack_height_change[At]]
                                      = space[size + 128 - Instr.fn]])
  BY <1>1, <1>2, <1>3, <1>6, ImplMove
<1>8. Running(ANY_PUSH \cup DUPs \cup {OP_PC, OP_GAS})
  BY <1>0 DEF Running
<1> QED BY <1>0, <1>7, <1>8, BothPush

\* The same exchange in both stacks.
LEMMA SwapBoth ==
    ASSUME NEW s, NEW t, NEW n \in Nat, NEW m \in 1..n, NEW L \in Nat, n <= L,
           DOMAIN s = 1..L, DOMAIN t = 1..L, \A i \in 1..n : s[i] = t[i]
    PROVE  /\ \A i \in 1..n : [s EXCEPT ![n] = s[m], ![m] = s[n]][i]
                                = [t EXCEPT ![n] = t[m], ![m] = t[n]][i]
           /\ DOMAIN [s EXCEPT ![n] = s[m], ![m] = s[n]] = 1..L
           /\ DOMAIN [t EXCEPT ![n] = t[m], ![m] = t[n]] = 1..L
<1>1. s[m] = t[m] /\ s[n] = t[n]
  OBVIOUS
<1> SUFFICES ASSUME NEW i \in 1..n
             PROVE  [s EXCEPT ![n] = s[m], ![m] = s[n]][i]
                      = [t EXCEPT ![n] = t[m], ![m] = t[n]][i]
  OBVIOUS
<1>2. i \in 1..L /\ s[i] = t[i]
  OBVIOUS
<1> QED BY <1>1, <1>2

LEMMA BothSwap ==
    ASSUME IInv, ExactInv, LockInv, NoMstore8, Aligned, NEW o, op_swap, Ref!Step(o)
    PROVE  BothGo
<1>0. /\ Running(SWAPs) /\ size' = size /\ ip' = ip + 1 /\ gas_left' = gas_left
      /\ current_block_cost' = current_block_cost
      /\ space' = [space EXCEPT ![size] = space[size + 143 - Instr.fn],
                                ![size + 143 - Instr.fn] = space[size]]
  BY DEF op_swap, Continue
<1>1. phase = "execute" /\ ip # 0 /\ Instr.fn \in SWAPs /\ Instr.fn # OP_JUMPDEST
      /\ Instr.fn \notin UndefinedOps
  BY <1>0, ClassFacts, DefinedClasses DEF Running
<1>2. /\ At = Instr.fn /\ height = size /\ size \in Nat /\ gas_left \in Nat /\ Corr \in Nat
      /\ outcome = "RUNNING" /\ StackLimit \in Nat /\ size <= StackLimit
      /\ \A i \in 1..size : stack[i] = space[i]
      /\ DOMAIN stack = 1..StackLimit /\ DOMAIN space = 1..StackLimit
  BY <1>1, Ready, LimitsAssumption
<1>3. Ref!Impl(At, Paid, o) /\ size >= stack_height_required[At] /\ Paid = gas_left + Corr
  BY <1>1, ReadyRuns
<1>4. /\ stack_height_required[At] = At - 142 /\ At \in 144..159
      /\ stack_height_change[At] = 0
  BY <1>1, <1>2, RequiredFacts, ChangeFacts DEF SWAPs
<1> PICK m : m = size + 143 - At
  OBVIOUS
<1>5. m \in 1..size /\ size + stack_height_change[At] = size
  <2> PICK op, rq : op = At /\ rq = stack_height_required[At]
    OBVIOUS
  <2>1. op \in Int /\ op >= 144 /\ rq = op - 142 /\ size >= rq /\ m = size + 143 - op
    BY <1>3, <1>4
  <2>2. m \in 1..size
    BY <1>2, <2>1
  <2> QED BY <1>2, <1>4, <2>2
<1>6. gas' = Paid /\ Goes(Onward, [stack EXCEPT ![height] = stack[height + 143 - At],
                                                ![height + 143 - At] = stack[height]])
  BY <1>1, <1>2, <1>3, ImplMove
<1>7. /\ pc' = Onward /\ height' = size /\ outcome' = "RUNNING"
      /\ stack' = [stack EXCEPT ![size] = stack[m], ![m] = stack[size]]
  BY <1>2, <1>5, <1>6 DEF Goes
<1>8. space' = [space EXCEPT ![size] = space[m], ![m] = space[size]]
  BY <1>0, <1>2
<1>9. /\ \A i \in 1..size : stack'[i] = space'[i]
      /\ DOMAIN stack' = 1..StackLimit /\ DOMAIN space' = 1..StackLimit
  <2>1. /\ \A i \in 1..size : [stack EXCEPT ![size] = stack[m], ![m] = stack[size]][i]
                                = [space EXCEPT ![size] = space[m], ![m] = space[size]][i]
        /\ DOMAIN [stack EXCEPT ![size] = stack[m], ![m] = stack[size]] = 1..StackLimit
        /\ DOMAIN [space EXCEPT ![size] = space[m], ![m] = space[size]] = 1..StackLimit
    BY <1>2, <1>5, SwapBoth
  <2> QED BY <1>7, <1>8, <2>1
<1> QED BY <1>0, <1>2, <1>3, <1>5, <1>6, <1>7, <1>9 DEF BothGo, Moved, Shaped


\* A position is not changed by the conversion to int.
LEMMA ToIntSame ==
    ASSUME NEW w \in Nat, 2 * (w + 1) <= IntSize
    PROVE  ToInt(w) = w
<1>1. IntSize \in Nat \ {0}
  BY ScaleAssumption
<1>2. w % IntSize = w
  BY <1>1
<1>3. w < IntSize \div 2
  BY <1>1
<1> QED BY <1>2, <1>3 DEF ToInt


\* The Baseline's destinations are within the code.
LEMMA MapRange ==
    ASSUME code \in Codes, Addressable, NEW w \in Ref!jumpdest_map
    PROVE  w \in Nat /\ w < Len(code) /\ ToInt(w) = w
<1>1. Len(code) \in Nat /\ 2 * Len(code) <= IntSize
  BY CodesAssumption DEF Addressable
<1>2. w \in 0..(Len(code) - 1)
  BY StartsDef
<1>3. w \in Nat /\ w < Len(code) /\ 2 * (w + 1) <= IntSize
  BY <1>1, <1>2, ScaleAssumption
<1> QED BY <1>3, ToIntSame

\* Both jump, or both refuse to.
LEMMA JumpBoth ==
    ASSUME IInv, ExactInv, LockInv, JumpInv, JumpsTrue, NoMstore8, Addressable, Aligned, NEW o,
           Running({OP_JUMP, OP_JUMPI}), Ref!Step(o), JumpTo(space[size]),
           size' = size + stack_height_change[At], space' = space, gas_left' = gas_left,
           gas' = Paid,
           IF stack[height] \in Ref!jumpdest_map THEN Goes(stack[height], stack)
           ELSE Halts("BAD_JUMP_DESTINATION")
    PROVE  Both
<1>0. phase = "execute" /\ ip # 0 /\ Instr.fn \in {OP_JUMP, OP_JUMPI} /\ Instr.fn # OP_JUMPDEST
      /\ Instr.fn \notin UndefinedOps
  BY ClassFacts, DefinedClasses DEF Running
<1>1. /\ At = Instr.fn /\ height = size /\ size \in Nat /\ gas_left \in Nat /\ Corr \in Nat
      /\ outcome = "RUNNING"
      /\ \A i \in 1..size : stack[i] = space[i]
      /\ DOMAIN stack = 1..StackLimit /\ DOMAIN space = 1..StackLimit
      /\ At \in Terminators => Corr = 0
  BY <1>0, Ready
<1>2. Corr = 0
  BY <1>0, <1>1 DEF Terminators
<1>3. /\ Paid = gas_left + Corr /\ size >= stack_height_required[At]
      /\ stack_height_change[At] \in Int
  BY <1>0, ReadyRuns
<1>4. stack_height_required[At] >= 1 /\ stack_height_change[At] < 0
  BY <1>0, <1>1, RequiredFacts, ChangeFacts
<1>5. size \in 1..size /\ gas' = gas_left /\ size' \in Int /\ size' < size
  <2> PICK rq, ch : rq = stack_height_required[At] /\ ch = stack_height_change[At]
    OBVIOUS
  <2>1. rq >= 1 /\ size >= rq /\ ch \in Int /\ ch < 0 /\ size' = size + ch /\ rq \in Int
    BY <1>0, <1>1, <1>3, <1>4, RequiredFacts
  <2> QED BY <1>1, <1>2, <1>3, <2>1
<1> PICK w : w = space[size]
  OBVIOUS
<1>6. stack[height] = w
  BY <1>1, <1>5
<1>7. TableOK /\ code \in Codes
  BY DEF IInv, TableOK, TypeOK
<1>8. JumpSet = Ref!jumpdest_map
  BY <1>0, <1>7, JumpsComplete
<1> PICK f : f = find_jumpdest(ToInt(w))
  OBVIOUS
<1>9. f < 0 => w \notin JumpSet
  <2> SUFFICES ASSUME w \in JumpSet PROVE ~(f < 0)
    OBVIOUS
  <2>1. ToInt(w) = w
    BY <1>7, <1>8, MapRange
  <2> QED BY <1>7, <2>1, FindJumpdest
<1>10. ~(f < 0) => w \in JumpSet /\ f \in 1..Last /\ Begins(f) /\ trace[f].pos = w
  <2> SUFFICES ASSUME ~(f < 0)
               PROVE  w \in JumpSet /\ f \in 1..Last /\ Begins(f) /\ trace[f].pos = w
    OBVIOUS
  <2>1. ToInt(w) \in JumpSet /\ f \in 1..Last /\ Begins(f) /\ trace[f].pos = ToInt(w)
    BY <1>7, FindJumpdest
  <2>2. ToInt(w) = w
    BY <1>0, <2>1 DEF JumpsTrue
  <2> QED BY <2>1, <2>2
<1>11. CASE f < 0
  <2>1. ip' = 0 /\ exit_code' = "BAD_JUMP_DESTINATION"
    BY <1>11 DEF JumpTo, AdvancedExecutionState_exit
  <2>2. Halts("BAD_JUMP_DESTINATION")
    BY <1>6, <1>8, <1>9, <1>11
  <2>3. /\ outcome' = "BAD_JUMP_DESTINATION" /\ pc' = pc /\ height' = height /\ stack' = stack
    BY <2>2 DEF Halts
  <2>4. ~Succeeded("BAD_JUMP_DESTINATION") /\ Shaped /\ gas' \in Int
    BY <1>1, <1>5, <2>3 DEF Succeeded, Shaped
  <2> QED BY <2>1, <2>3, <2>4, BothFail
<1>12. CASE ~(f < 0)
  <2>1. ip' = f
    BY <1>12 DEF JumpTo
  <2>2. Goes(w, stack)
    BY <1>6, <1>8, <1>10, <1>12
  <2>3. /\ pc' = w /\ height' = size' /\ stack' = stack /\ outcome' = "RUNNING"
    BY <1>1, <2>2 DEF Goes
  <2>4. \A i \in 1..size' : i \in 1..size
    BY <1>1, <1>5
  <2>5. Moved /\ Shaped
    BY <1>1, <2>3, <2>4 DEF Moved, Shaped
  <2> QED BY <1>1, <1>5, <1>10, <1>12, <2>1, <2>3, <2>5 DEF Both, BothJump
<1> QED BY <1>11, <1>12


LEMMA BothOpJump ==
    ASSUME IInv, ExactInv, LockInv, JumpInv, JumpsTrue, NoMstore8, Addressable, Aligned, NEW o,
           op_jump, Ref!Step(o)
    PROVE  Both
<1>0. /\ phase = "execute" /\ ip # 0 /\ Instr.fn = OP_JUMP /\ Instr.fn # OP_JUMPDEST
      /\ Instr.fn \notin UndefinedOps /\ OP_JUMP # OP_JUMPI
  BY ClassFacts, DefinedClasses DEF op_jump, Running, OP_JUMP, OP_JUMPI
<1>1. At = OP_JUMP /\ size \in Nat
  BY <1>0, Ready
<1>2. gas' = Paid /\ IF stack[height] \in Ref!jumpdest_map THEN Goes(stack[height], stack)
                     ELSE Halts("BAD_JUMP_DESTINATION")
  BY <1>0, <1>1, ReadyRuns, ImplJump
<1>3. size' = size + stack_height_change[At] /\ space' = space /\ gas_left' = gas_left
  BY <1>1, ChangeFacts DEF op_jump
<1>4. JumpTo(space[size]) /\ Running({OP_JUMP, OP_JUMPI})
  BY DEF op_jump, Running
<1> QED BY <1>2, <1>3, <1>4, JumpBoth

LEMMA BothOpJumpi ==
    ASSUME IInv, ExactInv, LockInv, JumpInv, JumpsTrue, NoMstore8, Addressable, Aligned, NEW o,
           op_jumpi, Ref!Step(o)
    PROVE  Both
<1>0. /\ phase = "execute" /\ ip # 0 /\ Instr.fn = OP_JUMPI /\ Instr.fn # OP_JUMPDEST
      /\ Instr.fn \notin UndefinedOps
  BY ClassFacts, DefinedClasses DEF op_jumpi, Running
<1>1. /\ At = OP_JUMPI /\ size \in Nat /\ height = size /\ gas_left \in Nat /\ Corr \in Nat
      /\ outcome = "RUNNING" /\ \A i \in 1..size : stack[i] = space[i]
      /\ DOMAIN stack = 1..StackLimit /\ DOMAIN space = 1..StackLimit
  BY <1>0, Ready
<1>2. /\ gas' = Paid /\ size >= stack_height_required[At] /\ Paid = gas_left + Corr
      /\ IF stack[height - 1] = 0 THEN Goes(Onward, stack)
         ELSE IF stack[height] \in Ref!jumpdest_map THEN Goes(stack[height], stack)
         ELSE Halts("BAD_JUMP_DESTINATION")
  BY <1>0, <1>1, ReadyRuns, ImplJump
<1>3. /\ size' = size + stack_height_change[At] /\ size' = size - 2 /\ space' = space
      /\ gas_left' = gas_left /\ current_block_cost' = current_block_cost
  BY <1>1, ChangeFacts DEF op_jumpi
<1>4. size >= 2 /\ size - 1 \in 1..size
  BY <1>1, <1>2, RequiredFacts
<1>5. stack[height - 1] = space[size - 1]
  BY <1>1, <1>4
<1>6. CASE space[size - 1] # 0
  <2>1. JumpTo(space[size]) /\ Running({OP_JUMP, OP_JUMPI})
    BY <1>6 DEF op_jumpi, Running
  <2>2. IF stack[height] \in Ref!jumpdest_map THEN Goes(stack[height], stack)
        ELSE Halts("BAD_JUMP_DESTINATION")
    BY <1>2, <1>5, <1>6
  <2> QED BY <1>2, <1>3, <2>1, <2>2, JumpBoth
<1>7. CASE space[size - 1] = 0
  <2>1. ip' = ip + 1
    BY <1>7 DEF op_jumpi, Continue
  <2>2. Goes(Onward, stack)
    BY <1>2, <1>5, <1>7
  <2>3. pc' = Onward /\ height' = size' /\ stack' = stack /\ outcome' = "RUNNING"
    BY <1>1, <1>3, <2>2 DEF Goes
  <2>4. \A i \in 1..size' : i \in 1..size
    BY <1>1, <1>3
  <2>5. Moved /\ Shaped
    BY <1>1, <1>3, <2>3, <2>4 DEF Moved, Shaped
  <2> QED BY <1>1, <1>2, <1>3, <2>1, <2>3, <2>5 DEF Both, BothGo
<1> QED BY <1>6, <1>7

LEMMA EndsDefined ==
    (StopOps \cup {OP_INVALID, OP_SELFDESTRUCT}) \cap UndefinedOps = {}
<1> SUFFICES ASSUME NEW op \in {243, 253, 254, 255} PROVE gas_costs[op] # -1
  BY DEF UndefinedOps, undefined, StopOps, OP_RETURN, OP_REVERT, OP_INVALID, OP_SELFDESTRUCT
<1> QED BY DEF gas_costs, Byte, LOGs, ANY_PUSH, ANY_SMALL_PUSH, ANY_LARGE_PUSH, DUPs, SWAPs

\* The instructions that end the execution.
LEMMA BothEnd ==
    ASSUME IInv, ExactInv, LockInv, NoMstore8, PlainOutcomes, DestructFunded, Aligned,
           NEW o \in Outcomes, Ref!Step(o),
           op_stop \/ op_return(o) \/ op_invalid \/ op_selfdestruct(o) \/ op_undefined
    PROVE  Both
<1>0. /\ phase = "execute" /\ ip # 0 /\ Instr.fn # OP_JUMPDEST
      /\ Instr.fn \in {OP_STOP, OP_INVALID, OP_SELFDESTRUCT} \cup StopOps \cup UndefinedOps
  BY ClassFacts, DefinedFacts, SinglesDistinct
     DEF op_stop, op_return, op_invalid, op_selfdestruct, op_undefined, Running
<1>1. /\ RefOK /\ At = Instr.fn /\ size \in Nat /\ height = size /\ gas_left \in Nat
      /\ Corr \in Nat /\ outcome = "RUNNING" /\ gas = gas_left + Corr + OpGas(At)
      /\ DOMAIN stack = 1..StackLimit /\ DOMAIN space = 1..StackLimit
      /\ At \in Terminators => Corr = 0
  BY <1>0, Ready
<1>2. ip' = 0 /\ space' = space
  BY DEF op_stop, op_return, op_invalid, op_selfdestruct, op_undefined,
         AdvancedExecutionState_exit
<1>3. o.cost \in Nat /\ o.status \notin {"REVERT", "RUNNING"} /\ NewAccount \in Nat
  BY ScaleAssumption DEF PlainOutcomes
<1>4. Halts(outcome') => Shaped /\ pc' = pc /\ height' = height
  BY <1>1, <1>2 DEF Halts, Shaped
<1>5. /\ Instr.fn \notin UndefinedOps => Ref!Impl(At, Paid, o) /\ Paid = gas_left + Corr
  BY <1>0, ReadyRuns
<1>6. CASE op_stop
  <2>1. At = OP_STOP /\ At \notin UndefinedOps /\ At \in Terminators /\ exit_code' = "SUCCESS"
        /\ gas_left' = gas_left
    BY <1>1, <1>6, DefinedFacts DEF op_stop, Running, Terminators, AdvancedExecutionState_exit
  <2>2. gas' = gas_left /\ Halts("SUCCESS")
    BY <1>1, <1>5, <2>1, ImplEnd
  <2>3. outcome' = "SUCCESS" /\ Shaped /\ pc' = pc /\ height' = height
    BY <1>4, <2>2 DEF Halts
  <2> QED BY <1>1, <1>2, <2>1, <2>2, <2>3 DEF Both, BothStop, Agree, Succeeded

<1>7. CASE op_return(o)
  <2>1. At \in StopOps /\ At \notin UndefinedOps /\ At \in Terminators
    BY <1>1, <1>7, EndsDefined DEF op_return, Running, Terminators, StopOps
  <2>2. /\ gas_left' = gas_left - o.cost
        /\ exit_code' = (IF gas_left' < 0 THEN "OUT_OF_GAS"
                         ELSE IF At = OP_RETURN THEN "SUCCESS" ELSE "REVERT")
    BY <1>1, <1>7 DEF op_return, AdvancedExecutionState_exit
  <2>3. gas' = Paid - o.cost /\ Halts(IF gas' < 0 THEN "OUT_OF_GAS"
                                      ELSE IF At = OP_RETURN THEN "SUCCESS" ELSE "REVERT")
    BY <1>1, <1>5, <2>1, ImplEnd
  <2>4. gas' = gas_left' /\ gas' \in Int
    BY <1>1, <1>3, <1>5, <2>1, <2>2, <2>3
  <2>5. /\ outcome' = (IF gas' < 0 THEN "OUT_OF_GAS"
                       ELSE IF At = OP_RETURN THEN "SUCCESS" ELSE "REVERT")
        /\ Shaped /\ pc' = pc /\ height' = height
    BY <1>4, <2>3 DEF Halts
  <2>6. outcome' = exit_code' /\ outcome' # "RUNNING"
    BY <2>2, <2>4, <2>5
  <2> QED BY <1>2, <2>4, <2>5, <2>6 DEF Both, BothStop, Agree
<1>8. CASE op_invalid
  <2>1. At = OP_INVALID /\ At \notin UndefinedOps /\ exit_code' = "INVALID_INSTRUCTION"
    BY <1>1, <1>8, EndsDefined DEF op_invalid, Running, AdvancedExecutionState_exit
  <2>2. gas' = gas_left + Corr /\ Halts("INVALID_INSTRUCTION")
    BY <1>1, <1>5, <2>1, ImplEnd
  <2>3. outcome' = "INVALID_INSTRUCTION" /\ Shaped /\ pc' = pc /\ height' = height
    BY <1>4, <2>2 DEF Halts
  <2>4. ~Succeeded("INVALID_INSTRUCTION") /\ gas' \in Int
    BY <1>1, <2>2 DEF Succeeded
  <2> QED BY <1>2, <2>1, <2>3, <2>4, BothFail
<1>9. CASE op_selfdestruct(o)
  <2> PICK more : more = IF o.fresh THEN NewAccount ELSE 0
    OBVIOUS
  <2>1. At = OP_SELFDESTRUCT /\ At \notin UndefinedOps /\ At \in Terminators
    BY <1>1, <1>9, EndsDefined DEF op_selfdestruct, Running, Terminators
  <2>2. Paid = gas_left /\ more \in Nat
    BY <1>1, <1>3, <1>5, <2>1
  <2>3. /\ gas' = Paid - o.cost - more
        /\ Halts(IF o.status # "SUCCESS" THEN o.status
                 ELSE IF gas' < 0 THEN "OUT_OF_GAS" ELSE "SUCCESS")
    BY <1>1, <1>5, <2>1, ImplEnd
  <2>4. gas' \in Int
    BY <1>1, <1>3, <2>2, <2>3
  <2>5. /\ outcome' = (IF o.status # "SUCCESS" THEN o.status
                       ELSE IF gas' < 0 THEN "OUT_OF_GAS" ELSE "SUCCESS")
        /\ Shaped /\ pc' = pc /\ height' = height
    BY <1>4, <2>3 DEF Halts
  <2>6. CASE o.status # "SUCCESS"
    <3>1. exit_code' = o.status /\ outcome' = o.status /\ ~Succeeded(o.status)
      BY <1>3, <1>9, <2>5, <2>6 DEF op_selfdestruct, AdvancedExecutionState_exit, Succeeded
    <3> QED BY <1>2, <1>3, <2>4, <2>5, <3>1, BothFail
  <2>7. CASE o.status = "SUCCESS" /\ gas_left < o.cost
    <3>1. gas' < 0
      BY <1>1, <1>3, <2>2, <2>3, <2>7
    <3>2. exit_code' = "OUT_OF_GAS" /\ outcome' = "OUT_OF_GAS" /\ ~Succeeded("OUT_OF_GAS")
      BY <1>1, <1>3, <1>9, <2>5, <2>7, <3>1 DEF op_selfdestruct, AdvancedExecutionState_exit, Succeeded
    <3> QED BY <1>2, <2>4, <2>5, <3>2, BothFail
  <2>8. CASE o.status = "SUCCESS" /\ ~(gas_left < o.cost)
    <3>1. gas_left >= o.cost
      BY <1>1, <1>3, <2>8
    <3>2. o.fresh => gas_left >= o.cost + NewAccount
      BY <1>0, <1>1, <2>1, <3>1 DEF DestructFunded
    <3>3. gas_left >= o.cost + more
      BY <1>1, <1>3, <3>1, <3>2
    <3>4. ~(gas' < 0)
      BY <1>1, <1>3, <2>2, <2>3, <3>3
    <3>5. exit_code' = "SUCCESS" /\ gas_left' = gas_left - o.cost - more
      BY <1>9, <2>8 DEF op_selfdestruct, AdvancedExecutionState_exit
    <3>6. outcome' = "SUCCESS" /\ gas_left' = gas'
      BY <2>2, <2>3, <2>5, <2>8, <3>4, <3>5
    <3> QED BY <1>2, <2>4, <2>5, <3>5, <3>6 DEF Both, BothStop, Agree
  <2> QED BY <2>6, <2>7, <2>8
<1>10. CASE op_undefined
  <2>1. At \in UndefinedOps /\ exit_code' = "UNDEFINED_INSTRUCTION"
    BY <1>1, <1>10 DEF op_undefined, Running, AdvancedExecutionState_exit
  <2>2. outcome' = "UNDEFINED_INSTRUCTION" /\ gas' = gas /\ UNCHANGED <<pc, height, stack>>
    BY <1>1, <2>1, StepFacts
  <2>3. Halts(outcome')
    BY <2>2 DEF Halts
  <2>4. Shaped /\ pc' = pc /\ height' = height /\ gas' \in Int
        /\ ~Succeeded("UNDEFINED_INSTRUCTION")
    BY <1>1, <1>4, <2>2, <2>3 DEF RefOK, Succeeded
  <2> QED BY <1>2, <2>1, <2>2, <2>4, BothFail
<1> QED BY <1>6, <1>7, <1>8, <1>9, <1>10

\* An instruction executed by both, whatever it is.
LEMMA TogetherBoth ==
    ASSUME IInv, ExactInv, LockInv, JumpInv, JumpsTrue, DestructFunded, NoMstore8, Addressable,
           PlainOutcomes, Together
    PROVE  /\ Both /\ Aligned /\ phase = "execute" /\ ip # 0 /\ Instr.fn # OP_JUMPDEST
           /\ UNCHANGED analysisVars
           /\ outcome' = "RUNNING" => /\ At \notin UndefinedOps
                                      /\ size + stack_height_change[At] \in Nat
                                      /\ size + stack_height_change[At] <= StackLimit
<1> PICK o \in Outcomes : Execute(o) /\ Ref!Step(o)
  BY DEF Together
<1>1. Aligned /\ phase = "execute" /\ ip # 0 /\ Instr.fn # OP_JUMPDEST
  BY DEF Together
<1>2. ~opx_beginblock
  BY <1>1 DEF opx_beginblock, Running
<1>3. UNCHANGED analysisVars
  BY <1>2 DEF Execute, op_plain, op_fallible, op_sstore, op_call, op_jump, op_jumpi, op_pc, op_gas,
     op_push, op_dup, op_swap, op_stop, op_return, op_invalid, op_selfdestruct, op_undefined
<1>4. Both
  BY <1>1, <1>2, BothPlain, BothFallible, BothSstore, BothCall, BothOpJump, BothOpJumpi, BothPc,
     BothGas, BothAnyPush, BothDup, BothSwap, BothEnd DEF Execute, Both
<1>5. At = Instr.fn /\ RefOK
  BY <1>1, Ready
<1>6. outcome' = "RUNNING" => At \notin UndefinedOps
  BY <1>5, StepFacts
<1>7. At \notin UndefinedOps => /\ size + stack_height_change[At] \in Nat
                               /\ size + stack_height_change[At] <= StackLimit
  BY <1>1, <1>5, ReadyRuns
<1> QED BY <1>1, <1>3, <1>4, <1>6, <1>7


-----------------------------------------------------------------------------
(***************************************************************************)
(* The blocks of a finished table.                                         *)
(***************************************************************************)

LEMMA InBlock ==
    ASSUME TableOK, ContigInv, NEW j \in 1..Last, NEW b, b = trace[j].begin, NEW k \in b..j
    PROVE  b \in 1..j /\ k \in 1..Last /\ trace[k].begin = b /\ (Begins(k) <=> k = b)
<1>1. Last \in Nat
  BY FieldTypes
<1>2. b \in 1..j
  BY DEF TableOK, TableInv, Last
<1>3. k \in 1..Last
  BY <1>1, <1>2
<1>4. trace[k].begin = b
  BY DEF ContigInv
<1>5. Begins(k) <=> trace[k].begin = k
  BY <1>3 DEF TableOK, TableInv, Last, Begins
<1> QED BY <1>2, <1>3, <1>4, <1>5

\* Consecutive instructions of a block.
LEMMA NextInBlock ==
    ASSUME IInv, ExactInv, NEW k \in 1..Last, NEW j \in 1..Last, k < j,
           trace[j].begin = trace[k].begin
    PROVE  /\ k + 1 \in 1..Last /\ k + 1 <= j /\ ~Begins(k + 1)
           /\ trace[k + 1].begin = trace[k].begin /\ trace[k + 1].pos = EndOf(k)
           /\ trace[k + 1].cost = trace[k].cost + Spent(k)
           /\ instrs[k].fn \notin Terminators
           /\ trace[k].clean /\ instrs[k].fn \notin UndefinedOps =>
                 /\ trace[k + 1].clean
                 /\ trace[k + 1].change = trace[k].change + stack_height_change[instrs[k].fn]
<1>0. TableOK /\ ContigInv /\ PosInv /\ CostInv /\ ChainInv
  BY DEF IInv, ExactInv
<1>1. Last \in Nat /\ k + 1 \in 2..Last /\ k + 1 <= j /\ (k + 1) - 1 = k
  BY <1>0, FieldTypes
<1> PICK b : b = trace[j].begin
  OBVIOUS
<1>2. b \in 1..j /\ b \in 1..k
  <2>1. b \in 1..k
    BY <1>0 DEF TableOK, TableInv, Last
  <2> QED BY <1>1, <2>1
<1>3. k + 1 \in b..j /\ k + 1 # b
  BY <1>1, <1>2
<1>4. trace[k + 1].begin = b /\ ~Begins(k + 1)
  BY <1>0, <1>3, InBlock
<1>5. trace[k + 1].pos = EndOf(k) /\ trace[k + 1].cost = trace[k].cost + Spent(k)
  BY <1>0, <1>1, <1>4 DEF PosInv, CostInv
<1>6. instrs[k].fn \notin Terminators
  BY <1>0, <1>1, <1>4 DEF ContigInv
<1>7. trace[k].clean /\ instrs[k].fn \notin UndefinedOps =>
         /\ trace[k + 1].clean
         /\ trace[k + 1].change = trace[k].change + stack_height_change[instrs[k].fn]
  <2> PICK i : i = k + 1
    OBVIOUS
  <2>1. i \in 2..Len(instrs) /\ instrs[i].fn # OP_JUMPDEST /\ i - 1 = k
    BY <1>1, <1>4 DEF Last, Begins
  <2>2. /\ trace[i].clean = (trace[k].clean /\ instrs[k].fn \notin UndefinedOps)
        /\ trace[i].clean => trace[i].change = trace[k].change + stack_height_change[instrs[k].fn]
    BY <1>0, <2>1 DEF ChainInv
  <2> QED BY <2>2, Zenon
<1> QED BY <1>1, <1>4, <1>5, <1>6, <1>7

\* Every block has a last instruction, whose gas is the block's.
LEMMA Closer ==
    ASSUME IInv, ExactInv, phase # "analyze", NEW b \in 1..Last, Begins(b)
    PROVE  \E j \in 1..Last :
              /\ trace[j].begin = b /\ Closes(j) /\ b <= j
              /\ instrs[b].block.gas_cost = trace[j].cost + Spent(j)
              /\ \A i \in 1..Last : trace[i].begin = b => i <= j
<1>0. TableOK /\ ContigInv /\ GasInv /\ Last \in Nat
  BY FieldTypes DEF IInv, ExactInv
<1>1. ~Open(b)
  BY DEF Open
<1>2. PICK j \in 1..Last : trace[j].begin = b /\ Closes(j)
  BY <1>0, <1>1 DEF GasInv
<1>3. instrs[b].block.gas_cost = trace[j].cost + Spent(j)
  BY <1>0, <1>2 DEF GasInv
<1>4. b \in 1..j
  BY <1>0, <1>2 DEF TableOK, TableInv, Last
<1>5. ASSUME NEW i \in 1..Last, trace[i].begin = b, ~(i <= j)
      PROVE  FALSE
  <2>1. j # Last /\ j + 1 \in b..i /\ j + 1 # b
    BY <1>0, <1>4, <1>5
  <2>2. ~Begins(j + 1)
    BY <1>0, <1>5, <2>1, InBlock
  <2> QED BY <1>2, <2>1, <2>2 DEF Closes
<1>6. \A i \in 1..Last : trace[i].begin = b => i <= j
  BY <1>5
<1> QED BY <1>2, <1>3, <1>4, <1>6

-----------------------------------------------------------------------------
(***************************************************************************)
(* Moves of the Baseline alone.                                            *)
(***************************************************************************)

LEMMA DoomIntro ==
    ASSUME code' = code, instrs' = instrs, trace' = trace, Last' = Last,
           NEW k \in 1..Last, NEW j \in k..Last, NEW h, h = Here',
           ~Begins(k), trace[j].begin = trace[k].begin, trace[k].clean, h <= trace[k].pos,
           \A q \in h..(trace[k].pos - 1) : JumpdestAt(q),
           \/ instrs[j].fn \in UndefinedOps
           \/ gas' - (trace[k].pos - h) < trace[j].cost + Spent(j) - trace[k].cost
           \/ height' < stack_height_required[instrs[j].fn] - (trace[j].change - trace[k].change)
           \/ height' + stack_height_change[instrs[j].fn]
                + (trace[j].change - trace[k].change) > StackLimit
    PROVE  IDoom'
<1>1. Spent(j)' = Spent(j)
  BY DEF Spent, OpGas, Begins, Lands, JumpdestAt
<1>2. Blocked(k, j)'
  BY <1>1 DEF Blocked
<1>3. ~Begins(k)'
  BY DEF Begins
<1>4. Run(Here, trace[k].pos)'
  BY DEF Run, JumpdestAt
<1>5. DoomAt(k, j)'
  BY <1>2, <1>3, <1>4 DEF DoomAt
<1> QED BY <1>5 DEF IDoom

LEMMA JDoomIntro ==
    ASSUME code' = code, NEW q \in 0..Len(code), pc' <= q,
           \A x \in pc'..q : JumpdestAt(x), gas' < q - pc' + 1, q \in Nat
    PROVE  JDoom'
<1>1. (q + 1) - 1 = q
  OBVIOUS
<1>2. Run(pc, q + 1)'
  BY <1>1 DEF Run, JumpdestAt
<1> QED BY <1>2 DEF JDoom

\* The Baseline steps over a JUMPDEST, or has no gas left to.
LEMMA StepJumpdest ==
    ASSUME TableOK, RefInv, NoMstore8, NEW o, Ref!Step(o), At = OP_JUMPDEST
    PROVE  /\ JumpdestAt(pc) /\ pc < Len(code) /\ Here = pc /\ pc \in Nat /\ Len(code) \in Nat
           /\ outcome = "RUNNING" /\ gas \in Nat /\ height' = height /\ stack' = stack
           /\ code' = code
           /\ \/ gas = 0 /\ gas' = 0 /\ outcome' = "OUT_OF_GAS" /\ pc' = pc
              \/ /\ gas >= 1 /\ gas' = gas - 1 /\ outcome' = "RUNNING" /\ pc' = pc + 1
                 /\ Here' = pc + 1
<1>1. /\ JumpdestAt(pc) /\ pc < Len(code) /\ Here = pc /\ pc \in Nat /\ Len(code) \in Nat /\ RefOK
  BY AtFacts DEF RefInv
<1>2. outcome = "RUNNING" /\ code' = code
  BY DEF Ref!Step
<1>3. gas \in Nat /\ height \in 0..StackLimit /\ ~(height < 0)
  BY <1>2, LimitsAssumption DEF RefInv
<1>4. /\ gas_costs[OP_JUMPDEST] = 1 /\ stack_height_change[OP_JUMPDEST] = 0
      /\ OP_JUMPDEST \notin ResultOps /\ OP_JUMPDEST \notin ANY_PUSH /\ OP_JUMPDEST \notin UndefinedOps
  <2>1. OP_JUMPDEST \notin ResultOps /\ OP_JUMPDEST \notin ANY_PUSH
    BY DEF OP_JUMPDEST, ResultOps, BinaryOps, TernaryOps, UnaryOps, NullaryOps, CallOps, ANY_PUSH,
       ANY_SMALL_PUSH, ANY_LARGE_PUSH
  <2> QED BY <2>1, JumpdestGas, DefinedFacts DEF OpGas
<1>5. CASE ~Ref!Impl(At, Paid, o)
  <2>1. outcome' = "OUT_OF_GAS" /\ gas < 1 /\ gas' = gas /\ UNCHANGED <<pc, height, stack>>
    BY <1>1, <1>3, <1>5, StepFacts
  <2> QED BY <1>1, <1>2, <1>3, <2>1
<1>6. CASE Ref!Impl(At, Paid, o) /\ gas >= 1
  <2>1. gas' = Paid /\ Goes(Onward, Left(o))
    BY <1>6, ImplPlain
  <2>2. Onward = pc + 1 /\ Left(o) = stack /\ Paid = gas - 1
    <3>1. Ref!NumPush(At) = 0
      BY <1>4, SameTables DEF Ref!NumPush
    <3> QED BY <1>1, <1>4, <3>1 DEF Onward, Left, Paid
  <2>3. pc' = pc + 1 /\ height' = height /\ stack' = stack /\ outcome' = "RUNNING"
    BY <1>2, <1>3, <1>4, <2>1, <2>2 DEF Goes
  <2>4. Here' = pc + 1
    BY <1>1, <1>2, <2>3 DEF Here, Min2
  <2> QED BY <1>1, <1>2, <1>3, <1>6, <2>1, <2>2, <2>3, <2>4
<1>7. CASE Ref!Impl(At, Paid, o) /\ ~(gas >= 1)
  <2>1. gas' = Paid /\ Goes(Onward, Left(o))
    BY <1>7, ImplPlain
  <2>2. ~(gas >= gas_costs[At])
    BY <1>4, <1>7
  <2>3. outcome' = "OUT_OF_GAS"
    BY <1>1, <1>3, <2>2, StepFacts
  <2> QED BY <1>2, <2>1, <2>3 DEF Goes
<1> QED BY <1>5, <1>6, <1>7


-----------------------------------------------------------------------------
(***************************************************************************)
(* LockInv is inductive.                                                   *)
(***************************************************************************)

\* A JUMPDEST that the Baseline steps over alone.
LEMMA LockJumpdest ==
    ASSUME IInv, ExactInv, LockInv, NoMstore8, phase = "execute", ip # 0, At = OP_JUMPDEST,
           NEW o, Ref!Step(o), UNCHANGED vars
    PROVE  LockInv'
<1>0. /\ code' = code /\ phase' = phase /\ instrs' = instrs /\ trace' = trace /\ ip' = ip
      /\ size' = size /\ space' = space /\ gas_left' = gas_left
      /\ current_block_cost' = current_block_cost /\ exit_code' = exit_code
  BY DEF vars, analysisVars, stateVars
<1>1. TableOK /\ RefInv /\ MidInv /\ PosInv /\ GasInv
  BY DEF IInv, ExactInv, LockInv
<1>2. /\ JumpdestAt(pc) /\ pc < Len(code) /\ Here = pc /\ pc \in Nat /\ Len(code) \in Nat
      /\ outcome = "RUNNING" /\ gas \in Nat /\ height' = height /\ stack' = stack
      /\ \/ gas = 0 /\ gas' = 0 /\ outcome' = "OUT_OF_GAS" /\ pc' = pc
         \/ /\ gas >= 1 /\ gas' = gas - 1 /\ outcome' = "RUNNING" /\ pc' = pc + 1
            /\ Here' = pc + 1
  BY <1>1, StepJumpdest
<1> PICK c, g, p, gl : c = pc /\ g = gas /\ p = Pos /\ gl = gas_left
  OBVIOUS
<1>3. ip \in 1..Last /\ Last \in Nat /\ p \in Nat /\ gl \in Int /\ gl >= 0 /\ Same
  <2>1. ip \in 1..Last /\ Last \in Nat
    BY <1>1, FieldTypes DEF TableOK, TypeOK, Last
  <2>2. p \in Nat
    BY <1>1, <2>1, FieldTypes DEF Pos
  <2> QED BY <1>1, <2>1, <2>2 DEF MidInv, TableOK, TypeOK
<1>4. Pos' = p
  BY <1>0 DEF Pos
<1>5. \A q : JumpdestAt(q)' <=> JumpdestAt(q)
  BY <1>0 DEF JumpdestAt
<1>6. RefInv'
  BY <1>0, <1>1, <1>2 DEF RefInv
<1>7. Same' /\ gas_left' >= 0
  BY <1>0, <1>2, <1>3 DEF Same
<1>8. ASSUME Begins(ip)
      PROVE  AtBegin'
  <2>1. Run(c, p) /\ Run(p, c) /\ g = gl + (p - c)
    BY <1>1, <1>2, <1>8 DEF MidInv, AtBegin
  <2>2. CASE g = 0
    <3>1. g = 0 /\ outcome' = "OUT_OF_GAS" /\ pc' = c
      BY <1>2, <2>2
    <3>2. p <= c /\ gl = c - p
      BY <1>2, <1>3, <2>1, <3>1
    <3>3. \A q \in p..((c + 1) - 1) : q = c \/ q \in p..(c - 1)
      BY <1>2, <1>3
    <3>4. Run(p, c + 1)
      BY <1>2, <2>1, <3>3 DEF Run
    <3>5. Run(Pos, pc + 1)'
      BY <1>4, <1>5, <3>1, <3>4 DEF Run
    <3> QED BY <1>0, <1>4, <3>1, <3>2, <3>5 DEF AtBegin
  <2>3. CASE g # 0
    <3>1. g >= 1 /\ gas' = g - 1 /\ outcome' = "RUNNING" /\ pc' = c + 1 /\ Here' = c + 1
      BY <1>2, <2>3
    <3>2. gas' = gl + (p - (c + 1))
      BY <1>2, <1>3, <2>1, <3>1
    <3>3. \A q \in p..((c + 1) - 1) : q = c \/ q \in p..(c - 1)
      BY <1>2, <1>3
    <3>4. \A q \in (c + 1)..(p - 1) : q \in c..(p - 1)
      BY <1>2, <1>3
    <3>5. Run(p, c + 1) /\ Run(c + 1, p)
      BY <1>2, <2>1, <3>3, <3>4 DEF Run
    <3>6. Run(Here, Pos)' /\ Run(Pos, Here)'
      BY <1>4, <1>5, <3>1, <3>5 DEF Run
    <3> QED BY <1>0, <1>4, <3>1, <3>2, <3>6 DEF AtBegin
  <2> QED BY <2>2, <2>3
<1>9. ASSUME ~Begins(ip)
      PROVE  AtInstr'
  <2> PICK cb, co : cb = current_block_cost /\ co = trace[ip].cost
    OBVIOUS
  <2>1. /\ cb = instrs[trace[ip].begin].block.gas_cost /\ c <= p /\ Run(c, p)
        /\ g = gl + (cb - co) + (p - c)
    BY <1>1, <1>2, <1>9 DEF MidInv, AtInstr
  <2>2. c # p
    <3>1. instrs[ip].fn = ByteOp(p)
      BY <1>1, <1>3, <1>9 DEF PosInv, Pos
    <3>2. ByteOp(c) = OP_JUMPDEST
      BY <1>2 DEF JumpdestAt, ByteOp
    <3> QED BY <1>9, <3>1, <3>2 DEF Begins
  <2>3. cb >= co /\ cb \in Int /\ co \in Int
    <3>1. trace[ip].begin \in 1..Last /\ Spent(ip) \in Nat /\ co \in Nat
      BY <1>1, <1>3, FieldTypes
    <3>2. GasOf[trace[ip].begin] = cb
      BY <2>1, <3>1 DEF GasOf, Open, Last
    <3>3. cb >= co + Spent(ip)
      BY <1>1, <1>3, <1>9, <3>2 DEF GasInv
    <3>4. cb \in Int
      BY <1>1 DEF TableOK, TypeOK
    <3> QED BY <3>1, <3>3, <3>4
  <2> PICK d : d = cb - co
    OBVIOUS
  <2>4. c \in Nat /\ g \in Nat /\ d \in Int /\ d >= 0 /\ g = gl + d + (p - c) /\ c <= p
    BY <1>2, <2>1, <2>3, SMTT(40)
  <2>5. g # 0 /\ c + 1 <= p
    BY <1>3, <2>2, <2>4
  <2>6. gas' = g - 1 /\ outcome' = "RUNNING" /\ pc' = c + 1 /\ Here' = c + 1
    BY <1>2, <2>5
  <2>7. gas' = gl + d + (p - (c + 1))
    BY <1>3, <2>4, <2>6
  <2>8. \A q \in (c + 1)..(p - 1) : q \in c..(p - 1)
    BY <1>3, <2>4
  <2>9. Run(Here, Pos)'
    BY <1>4, <1>5, <2>1, <2>6, <2>8 DEF Run
  <2>10. Here' <= Pos'
    BY <1>4, <2>5, <2>6
  <2>11. /\ current_block_cost' = cb /\ trace'[ip'].cost = co
         /\ current_block_cost' = instrs'[trace'[ip'].begin].block.gas_cost
    BY <1>0, <2>1
  <2>12. gas' = gas_left' + (current_block_cost' - trace'[ip'].cost) + (Pos' - Here')
    BY <1>0, <1>4, <2>6, <2>7, <2>11
  <2> QED BY <2>6, <2>9, <2>10, <2>11, <2>12 DEF AtInstr
<1>10. Begins(ip)' <=> Begins(ip)
  BY <1>0 DEF Begins
<1>11. MidInv'
  BY <1>7, <1>8, <1>9, <1>10 DEF MidInv
<1>12. StartInv' /\ EndInv' /\ (phase' = "done" => ip' = 0)
  BY <1>0 DEF StartInv, EndInv
<1> QED BY <1>6, <1>11, <1>12 DEF LockInv


\* At a BEGINBLOCK: what a run of JUMPDESTs allows before the first instruction.
LEMMA EntryFacts ==
    ASSUME IInv, ExactInv, LockInv, phase = "execute", ip # 0, Begins(ip), NEW k, k = ip + 1,
           k \in 1..Last, ~Begins(k)
    PROVE  /\ trace[k].pos = Pos + Lands(Pos) /\ trace[k].cost = Lands(Pos)
           /\ trace[k].begin = ip /\ trace[k].clean /\ trace[k].change = 0
           /\ Lands(Pos) \in {0, 1}
           /\ outcome = "RUNNING" =>
                 /\ Here <= trace[k].pos /\ Run(Here, trace[k].pos)
                 /\ gas = gas_left + (Pos - Here)
           /\ outcome # "RUNNING" => gas_left = 0 /\ Lands(Pos) = 1
<1>1. TableOK /\ PosInv /\ CostInv /\ MidInv /\ RefInv
  BY DEF IInv, ExactInv, LockInv
<1>2. ip \in 1..Last /\ Last \in Nat /\ k \in 2..Last /\ k - 1 = ip
  <2>1. ip \in 0..Last /\ Last \in Nat
    BY <1>1, FieldTypes DEF TableOK, TypeOK, Last
  <2> QED BY <2>1
<1> PICK p, l, c : p = Pos /\ l = Lands(Pos) /\ c = Here
  OBVIOUS
<1>3. p \in Nat /\ l \in {0, 1} /\ c \in Nat /\ pc \in Nat /\ Len(code) \in Nat /\ gas_left \in Int
      /\ c <= pc /\ p <= Len(code)
  <2>1. p \in Nat /\ l \in {0, 1} /\ Len(code) \in Nat
    BY <1>1, <1>2, FieldTypes DEF Pos
  <2>2. p <= Len(code)
    BY <1>1, <1>2 DEF PosInv, Pos
  <2>3. pc \in Nat /\ gas_left \in Int
    BY <1>1 DEF RefInv, TableOK, TypeOK
  <2> QED BY <2>1, <2>2, <2>3 DEF Here, Min2
<1>4. l = IF JumpdestAt(p) THEN 1 ELSE 0
  BY DEF Lands
<1>5. trace[k].pos = p + l
  BY <1>1, <1>2 DEF PosInv, EndOf, Pos
<1>6. trace[k].cost = l
  <2>1. trace[ip].cost = 0 /\ Spent(ip) = l
    BY <1>1, <1>2 DEF CostInv, Spent, Pos
  <2>2. trace[k].cost = trace[ip].cost + Spent(ip)
    BY <1>1, <1>2 DEF CostInv
  <2> QED BY <1>3, <2>1, <2>2
<1>7. trace[k].begin = ip /\ trace[k].clean /\ trace[k].change = 0
  <2>1. trace[ip].begin = ip /\ trace[ip].clean /\ trace[ip].change = 0 /\ instrs[ip].fn = OP_JUMPDEST
    BY <1>1, <1>2 DEF IInv, TableOK, TableInv, BeginInv, Begins, Last
  <2>2. /\ trace[k].begin = trace[ip].begin
        /\ trace[k].clean = (trace[ip].clean /\ instrs[ip].fn \notin UndefinedOps)
        /\ trace[k].clean => trace[k].change = trace[ip].change + stack_height_change[instrs[ip].fn]
    BY <1>1, <1>2 DEF IInv, ChainInv, Begins, Last
  <2>3. trace[k].clean
    BY <2>1, <2>2, DefinedFacts, Zenon
  <2> QED BY <2>1, <2>2, <2>3, DefinedFacts
<1>8. ~JumpdestAt(p + l)
  <2>1. instrs[k].fn = ByteOp(p + l)
    BY <1>1, <1>2, <1>5 DEF PosInv
  <2> QED BY <2>1 DEF JumpdestAt, ByteOp, Begins
<1>9. AtBegin
  BY <1>1 DEF MidInv
<1>10. ASSUME outcome = "RUNNING"
       PROVE  c <= p + l /\ Run(c, p + l) /\ gas = gas_left + (p - c)
  <2>1. Run(c, p) /\ Run(p, c) /\ gas = gas_left + (p - c)
    BY <1>9, <1>10 DEF AtBegin
  <2>2. c <= p + l
    <3> SUFFICES ASSUME c > p + l PROVE FALSE
      BY <1>3
    <3>1. p \in p..(c - 1) /\ p + l \in p..(c - 1)
      BY <1>3
    <3> QED BY <1>8, <2>1, <3>1 DEF Run
  <2>3. \A q \in c..((p + l) - 1) : q \in c..(p - 1) \/ (q = p /\ l = 1)
    BY <1>3
  <2>4. Run(c, p + l)
    BY <1>4, <2>1, <2>3 DEF Run
  <2> QED BY <2>1, <2>2, <2>4
<1>11. ASSUME outcome # "RUNNING"
       PROVE  gas_left = 0 /\ l = 1
  <2>1. p <= pc /\ Run(p, pc + 1) /\ gas_left = pc - p
    BY <1>9, <1>11 DEF AtBegin
  <2>2. l = 1
    <3>1. p \in p..((pc + 1) - 1)
      BY <1>3, <2>1
    <3> QED BY <1>4, <2>1, <3>1 DEF Run
  <2>3. pc = p
    <3> SUFFICES ASSUME pc # p PROVE FALSE
      OBVIOUS
    <3>1. p + l \in p..((pc + 1) - 1)
      BY <1>3, <2>1, <2>2
    <3> QED BY <1>8, <2>1, <3>1 DEF Run
  <2> QED BY <1>3, <2>1, <2>2, <2>3
<1> QED BY <1>3, <1>5, <1>6, <1>7, <1>10, <1>11


\* What a BEGINBLOCK does.
LEMMA EntryView ==
    ASSUME IInv, ExactInv, LockInv, opx_beginblock, UNCHANGED refVars
    PROVE  /\ phase = "execute" /\ ip # 0 /\ Begins(ip) /\ ip \in 1..Last /\ Last \in Nat
           /\ ip + 1 \in 1..Last /\ phase' = phase
           /\ code' = code /\ instrs' = instrs /\ trace' = trace /\ Last' = Last
           /\ size' = size /\ space' = space /\ gas_left \in Nat
           /\ pc' = pc /\ height' = height /\ stack' = stack /\ gas' = gas /\ outcome' = outcome
           /\ instrs[ip].block.gas_cost \in Int
           /\ gas_left' = gas_left - instrs[ip].block.gas_cost
           /\ \/ ip' = 0 /\ exit_code' = "OUT_OF_GAS" /\ gas_left' < 0
              \/ ip' = 0 /\ exit_code' = "STACK_UNDERFLOW" /\ size < instrs[ip].block.stack_req
              \/ /\ ip' = 0 /\ exit_code' = "STACK_OVERFLOW"
                 /\ size + instrs[ip].block.stack_max_growth > StackLimit
              \/ /\ ip' = ip + 1 /\ gas_left' >= 0
                 /\ current_block_cost' = instrs[ip].block.gas_cost
<1>1. phase = "execute" /\ ip # 0 /\ Instr.fn = OP_JUMPDEST
  BY DEF opx_beginblock, Running
<1>2. TableOK /\ MidInv
  BY DEF IInv, LockInv
<1>3. ip \in 1..Last /\ ip + 1 \in 1..Last /\ Last \in Nat
  <2>1. OP_STOP \notin {OP_JUMPDEST} /\ Running({OP_JUMPDEST})
    BY DEF opx_beginblock, OP_STOP, OP_JUMPDEST
  <2> QED BY <1>2, <2>1, ContinueFacts, FieldTypes DEF Last
<1>4. instrs[ip].block.gas_cost \in Int
  <2>1. instrs \in Seq(Records) /\ ip \in 1..Len(instrs)
    BY <1>2, <1>3 DEF TableOK, TypeOK, Last, Records
  <2>2. instrs[ip] \in Records
    BY <2>1
  <2>3. instrs[ip].block \in BlockInfo
    BY <2>2 DEF Records
  <2> QED BY <2>3 DEF BlockInfo
<1>5. gas_left \in Nat
  BY <1>1, <1>2 DEF MidInv, TableOK, TypeOK
<1>6. /\ phase' = phase /\ code' = code /\ instrs' = instrs /\ trace' = trace /\ Last' = Last
      /\ size' = size /\ space' = space
      /\ pc' = pc /\ height' = height /\ stack' = stack /\ gas' = gas /\ outcome' = outcome
  BY DEF opx_beginblock, analysisVars, refVars, Last
<1>7. /\ gas_left' = gas_left - instrs[ip].block.gas_cost
      /\ \/ ip' = 0 /\ exit_code' = "OUT_OF_GAS" /\ gas_left' < 0
         \/ ip' = 0 /\ exit_code' = "STACK_UNDERFLOW" /\ size < instrs[ip].block.stack_req
         \/ /\ ip' = 0 /\ exit_code' = "STACK_OVERFLOW"
            /\ size + instrs[ip].block.stack_max_growth > StackLimit
         \/ /\ ip' = ip + 1 /\ gas_left' >= 0
            /\ current_block_cost' = instrs[ip].block.gas_cost
  BY DEF opx_beginblock, Continue, AdvancedExecutionState_exit, Instr
<1> QED BY <1>1, <1>3, <1>4, <1>5, <1>6, <1>7 DEF Begins, Instr

\* The block is entered.
LEMMA LockEntry ==
    ASSUME IInv, ExactInv, LockInv, opx_beginblock, UNCHANGED refVars, ip' = ip + 1
    PROVE  LockInv'
<1> PICK k, b : k = ip + 1 /\ b = instrs[ip].block.gas_cost
  OBVIOUS
<1>0. /\ phase = "execute" /\ ip # 0 /\ Begins(ip) /\ ip \in 1..Last /\ Last \in Nat
      /\ k \in 1..Last /\ phase' = phase /\ k # 0 /\ k - 1 = ip /\ k \in 2..Last
      /\ code' = code /\ instrs' = instrs /\ trace' = trace /\ Last' = Last
      /\ size' = size /\ space' = space /\ gas_left \in Nat /\ b \in Int
      /\ pc' = pc /\ height' = height /\ stack' = stack /\ gas' = gas /\ outcome' = outcome
      /\ gas_left' = gas_left - b /\ ip' = k /\ gas_left' >= 0 /\ current_block_cost' = b
  BY EntryView
<1>1. TableOK /\ RefInv /\ MidInv /\ PosInv /\ CostInv /\ GasInv
  BY DEF IInv, ExactInv, LockInv
<1>2. Same /\ AtBegin
  BY <1>0, <1>1 DEF MidInv
<1>3. Same' /\ RefInv'
  BY <1>0, <1>1, <1>2 DEF Same, RefInv
<1> PICK p, l, c, gl, g : p = Pos /\ l = Lands(Pos) /\ c = Here /\ gl = gas_left /\ g = gas
  OBVIOUS
<1>4. Here' = c /\ Pos' = trace[k].pos
  BY <1>0 DEF Here, Pos
<1>5. \A q : JumpdestAt(q)' <=> JumpdestAt(q)
  BY <1>0 DEF JumpdestAt
<1>6. Spent(ip) = l /\ trace[ip].cost = 0 /\ trace[ip].begin = ip /\ trace[k].pos = p + l
  BY <1>0, <1>1 DEF Spent, CostInv, TableOK, TableInv, Begins, Last, PosInv, EndOf, Pos
<1>7. p \in Nat /\ l \in {0, 1} /\ c \in Nat /\ pc \in Nat /\ g \in Int /\ Len(code) \in Nat
      /\ c <= pc /\ p <= Len(code) /\ l \in Nat /\ b \in Int /\ gl \in Nat
  <2>1. p \in Nat /\ l \in {0, 1} /\ Len(code) \in Nat
    BY <1>0, <1>1, FieldTypes DEF Pos
  <2>2. p <= Len(code)
    BY <1>0, <1>1 DEF PosInv, Pos
  <2>3. pc \in Nat /\ g \in Int
    BY <1>1 DEF RefInv
  <2>4. l \in Nat /\ b \in Int /\ gl \in Nat
    BY <1>0, <2>1
  <2>5. c \in Nat /\ c <= pc
    BY <2>1, <2>3 DEF Here, Min2
  <2> QED BY <2>1, <2>2, <2>3, <2>4, <2>5
<1>8. ASSUME ~Begins(k)
      PROVE  AtInstr'
  <2>1. /\ trace[k].pos = p + l /\ trace[k].cost = l /\ trace[k].begin = ip
        /\ outcome = "RUNNING" => /\ c <= trace[k].pos /\ Run(c, trace[k].pos)
                                  /\ g = gl + (p - c)
        /\ outcome # "RUNNING" => gl = 0 /\ l = 1
    BY <1>0, <1>8, EntryFacts
  <2>2. b >= l
    <3>1. GasOf[ip] = b
      BY <1>0 DEF GasOf, Open, Last
    <3>2. b >= l + Spent(k)
      BY <1>0, <1>1, <1>8, <2>1, <3>1 DEF GasInv
    <3> PICK s : s = Spent(k)
      OBVIOUS
    <3>3. s \in Nat
      BY <1>0, <1>1, FieldTypes
    <3>4. b >= l + s
      BY <3>2
    <3> QED BY <1>7, <3>3, <3>4
  <2>3. outcome = "RUNNING"
    <3> SUFFICES ASSUME outcome # "RUNNING" PROVE FALSE
      OBVIOUS
    <3>1. gl = 0 /\ l = 1 /\ gl - b >= 0
      BY <1>0, <2>1
    <3> QED BY <1>7, <2>2, <3>1
  <2>4. g = (gl - b) + (b - l) + ((p + l) - c)
    <3>1. g = gl + (p - c)
      BY <2>1, <2>3
    <3>2. gl \in Int /\ p \in Int /\ c \in Int /\ b \in Int /\ l \in Int
      BY <1>7
    <3>3. gl + (p - c) = (gl - b) + (b - l) + ((p + l) - c)
      BY <3>2
    <3> QED BY <3>1, <3>3
  <2>5. /\ outcome' = "RUNNING" /\ Here' <= Pos'
        /\ current_block_cost' = instrs'[trace'[ip'].begin].block.gas_cost
    BY <1>0, <1>4, <2>1, <2>3
  <2>6. Run(Here, Pos)'
    BY <1>4, <1>5, <2>1, <2>3 DEF Run
  <2>7. gas' = gas_left' + (current_block_cost' - trace'[ip'].cost) + (Pos' - Here')
    BY <1>0, <1>4, <2>1, <2>4
  <2> QED BY <2>5, <2>6, <2>7 DEF AtInstr
<1>9. ASSUME Begins(k)
      PROVE  AtBegin'
  <2>1. JumpdestAt(p) /\ l = 1
    BY <1>0, <1>1, <1>9 DEF PosInv, Pos, Lands
  <2>2. b = 1
    <3>1. Closes(ip)
      BY <1>0, <1>9 DEF Closes
    <3>2. b = trace[ip].cost + Spent(ip)
      BY <1>0, <1>1, <1>6, <3>1 DEF GasInv
    <3> QED BY <1>6, <2>1, <3>2
  <2>3. trace[k].pos = p + 1 /\ gas_left' = gl - 1 /\ gl >= 1 /\ gl \in Nat
    BY <1>0, <1>6, <2>1, <2>2
  <2>4. ASSUME outcome = "RUNNING"
        PROVE  Run(c, p + 1) /\ Run(p + 1, c) /\ g = (gl - 1) + ((p + 1) - c)
    <3>1. Run(c, p) /\ Run(p, c) /\ g = gl + (p - c)
      BY <1>2, <2>4 DEF AtBegin
    <3>2. \A q \in c..((p + 1) - 1) : q \in c..(p - 1) \/ q = p
      BY <1>7
    <3>3. \A q \in (p + 1)..(c - 1) : q \in p..(c - 1)
      BY <1>7
    <3>4. Run(c, p + 1)
      BY <2>1, <3>1, <3>2 DEF Run
    <3>5. Run(p + 1, c)
      BY <3>1, <3>3 DEF Run
    <3>6. g = (gl - 1) + ((p + 1) - c)
      BY <1>7, <2>3, <3>1
    <3> QED BY <3>4, <3>5, <3>6
  <2>5. ASSUME outcome # "RUNNING"
        PROVE  /\ outcome = "OUT_OF_GAS" /\ p + 1 <= pc /\ Run(p + 1, pc + 1)
               /\ gl - 1 = pc - (p + 1)
    <3>1. outcome = "OUT_OF_GAS" /\ p <= pc /\ Run(p, pc + 1) /\ gl = pc - p
      BY <1>2, <2>5 DEF AtBegin
    <3>2. p + 1 <= pc /\ gl - 1 = pc - (p + 1)
      BY <1>7, <2>3, <3>1
    <3>3. \A q \in (p + 1)..((pc + 1) - 1) : q \in p..((pc + 1) - 1)
      BY <1>7
    <3>4. Run(p + 1, pc + 1)
      BY <3>1, <3>3 DEF Run
    <3> QED BY <3>1, <3>2, <3>4
  <2>6. outcome' = "RUNNING" =>
           Run(Here, Pos)' /\ Run(Pos, Here)' /\ gas' = gas_left' + (Pos' - Here')
    <3> SUFFICES ASSUME outcome' = "RUNNING"
                 PROVE  Run(Here, Pos)' /\ Run(Pos, Here)' /\ gas' = gas_left' + (Pos' - Here')
      OBVIOUS
    <3>1. Run(c, p + 1) /\ Run(p + 1, c) /\ g = (gl - 1) + ((p + 1) - c)
      BY <1>0, <2>4
    <3>2. Run(Here, Pos)' /\ Run(Pos, Here)'
      BY <1>4, <1>5, <2>3, <3>1 DEF Run
    <3> QED BY <1>0, <1>4, <2>3, <3>1, <3>2
  <2>7. outcome' # "RUNNING" =>
           /\ outcome' = "OUT_OF_GAS" /\ Pos' <= pc' /\ Run(Pos, pc + 1)'
           /\ gas_left' = pc' - Pos'
    <3> SUFFICES ASSUME outcome' # "RUNNING"
                 PROVE  /\ outcome' = "OUT_OF_GAS" /\ Pos' <= pc' /\ Run(Pos, pc + 1)'
                        /\ gas_left' = pc' - Pos'
      OBVIOUS
    <3>1. /\ outcome = "OUT_OF_GAS" /\ p + 1 <= pc /\ Run(p + 1, pc + 1)
          /\ gl - 1 = pc - (p + 1)
      BY <1>0, <2>5
    <3>2. Run(Pos, pc + 1)'
      BY <1>0, <1>4, <1>5, <2>3, <3>1 DEF Run
    <3> QED BY <1>0, <1>4, <2>3, <3>1, <3>2
  <2> QED BY <2>6, <2>7 DEF AtBegin
<1>10. Begins(ip)' <=> Begins(k)
  BY <1>0 DEF Begins
<1>11. MidInv'
  BY <1>0, <1>3, <1>8, <1>9, <1>10 DEF MidInv
<1>12. StartInv' /\ EndInv' /\ (phase' = "done" => ip' = 0)
  BY <1>0 DEF StartInv, EndInv
<1> QED BY <1>3, <1>11, <1>12 DEF LockInv


\* A block that the Advanced interpreter does not enter has an instruction that
\* the Baseline does not get past.
LEMMA EntryDoom ==
    ASSUME IInv, ExactInv, LockInv, opx_beginblock, UNCHANGED refVars, outcome = "RUNNING",
           NEW j \in 1..Last, trace[j].begin = ip, ~Begins(j),
           \/ instrs[j].fn \in UndefinedOps
           \/ gas_left < trace[j].cost + Spent(j)
           \/ size < stack_height_required[instrs[j].fn] - trace[j].change
           \/ size + stack_height_change[instrs[j].fn] + trace[j].change > StackLimit
    PROVE  IDoom'
<1> PICK k, c, p, l, gl, g : /\ k = ip + 1 /\ c = Here /\ p = Pos /\ l = Lands(Pos)
                             /\ gl = gas_left /\ g = gas
  OBVIOUS
<1>0. /\ phase = "execute" /\ ip # 0 /\ Begins(ip) /\ ip \in 1..Last /\ Last \in Nat
      /\ code' = code /\ instrs' = instrs /\ trace' = trace /\ Last' = Last
      /\ pc' = pc /\ height' = height /\ gas' = gas
  BY EntryView
<1>1. TableOK /\ RefInv /\ MidInv /\ ContigInv
  BY DEF IInv, ExactInv, LockInv
<1>2. k \in ip..j /\ k # ip /\ j \in k..Last
  <2>1. ip \in 1..j
    BY <1>1 DEF TableOK, TableInv, Last
  <2>2. ip # j
    BY <1>0
  <2> QED BY <1>0, <2>1, <2>2
<1>3. k \in 1..Last /\ trace[k].begin = ip /\ ~Begins(k)
  BY <1>1, <1>2, InBlock
<1>4. /\ trace[k].pos = p + l /\ trace[k].cost = l /\ trace[k].clean /\ trace[k].change = 0
      /\ c <= trace[k].pos /\ Run(c, trace[k].pos) /\ g = gl + (p - c)
  BY <1>0, <1>3, EntryFacts
<1>5. height = size /\ size \in Int
  BY <1>0, <1>1 DEF MidInv, Same, TableOK, TypeOK
<1>6. p \in Int /\ l \in Int /\ c \in Int /\ gl \in Int
  <2>1. p \in Nat /\ l \in {0, 1} /\ Len(code) \in Nat
    BY <1>0, <1>1, FieldTypes DEF Pos
  <2>2. pc \in Nat
    BY <1>1 DEF RefInv
  <2>3. gl \in Int
    BY <1>1 DEF TableOK, TypeOK
  <2> QED BY <2>1, <2>2, <2>3 DEF Here, Min2
<1> PICK f, cj, sj, dj : f = instrs[j].fn /\ cj = trace[j].cost /\ sj = Spent(j)
                         /\ dj = trace[j].change
  OBVIOUS
<1>7. cj \in Int /\ sj \in Int /\ dj \in Int /\ f \in Byte
  BY <1>1, FieldTypes, SMTT(40)
<1>8. stack_height_required[f] \in Int /\ stack_height_change[f] \in Int
  BY <1>7, TraitsFacts
<1>9. \/ f \in UndefinedOps
      \/ gas' - (trace[k].pos - c) < cj + sj - trace[k].cost
      \/ height' < stack_height_required[f] - (dj - trace[k].change)
      \/ height' + stack_height_change[f] + (dj - trace[k].change) > StackLimit
  <2>1. CASE f \in UndefinedOps
    BY <2>1
  <2>2. CASE gl < cj + sj
    <3>1. g - ((p + l) - c) = gl - l
      <4>1. g = gl + (p - c)
        BY <1>4
      <4> QED BY <1>6, <4>1
    <3>2. gl - l < cj + sj - l
      BY <1>6, <1>7, <2>2
    <3> QED BY <1>0, <1>4, <3>1, <3>2
  <2>3. CASE size < stack_height_required[f] - dj
    BY <1>0, <1>4, <1>5, <1>7, <1>8, <2>3
  <2>4. CASE size + stack_height_change[f] + dj > StackLimit
    BY <1>0, <1>4, <1>5, <1>7, <1>8, <2>4
  <2> QED BY <2>1, <2>2, <2>3, <2>4
<1>10. c = Here'
  BY <1>0 DEF Here
<1>11. \A q \in c..(trace[k].pos - 1) : JumpdestAt(q)
  BY <1>4 DEF Run
<1>12. trace[j].begin = trace[k].begin
  BY <1>3
<1> QED BY <1>0, <1>2, <1>3, <1>4, <1>9, <1>10, <1>11, <1>12, DoomIntro

\* A block the Advanced interpreter does not enter.
LEMMA LockEntryFail ==
    ASSUME IInv, ExactInv, LockInv, opx_beginblock, UNCHANGED refVars, ip' # ip + 1
    PROVE  LockInv'
<1> PICK b, l, c, p, gl, g : /\ b = instrs[ip].block.gas_cost /\ l = Lands(Pos) /\ c = Here
                             /\ p = Pos /\ gl = gas_left /\ g = gas
  OBVIOUS
<1>0. /\ phase = "execute" /\ ip # 0 /\ Begins(ip) /\ ip \in 1..Last /\ Last \in Nat
      /\ phase' = phase /\ gl \in Nat /\ b \in Int
      /\ code' = code /\ instrs' = instrs /\ trace' = trace /\ Last' = Last
      /\ size' = size /\ space' = space
      /\ pc' = pc /\ height' = height /\ stack' = stack /\ gas' = gas /\ outcome' = outcome
      /\ ip' = 0 /\ ~Succeeded(exit_code')
      /\ \/ gl - b < 0
         \/ size < instrs[ip].block.stack_req
         \/ size + instrs[ip].block.stack_max_growth > StackLimit
  BY EntryView DEF Succeeded
<1>1. TableOK /\ RefInv /\ MidInv /\ PosInv /\ CostInv /\ GasInv /\ AttainInv /\ ExecInv
  BY DEF IInv, ExactInv, LockInv
<1>2. AtBegin /\ Same
  BY <1>0, <1>1 DEF MidInv
<1>3. RefInv'
  BY <1>0, <1>1 DEF RefInv
<1>4. StartInv' /\ MidInv' /\ (phase' = "done" => ip' = 0)
  BY <1>0 DEF StartInv, MidInv
<1>5. size \in Nat /\ size <= StackLimit /\ StackLimit \in Nat
  BY <1>0, <1>1, LimitsAssumption DEF ExecInv
<1>6. StackReq[ip] = instrs[ip].block.stack_req /\ Growth[ip] = instrs[ip].block.stack_max_growth
  BY <1>0 DEF StackReq, Growth, Last
<1>7. ASSUME outcome = "RUNNING"
      PROVE  JDoom' \/ IDoom'
  <2>0. ASSUME NEW j \in 1..Last, instrs[j].fn \in UndefinedOps
        PROVE  ~Begins(j)
    BY <2>0, DefinedFacts DEF Begins
  <2>1. CASE gl - b < 0
    <3>1. PICK j \in 1..Last : trace[j].begin = ip /\ b = trace[j].cost + Spent(j)
      BY <1>0, Closer
    <3>2. CASE ~Begins(j)
      <4>1. gas_left < trace[j].cost + Spent(j)
        BY <1>0, <2>1, <3>1
      <4> QED BY <1>7, <3>1, <3>2, <4>1, EntryDoom
    <3>3. CASE Begins(j)
      <4>1. j = ip
        BY <1>1, <3>1, <3>3 DEF TableOK, TableInv, Begins, Last
      <4>2. l \in {0, 1} /\ p \in Nat /\ Len(code) \in Nat
        <5>1. p \in Nat /\ Len(code) \in Nat
          BY <1>0, <1>1, SlotTypes, SizeTypes DEF Pos
        <5> QED BY <1>0, <5>1 DEF Lands
      <4>3. trace[ip].cost = 0 /\ Spent(ip) = l
        BY <1>0, <1>1 DEF CostInv, Spent, Pos
      <4>4. b = l
        BY <3>1, <4>1, <4>2, <4>3
      <4>5. l = 1 /\ gl = 0
        BY <1>0, <2>1, <4>2, <4>4
      <4>6. JumpdestAt(p) /\ p < Len(code)
        BY <4>5 DEF Lands, JumpdestAt
      <4>7. g = gl + (p - c) /\ Run(c, p) /\ g >= 0
        BY <1>1, <1>2, <1>7 DEF AtBegin, RefInv
      <4>8. pc \in Nat /\ c = pc /\ c <= p
        <5>1. pc \in Nat
          BY <1>1 DEF RefInv
        <5>2. c \in Nat /\ (c = pc \/ c = Len(code))
          BY <4>2, <5>1 DEF Here, Min2
        <5>3. c <= p
          BY <4>2, <4>5, <4>7, <5>2
        <5> QED BY <4>2, <4>6, <5>1, <5>2, <5>3
      <4>9. \A x \in c..p : x \in c..(p - 1) \/ x = p
        BY <4>2, <4>8
      <4>10. \A x \in pc'..p : JumpdestAt(x)
        BY <1>0, <4>6, <4>7, <4>8, <4>9 DEF Run
      <4>11. gas' < p - pc' + 1 /\ pc' <= p /\ p \in 0..Len(code)
        <5>1. g = p - c
          BY <4>2, <4>5, <4>7, <4>8
        <5> QED BY <1>0, <4>2, <4>6, <4>8, <5>1
      <4> QED BY <1>0, <4>2, <4>10, <4>11, JDoomIntro
    <3> QED BY <3>2, <3>3
  <2>2. CASE size < instrs[ip].block.stack_req
    <3>1. StackReq[ip] # 0
      BY <1>5, <1>6, <2>2
    <3>2. CASE \E j \in 1..Last : trace[j].begin = ip /\ instrs[j].fn \in UndefinedOps
      BY <1>7, <2>0, <3>2, EntryDoom
    <3>3. CASE \E j \in 1..Last : /\ trace[j].begin = ip /\ ~Begins(j)
                                  /\ StackReq[ip] = stack_height_required[instrs[j].fn]
                                                      - trace[j].change
      BY <1>6, <1>7, <2>2, <3>3, EntryDoom
    <3> QED BY <1>0, <1>1, <3>1, <3>2, <3>3 DEF AttainInv
  <2>3. CASE size + instrs[ip].block.stack_max_growth > StackLimit
    <3>1. Growth[ip] # 0
      BY <1>5, <1>6, <2>3
    <3>2. CASE \E j \in 1..Last : trace[j].begin = ip /\ instrs[j].fn \in UndefinedOps
      BY <1>7, <2>0, <3>2, EntryDoom
    <3>3. CASE \E j \in 1..Last : /\ trace[j].begin = ip /\ ~Begins(j)
                                  /\ Growth[ip] = trace[j].change
                                                    + stack_height_change[instrs[j].fn]
      <4>1. PICK j \in 1..Last : /\ trace[j].begin = ip /\ ~Begins(j)
                                 /\ Growth[ip] = trace[j].change
                                                   + stack_height_change[instrs[j].fn]
        BY <3>3
      <4>2. trace[j].change \in Int /\ stack_height_change[instrs[j].fn] \in Int
        <5>1. instrs[j].fn \in Byte /\ trace[j].change \in Int
          BY <1>1, FieldTypes
        <5> QED BY <5>1, TraitsFacts
      <4>3. size + stack_height_change[instrs[j].fn] + trace[j].change > StackLimit
        BY <1>5, <1>6, <2>3, <4>1, <4>2
      <4> QED BY <1>7, <4>1, <4>3, EntryDoom
    <3> QED BY <1>0, <1>1, <3>1, <3>2, <3>3 DEF AttainInv
  <2> QED BY <1>0, <2>1, <2>2, <2>3
<1>8. ASSUME outcome # "RUNNING"
      PROVE  Agree'
  <2>1. outcome' = "OUT_OF_GAS"
    BY <1>0, <1>2, <1>8 DEF AtBegin
  <2> QED BY <1>0, <2>1 DEF Agree, Succeeded
<1>9. EndInv'
  BY <1>0, <1>7, <1>8 DEF EndInv
<1> QED BY <1>3, <1>4, <1>9 DEF LockInv


\* The Baseline goes on with the next instruction of the table.
LEMMA StepPos ==
    ASSUME TableOK, PosInv, RefInv, NoMstore8, NEW i \in 1..Last, NEW k \in 1..Last, k = i + 1,
           ~Begins(i), Here = trace[i].pos, code' = code, pc' = Onward
    PROVE  At = instrs[i].fn /\ Here' = trace[k].pos /\ pc' \in Nat
<1> PICK c, n, q : c = pc /\ n = Len(code) /\ q = Ref!NumPush(At)
  OBVIOUS
<1>1. /\ c \in Nat /\ n \in Nat /\ Here = Min2(c, n) /\ At = ByteOp(Here) /\ RefOK
      /\ Last \in Nat
  BY AtFacts, FieldTypes DEF RefInv, Here
<1>2. At = instrs[i].fn
  BY <1>1 DEF PosInv
<1>3. q = PushSize(At) /\ q \in Nat
  <2>1. CASE At \in ANY_PUSH
    BY <2>1, NumPushFacts
  <2>2. CASE At \notin ANY_PUSH
    BY <2>2, SameTables DEF Ref!NumPush, PushSize
  <2> QED BY <2>1, <2>2
<1>4. trace[k].pos = Min2(Min2(c, n) + 1 + q, n)
  <2>1. k \in 2..Last /\ k - 1 = i
    BY <1>1
  <2>2. trace[k].pos = EndOf(i)
    BY <2>1 DEF PosInv
  <2> QED BY <1>1, <1>2, <1>3, <2>2 DEF EndOf
<1>5. pc' = c + 1 + q
  BY DEF Onward
<1>6. Here' = Min2(c + 1 + q, n)
  BY <1>5 DEF Here
<1>7. Min2(c + 1 + q, n) = Min2(Min2(c, n) + 1 + q, n)
  BY <1>1, <1>3 DEF Min2
<1> QED BY <1>1, <1>2, <1>3, <1>4, <1>5, <1>6, <1>7


LEMMA NatSum ==
    ASSUME NEW u \in Nat, NEW w \in Nat
    PROVE  u + w \in Int /\ u + w >= 0
  OBVIOUS

LEMMA Cancel ==
    ASSUME NEW g \in Nat, NEW x \in Nat, NEW v, g < v
    PROVE  g - (x - x) < v
<1>1. g - (x - x) = g
  OBVIOUS
<1> QED BY <1>1, Zenon

\* An instruction that both execute.
LEMMA LockTogether ==
    ASSUME IInv, IInv', ExactInv, LockInv, JumpInv, JumpsTrue, DestructFunded, NoMstore8,
           Addressable, PlainOutcomes, Together
    PROVE  LockInv'
<1>0. /\ Both /\ Aligned /\ phase = "execute" /\ ip # 0 /\ Instr.fn # OP_JUMPDEST
      /\ outcome' = "RUNNING" => /\ At \notin UndefinedOps
                                 /\ size + stack_height_change[At] \in Nat
                                 /\ size + stack_height_change[At] <= StackLimit
  BY TogetherBoth
<1>1. phase' = phase /\ code' = code /\ instrs' = instrs /\ trace' = trace /\ Last' = Last
  <2>1. UNCHANGED analysisVars
    BY TogetherBoth
  <2> QED BY <2>1 DEF analysisVars, Last
<1>2. TableOK /\ RefInv /\ MidInv /\ PosInv /\ CostInv /\ ChainInv /\ GasInv
  BY DEF IInv, ExactInv, LockInv
<1>3. /\ RefOK /\ At = Instr.fn /\ ip \in 1..Last /\ ~Begins(ip) /\ Here = Pos
      /\ Corr \in Nat /\ (Closes(ip) => Corr = 0) /\ StackLimit \in Nat
  BY <1>0, Ready, LimitsAssumption
<1>4. AtInstr /\ trace[ip].clean /\ Last \in Nat
  <2>1. trace[ip].clean
    BY <1>0 DEF IInv, ExecInv, Instr
  <2> QED BY <1>0, <1>2, <1>3, <2>1, FieldTypes DEF MidInv
<1>5. StartInv' /\ (phase' = "done" => ip' = 0)
  BY <1>0, <1>1 DEF StartInv
<1> PICK k : k = ip + 1
  OBVIOUS
<1>6. Onward \in Nat
  <2>1. CASE At \in ANY_PUSH
    BY <1>3, <2>1, NumPushFacts DEF Onward, RefOK
  <2>2. CASE At \notin ANY_PUSH
    BY <1>3, <2>2, SameTables DEF Onward, RefOK, Ref!NumPush
  <2> QED BY <2>1, <2>2
<1>7. ASSUME k \in 1..Last, pc' = Onward
      PROVE  Here' = trace[k].pos
  <2>1. Here = trace[ip].pos
    BY <1>3 DEF Pos
  <2> QED BY <1>1, <1>2, <1>3, <1>7, <2>1, StepPos
<1> PICK cb, cp, sp : cb = current_block_cost /\ cp = trace[ip].cost /\ sp = OpGas(At)
  OBVIOUS
<1>8. cb \in Int /\ cp \in Int /\ sp \in Int /\ Corr = cb - cp - sp /\ Spent(ip) = sp
  <2>1. cb \in Int
    BY <1>2 DEF TableOK, TypeOK
  <2>2. Spent(ip) = sp
    BY <1>3 DEF Spent, Instr
  <2>3. cp \in Nat /\ Spent(ip) \in Nat
    BY <1>2, <1>3, FieldTypes
  <2> QED BY <2>1, <2>2, <2>3 DEF Corr
<1>9. CASE BothGo
  <2>0. /\ ip' = k /\ pc' = Onward /\ outcome' = "RUNNING" /\ Moved /\ Shaped
        /\ gas_left' \in Nat /\ gas' = gas_left' + Corr /\ current_block_cost' = cb
    BY <1>9 DEF BothGo
  <2>1. k \in 1..Last
    <3>1. ip' \in 0..Len(instrs')
      BY DEF IInv, TableOK, TypeOK
    <3> QED BY <1>1, <1>3, <1>4, <2>0, <3>1 DEF Last
  <2>2. Here' = trace[k].pos /\ Pos' = trace[k].pos /\ trace[k].pos \in Nat
    <3>1. trace[k].pos \in Nat
      BY <1>2, <2>1, FieldTypes
    <3> QED BY <1>1, <1>7, <2>0, <2>1, <3>1 DEF Pos
  <2>3. Same' /\ size' = size + stack_height_change[At]
    BY <2>0 DEF Moved, Same
  <2>4. RefInv'
    <3>1. height' \in 0..StackLimit
      BY <1>0, <1>3, <2>0, <2>3 DEF Same
    <3>2. gas' \in Int /\ gas' >= 0
      <4> PICK u, w : u = gas_left' /\ w = Corr
        OBVIOUS
      <4>1. u \in Nat /\ w \in Nat /\ gas' = u + w
        BY <1>3, <2>0
      <4>2. u + w \in Int /\ u + w >= 0
        BY <4>1, NatSum
      <4> QED BY <4>1, <4>2
    <3> QED BY <1>6, <2>0, <3>1, <3>2 DEF RefInv, Shaped
  <2>5. \A x, y : x = y /\ y \in Nat => \A q \in x..(y - 1) : FALSE
    OBVIOUS
  <2>6. Run(Here, Pos)' /\ Run(Pos, Here)'
    BY <2>2, <2>5 DEF Run
  <2>7. Pos' - Here' = 0
    BY <2>2
  <2>8. ASSUME Begins(k)
        PROVE  AtBegin'
    <3>1. Closes(ip)
      BY <1>3, <1>4, <2>1, <2>8 DEF Closes
    <3>2. gas' = gas_left' + (Pos' - Here')
      BY <1>3, <2>0, <2>7, <3>1
    <3> QED BY <2>0, <2>6, <3>2 DEF AtBegin
  <2>9. ASSUME ~Begins(k)
        PROVE  AtInstr'
    <3>1. k \in 2..Last /\ k - 1 = ip
      BY <1>3, <1>4, <2>1
    <3>2. trace[k].cost = cp + sp /\ trace[k].begin = trace[ip].begin
      BY <1>2, <1>8, <2>9, <3>1 DEF CostInv, ChainInv, Begins, Last
    <3>3. current_block_cost' = instrs'[trace'[ip'].begin].block.gas_cost
      BY <1>1, <1>4, <2>0, <3>2 DEF AtInstr
    <3>4. gas' = gas_left' + (cb - trace[k].cost) + 0
      BY <1>8, <2>0, <3>2
    <3>5. gas' = gas_left' + (current_block_cost' - trace'[ip'].cost) + (Pos' - Here')
      BY <1>1, <2>0, <2>7, <3>4
    <3>6. Here' <= Pos'
      BY <2>2
    <3> QED BY <2>0, <2>6, <3>3, <3>5, <3>6 DEF AtInstr
  <2>10. Begins(ip)' <=> Begins(k)
    BY <1>1, <2>0 DEF Begins
  <2>11. MidInv'
    BY <2>0, <2>3, <2>8, <2>9, <2>10 DEF MidInv
  <2>12. EndInv'
    BY <1>3, <2>0 DEF EndInv
  <2> QED BY <1>5, <2>4, <2>11, <2>12 DEF LockInv
<1>10. CASE BothJump
  <2>0. PICK t \in 1..Last : ip' = t /\ Begins(t) /\ pc' = trace[t].pos
    BY <1>10 DEF BothJump
  <2>1. /\ outcome' = "RUNNING" /\ Moved /\ Shaped /\ gas_left' \in Nat /\ gas' = gas_left'
    BY <1>10 DEF BothJump
  <2>2. trace[t].pos \in Nat /\ trace[t].pos <= Len(code) /\ Len(code) \in Nat
    BY <1>2, FieldTypes DEF PosInv
  <2>3. Here' = trace[t].pos /\ Pos' = trace[t].pos
    BY <1>1, <2>0, <2>2 DEF Here, Pos, Min2
  <2>4. Same' /\ size' = size + stack_height_change[At]
    BY <2>1 DEF Moved, Same
  <2>5. RefInv'
    <3>1. height' \in 0..StackLimit
      BY <1>0, <1>3, <2>1, <2>4 DEF Same
    <3> QED BY <2>0, <2>1, <2>2, <3>1 DEF RefInv, Shaped
  <2>6. \A x, y : x = y /\ y \in Nat => \A q \in x..(y - 1) : FALSE
    OBVIOUS
  <2>7. Run(Here, Pos)' /\ Run(Pos, Here)'
    BY <2>2, <2>3, <2>6 DEF Run
  <2>8. gas' = gas_left' + (Pos' - Here')
    BY <2>1, <2>2, <2>3
  <2>9. AtBegin'
    BY <2>1, <2>7, <2>8 DEF AtBegin
  <2>10. Begins(ip)'
    BY <1>1, <2>0 DEF Begins
  <2>11. MidInv'
    BY <2>1, <2>4, <2>9, <2>10 DEF MidInv
  <2>12. EndInv'
    BY <2>0 DEF EndInv
  <2> QED BY <1>5, <2>5, <2>11, <2>12 DEF LockInv
<1>11. CASE BothStop
  <2>1. /\ ip' = 0 /\ outcome' # "RUNNING" /\ Agree' /\ Shaped
        /\ pc' = pc /\ height' = height /\ gas' \in Int
    BY <1>11 DEF BothStop
  <2>2. RefInv'
    BY <1>2, <2>1 DEF RefInv, Shaped
  <2>3. MidInv' /\ EndInv'
    BY <2>1 DEF MidInv, EndInv
  <2> QED BY <1>5, <2>2, <2>3 DEF LockInv
<1>12. CASE Outrun
  <2>1. /\ ip' = 0 /\ ~Succeeded(exit_code') /\ outcome' = "RUNNING"
        /\ pc' = Onward /\ height' = size + stack_height_change[At] /\ Shaped
        /\ gas' \in Nat /\ gas' < Corr
    BY <1>12 DEF Outrun
  <2>2. RefInv'
    <3>1. height' \in 0..StackLimit
      BY <1>0, <1>3, <2>1
    <3> QED BY <1>6, <2>1, <3>1 DEF RefInv, Shaped
  <2>3. IDoom'
    <3> PICK b : b = trace[ip].begin
      OBVIOUS
    <3>1. ~Closes(ip)
      BY <1>3, <2>1
    <3>2. ip # Last
      BY <1>0, <3>1 DEF Closes
    <3>3. b \in 1..Last /\ Begins(b)
      <4>1. b \in 1..ip /\ instrs[b].fn = OP_JUMPDEST
        BY <1>2, <1>3 DEF TableOK, TableInv, Last
      <4> QED BY <1>3, <1>4, <4>1 DEF Begins
    <3>4. PICK j \in 1..Last : /\ trace[j].begin = b /\ Closes(j)
                               /\ instrs[b].block.gas_cost = trace[j].cost + Spent(j)
                               /\ \A i \in 1..Last : trace[i].begin = b => i <= j
      BY <1>0, <3>3, Closer
    <3>5. ip <= j /\ ip # j
      BY <1>3, <3>1, <3>4
    <3>6. ip < j
      BY <1>3, <1>4, <3>5
    <3>7. /\ k \in 1..Last /\ k <= j /\ ~Begins(k)
          /\ trace[k].begin = b /\ trace[k].cost = cp + sp /\ trace[k].clean
      <4>1. trace[j].begin = trace[ip].begin
        BY <3>4
      <4>2. instrs[ip].fn \notin UndefinedOps
        BY <1>0, <1>3, <2>1 DEF Instr
      <4> QED BY <1>3, <1>4, <1>8, <3>6, <4>1, <4>2, NextInBlock
    <3>8. Here' = trace[k].pos /\ trace[k].pos \in Nat /\ j \in k..Last
      <4>1. trace[k].pos \in Nat
        BY <1>2, <3>7, FieldTypes
      <4> QED BY <1>4, <1>7, <2>1, <3>7, <4>1
    <3>9. cb = trace[j].cost + Spent(j)
      BY <1>4, <3>4 DEF AtInstr
    <3>10. gas' - (trace[k].pos - trace[k].pos) < trace[j].cost + Spent(j) - trace[k].cost
      <4>1. gas' < cb - (cp + sp)
        BY <1>8, <2>1
      <4>2. gas' \in Nat /\ trace[k].pos \in Nat
        BY <2>1, <3>8
      <4>3. gas' < trace[j].cost + Spent(j) - trace[k].cost
        <5> PICK u, s, v : u = trace[j].cost /\ s = Spent(j) /\ v = trace[k].cost
          OBVIOUS
        <5>1. u \in Nat /\ s \in Nat /\ cb = u + s /\ v = cp + sp /\ gas' < cb - (cp + sp)
          BY <1>2, <3>7, <3>9, <4>1, FieldTypes
        <5>2. cb - (cp + sp) = u + s - v
          BY <1>8, <5>1
        <5> QED BY <5>1, <5>2, Zenon
      <4> QED BY <4>2, <4>3, Cancel, Zenon
    <3> PICK h : h = trace[k].pos
      OBVIOUS
    <3>11. h = Here' /\ h <= trace[k].pos /\ \A q \in h..(trace[k].pos - 1) : JumpdestAt(q)
      BY <3>8
    <3>12. trace[j].begin = trace[k].begin /\ gas' - (trace[k].pos - h) < trace[j].cost + Spent(j) - trace[k].cost
      BY <3>4, <3>7, <3>10
    <3> QED BY <1>1, <3>7, <3>8, <3>11, <3>12, DoomIntro
  <2>4. MidInv' /\ EndInv'
    BY <2>1, <2>3 DEF MidInv, EndInv
  <2> QED BY <1>5, <2>2, <2>4 DEF LockInv
<1> QED BY <1>0, <1>9, <1>10, <1>11, <1>12 DEF Both


-----------------------------------------------------------------------------
\* One step of the Baseline, whatever it executes.
LEMMA AloneStep ==
    ASSUME TableOK, RefInv, NoMstore8, PlainOutcomes, NEW o \in Outcomes, Ref!Step(o)
    PROVE  /\ outcome = "RUNNING" /\ At \in Byte
           /\ pc' \in Nat /\ gas' \in Int /\ height' \in 0..StackLimit
           /\ DOMAIN stack' = 1..StackLimit
           /\ Succeeded(outcome') => At \in Terminators
           /\ outcome' = "RUNNING" =>
                 /\ At \notin UndefinedOps /\ gas' >= 0 /\ gas' <= gas - OpGas(At)
                 /\ height' = height + stack_height_change[At]
                 /\ At \notin Terminators => pc' = Onward
           /\ \/ At \in UndefinedOps
              \/ stack_height_change[At] > 0 /\ height = StackLimit
              \/ height < stack_height_required[At]
              \/ gas < OpGas(At)
              => outcome' # "RUNNING" /\ ~Succeeded(outcome')
<1>1. /\ RefOK /\ At \in Byte /\ pc \in Nat /\ gas \in Int /\ height \in 0..StackLimit
      /\ DOMAIN stack = 1..StackLimit /\ StackLimit \in Nat
  BY AtFacts, LimitsAssumption DEF RefInv, RefOK
<1>2. outcome = "RUNNING"
  BY DEF Ref!Step
<1>3. /\ stack_height_required[At] \in Int /\ stack_height_change[At] \in Int
      /\ stack_height_change[At] <= 1 /\ stack_height_required[At] + stack_height_change[At] >= 0
      /\ gas_costs[At] \in Int /\ OpGas(At) \in Nat
      /\ At \notin UndefinedOps => OpGas(At) = gas_costs[At]
  BY <1>1, TraitsFacts, GasFacts, GasBounds, SMTT(40) DEF OpGas
<1>4. o.cost \in Nat /\ o.status # "REVERT" /\ o.status # "RUNNING"
  BY DEF PlainOutcomes
<1>5. Onward \in Nat
  <2>1. CASE At \in ANY_PUSH
    BY <1>1, <2>1, NumPushFacts DEF Onward
  <2>2. CASE At \notin ANY_PUSH
    BY <1>1, <2>2, SameTables DEF Onward, Ref!NumPush
  <2> QED BY <2>1, <2>2
<1>6. \/ /\ ~Succeeded(outcome') /\ outcome' # "RUNNING" /\ gas' = gas
         /\ pc' = pc /\ height' = height /\ stack' = stack
      \/ /\ At \notin UndefinedOps
         /\ ~(stack_height_change[At] > 0 /\ height = StackLimit)
         /\ height >= stack_height_required[At] /\ gas >= gas_costs[At]
         /\ Ref!Impl(At, Paid, o)
  BY <1>1, StepFacts
<1>7. CASE /\ ~Succeeded(outcome') /\ outcome' # "RUNNING" /\ gas' = gas
           /\ pc' = pc /\ height' = height /\ stack' = stack
  BY <1>1, <1>2, <1>7
<1>8. CASE /\ At \notin UndefinedOps
           /\ ~(stack_height_change[At] > 0 /\ height = StackLimit)
           /\ height >= stack_height_required[At] /\ gas >= gas_costs[At]
           /\ Ref!Impl(At, Paid, o)
  <2>1. Paid \in Int /\ Paid >= 0 /\ Paid = gas - OpGas(At)
    BY <1>1, <1>3, <1>8 DEF Paid
  <2>2. height + stack_height_change[At] \in 0..StackLimit
    BY <1>1, <1>3, <1>8
  <2>3. ~(\/ At \in UndefinedOps
          \/ stack_height_change[At] > 0 /\ height = StackLimit
          \/ height < stack_height_required[At]
          \/ gas < OpGas(At))
    BY <1>1, <1>3, <1>8
  <2>4. DOMAIN Left(o) = 1..StackLimit
    BY <1>1 DEF Left
  <2> DEFINE Shape == pc' \in Nat /\ height' \in 0..StackLimit /\ DOMAIN stack' = 1..StackLimit
  <2>5. ASSUME NEW s, Halts(s), s # "RUNNING"
        PROVE  outcome' = s /\ outcome' # "RUNNING" /\ Shape
    BY <1>1, <2>5 DEF Halts
  <2>6. ASSUME NEW p \in Nat, NEW st, Goes(p, st), DOMAIN st = 1..StackLimit
        PROVE  /\ outcome' = "RUNNING" /\ ~Succeeded(outcome') /\ Shape
               /\ height' = height + stack_height_change[At] /\ pc' = p
    BY <1>2, <2>2, <2>6 DEF Goes, Succeeded
  <2>7. \A i, v : DOMAIN [stack EXCEPT ![i] = v] = 1..StackLimit
    BY <1>1
  <2>8. \A i, v, k, w : DOMAIN [stack EXCEPT ![i] = v, ![k] = w] = 1..StackLimit
    BY <1>1
  <2> HIDE DEF Shape
  <2> DEFINE Result == /\ Shape /\ gas' \in Int
                       /\ Succeeded(outcome') => At \in Terminators
                       /\ outcome' = "RUNNING" =>
                             /\ gas' >= 0 /\ gas' <= gas - OpGas(At)
                             /\ height' = height + stack_height_change[At]
                             /\ At \notin Terminators => pc' = Onward
  <2>9. ASSUME NEW st, Goes(Onward, st), DOMAIN st = 1..StackLimit, gas' = Paid
        PROVE  Result
    BY <1>3, <1>5, <2>1, <2>6, <2>9
  <2> SUFFICES Result
    BY <1>1, <1>2, <1>8, <2>3 DEF Shape
  <2>10. CASE At \in PlainOps \cup {OP_JUMPDEST}
    <3>1. gas' = Paid /\ Goes(Onward, Left(o))
      BY <1>8, <2>10, ImplPlain
    <3> QED BY <2>4, <2>9, <3>1
  <2>11. CASE At \in FallibleOps \cup CorrectedOps
    <3>1. /\ gas' = Paid - o.cost
          /\ IF gas' < 0 \/ (At = OP_SSTORE /\ Paid <= SstoreGate) THEN Halts("OUT_OF_GAS")
             ELSE IF o.status # "SUCCESS" THEN Halts(o.status)
             ELSE Goes(Onward, Left(o))
      BY <1>8, <2>11, ImplFallible
    <3>2. gas' \in Int /\ gas' <= gas - OpGas(At)
      BY <1>4, <2>1, <3>1
    <3>3. CASE Halts("OUT_OF_GAS")
      BY <2>5, <3>2, <3>3 DEF Succeeded
    <3>4. CASE Halts(o.status) /\ o.status # "SUCCESS"
      BY <1>4, <2>5, <3>2, <3>4 DEF Succeeded
    <3>5. CASE Goes(Onward, Left(o)) /\ ~(gas' < 0)
      BY <1>5, <2>4, <2>6, <3>2, <3>5
    <3> QED BY <3>1, <3>3, <3>4, <3>5
  <2>12. CASE At \in {OP_JUMP, OP_JUMPI}
    <3>0. At \in Terminators
      BY <2>12 DEF Terminators
    <3>1. /\ gas' = Paid
          /\ IF At = OP_JUMPI /\ stack[height - 1] = 0 THEN Goes(Onward, stack)
             ELSE IF stack[height] \in Ref!jumpdest_map THEN Goes(stack[height], stack)
             ELSE Halts("BAD_JUMP_DESTINATION")
      BY <1>8, <2>12, ImplJump
    <3>2. CASE Goes(Onward, stack)
      BY <1>1, <2>9, <3>1, <3>2
    <3>3. CASE Goes(stack[height], stack) /\ stack[height] \in Ref!jumpdest_map
      <4>1. stack[height] \in Nat
        <5>1. Len(code) \in Nat
          BY FieldTypes
        <5> QED BY <3>3, <5>1 DEF Ref!jumpdest_map
      <4>2. gas' \in Int /\ gas' >= 0 /\ gas' <= gas - OpGas(At)
        BY <1>3, <2>1, <3>1
      <4> QED BY <1>1, <2>6, <3>0, <3>3, <4>1, <4>2
    <3>4. CASE Halts("BAD_JUMP_DESTINATION")
      BY <2>1, <2>5, <3>0, <3>1, <3>4
    <3> QED BY <3>1, <3>2, <3>3, <3>4
  <2>13. CASE At \in {OP_PC, OP_GAS} \cup ANY_PUSH
    <3>1. gas' = Paid /\ \E v : Goes(Onward, [stack EXCEPT ![height + stack_height_change[At]] = v])
      BY <1>8, <2>13, ImplPush
    <3> QED BY <2>7, <2>9, <3>1
  <2>14. CASE At \in DUPs
    <3>1. gas' = Paid /\ \E v : Goes(Onward, [stack EXCEPT ![height + stack_height_change[At]] = v])
      BY <1>8, <2>14, ImplMove
    <3> QED BY <2>7, <2>9, <3>1
  <2>15. CASE At \in SWAPs
    <3>1. gas' = Paid /\ Goes(Onward, [stack EXCEPT ![height] = stack[height + 143 - At],
                                                    ![height + 143 - At] = stack[height]])
      BY <1>8, <2>15, ImplMove
    <3> QED BY <2>8, <2>9, <3>1
  <2>16. CASE At = OP_STOP
    <3>1. gas' = Paid /\ Halts("SUCCESS") /\ At \in Terminators
      BY <1>8, <2>16, ImplEnd DEF Terminators
    <3> QED BY <2>1, <2>5, <3>1
  <2>17. CASE At = OP_INVALID
    <3>1. gas' = Paid /\ Halts("INVALID_INSTRUCTION")
      BY <1>8, <2>17, ImplEnd
    <3> QED BY <2>1, <2>5, <3>1 DEF Succeeded
  <2>18. CASE At \in StopOps
    <3>1. gas' = Paid - o.cost /\ At \in Terminators
      BY <1>8, <2>18, ImplEnd DEF Terminators, StopOps
    <3>2. \E s : Halts(s) /\ s # "RUNNING"
      BY <1>8, <2>18, ImplEnd
    <3> QED BY <1>4, <2>1, <2>5, <3>1, <3>2
  <2>19. CASE At = OP_SELFDESTRUCT
    <3>1. gas' = Paid - o.cost - (IF o.fresh THEN NewAccount ELSE 0) /\ At \in Terminators
      BY <1>8, <2>19, ImplEnd DEF Terminators
    <3>2. \E s : Halts(s) /\ s # "RUNNING"
      BY <1>4, <1>8, <2>19, ImplEnd
    <3>3. gas' \in Int
      BY <1>4, <2>1, <3>1, ScaleAssumption
    <3> QED BY <2>5, <3>1, <3>2, <3>3
  <2>20. \/ At \in PlainOps \cup {OP_JUMPDEST} \/ At \in FallibleOps \cup CorrectedOps
         \/ At \in {OP_JUMP, OP_JUMPI} \/ At \in {OP_PC, OP_GAS} \cup ANY_PUSH \/ At \in DUPs
         \/ At \in SWAPs \/ At = OP_STOP \/ At = OP_INVALID \/ At \in StopOps
         \/ At = OP_SELFDESTRUCT
    <3>1. At # OP_MSTORE8
      BY <1>1 DEF RefOK
    <3> QED BY <1>8, <3>1, SameTables DEF Ref!Impl
  <2> HIDE DEF Result
  <2> QED BY <2>10, <2>11, <2>12, <2>13, <2>14, <2>15, <2>16, <2>17, <2>18, <2>19, <2>20
<1> QED BY <1>6, <1>7, <1>8


\* What is left of the block: the Baseline steps over a JUMPDEST on the way to
\* instruction k.
LEMMA DoomJumpdest ==
    ASSUME TableOK, RefInv, NoMstore8, NEW o, Ref!Step(o), UNCHANGED vars,
           NEW k \in 1..Last, NEW j \in k..Last, DoomAt(k, j), Here # trace[k].pos
    PROVE  IF outcome' = "RUNNING" THEN IDoom' ELSE ~Succeeded(outcome')
<1>0. code' = code /\ instrs' = instrs /\ trace' = trace /\ Last' = Last
  BY DEF vars, analysisVars, Last
<1> PICK p, c, g : p = trace[k].pos /\ c = Here /\ g = gas
  OBVIOUS
<1>1. /\ ~Begins(k) /\ trace[j].begin = trace[k].begin /\ trace[k].clean
      /\ c <= p /\ Run(c, p) /\ Blocked(k, j) /\ c # p
  BY DEF DoomAt
<1>2. p \in Nat /\ c \in Nat
  BY AtFacts, FieldTypes
<1>3. c \in c..(p - 1)
  BY <1>1, <1>2
<1>4. At = OP_JUMPDEST
  BY <1>1, <1>3, AtFacts DEF Run
<1>5. /\ c = pc /\ height' = height /\ g \in Nat
      /\ \/ outcome' = "OUT_OF_GAS"
         \/ g >= 1 /\ gas' = g - 1 /\ outcome' = "RUNNING" /\ Here' = c + 1
  BY <1>4, StepJumpdest
<1>6. CASE outcome' = "OUT_OF_GAS"
  BY <1>6 DEF Succeeded
<1>7. CASE g >= 1 /\ gas' = g - 1 /\ outcome' = "RUNNING" /\ Here' = c + 1
  <2> PICK h : h = c + 1
    OBVIOUS
  <2>1. h = Here' /\ h <= p
    BY <1>1, <1>2, <1>7
  <2>2. \A q \in h..(p - 1) : q \in c..(p - 1)
    BY <1>2
  <2>3. \A q \in h..(p - 1) : JumpdestAt(q)
    BY <1>1, <2>2 DEF Run
  <2>4. g - (p - c) = (g - 1) - (p - h)
    <3>1. p \in Int /\ c \in Int /\ g \in Int
      BY <1>2, <1>5
    <3> QED BY <3>1
  <2>5. \/ instrs[j].fn \in UndefinedOps
        \/ gas' - (p - h) < trace[j].cost + Spent(j) - trace[k].cost
        \/ height' < stack_height_required[instrs[j].fn] - (trace[j].change - trace[k].change)
        \/ height' + stack_height_change[instrs[j].fn]
             + (trace[j].change - trace[k].change) > StackLimit
    <3>1. g - (p - c) = gas' - (p - h)
      BY <1>7, <2>4
    <3> QED BY <1>1, <1>5, <3>1 DEF Blocked
  <2>6. IDoom'
    BY <1>0, <1>1, <2>1, <2>3, <2>5, DoomIntro
  <2> QED BY <1>7, <2>6
<1> QED BY <1>5, <1>6, <1>7

\* The Baseline executes instruction k.
LEMMA DoomInstr ==
    ASSUME IInv, ExactInv, RefInv, NoMstore8, PlainOutcomes, NEW o \in Outcomes, Ref!Step(o),
           UNCHANGED vars,
           NEW k \in 1..Last, NEW j \in k..Last, DoomAt(k, j), Here = trace[k].pos
    PROVE  IF outcome' = "RUNNING" THEN IDoom' ELSE ~Succeeded(outcome')
<1>0. code' = code /\ instrs' = instrs /\ trace' = trace /\ Last' = Last
  BY DEF vars, analysisVars, Last
<1>1. TableOK /\ PosInv /\ Last \in Nat
  BY FieldTypes DEF IInv, ExactInv
<1>2. ~Begins(k) /\ trace[j].begin = trace[k].begin /\ trace[k].clean /\ Blocked(k, j)
  BY DEF DoomAt
<1>3. At = instrs[k].fn /\ At \in Byte /\ At # OP_JUMPDEST
  BY <1>1, <1>2, AtFacts DEF PosInv, Begins, RefOK
<1>4. /\ Succeeded(outcome') => At \in Terminators
      /\ outcome' = "RUNNING" =>
            /\ At \notin UndefinedOps /\ gas' \in Int /\ gas' <= gas - OpGas(At)
            /\ height' = height + stack_height_change[At]
            /\ At \notin Terminators => pc' = Onward
      /\ \/ At \in UndefinedOps
         \/ stack_height_change[At] > 0 /\ height = StackLimit
         \/ height < stack_height_required[At]
         \/ gas < OpGas(At)
         => outcome' # "RUNNING" /\ ~Succeeded(outcome')
  BY <1>1, AloneStep
<1>5. j \in 1..Last /\ k <= j /\ StackLimit \in Nat /\ height \in Nat /\ height <= StackLimit
      /\ gas \in Int
  BY <1>1, LimitsAssumption DEF RefInv
<1> PICK p, ck, cj, dk, dj, sk, sj : /\ p = trace[k].pos /\ ck = trace[k].cost
        /\ cj = trace[j].cost /\ dk = trace[k].change /\ dj = trace[j].change
        /\ sk = Spent(k) /\ sj = Spent(j)
  OBVIOUS
<1>6. /\ p \in Nat /\ ck \in Nat /\ cj \in Nat /\ dk \in Int /\ dj \in Int /\ sk \in Nat /\ sj \in Nat
      /\ instrs[j].fn \in Byte
  <2>1. trace[k].pos \in Nat /\ trace[k].cost \in Nat /\ trace[k].change \in Int /\ Spent(k) \in Nat
    BY <1>1, SlotTypes
  <2>2. trace[j].cost \in Nat /\ trace[j].change \in Int /\ Spent(j) \in Nat /\ instrs[j].fn \in Byte
    <3>1. j \in 1..Last
      BY <1>5
    <3> QED BY <1>1, <3>1, SlotTypes
  <2> QED BY <2>1, <2>2
<1>7. sk = OpGas(At)
  BY <1>2, <1>3 DEF Spent
<1> PICK rj, hj, hk : /\ rj = stack_height_required[instrs[j].fn]
                      /\ hj = stack_height_change[instrs[j].fn]
                      /\ hk = stack_height_change[At]
  OBVIOUS
<1>8. rj \in Int /\ hj \in Int /\ hk \in Int /\ hk <= 1
  BY <1>3, <1>6, TraitsFacts
<1>9. \/ instrs[j].fn \in UndefinedOps
      \/ gas - (p - p) < cj + sj - ck
      \/ height < rj - (dj - dk)
      \/ height + hj + (dj - dk) > StackLimit
  BY <1>2 DEF Blocked
<1>10. CASE k = j
  <2>1. cj = ck /\ dj = dk /\ sj = sk /\ rj = stack_height_required[At] /\ hj = hk
        /\ instrs[j].fn = At
    BY <1>3, <1>10
  <2>2. \/ At \in UndefinedOps
        \/ gas < OpGas(At)
        \/ height < stack_height_required[At]
        \/ stack_height_change[At] > 0 /\ height = StackLimit
    <3>1. gas - (p - p) < cj + sj - ck => gas < OpGas(At)
      <4>1. gas - (p - p) = gas /\ ck + sk - ck = sk
        BY <1>5, <1>6
      <4> QED BY <1>7, <2>1, <4>1
    <3>2. height < rj - (dj - dk) => height < stack_height_required[At]
      <4>1. rj - (dk - dk) = rj
        BY <1>6, <1>8
      <4> QED BY <2>1, <4>1
    <3>3. height + hj + (dj - dk) > StackLimit => hk > 0 /\ height = StackLimit
      <4>1. height + hk + (dk - dk) = height + hk
        BY <1>5, <1>6, <1>8
      <4>2. height + hk > StackLimit => hk > 0 /\ height = StackLimit
        BY <1>5, <1>8
      <4> QED BY <2>1, <4>1, <4>2
    <3> QED BY <1>9, <2>1, <3>1, <3>2, <3>3
  <2> QED BY <1>4, <2>2
<1>11. CASE k # j
  <2> PICK n : n = k + 1
    OBVIOUS
  <2>0. k < j
    BY <1>1, <1>5, <1>11
  <2>1. /\ n \in 1..Last /\ n <= j /\ ~Begins(n) /\ trace[n].begin = trace[k].begin
        /\ trace[n].cost = ck + sk /\ At \notin Terminators
        /\ At \notin UndefinedOps => trace[n].clean /\ trace[n].change = dk + hk
    BY <1>2, <1>3, <1>5, <2>0, NextInBlock
  <2>2. ASSUME outcome' = "RUNNING"
        PROVE  IDoom'
    <3>1. /\ gas' \in Int /\ gas' <= gas - sk /\ height' = height + hk /\ pc' = Onward
          /\ trace[n].clean /\ trace[n].change = dk + hk
      BY <1>4, <1>7, <2>1, <2>2
    <3> PICK h, g, gn, z, dn, cn : /\ h = Here' /\ g = gas /\ gn = gas' /\ z = height'
                                   /\ dn = trace[n].change /\ cn = trace[n].cost
      OBVIOUS
    <3>2. h = trace[n].pos /\ h \in Nat
      <4>1. trace[n].pos \in Nat
        <5>1. n \in 1..Last
          BY <2>1
        <5> QED BY <1>1, <5>1, SlotTypes
      <4> QED BY <1>0, <1>1, <1>2, <2>1, <3>1, <4>1, StepPos
    <3>3. gas - (p - p) < cj + sj - ck => gas' - (trace[n].pos - h) < cj + sj - trace[n].cost
      <4>1. g \in Int /\ gn \in Int /\ gn <= g - sk /\ cn = ck + sk
        BY <1>5, <2>1, <3>1
      <4>2. g - (p - p) < cj + sj - ck => gn - (h - h) < cj + sj - cn
        BY <1>6, <3>2, <4>1
      <4> QED BY <3>2, <4>2
    <3>4. height < rj - (dj - dk) => height' < rj - (dj - trace[n].change)
      <4> PICK y : y = height
        OBVIOUS
      <4>1. y \in Int /\ z = y + hk /\ dn = dk + hk
        BY <1>5, <3>1
      <4>2. y < rj - (dj - dk) => z < rj - (dj - dn)
        BY <1>6, <1>8, <4>1
      <4> QED BY <4>2
    <3>5. height + hj + (dj - dk) > StackLimit =>
             height' + hj + (dj - trace[n].change) > StackLimit
      <4> PICK y : y = height
        OBVIOUS
      <4>1. y \in Int /\ z = y + hk /\ dn = dk + hk
        BY <1>5, <3>1
      <4>2. y + hj + (dj - dk) = z + hj + (dj - dn)
        BY <1>6, <1>8, <4>1
      <4> QED BY <4>2
    <3>6. \A q \in h..(trace[n].pos - 1) : JumpdestAt(q)
      BY <3>2
    <3>7. h <= trace[n].pos /\ j \in n..Last /\ trace[j].begin = trace[n].begin
      BY <1>1, <1>2, <1>5, <2>1, <3>2
    <3>8. \/ instrs[j].fn \in UndefinedOps
          \/ gas' - (trace[n].pos - h) < trace[j].cost + Spent(j) - trace[n].cost
          \/ height' < stack_height_required[instrs[j].fn] - (trace[j].change - trace[n].change)
          \/ height' + stack_height_change[instrs[j].fn]
               + (trace[j].change - trace[n].change) > StackLimit
      BY <1>9, <3>3, <3>4, <3>5
    <3> QED BY <1>0, <2>1, <3>1, <3>6, <3>7, <3>8, DoomIntro
  <2>3. ~Succeeded(outcome')
    BY <1>4, <2>1
  <2> QED BY <2>2, <2>3
<1> QED BY <1>10, <1>11

\* The Baseline alone, after the Advanced interpreter has given up.
LEMMA LockAlone ==
    ASSUME IInv, ExactInv, LockInv, NoMstore8, PlainOutcomes, BaselineAlone
    PROVE  LockInv'
<1> PICK o \in Outcomes : Ref!Step(o)
  BY DEF BaselineAlone
<1>0. phase = "done" /\ UNCHANGED vars /\ code' = code /\ phase' = phase /\ ip' = ip
      /\ exit_code' = exit_code /\ space' = space
  BY DEF BaselineAlone, vars, analysisVars, stateVars
<1>1. TableOK /\ RefInv /\ EndInv /\ ip = 0
  BY <1>0 DEF IInv, LockInv
<1>2. /\ outcome = "RUNNING" /\ pc' \in Nat /\ gas' \in Int /\ height' \in 0..StackLimit
      /\ DOMAIN stack' = 1..StackLimit /\ (outcome' = "RUNNING" => gas' >= 0)
  BY <1>1, AloneStep
<1>3. ~Succeeded(exit_code) /\ (JDoom \/ IDoom)
  BY <1>0, <1>1, <1>2 DEF EndInv
<1>4. RefInv'
  BY <1>0, <1>1, <1>2 DEF RefInv
<1>5. IF outcome' = "RUNNING" THEN JDoom' \/ IDoom' ELSE ~Succeeded(outcome')
  <2>1. CASE IDoom
    <3>1. PICK k \in 1..Last : \E j \in k..Last : DoomAt(k, j)
      BY <2>1 DEF IDoom
    <3>2. PICK j \in k..Last : DoomAt(k, j)
      BY <3>1
    <3>3. CASE Here = trace[k].pos
      BY <1>0, <1>1, <3>2, <3>3, DoomInstr
    <3>4. CASE Here # trace[k].pos
      BY <1>0, <1>1, <3>2, <3>4, DoomJumpdest
    <3> QED BY <3>3, <3>4
  <2>2. CASE JDoom
    <3> PICK c, g : c = pc /\ g = gas
      OBVIOUS
    <3>1. PICK q \in 0..Len(code) : c <= q /\ Run(c, q + 1) /\ g < q - c + 1
      BY <2>2 DEF JDoom
    <3>2. c \in Nat /\ Len(code) \in Nat /\ q \in Nat /\ g \in Int
      BY <1>1, FieldTypes DEF RefInv
    <3>3. c \in c..((q + 1) - 1)
      BY <3>1, <3>2
    <3>4. JumpdestAt(c)
      BY <3>1, <3>3 DEF Run
    <3>5. Here = c
      BY <3>2, <3>4 DEF JumpdestAt, Here, Min2
    <3>6. At = OP_JUMPDEST
      BY <1>1, <3>4, <3>5, AtFacts
    <3>7. \/ outcome' = "OUT_OF_GAS"
          \/ g >= 1 /\ gas' = g - 1 /\ outcome' = "RUNNING" /\ pc' = c + 1
      BY <1>1, <3>6, StepJumpdest
    <3>8. CASE outcome' = "OUT_OF_GAS"
      BY <3>8 DEF Succeeded
    <3>9. CASE g >= 1 /\ gas' = g - 1 /\ outcome' = "RUNNING" /\ pc' = c + 1
      <4>1. c # q
        BY <3>1, <3>2, <3>9
      <4>2. c + 1 <= q /\ g - 1 < q - (c + 1) + 1
        BY <3>1, <3>2, <4>1
      <4>3. \A x \in (c + 1)..q : x \in c..((q + 1) - 1)
        BY <3>2
      <4>4. \A x \in pc'..q : JumpdestAt(x)
        BY <3>1, <3>9, <4>3 DEF Run
      <4>5. gas' < q - pc' + 1 /\ pc' <= q
        BY <3>9, <4>2
      <4>6. JDoom'
        BY <1>0, <3>2, <4>4, <4>5, JDoomIntro
      <4> QED BY <3>9, <4>6
    <3> QED BY <3>7, <3>8, <3>9
  <2> QED BY <1>3, <2>1, <2>2
<1>6. EndInv'
  BY <1>0, <1>3, <1>5 DEF EndInv, Agree, Succeeded
<1>7. StartInv' /\ MidInv' /\ (phase' = "done" => ip' = 0)
  BY <1>0, <1>1 DEF StartInv, MidInv
<1> QED BY <1>4, <1>6, <1>7 DEF LockInv


-----------------------------------------------------------------------------
\* The steps of the analysis.
LEMMA LockAnalysis ==
    ASSUME IInv, LockInv, LockAnalyze
    PROVE  LockInv'
<1>0. /\ pc' = pc /\ height' = height /\ stack' = stack /\ gas' = gas /\ outcome' = outcome
      /\ ip' = ip /\ size' = size /\ space' = space /\ gas_left' = gas_left
  BY DEF LockAnalyze, Analyze, refVars, stateVars
<1>1. TableOK /\ BoundInv /\ RefInv /\ StartInv
  BY DEF IInv, LockInv
<1>2. RefInv'
  BY <1>0, <1>1 DEF RefInv
<1>3. CASE AnalyzeOp
  <2>1. phase = "analyze" /\ phase' = "analyze" /\ trace'[1] = trace[1]
    <3>1. /\ phase = "analyze" /\ phase' = "analyze" /\ Last \in Nat /\ Last >= 1
          /\ \A i \in 1..Last : trace'[i] = trace[i]
      BY <1>1, <1>3, TurnView
    <3> QED BY <3>1
  <2>2. StartInv'
    BY <1>0, <1>1, <2>1 DEF StartInv
  <2>3. MidInv' /\ EndInv' /\ (phase' = "done" => ip' = 0)
    BY <2>1 DEF MidInv, EndInv
  <2> QED BY <1>2, <2>2, <2>3 DEF LockInv
<1>4. CASE FinishAnalysis
  <2>1. /\ phase = "analyze" /\ phase' = "execute" /\ code' = code
        /\ instrs'[1].fn = instrs[1].fn /\ trace'[1] = trace[1]
    <3>1. /\ phase = "analyze" /\ phase' = "execute" /\ code' = code /\ Last \in Nat /\ Last >= 1
          /\ \A i \in 1..Last : instrs'[i].fn = instrs[i].fn /\ trace'[i] = trace[i]
      BY <1>1, <1>4, EndView
    <3> QED BY <3>1
  <2>2. ip = 1 /\ size = 0 /\ instrs[1].fn = OP_JUMPDEST /\ Len(code) \in Nat
    BY <1>1, <2>1, FieldTypes DEF TableOK, OpenInv, TableInv
  <2>3. pc = 0 /\ height = 0 /\ gas = gas_left /\ outcome = "RUNNING" /\ trace[1].pos = 0
    BY <1>1, <2>1 DEF StartInv
  <2>4. gas \in Int /\ gas >= 0
    BY <1>1, <2>3 DEF RefInv
  <2>5. Begins(ip)' /\ Pos' = 0 /\ Here' = 0
    BY <1>0, <2>1, <2>2, <2>3 DEF Begins, Pos, Here, Min2
  <2>6. Same'
    BY <1>0, <2>2, <2>3 DEF Same
  <2>7. Run(Here, Pos)' /\ Run(Pos, Here)'
    BY <2>5 DEF Run
  <2>8. gas' = gas_left' + (Pos' - Here')
    <3>1. gas = gas_left + (0 - 0)
      BY <2>3, <2>4
    <3> QED BY <1>0, <2>5, <3>1
  <2>9. AtBegin'
    BY <1>0, <2>3, <2>7, <2>8 DEF AtBegin
  <2>10. MidInv'
    BY <1>0, <2>3, <2>4, <2>5, <2>6, <2>9 DEF MidInv
  <2>11. StartInv' /\ EndInv' /\ (phase' = "done" => ip' = 0)
    BY <1>0, <2>1, <2>2 DEF StartInv, EndInv
  <2> QED BY <1>2, <2>10, <2>11 DEF LockInv
<1> QED BY <1>3, <1>4 DEF LockAnalyze, Analyze

\* The end of the execution, and nothing at all.
LEMMA LockKept ==
    ASSUME LockInv, UNCHANGED refVars,
           UNCHANGED <<code, instrs, trace, ip, size, space, gas_left, current_block_cost, exit_code>>,
           phase' = phase \/ (phase = "execute" /\ ip = 0 /\ phase' = "done")
    PROVE  LockInv'
<1>0. /\ pc' = pc /\ height' = height /\ stack' = stack /\ gas' = gas /\ outcome' = outcome
      /\ code' = code /\ instrs' = instrs /\ trace' = trace /\ ip' = ip /\ size' = size
      /\ space' = space /\ gas_left' = gas_left /\ current_block_cost' = current_block_cost
      /\ exit_code' = exit_code
  BY DEF refVars
<1>1. RefInv'
  BY <1>0 DEF LockInv, RefInv
<1>2. StartInv'
  BY <1>0 DEF LockInv, StartInv
<1>3. JDoom => JDoom'
  BY <1>0 DEF JDoom, Run, JumpdestAt
<1>4. IDoom => IDoom'
  BY <1>0 DEF IDoom, DoomAt, Blocked, Begins, Last, Here, Run, JumpdestAt, Spent, OpGas, Lands
<1>5. EndInv'
  BY <1>0, <1>3, <1>4 DEF LockInv, EndInv, Agree
<1>6. MidInv'
  <2>1. ip # 0 => phase' = phase
    OBVIOUS
  <2>2. (Same => Same') /\ (AtBegin => AtBegin') /\ (AtInstr => AtInstr') /\ (Begins(ip)' <=> Begins(ip))
    BY <1>0 DEF Same, AtBegin, AtInstr, Begins, Here, Pos, Run, JumpdestAt
  <2> QED BY <1>0, <2>1, <2>2 DEF LockInv, MidInv
<1> QED BY <1>0, <1>1, <1>2, <1>5, <1>6 DEF LockInv

LEMMA InitLock == LockInit => LockInv
<1> SUFFICES ASSUME LockInit PROVE LockInv
  OBVIOUS
<1>1. /\ phase = "analyze" /\ trace[1].pos = 0 /\ gas_left \in GasLimits
      /\ space = [i \in 1..StackLimit |-> 0]
      /\ pc = 0 /\ height = 0 /\ stack = [i \in 1..StackLimit |-> 0]
      /\ gas = gas_left /\ outcome = "RUNNING"
  BY DEF LockInit, Init, AnalysisInit, Ref!RefInit, TraceBegin
<1>2. gas \in Nat /\ StackLimit \in Nat
  BY <1>1, LimitsAssumption
<1> QED BY <1>1, <1>2 DEF LockInv, RefInv, StartInv, MidInv, EndInv

\* A step of the comparison is one of the Advanced interpreter, or none.
LEMMA LockNextIsNext ==
    ASSUME Outcomes # {}, [LockNext]_lockVars
    PROVE  [Next]_vars
<1>1. CASE LockAnalyze
  BY <1>1 DEF LockAnalyze, Next
<1>2. CASE BlockEntry
  BY <1>2 DEF BlockEntry, Next, Execute
<1>3. CASE Together
  BY <1>3 DEF Together, Next
<1>4. CASE LockFinish
  BY <1>4 DEF LockFinish, Next
<1>5. CASE JumpdestAlone \/ BaselineAlone
  BY <1>5 DEF JumpdestAlone, BaselineAlone
<1>6. CASE BothDone \/ UNCHANGED lockVars
  BY <1>6 DEF BothDone, lockVars
<1> QED BY <1>1, <1>2, <1>3, <1>4, <1>5, <1>6 DEF LockNext

\* LockInv is inductive, under the invariants of the table.
LEMMA LockStep ==
    ASSUME Comparable, IInv, IInv', ExactInv, JumpInv, LockInv, JumpsTrue, DestructFunded,
           [LockNext]_lockVars
    PROVE  LockInv'
<1>0. NoMstore8 /\ Addressable /\ PlainOutcomes
  BY DEF Comparable
<1>1. CASE LockAnalyze
  BY <1>1, LockAnalysis
<1>2. CASE BlockEntry
  <2>1. opx_beginblock /\ UNCHANGED refVars
    BY <1>2 DEF BlockEntry
  <2>2. CASE ip' = ip + 1
    BY <2>1, <2>2, LockEntry
  <2>3. CASE ip' # ip + 1
    BY <2>1, <2>3, LockEntryFail
  <2> QED BY <2>2, <2>3
<1>3. CASE Together
  BY <1>0, <1>3, LockTogether
<1>4. CASE JumpdestAlone
  <2>1. PICK o \in Outcomes : Ref!Step(o)
    BY <1>4 DEF JumpdestAlone
  <2>2. phase = "execute" /\ ip # 0 /\ UNCHANGED vars /\ At = OP_JUMPDEST
    BY <1>4 DEF JumpdestAlone, At
  <2> QED BY <1>0, <2>1, <2>2, LockJumpdest
<1>5. CASE BaselineAlone
  BY <1>0, <1>5, LockAlone
<1>6. CASE LockFinish
  BY <1>6, LockKept DEF LockFinish, Finish
<1>7. CASE BothDone \/ UNCHANGED lockVars
  BY <1>7, LockKept DEF BothDone, lockVars, vars, analysisVars, stateVars
<1> QED BY <1>1, <1>2, <1>3, <1>4, <1>5, <1>6, <1>7 DEF LockNext


-----------------------------------------------------------------------------
(***************************************************************************)
(* The theorems.  JumpsTrue and DestructFunded exclude the two places      *)
(* where the port is known to differ: they are hypotheses on the run, not  *)
(* on the constants.                                                       *)
(***************************************************************************)

LEMMA LockstepInvariant ==
    Comparable =>
        (LockSpec /\ [](CastsFit /\ JumpsTrue /\ DestructFunded)
            => [](IInv /\ ExactInv /\ JumpInv /\ LockInv))
<1> SUFFICES ASSUME Comparable
             PROVE  LockSpec /\ [](CastsFit /\ JumpsTrue /\ DestructFunded)
                       => [](IInv /\ ExactInv /\ JumpInv /\ LockInv)
  OBVIOUS
<1> DEFINE All == IInv /\ ExactInv /\ JumpInv /\ LockInv
           True == CastsFit /\ JumpsTrue /\ DestructFunded
<1>1. LockInit => All
  <2>1. LockInit => Init
    BY DEF LockInit
  <2> QED BY <2>1, InitCovered, InitExact, JumpInit, InitLock
<1>2. All /\ True /\ [LockNext]_lockVars => All'
  <2> SUFFICES ASSUME All, True, [LockNext]_lockVars PROVE All'
    OBVIOUS
  <2>1. Outcomes # {} /\ CastsFit /\ StackFits /\ TableOK /\ BoundInv
    BY DEF Comparable, PlainOutcomes, CastsFit, IInv
  <2>2. [Next]_vars
    BY <2>1, LockNextIsNext
  <2>3. IInv' /\ ExactInv' /\ JumpInv'
    BY <2>1, <2>2, CoveredStep, ExactStep, JumpStep
  <2>4. LockInv'
    BY <2>3, LockStep
  <2> QED BY <2>3, <2>4
<1> HIDE DEF All, True
<1>3. LockSpec /\ []True => []All
  BY <1>1, <1>2, PTL DEF LockSpec
<1> QED BY <1>3 DEF All, True

\* find_jumpdest knows every jump destination: when the analysis is over, the
\* jump table has exactly the positions that evmone's analyze() marks, the
\* JUMPDEST bytes that are not data of a PUSH.
JumpTableComplete == phase # "analyze" => JumpSet = Ref!jumpdest_map

\* For every bytecode, analyze() of the port and of evmone find the same
\* destinations.
THEOREM JumpTablesAgree == Spec => []JumpTableComplete
<1>1. Init => BoundInv /\ JumpInv
  BY InitCovered, JumpInit DEF IInv
<1>2. TableOK /\ BoundInv /\ JumpInv /\ [Next]_vars => BoundInv' /\ JumpInv'
  BY BoundStep, JumpStep
<1>3. TableOK /\ JumpInv => JumpTableComplete
  BY JumpsComplete DEF JumpTableComplete
<1> QED BY <1>1, <1>2, <1>3, TableInvariant, PTL DEF Spec

\* The port executes no instruction that the Baseline would not reach: the
\* check of opx_beginblock lets no block begin that fails within an instruction
\* the block would run before its end.
THEOREM NeverAheadOfBaseline ==
    Comparable => (LockSpec /\ [](CastsFit /\ JumpsTrue /\ DestructFunded) => []NeverAhead)
<1>1. LockInv => NeverAhead
  <2> SUFFICES ASSUME LockInv, phase = "execute", ip # 0, Instr.fn # OP_JUMPDEST
               PROVE  outcome = "RUNNING"
    BY DEF NeverAhead
  <2>1. ~Begins(ip)
    BY DEF Begins, Instr
  <2> QED BY <2>1 DEF LockInv, MidInv, AtInstr
<1> QED BY <1>1, LockstepInvariant, PTL

\* Within a block the two have the same stack, and the port's gas is the exact
\* gas less what the block has prepaid: what op_gas, op_sstore and op_call
\* correct for.
THEOREM InStepWithBaseline ==
    Comparable => (LockSpec /\ [](CastsFit /\ JumpsTrue /\ DestructFunded) => []InStep)
<1>1. IInv /\ LockInv => InStep
  <2> SUFFICES ASSUME IInv, LockInv, Aligned, phase = "execute", Instr.fn # OP_JUMPDEST
               PROVE  /\ gas = gas_left + Prepaid /\ height = size
                      /\ \A i \in 1..size : stack[i] = space[i]
    BY DEF InStep
  <2>1. ip # 0 /\ ~Begins(ip) /\ Here = Pos
    BY DEF Aligned, Begins, Instr, Here, Pos
  <2>2. AtInstr /\ Same
    BY <2>1 DEF LockInv, MidInv
  <2>3. Here \in Nat /\ gas_left \in Int /\ current_block_cost \in Int /\ trace[ip].cost \in Int
    <3>1. TableOK /\ RefInv /\ ip \in 1..Last
      BY <2>1 DEF IInv, LockInv, TableOK, TypeOK, Last
    <3>2. Len(code) \in Nat /\ trace[ip].cost \in Nat
      BY <3>1, FieldTypes
    <3>3. pc \in Nat /\ gas_left \in Int /\ current_block_cost \in Int
      BY <3>1 DEF TableOK, TypeOK, RefInv
    <3> QED BY <3>2, <3>3 DEF Here, Min2
  <2> PICK gl, cb, co, h : /\ gl = gas_left /\ cb = current_block_cost /\ co = trace[ip].cost
                           /\ h = Here
    OBVIOUS
  <2>4. gas = gl + (cb - co) + (h - h)
    BY <2>1, <2>2 DEF AtInstr
  <2>5. gas = gl + (cb - co)
    BY <2>3, <2>4
  <2> QED BY <2>2, <2>5 DEF Same, Prepaid
<1> QED BY <1>1, LockstepInvariant, PTL

\* Checking gas and stack once per block is not observable: when both have
\* stopped, they have both succeeded, with the same status and gas, or both
\* failed.
THEOREM OutcomesAgree ==
    Comparable => (LockSpec /\ [](CastsFit /\ JumpsTrue /\ DestructFunded) => []OutcomeAgrees)
<1>1. LockInv => OutcomeAgrees
  BY DEF LockInv, EndInv, Agree, OutcomeAgrees
<1> QED BY <1>1, LockstepInvariant, PTL
=============================================================================
