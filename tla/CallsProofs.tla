----------------------------- MODULE CallsProofs -----------------------------
(***************************************************************************)
(* Theorems about Memory, for all widths, prices, operands and gas limits, *)
(* and about Calls: what is shown of the instructions that access memory   *)
(* holds with calls and creates between them, and the gas of the caller    *)
(* stays between nothing and its limit.                                    *)
(***************************************************************************)
EXTENDS Calls, TLAPS

-----------------------------------------------------------------------------
(***************************************************************************)
(* Memory: the instructions outside the call family, and Spec, their       *)
(* behaviours.                                                             *)
(***************************************************************************)

Mem == [m_data : BOOLEAN, m_size : Nat, m_capacity : Nat \ {0}]
Outs == {"SUCCESS", "OUT_OF_GAS", "PANIC"}

\* The block that is allocated holds the memory.
Backed(m) == m.m_size <= m.m_capacity /\ (m.m_size > 0 => m.m_data)

Tight(m) == m.m_capacity <= 2 * m.m_size + PageSize

\* The gas and what was paid for the memory.
Paid(gas, m) == gas + words_cost(m.m_size \div WordBytes)

Total == Paid(gas_left, memory)

MInv ==
    /\ TypeOK
    /\ GasConserved
    /\ CapacityTight
    /\ status \in Alive => Backed(memory)

\* What a memory check may leave of a total of gas and memory.
Sound(s, total) ==
    /\ s.memory \in Mem /\ s.memory.m_size % WordBytes = 0
    /\ s.gas \in Int /\ s.out \in Outs
    /\ s.out = "SUCCESS" =>
          /\ Backed(s.memory) /\ Tight(s.memory)
          /\ Paid(s.gas, s.memory) = total

\* No size operand is so large that the sum with an offset wraps; for the real
\* widths, sizes below 2^64 - 2^32 - 31.
RangesFit ==
    /\ MaxBuffer + 2 * WordBytes <= Limb
    /\ \A size \in Sizes : MaxBuffer + size.low + WordBytes <= Limb

BInv == MInv /\ (RangesFit => InBounds)

-----------------------------------------------------------------------------
\* Facts of arithmetic.
LEMMA ProductDiv ==
    ASSUME NEW n \in Nat, NEW w \in Nat \ {0}
    PROVE  n * w \in Nat /\ (n * w) \div w = n /\ (n * w) % w = 0
<1> DEFINE q == (n * w) \div w
           r == (n * w) % w
<1>1. n * w \in Nat
  OBVIOUS
<1>2. q \in Int /\ r \in 0..(w - 1) /\ n * w = w * q + r
  BY <1>1
<1> HIDE DEF q, r
<1>3. ~(q < n)
  <2> SUFFICES ASSUME q < n PROVE FALSE
    OBVIOUS
  <2>1. w * (n - q) >= w
    BY <1>2
  <2>2. w * (n - q) = r
    BY <1>2
  <2> QED BY <1>2, <2>1, <2>2
<1>4. ~(q > n)
  <2> SUFFICES ASSUME q > n PROVE FALSE
    OBVIOUS
  <2>1. w * (q - n) >= w
    BY <1>2
  <2>2. w * (q - n) = 0 - r
    BY <1>2
  <2> QED BY <1>2, <2>1, <2>2
<1>5. q = n
  BY <1>2, <1>3, <1>4
<1>6. r = 0
  BY <1>2, <1>5
<1> QED BY <1>1, <1>5, <1>6 DEF q, r

\* Rounding up to a multiple of w.
LEMMA RoundUp ==
    ASSUME NEW n \in Nat, NEW w \in Nat \ {0}
    PROVE  LET q == (n + (w - 1)) \div w
           IN  q \in Nat /\ q * w >= n /\ q * w <= n + w - 1 /\ q <= n
<1> DEFINE q == (n + (w - 1)) \div w
           r == (n + (w - 1)) % w
<1>1. q \in Int /\ r \in 0..(w - 1) /\ n + (w - 1) = w * q + r
  OBVIOUS
<1> HIDE DEF q, r
<1>2. q * w = w * q
  BY <1>1
<1>3. q * w >= n /\ q * w <= n + w - 1
  BY <1>1, <1>2
<1>4. q >= 0
  <2> SUFFICES ASSUME q < 0 PROVE FALSE
    BY <1>1
  <2>1. w * (0 - q) >= w
    BY <1>1
  <2>2. w * (0 - q) = 0 - w * q
    BY <1>1
  <2> QED BY <1>1, <2>1, <2>2
<1>5. q <= n
  <2> SUFFICES ASSUME q >= n + 1 PROVE FALSE
    BY <1>1
  <2>1. w * (q - (n + 1)) >= 0
    BY <1>1
  <2>2. w * (q - (n + 1)) = w * q - w * n - w
    BY <1>1
  <2>3. w * n >= n
    <3>1. (w - 1) * n >= 0
      OBVIOUS
    <3>2. (w - 1) * n = w * n - n
      OBVIOUS
    <3> QED BY <3>1, <3>2
  <2> QED BY <1>1, <2>1, <2>2, <2>3
<1> QED BY <1>1, <1>3, <1>4, <1>5 DEF q

LEMMA Integers64 ==
    ASSUME NEW x \in Int
    PROVE  Int64(x) \in Int
<1>1. Limb \in Nat \ {0}
  BY MemoryAssumption
<1>2. Limb \div 2 \in Int /\ (x + Limb \div 2) % Limb \in Int
  BY <1>1
<1> QED BY <1>2 DEF Int64

LEMMA WordsType ==
    ASSUME NEW n \in Nat
    PROVE  num_words(n) \in Nat
<1>1. Limb \in Nat \ {0} /\ WordBytes \in Nat \ {0}
  BY MemoryAssumption
<1>2. (n + (WordBytes - 1)) % Limb \in Nat
  BY <1>1
<1> QED BY <1>1, <1>2 DEF num_words

LEMMA CostType ==
    ASSUME NEW w \in Nat
    PROVE  words_cost(w) \in Int
<1>1. Int64(w * w) \in Int
  BY Integers64
<1>2. ASSUME NEW x \in Int PROVE Quotient(x, QuadDivisor) \in Int
  BY MemoryAssumption DEF Quotient
<1>3. 3 * w + Quotient(Int64(w * w), QuadDivisor) \in Int
  BY <1>1, <1>2
<1> QED BY <1>3, Integers64 DEF words_cost

-----------------------------------------------------------------------------
\* The capacity covers the size and is at most twice as large, or a page more.
LEMMA CapacityFacts ==
    ASSUME NEW cap \in Nat \ {0}, NEW old \in Nat, NEW new \in Nat, old < new,
           cap <= 2 * old + PageSize
    PROVE  LET c == GrownCapacity(cap, new)
           IN  c \in Nat \ {0} /\ new <= c /\ c <= 2 * new + PageSize
<1> USE MemoryAssumption
<1>1. CASE new <= cap
  BY <1>1 DEF GrownCapacity
<1>2. CASE new > cap /\ 2 * cap >= new
  BY <1>2 DEF GrownCapacity
<1>3. CASE new > cap /\ 2 * cap < new
  <2> DEFINE q == (new + (PageSize - 1)) \div PageSize
  <2>1. q \in Nat /\ q * PageSize >= new /\ q * PageSize <= new + PageSize - 1
    BY RoundUp
  <2>2. GrownCapacity(cap, new) = q * PageSize
    BY <1>3 DEF GrownCapacity
  <2> HIDE DEF q
  <2>3. q * PageSize \in Nat
    BY <2>1
  <2> QED BY <1>3, <2>1, <2>2, <2>3
<1> QED BY <1>1, <1>2, <1>3

\* The capacity has its type whatever memory there is.
LEMMA CapacityType ==
    ASSUME NEW cap \in Nat \ {0}, NEW new \in Nat
    PROVE  GrownCapacity(cap, new) \in Nat \ {0}
<1> USE MemoryAssumption
<1>1. CASE new <= cap \/ 2 * cap >= new
  BY <1>1 DEF GrownCapacity
<1>2. CASE new > cap /\ 2 * cap < new
  <2> DEFINE q == (new + (PageSize - 1)) \div PageSize
  <2>1. q \in Nat /\ q * PageSize >= new
    BY RoundUp
  <2>2. GrownCapacity(cap, new) = q * PageSize
    BY <1>2 DEF GrownCapacity
  <2> HIDE DEF q
  <2>3. q * PageSize \in Nat
    BY <2>1
  <2> QED BY <1>2, <2>1, <2>2, <2>3
<1> QED BY <1>1, <1>2

\* Memory_grow: the memory has the new size, and is backed by the new block, if
\* it lives.
LEMMA GrowFacts ==
    ASSUME NEW s, s.memory \in Mem, s.gas \in Int, NEW new \in Nat, NEW alloc \in BOOLEAN
    PROVE  LET g == Memory_grow(s, new, alloc)
           IN  /\ g.memory \in Mem /\ g.memory.m_size = new
               /\ g.gas = s.gas /\ g.out \in Outs
               /\ g.out = "SUCCESS" /\ Tight(s.memory) => Backed(g.memory) /\ Tight(g.memory)
<1> DEFINE cap == GrownCapacity(s.memory.m_capacity, new)
           data == IF cap = s.memory.m_capacity THEN s.memory.m_data ELSE alloc
           g == Memory_grow(s, new, alloc)
<1>1. cap \in Nat \ {0}
  BY CapacityType DEF Mem
<1>2. data \in BOOLEAN
  BY DEF Mem
<1>3. /\ g.memory = [m_data |-> data, m_size |-> new, m_capacity |-> cap]
      /\ g.gas = s.gas
      /\ g.out = IF ~data \/ new <= s.memory.m_size THEN "PANIC" ELSE "SUCCESS"
  BY DEF Memory_grow, After
<1> HIDE DEF g, data
<1>4. g.memory \in Mem
  BY <1>1, <1>2, <1>3 DEF Mem
<1>5. ASSUME g.out = "SUCCESS", Tight(s.memory) PROVE Backed(g.memory) /\ Tight(g.memory)
  <2>1. data /\ ~(new <= s.memory.m_size)
    BY <1>2, <1>3, <1>5
  <2>2. new <= cap /\ cap <= 2 * new + PageSize
    BY <1>5, <2>1, CapacityFacts DEF Mem, Tight
  <2> QED BY <1>3, <2>1, <2>2 DEF Backed, Tight
<1> QED BY <1>3, <1>4, <1>5 DEF g, Outs

\* grow_memory takes exactly the difference between the two costs, and a memory
\* of whole words is left.
LEMMA GrowMemoryFacts ==
    ASSUME NEW s, NEW total, Sound(s, total), s.out = "SUCCESS", NEW n \in Nat, NEW alloc \in BOOLEAN
    PROVE  Sound(grow_memory(s, n, alloc), total)
<1> USE MemoryAssumption
<1> DEFINE words == num_words(n)
           now == s.memory.m_size \div WordBytes
           gas == s.gas - (words_cost(words) - words_cost(now))
           t == After("SUCCESS", gas, s.memory)
           g == Memory_grow(t, words * WordBytes, alloc)
<1>1. words \in Nat
  BY WordsType
<1>2. s.memory \in Mem /\ s.gas \in Int /\ s.memory.m_size \in Nat
  BY DEF Sound, Mem
<1>3. now \in Nat
  BY <1>2
<1>4. words_cost(words) \in Int /\ words_cost(now) \in Int
  BY <1>1, <1>3, CostType
<1>5. gas \in Int
  BY <1>2, <1>4
<1>6. grow_memory(s, n, alloc) = IF gas < 0 THEN After("OUT_OF_GAS", gas, s.memory) ELSE g
  BY DEF grow_memory
<1>7. words * WordBytes \in Nat /\ (words * WordBytes) \div WordBytes = words
      /\ (words * WordBytes) % WordBytes = 0
  BY <1>1, ProductDiv
<1>8. t.memory = s.memory /\ t.gas = gas
  BY DEF After
<1>9. /\ g.memory \in Mem /\ g.memory.m_size = words * WordBytes
      /\ g.gas = gas /\ g.out \in Outs
      /\ g.out = "SUCCESS" => Backed(g.memory) /\ Tight(g.memory)
  <2> HIDE DEF words, gas, t
  <2> QED BY <1>2, <1>5, <1>7, <1>8, GrowFacts DEF Sound
<1> HIDE DEF words, now, t
<1>10. Paid(g.gas, g.memory) = Paid(s.gas, s.memory)
  <2>1. Paid(g.gas, g.memory) = gas + words_cost(words)
    BY <1>7, <1>9 DEF Paid
  <2>2. Paid(s.gas, s.memory) = s.gas + words_cost(now)
    BY DEF Paid, now
  <2> QED BY <1>2, <1>4, <2>1, <2>2
<1> HIDE DEF g, gas
<1>11. Sound(g, total)
  BY <1>5, <1>7, <1>9, <1>10 DEF Sound
<1>12. Sound(After("OUT_OF_GAS", gas, s.memory), total)
  BY <1>2, <1>5 DEF Sound, After, Outs
<1> QED BY <1>6, <1>11, <1>12

\* The two checks.
LEMMA CheckU64 ==
    ASSUME NEW s, NEW total, Sound(s, total), s.out = "SUCCESS", NEW offset \in Operand, NEW size \in Nat,
           NEW alloc \in BOOLEAN
    PROVE  Sound(check_memory_u64(s, offset, size, alloc), total)
<1> DEFINE n == (offset.low + size) % Limb
<1>1. n \in Nat
  BY MemoryAssumption DEF Operand
<1>2. Sound(After("OUT_OF_GAS", s.gas, s.memory), total)
  BY DEF Sound, After, Outs
<1>3. Sound(grow_memory(s, n, alloc), total)
  <2> HIDE DEF n
  <2> QED BY <1>1, GrowMemoryFacts
<1> QED BY <1>2, <1>3 DEF check_memory_u64

LEMMA CheckU256 ==
    ASSUME NEW s, NEW total, Sound(s, total), s.out = "SUCCESS", NEW offset \in Operand, NEW size \in Operand,
           NEW alloc \in BOOLEAN
    PROVE  Sound(check_memory_u256(s, offset, size, alloc), total)
<1>1. Sound(After("OUT_OF_GAS", s.gas, s.memory), total)
  BY DEF Sound, After, Outs
<1>2. size.low \in Nat
  BY MemoryAssumption DEF Operand
<1>3. Sound(check_memory_u64(s, offset, size.low, alloc), total)
  BY <1>2, CheckU64
<1> QED BY <1>1, <1>3 DEF check_memory_u256

\* Before the check all is as the invariant says.
LEMMA BeforeSound ==
    ASSUME MInv, status = "RUNNING"
    PROVE  Sound(Before, Total) /\ Before.out = "SUCCESS"
  BY DEF MInv, TypeOK, Sound, Before, After, Mem, Outs, Alive, Tight, CapacityTight, Total

-----------------------------------------------------------------------------
Statuses == Alive \cup {"OUT_OF_GAS", "STATIC_MODE_VIOLATION", "PANIC"}
Ranges == [from : Nat, len : Nat, size : Operand]

\* An instruction after its memory check: the charge goes to dynamic.
LEMMA AccessKeeps ==
    ASSUME MInv, NEW c, Sound(c, Total), NEW charge \in Int, NEW range \in Ranges,
           NEW ends \in SUBSET Statuses, Access(c, charge, range, ends)
    PROVE  MInv'
<1> USE DEF Access
<1>1. TypeOK /\ status = "RUNNING"
  BY DEF MInv
<1>2. memory' = c.memory /\ c.memory \in Mem /\ c.memory.m_size % WordBytes = 0
      /\ c.gas \in Int /\ c.out \in Outs /\ limit' = limit /\ static' = static
  BY DEF Sound
<1>3. gas_left' \in Int /\ dynamic' \in Int
  BY <1>1, <1>2 DEF TypeOK
<1>4. status' \in Statuses /\ touched' \in Ranges
  <2>1. CASE c.out # "SUCCESS"
    BY <1>1, <1>2, <2>1 DEF TypeOK, Outs, Statuses, Ranges
  <2>2. CASE c.out = "SUCCESS"
    BY <1>1, <2>2 DEF TypeOK, Statuses, Ranges
  <2> QED BY <2>1, <2>2
<1>5. TypeOK'
  BY <1>1, <1>2, <1>3, <1>4 DEF TypeOK, Mem, Statuses, Ranges
<1>6. ASSUME status' \in Alive
      PROVE  GasConserved' /\ CapacityTight' /\ Backed(memory)'
  <2>1. c.out = "SUCCESS"
    BY <1>2, <1>6 DEF Outs, Alive
  <2>2. gas_left' = c.gas - charge /\ dynamic' = dynamic + charge
    BY <2>1
  <2>3. Backed(c.memory) /\ Tight(c.memory) /\ Paid(c.gas, c.memory) = Paid(gas_left, memory)
    BY <2>1 DEF Sound, Total
  <2>4. Paid(gas_left, memory) + dynamic = limit
    <3>1. gas_left + words_cost(memory.m_size \div WordBytes) + dynamic = limit
      BY <1>1 DEF MInv, GasConserved, Alive
    <3> QED BY <3>1 DEF Paid
  <2>5. words_cost(c.memory.m_size \div WordBytes) \in Int
    <3>1. c.memory.m_size \div WordBytes \in Nat
      BY <1>2, MemoryAssumption DEF Mem
    <3> QED BY <3>1, CostType
  <2>6. c.gas - charge + words_cost(c.memory.m_size \div WordBytes) + (dynamic + charge) = limit
    <3>1. c.gas + words_cost(c.memory.m_size \div WordBytes) + dynamic = limit
      BY <2>3, <2>4 DEF Paid
    <3> QED BY <1>1, <1>2, <2>5, <3>1 DEF TypeOK
  <2>7. GasConserved'
    BY <1>2, <2>2, <2>6 DEF GasConserved
  <2> QED BY <1>2, <2>3, <2>7 DEF CapacityTight, Tight
<1>7. status' \notin Alive => GasConserved' /\ CapacityTight'
  BY DEF GasConserved, CapacityTight
<1> QED BY <1>5, <1>6, <1>7 DEF MInv

LEMMA StaticModeKeeps ==
    ASSUME MInv, StaticMode
    PROVE  MInv'
  BY DEF StaticMode, MInv, TypeOK, GasConserved, CapacityTight, Alive

\* What the instructions charge and access has its type.
LEMMA OperandFacts ==
    ASSUME NEW offset \in Operand, NEW size \in Operand
    PROVE  /\ Range(offset, size, size.low) \in Ranges
           /\ Range(offset, size, num_words(size.low)) \in Ranges
           /\ Int64(num_words(size.low) * 6) \in Int /\ copy_cost(size) \in Int
           /\ Int64(size.low * 8) \in Int
<1>1. size.low \in Nat /\ offset.low \in Nat
  BY MemoryAssumption DEF Operand
<1>2. num_words(size.low) \in Nat
  BY <1>1, WordsType
<1>3. Int64(num_words(size.low) * 6) \in Int /\ copy_cost(size) \in Int
  BY <1>2, Integers64 DEF copy_cost
<1>4. Int64(size.low * 8) \in Int
  BY <1>1, Integers64
<1> QED BY <1>1, <1>2, <1>3, <1>4 DEF Range, Ranges

LEMMA WordFacts ==
    /\ [low |-> WordBytes, high |-> FALSE] \in Operand
    /\ Untouched \in Ranges
  BY MemoryAssumption DEF Operand, Untouched, Ranges

LEMMA MInvInit == Init => MInv
<1> SUFFICES ASSUME Init PROVE MInv
  OBVIOUS
<1> USE MemoryAssumption
<1>1. TypeOK
  <2>1. 0 % WordBytes = 0
    OBVIOUS
  <2> QED BY <2>1, WordFacts DEF Init, TypeOK, Alive, Ranges
<1>2. words_cost(0) = 0
  <2>1. Int64(0) = 0
    <3>1. Limb \div 2 \in 0..(Limb - 1)
      OBVIOUS
    <3>2. (Limb \div 2) % Limb = Limb \div 2
      BY <3>1
    <3> QED BY <3>1, <3>2 DEF Int64
  <2>2. Quotient(0, QuadDivisor) = 0
    BY DEF Quotient
  <2> QED BY <2>1, <2>2 DEF words_cost
<1>3. GasConserved
  <2>1. memory.m_size \div WordBytes = 0
    BY DEF Init
  <2> QED BY <1>2, <2>1 DEF Init, GasConserved
<1>4. CapacityTight /\ Backed(memory)
  BY DEF Init, CapacityTight, Backed
<1> QED BY <1>1, <1>3, <1>4 DEF MInv

-----------------------------------------------------------------------------
\* Past the check, the whole range is part of the memory.
LEMMA Reaches64 ==
    ASSUME NEW s, NEW total, Sound(s, total), NEW offset \in Operand, NEW size \in Nat, NEW alloc \in BOOLEAN,
           MaxBuffer + size + WordBytes <= Limb,
           check_memory_u64(s, offset, size, alloc).out = "SUCCESS"
    PROVE  offset.low + size <= check_memory_u64(s, offset, size, alloc).memory.m_size
<1> USE MemoryAssumption
<1> DEFINE n == offset.low + size
           c == check_memory_u64(s, offset, size, alloc)
           g == grow_memory(s, n, alloc)
<1>1. offset.low \in Nat /\ n \in Nat
  BY DEF Operand
<1>2. ~BadOffset(offset)
  BY DEF check_memory_u64, After
<1>3. offset.low <= MaxBuffer
  BY <1>1, <1>2 DEF BadOffset
<1>4. n % Limb = n /\ n + (WordBytes - 1) \in 0..(Limb - 1)
  BY <1>1, <1>3
<1>5. c = IF n > s.memory.m_size THEN g ELSE s
  BY <1>2, <1>4 DEF check_memory_u64
<1>6. s.memory.m_size \in Nat
  BY DEF Sound, Mem
<1>7. CASE n > s.memory.m_size
  <2>1. g.out = "SUCCESS"
    BY <1>5, <1>7
  <2>2. g.memory.m_size = num_words(n) * WordBytes
    BY <2>1 DEF grow_memory, Memory_grow, After
  <2>3. num_words(n) = (n + (WordBytes - 1)) \div WordBytes
    BY <1>4 DEF num_words
  <2>4. num_words(n) * WordBytes >= n
    BY <1>1, <2>3, RoundUp
  <2> QED BY <1>5, <1>7, <2>2, <2>4
<1>8. CASE ~(n > s.memory.m_size)
  BY <1>1, <1>5, <1>6, <1>8
<1> QED BY <1>7, <1>8

LEMMA Reaches256 ==
    ASSUME NEW s, NEW total, Sound(s, total), NEW offset \in Operand, NEW size \in Operand, NEW alloc \in BOOLEAN,
           MaxBuffer + size.low + WordBytes <= Limb, size.low > 0,
           check_memory_u256(s, offset, size, alloc).out = "SUCCESS"
    PROVE  offset.low + size.low <= check_memory_u256(s, offset, size, alloc).memory.m_size
<1>1. size.low \in Nat
  BY MemoryAssumption DEF Operand
<1>2. check_memory_u256(s, offset, size, alloc) = check_memory_u64(s, offset, size.low, alloc)
  BY DEF check_memory_u256, After
<1> QED BY <1>1, <1>2, Reaches64

\* An instruction whose range passed its check.
LEMMA AccessBounded ==
    ASSUME BInv, NEW c, Sound(c, Total), NEW charge \in Int, NEW range \in Ranges,
           NEW ends \in SUBSET Statuses, Access(c, charge, range, ends),
           RangesFit /\ c.out = "SUCCESS" /\ range.len > 0 =>
               range.from + range.len <= c.memory.m_size
    PROVE  BInv'
<1>1. MInv'
  BY AccessKeeps DEF BInv
<1>2. ASSUME RangesFit, status' \in Alive PROVE InBounds'
  <2>1. c.out = "SUCCESS" /\ touched' = range /\ memory' = c.memory
    BY <1>2 DEF Access, Sound, Outs, Alive
  <2>2. Backed(c.memory) /\ c.memory \in Mem
    BY <2>1 DEF Sound
  <2> QED BY <1>2, <2>1, <2>2 DEF InBounds, Backed, Mem, Ranges
<1>3. status' \notin Alive => InBounds'
  BY DEF InBounds
<1>4. RangesFit' = RangesFit
  BY DEF RangesFit
<1> QED BY <1>1, <1>2, <1>3, <1>4 DEF BInv

\* The instructions that take an offset and a size, with either check.
LEMMA Ranged64 ==
    ASSUME BInv, status = "RUNNING", NEW offset \in Offsets, NEW size \in Sizes,
           NEW alloc \in BOOLEAN, NEW charge \in Int, NEW ends \in SUBSET Statuses,
           Access(check_memory_u64(Before, offset, size.low, alloc), charge,
                  Range(offset, size, size.low), ends)
    PROVE  BInv'
<1> DEFINE c == check_memory_u64(Before, offset, size.low, alloc)
<1>1. offset \in Operand /\ size \in Operand /\ size.low \in Nat
  BY MemoryAssumption DEF Operand
<1>2. Sound(Before, Total) /\ Before.out = "SUCCESS"
  BY BeforeSound DEF BInv
<1>3. Sound(c, Total)
  BY <1>1, <1>2, CheckU64
<1>4. RangesFit /\ c.out = "SUCCESS" => offset.low + size.low <= c.memory.m_size
  BY <1>1, <1>2, Reaches64 DEF RangesFit
<1> HIDE DEF c
<1>5. Range(offset, size, size.low) \in Ranges
  BY <1>1, OperandFacts
<1>6. Range(offset, size, size.low).from = offset.low /\ Range(offset, size, size.low).len = size.low
  BY DEF Range
<1>7. Access(c, charge, Range(offset, size, size.low), ends)
  BY DEF c
<1> QED BY <1>3, <1>4, <1>5, <1>6, <1>7, AccessBounded

\* len is the part of the range that is read: all of it, or a byte per word.
LEMMA Ranged256 ==
    ASSUME BInv, status = "RUNNING", NEW offset \in Offsets, NEW size \in Sizes,
           NEW alloc \in BOOLEAN, NEW charge \in Int, NEW ends \in SUBSET Statuses, NEW len \in Nat,
           RangesFit => len <= size.low,
           Access(check_memory_u256(Before, offset, size, alloc), charge,
                  Range(offset, size, len), ends)
    PROVE  BInv'
<1> DEFINE c == check_memory_u256(Before, offset, size, alloc)
<1>1. offset \in Operand /\ size \in Operand /\ size.low \in Nat /\ offset.low \in Nat
  BY MemoryAssumption DEF Operand
<1>2. Sound(Before, Total) /\ Before.out = "SUCCESS"
  BY BeforeSound DEF BInv
<1>3. Sound(c, Total)
  BY <1>1, <1>2, CheckU256
<1>4. RangesFit /\ c.out = "SUCCESS" /\ size.low > 0 => offset.low + size.low <= c.memory.m_size
  BY <1>1, <1>2, Reaches256 DEF RangesFit
<1>5. c.memory.m_size \in Nat
  BY <1>3 DEF Sound, Mem
<1> HIDE DEF c
<1>6. Range(offset, size, len) \in Ranges
  BY <1>1 DEF Range, Ranges
<1>7. Range(offset, size, len).from = offset.low /\ Range(offset, size, len).len = len
  BY DEF Range
<1>8. RangesFit /\ c.out = "SUCCESS" /\ len > 0 => offset.low + len <= c.memory.m_size
  BY <1>1, <1>4, <1>5
<1>9. Access(c, charge, Range(offset, size, len), ends)
  BY DEF c
<1> QED BY <1>3, <1>6, <1>7, <1>8, <1>9, AccessBounded

\* The hash reads fewer bytes than the range has.
LEMMA WordsBelow ==
    ASSUME RangesFit, NEW size \in Sizes
    PROVE  num_words(size.low) <= size.low
<1> USE MemoryAssumption
<1>1. size.low \in Nat
  BY DEF Operand
<1>2. size.low + (WordBytes - 1) \in 0..(Limb - 1)
  BY <1>1 DEF RangesFit
<1>3. num_words(size.low) = (size.low + (WordBytes - 1)) \div WordBytes
  BY <1>2 DEF num_words
<1> QED BY <1>1, <1>3, RoundUp

-----------------------------------------------------------------------------
LEMMA LoadStoreKeeps ==
    ASSUME BInv, NEW offset \in Offsets, NEW alloc \in BOOLEAN, load_store(offset, alloc)
    PROVE  BInv'
<1> DEFINE word == [low |-> WordBytes, high |-> FALSE]
           c == check_memory_u64(Before, offset, WordBytes, alloc)
<1>1. offset \in Operand /\ word \in Operand /\ WordBytes \in Nat
  BY MemoryAssumption, WordFacts
<1>2. status = "RUNNING"
  BY DEF load_store, Access
<1>3. Sound(Before, Total) /\ Before.out = "SUCCESS"
  BY <1>2, BeforeSound DEF BInv
<1>4. Sound(c, Total)
  BY <1>1, <1>3, CheckU64
<1>5. RangesFit /\ c.out = "SUCCESS" => offset.low + WordBytes <= c.memory.m_size
  <2>1. ASSUME RangesFit PROVE MaxBuffer + WordBytes + WordBytes <= Limb
    BY <2>1, MemoryAssumption DEF RangesFit
  <2> QED BY <1>1, <1>3, <2>1, Reaches64
<1>6. Access(c, 0, Range(offset, word, WordBytes), {"RUNNING"})
  BY DEF load_store
<1> HIDE DEF c
<1>7. Range(offset, word, WordBytes) \in Ranges
  <2>1. Range(offset, word, word.low) \in Ranges
    BY <1>1, OperandFacts
  <2> QED BY <2>1
<1>8. /\ Range(offset, word, WordBytes).from = offset.low
      /\ Range(offset, word, WordBytes).len = WordBytes
  BY DEF Range
<1>9. {"RUNNING"} \in SUBSET Statuses
  BY DEF Statuses, Alive
<1> QED BY <1>4, <1>5, <1>6, <1>7, <1>8, <1>9, AccessBounded

LEMMA UntouchedKeeps ==
    ASSUME BInv, NEW c, Sound(c, Total), Access(c, 0, Untouched, {"PANIC"})
    PROVE  BInv'
<1>1. {"PANIC"} \in SUBSET Statuses
  BY DEF Statuses
<1>2. Untouched.len = 0
  BY DEF Untouched
<1> QED BY <1>1, <1>2, WordFacts, AccessBounded

\* The instructions with an offset and a size, one by one.
LEMMA SizedKeeps ==
    ASSUME BInv, NEW offset \in Offsets, NEW size \in Sizes, NEW alloc \in BOOLEAN,
           \/ keccak256(offset, size, alloc)
           \/ calldatacopy(offset, size, alloc)
           \/ codecopy(offset, size, alloc)
           \/ \E cold \in BOOLEAN : extcodecopy(offset, size, cold, alloc)
           \/ returndatacopy(offset, size, alloc)
           \/ log0(offset, size, alloc)
           \/ log_topics(offset, size, alloc)
           \/ return_(offset, size, alloc)
    PROVE  BInv'
<1>1. offset \in Operand /\ size \in Operand /\ size.low \in Nat
  BY MemoryAssumption DEF Operand
<1>2. /\ Int64(num_words(size.low) * 6) \in Int /\ copy_cost(size) \in Int
      /\ Int64(size.low * 8) \in Int /\ num_words(size.low) \in Nat
  BY <1>1, OperandFacts, WordsType
<1>3. /\ {"RUNNING"} \in SUBSET Statuses /\ {"RUNNING", "PANIC"} \in SUBSET Statuses
      /\ {"SUCCESS", "REVERT"} \in SUBSET Statuses
  BY DEF Statuses, Alive
<1>4. ASSUME StaticMode PROVE BInv'
  <2>1. MInv' /\ status' \notin Alive
    BY <1>4, StaticModeKeeps DEF BInv, StaticMode, Alive
  <2> QED BY <2>1 DEF BInv, InBounds
<1>5. CASE keccak256(offset, size, alloc)
  <2>1. RangesFit => num_words(size.low) <= size.low
    BY WordsBelow
  <2>2. status = "RUNNING"
    BY <1>5 DEF keccak256, Access
  <2> QED BY <1>2, <1>3, <1>5, <2>1, <2>2, Ranged256 DEF keccak256
<1>6. CASE calldatacopy(offset, size, alloc)
  <2>1. status = "RUNNING"
    BY <1>6 DEF calldatacopy, Access
  <2> QED BY <1>1, <1>2, <1>3, <1>6, <2>1, Ranged256 DEF calldatacopy
<1>7. CASE codecopy(offset, size, alloc)
  <2>1. status = "RUNNING"
    BY <1>7 DEF codecopy, Access
  <2> QED BY <1>2, <1>3, <1>7, <2>1, Ranged64 DEF codecopy
<1>8. CASE \E cold \in BOOLEAN : extcodecopy(offset, size, cold, alloc)
  <2>1. PICK cold \in BOOLEAN : extcodecopy(offset, size, cold, alloc)
    BY <1>8
  <2>2. status = "RUNNING"
    BY <2>1 DEF extcodecopy, Access
  <2>3. copy_cost(size) + (IF cold THEN ColdCost ELSE 0) \in Int
    BY <1>2, MemoryAssumption
  <2> QED BY <1>1, <1>3, <2>1, <2>2, <2>3, Ranged256 DEF extcodecopy
<1>9. CASE returndatacopy(offset, size, alloc)
  <2>1. Sound(Before, Total) /\ Before.out = "SUCCESS"
    BY <1>9, BeforeSound DEF BInv, returndatacopy, Access
  <2>2. Sound(check_memory_u256(Before, offset, size, alloc), Total)
    BY <1>1, <2>1, CheckU256
  <2> QED BY <1>9, <2>2, UntouchedKeeps DEF returndatacopy
<1>10. CASE log0(offset, size, alloc)
  <2>1. CASE StaticMode
    BY <1>4, <2>1
  <2>2. CASE Access(check_memory_u256(Before, offset, size, alloc), Int64(size.low * 8),
                    Range(offset, size, size.low), {"RUNNING"})
    <3>1. status = "RUNNING"
      BY <2>2 DEF Access
    <3> QED BY <1>1, <1>2, <1>3, <2>2, <3>1, Ranged256
  <2> QED BY <1>10, <2>1, <2>2 DEF log0
<1>11. CASE log_topics(offset, size, alloc)
  <2>1. CASE StaticMode
    BY <1>4, <2>1
  <2>2. CASE Access(check_memory_u64(Before, offset, size.low, alloc), Int64(size.low * 8),
                    Range(offset, size, size.low), {"RUNNING", "PANIC"})
    <3>1. status = "RUNNING"
      BY <2>2 DEF Access
    <3> QED BY <1>2, <1>3, <2>2, <3>1, Ranged64
  <2> QED BY <1>11, <2>1, <2>2 DEF log_topics
<1>12. CASE return_(offset, size, alloc)
  <2>1. status = "RUNNING"
    BY <1>12 DEF return_, Access
  <2> QED BY <1>1, <1>3, <1>12, <2>1, Ranged256 DEF return_
<1> QED BY <1>5, <1>6, <1>7, <1>8, <1>9, <1>10, <1>11, <1>12

-----------------------------------------------------------------------------
LEMMA BInvInit == Init => BInv
<1> SUFFICES ASSUME Init PROVE BInv
  OBVIOUS
<1>1. MInv
  BY MInvInit
<1>2. InBounds
  BY MemoryAssumption DEF Init, InBounds, Untouched
<1> QED BY <1>1, <1>2 DEF BInv

LEMMA BInvNext == BInv /\ [Next]_vars => BInv'
<1> SUFFICES ASSUME BInv, [Next]_vars PROVE BInv'
  OBVIOUS
<1>1. CASE UNCHANGED vars
  <2>1. MInv'
    BY <1>1 DEF BInv, MInv, TypeOK, GasConserved, CapacityTight, Backed, vars
  <2>2. InBounds => InBounds'
    BY <1>1 DEF InBounds, vars
  <2> QED BY <2>1, <2>2 DEF BInv
<1>2. ASSUME NEW offset \in Offsets, NEW alloc \in BOOLEAN, load_store(offset, alloc)
      PROVE  BInv'
  BY <1>2, LoadStoreKeeps
<1>3. CASE returndatasize
  <2>1. Sound(Before, Total)
    BY <1>3, BeforeSound DEF BInv, returndatasize, Access
  <2> QED BY <1>3, <2>1, UntouchedKeeps DEF returndatasize
<1>4. CASE Stopped
  BY <1>1, <1>4 DEF Stopped
<1> QED BY <1>1, <1>2, <1>3, <1>4, SizedKeeps DEF Next

LEMMA BInvAlways == Spec => []BInv
  BY BInvInit, BInvNext, PTL DEF Spec

\* The memory has a whole number of words and the types of the code, after any
\* instructions and any failed allocation.
THEOREM MemoryTypeCorrect == Spec => []TypeOK
<1>1. BInv => TypeOK
  BY DEF BInv, MInv
<1> QED BY <1>1, BInvAlways, PTL

\* The differences charged at every growth add up to the cost of the memory there
\* is; grow_memory neither charges twice nor forgets.
THEOREM MemoryPaidOnce == Spec => []GasConserved
<1>1. BInv => GasConserved
  BY DEF BInv, MInv
<1> QED BY <1>1, BInvAlways, PTL

\* Doubling and rounding to pages never allocate more than twice the size and a
\* page.
THEOREM CapacityStaysTight == Spec => []CapacityTight
<1>1. BInv => CapacityTight
  BY DEF BInv, MInv
<1> QED BY <1>1, BInvAlways, PTL

\* If no sum of an offset and a size wraps, an access past its check is inside
\* the allocated memory.
THEOREM MemoryInBounds == RangesFit => (Spec => []InBounds)
<1>1. ASSUME RangesFit PROVE BInv => InBounds
  BY <1>1 DEF BInv
<1>2. RangesFit => []RangesFit
  <2>1. RangesFit => RangesFit'
    BY DEF RangesFit
  <2> QED BY <2>1, PTL
<1>3. RangesFit /\ BInv => InBounds
  BY <1>1
<1> QED BY <1>2, <1>3, BInvAlways, PTL

-----------------------------------------------------------------------------
(***************************************************************************)
(* Calls: the same instructions and the call family, and CallSpec.         *)
(***************************************************************************)

\* The largest memory that a range within max_buffer_size can ask for.
Top == 2 * MaxBuffer + WordBytes

\* The prices and operands for which no int64_t turns negative: no size above
\* max_buffer_size, no gas operand with its sign bit set.  The cost of a call
\* with value covers the stipend.
CostsFit ==
    /\ CallStipend <= ValueCost /\ WordBytes <= MaxBuffer
    /\ \A gas \in GasOperands : Int64(gas) >= 0
    /\ \A size \in Sizes :
          size.low <= MaxBuffer /\ Int64(num_words(size.low) * HashWordCost) >= 0
    /\ \A w \in Nat : w * WordBytes <= Top => words_cost(w) >= 0

\* What the inductive invariant adds to that of Memory.
Funded ==
    status \in Alive =>
        /\ gas_left >= 0
        /\ CostsFit => dynamic >= 0 /\ memory.m_size <= Top

CInv == BInv /\ Funded

\* A stage of a call that did not fail: there is gas, and the memory only grew.
Within(s) ==
    /\ s.gas >= 0 /\ s.memory.m_size >= memory.m_size
    /\ CostsFit => s.memory.m_size <= Top

\* What the stages of a call pass on.
Stage(s, total) ==
    /\ s.memory \in Mem /\ s.memory.m_size % WordBytes = 0
    /\ s.gas \in Int /\ s.out \in Outs \cup {"STATIC_MODE_VIOLATION"}
    /\ s.out = "SUCCESS" => Sound(s, total) /\ Within(s)

-----------------------------------------------------------------------------
LEMMA DivBelow ==
    ASSUME NEW n \in Nat, NEW w \in Nat \ {0}
    PROVE  n \div w \in Nat /\ (n \div w) * w <= n /\ n \div w <= n
<1> DEFINE q == n \div w
           r == n % w
<1>1. q \in Int /\ r \in 0..(w - 1) /\ n = w * q + r
  OBVIOUS
<1> HIDE DEF q, r
<1>2. q >= 0
  <2> SUFFICES ASSUME q < 0 PROVE FALSE
    BY <1>1
  <2>1. w * (0 - q) >= w
    BY <1>1
  <2>2. w * (0 - q) = 0 - w * q
    BY <1>1
  <2> QED BY <1>1, <2>1, <2>2
<1>3. q * w = w * q
  BY <1>1
<1>4. w * q >= q
  <2>1. (w - 1) * q >= 0
    BY <1>1, <1>2
  <2>2. (w - 1) * q = w * q - q
    BY <1>1
  <2> QED BY <1>1, <2>1, <2>2
<1> QED BY <1>1, <1>2, <1>3, <1>4 DEF q

LEMMA ModBelow ==
    ASSUME NEW n \in Nat, NEW l \in Nat \ {0}
    PROVE  n % l \in Nat /\ n % l <= n
<1> DEFINE q == n \div l
           r == n % l
<1>1. q \in Nat
  BY DivBelow
<1>2. r \in 0..(l - 1) /\ n = l * q + r
  OBVIOUS
<1> HIDE DEF q, r
<1>3. l * q >= 0
  BY <1>1
<1> QED BY <1>1, <1>2, <1>3 DEF r

\* A memory of whole words grown for a range within Top stays within it.
LEMMA WordsWithin ==
    ASSUME NEW n \in Nat, n <= 2 * MaxBuffer
    PROVE  num_words(n) * WordBytes <= Top
<1> USE MemoryAssumption
<1> DEFINE m == (n + (WordBytes - 1)) % Limb
<1>1. m \in Nat /\ m <= n + (WordBytes - 1)
  BY ModBelow
<1> HIDE DEF m
<1>2. (m \div WordBytes) * WordBytes <= m /\ m \div WordBytes \in Nat
  BY <1>1, DivBelow
<1>3. num_words(n) = m \div WordBytes
  BY DEF num_words, m
<1> QED BY <1>1, <1>2, <1>3 DEF Top

\* The cost of the memory is not negative.
LEMMA CostNonNegative ==
    ASSUME CostsFit, NEW n \in Nat, n <= Top
    PROVE  words_cost(n \div WordBytes) >= 0
<1>1. n \div WordBytes \in Nat /\ (n \div WordBytes) * WordBytes <= n
  BY DivBelow, MemoryAssumption
<1>2. (n \div WordBytes) * WordBytes <= Top
  BY <1>1, MemoryAssumption DEF Top
<1> QED BY <1>1, <1>2 DEF CostsFit

-----------------------------------------------------------------------------
\* The stages.
LEMMA GrowStage ==
    ASSUME CInv, NEW s, NEW total, Sound(s, total), s.out = "SUCCESS", Within(s),
           NEW n \in Nat, NEW alloc \in BOOLEAN, CostsFit => n <= 2 * MaxBuffer
    PROVE  Stage(grow_memory(s, n, alloc), total)
<1> USE MemoryAssumption
<1> DEFINE words == num_words(n)
           now == s.memory.m_size \div WordBytes
           gas == s.gas - (words_cost(words) - words_cost(now))
           t == After("SUCCESS", gas, s.memory)
           g == Memory_grow(t, words * WordBytes, alloc)
           c == grow_memory(s, n, alloc)
<1>1. Sound(c, total)
  BY GrowMemoryFacts
<1>2. c = IF gas < 0 THEN After("OUT_OF_GAS", gas, s.memory) ELSE g
  BY DEF grow_memory
<1>3. /\ g.gas = gas /\ g.memory.m_size = words * WordBytes
      /\ g.out = "SUCCESS" => ~(words * WordBytes <= s.memory.m_size)
  BY DEF Memory_grow, After
<1>4. words \in Nat /\ words * WordBytes \in Nat
  BY WordsType
<1>5. CostsFit => words * WordBytes <= Top
  BY WordsWithin
<1> HIDE DEF g, words, c
<1>6. ASSUME c.out = "SUCCESS" PROVE Within(c)
  <2>1. ~(gas < 0) /\ c = g
    BY <1>2, <1>6 DEF After
  <2>2. c.gas \in Int /\ s.memory.m_size \in Nat /\ memory.m_size \in Nat
    BY <1>1 DEF Sound, Mem, CInv, BInv, MInv, TypeOK
  <2>3. c.gas >= 0
    BY <1>3, <2>1, <2>2
  <2> QED BY <1>3, <1>4, <1>5, <1>6, <2>1, <2>2, <2>3 DEF Within
<1> QED BY <1>1, <1>6 DEF Stage, Sound, c

LEMMA SoundStage ==
    ASSUME NEW s, NEW total, Sound(s, total), Within(s)
    PROVE  Stage(s, total)
  BY DEF Stage, Sound

LEMMA FailedStage ==
    ASSUME NEW s, NEW total, Sound(s, total),
           NEW out \in {"OUT_OF_GAS", "STATIC_MODE_VIOLATION"}
    PROVE  Stage(After(out, s.gas, s.memory), total)
  BY DEF Stage, Sound, After, Outs

LEMMA CheckStage64 ==
    ASSUME CInv, NEW s, NEW total, Sound(s, total), s.out = "SUCCESS", Within(s),
           NEW offset \in Operand, NEW size \in Nat, NEW alloc \in BOOLEAN,
           CostsFit => size <= MaxBuffer
    PROVE  Stage(check_memory_u64(s, offset, size, alloc), total)
<1> USE MemoryAssumption
<1> DEFINE n == (offset.low + size) % Limb
           c == check_memory_u64(s, offset, size, alloc)
<1>1. offset.low \in Nat
  BY DEF Operand
<1>2. n \in Nat /\ n <= offset.low + size
  <2>1. offset.low + size \in Nat /\ Limb \in Nat \ {0}
    BY <1>1
  <2> QED BY <2>1, ModBelow
<1> HIDE DEF n
<1>3. CASE BadOffset(offset)
  BY <1>3, FailedStage DEF check_memory_u64
<1>4. CASE ~BadOffset(offset) /\ n > s.memory.m_size
  <2>1. offset.low <= MaxBuffer
    BY <1>1, <1>4 DEF BadOffset
  <2>2. CostsFit => n <= 2 * MaxBuffer
    BY <1>1, <1>2, <2>1
  <2>3. Stage(grow_memory(s, n, alloc), total)
    BY <1>2, <2>2, GrowStage
  <2> QED BY <1>4, <2>3 DEF check_memory_u64, n
<1>5. CASE ~BadOffset(offset) /\ ~(n > s.memory.m_size)
  <2>1. check_memory_u64(s, offset, size, alloc) = s
    BY <1>5 DEF check_memory_u64, n
  <2> QED BY <2>1, SoundStage
<1> QED BY <1>3, <1>4, <1>5

LEMMA CheckStage256 ==
    ASSUME CInv, NEW s, NEW total, Sound(s, total), s.out = "SUCCESS", Within(s),
           NEW offset \in Offsets, NEW size \in Sizes, NEW alloc \in BOOLEAN
    PROVE  Stage(check_memory_u256(s, offset, size, alloc), total)
<1>1. offset \in Operand /\ size.low \in Nat
  BY MemoryAssumption DEF Operand
<1>2. Stage(check_memory_u64(s, offset, size.low, alloc), total)
  BY <1>1, CheckStage64 DEF CostsFit
<1>3. Stage(After("OUT_OF_GAS", s.gas, s.memory), total)
  BY FailedStage
<1> QED BY <1>2, <1>3, SoundStage DEF check_memory_u256

\* What is charged is missing from the total.
LEMMA ChargeStage ==
    ASSUME CInv, NEW s, NEW total \in Int, Sound(s, total), s.out = "SUCCESS", Within(s),
           NEW cost \in Int
    PROVE  Stage(Charge(s, cost), total - cost)
<1> DEFINE c == Charge(s, cost)
<1>1. /\ c.memory = s.memory /\ c.gas = s.gas - cost
      /\ c.out = IF s.gas - cost < 0 THEN "OUT_OF_GAS" ELSE "SUCCESS"
  BY DEF Charge, After
<1>2. s.memory \in Mem /\ s.memory.m_size % WordBytes = 0 /\ s.gas \in Int
      /\ Backed(s.memory) /\ Tight(s.memory) /\ Paid(s.gas, s.memory) = total
  BY DEF Sound
<1>3. words_cost(s.memory.m_size \div WordBytes) \in Int
  <2>1. s.memory.m_size \div WordBytes \in Nat
    BY <1>2, DivBelow, MemoryAssumption DEF Mem
  <2> QED BY <2>1, CostType
<1> HIDE DEF c
<1>4. Paid(c.gas, c.memory) = total - cost
  BY <1>1, <1>2, <1>3 DEF Paid
<1>5. ASSUME c.out = "SUCCESS" PROVE Sound(c, total - cost) /\ Within(c)
  <2>1. c.gas \in Int /\ c.gas >= 0
    BY <1>1, <1>2, <1>5
  <2> QED BY <1>1, <1>2, <1>4, <1>5, <2>1 DEF Sound, Within, Outs
<1>6. c.gas \in Int /\ c.out \in Outs
  BY <1>1, <1>2 DEF Outs
<1> QED BY <1>1, <1>2, <1>5, <1>6 DEF Stage, c

LEMMA BeforeStage ==
    ASSUME CInv, status = "RUNNING"
    PROVE  /\ Sound(Before, Total) /\ Before.out = "SUCCESS" /\ Within(Before)
           /\ Total \in Int /\ memory.m_size \in Nat /\ gas_left \in Int
<1>1. TypeOK /\ MInv
  BY DEF CInv, BInv, MInv
<1>2. Sound(Before, Total) /\ Before.out = "SUCCESS"
  BY <1>1, BeforeSound
<1>3. memory.m_size \in Nat /\ gas_left \in Int
  BY <1>1 DEF TypeOK
<1>4. Total \in Int
  <2>1. memory.m_size \div WordBytes \in Nat
    BY <1>3, DivBelow, MemoryAssumption
  <2> QED BY <1>3, <2>1, CostType DEF Total, Paid
<1>5. Within(Before)
  BY <1>3 DEF Within, Before, After, CInv, Funded, Alive
<1> QED BY <1>2, <1>3, <1>4, <1>5

LEMMA CheckedStage ==
    ASSUME CInv, status = "RUNNING", NEW o \in Operands, NEW cold \in BOOLEAN,
           NEW alloc \in BOOLEAN
    PROVE  Stage(Checked(o, cold, alloc), Total - (IF cold THEN ColdCost ELSE 0))
<1> DEFINE cost == IF cold THEN ColdCost ELSE 0
           accessed == Charge(Before, cost)
<1>1. cost \in Int
  BY MemoryAssumption
<1>2. Stage(accessed, Total - cost)
  <2> HIDE DEF cost
  <2> QED BY <1>1, BeforeStage, ChargeStage
<1>3. CASE accessed.out # "SUCCESS"
  BY <1>2, <1>3 DEF Checked
<1>4. CASE accessed.out = "SUCCESS"
  <2>1. o.offset \in Offsets /\ o.size \in Sizes
    BY DEF Operands
  <2>2. Sound(accessed, Total - cost) /\ Within(accessed)
    BY <1>2, <1>4 DEF Stage
  <2>3. Stage(check_memory_u256(accessed, o.offset, o.size, alloc), Total - cost)
    <3> HIDE DEF accessed, cost
    <3> QED BY <1>4, <2>1, <2>2, CheckStage256
  <2> QED BY <1>4, <2>3 DEF Checked
<1> QED BY <1>3, <1>4

Spent(op, value, cold, exists) ==
    (IF cold THEN ColdCost ELSE 0) + CallCost(op, has_value(value), exists)

LEMMA CallCostFacts ==
    ASSUME NEW op, NEW value, NEW cold \in BOOLEAN, NEW exists \in BOOLEAN
    PROVE  /\ CallCost(op, has_value(value), exists) \in Nat
           /\ Spent(op, value, cold, exists) \in Nat
           /\ has_value(value) => ValueCost <= Spent(op, value, cold, exists)
<1>1. ValueCost \in Nat /\ NewAccountCost \in Nat /\ ColdCost \in Nat
  BY MemoryAssumption, CallsAssumption
<1> QED BY <1>1 DEF CallCost, Spent

LEMMA ReadyStage ==
    ASSUME CInv, status = "RUNNING", NEW op, NEW value, NEW o \in Operands,
           NEW cold \in BOOLEAN, NEW exists \in BOOLEAN, NEW alloc \in BOOLEAN
    PROVE  Stage(Ready(op, o, value, cold, exists, alloc),
                 Total - Spent(op, value, cold, exists))
<1> DEFINE paying == has_value(value)
           checked == Checked(o, cold, alloc)
           before == IF cold THEN ColdCost ELSE 0
           cost == CallCost(op, paying, exists)
           total == Total - Spent(op, value, cold, exists)
           ready == Ready(op, o, value, cold, exists, alloc)
<1>1. Stage(checked, Total - before)
  BY CheckedStage
<1>2. Total \in Int /\ before \in Nat /\ cost \in Nat
  BY BeforeStage, CallCostFacts, MemoryAssumption
<1>3. total = (Total - before) - cost
  BY <1>2 DEF Spent
<1>4. ready = IF checked.out # "SUCCESS" THEN checked
              ELSE IF op = "CALL" /\ paying /\ static
                   THEN After("STATIC_MODE_VIOLATION", checked.gas, checked.memory)
              ELSE Charge(checked, cost)
  BY DEF Ready, Fails
<1> SUFFICES Stage(ready, total)
  OBVIOUS
<1> HIDE DEF checked, before, cost, total, ready, paying
<1>5. CASE checked.out # "SUCCESS"
  BY <1>1, <1>4, <1>5 DEF Stage
<1>6. CASE checked.out = "SUCCESS"
  <2>1. Sound(checked, Total - before) /\ Within(checked)
    BY <1>1, <1>6 DEF Stage
  <2>2. Stage(Charge(checked, cost), (Total - before) - cost)
    BY <1>2, <1>6, <2>1, ChargeStage
  <2>3. Stage(After("STATIC_MODE_VIOLATION", checked.gas, checked.memory), total)
    BY <1>1 DEF Stage, After
  <2> QED BY <1>3, <1>4, <1>6, <2>2, <2>3
<1> QED BY <1>5, <1>6

\* What the callee gets is at most what there is, for every gas operand.
LEMMA ForwardedFacts ==
    ASSUME NEW gas \in GasOperands, NEW left \in Nat
    PROVE  /\ left \div Share \in Nat /\ left \div Share <= left
           /\ Forwarded(gas, left) \in Int /\ Forwarded(gas, left) <= left
           /\ CostsFit => Forwarded(gas, left) >= 0
<1>1. left \div Share \in Nat /\ left \div Share <= left
  BY DivBelow, CallsAssumption
<1>2. gas \in Int
  BY CallsAssumption, MemoryAssumption
<1>3. Int64(gas) \in Int
  BY <1>2, Integers64
<1>4. CostsFit => Int64(gas) >= 0
  BY DEF CostsFit
<1> QED BY <1>1, <1>3, <1>4 DEF Forwarded, Least

-----------------------------------------------------------------------------
\* A step that ends the execution.
LEMMA EndsKeeps ==
    ASSUME CInv, NEW s, NEW total, Stage(s, total), s.out # "SUCCESS", Ends(s)
    PROVE  CInv'
<1>1. /\ memory' \in Mem /\ memory'.m_size % WordBytes = 0 /\ gas_left' \in Int
      /\ status' \in {"OUT_OF_GAS", "PANIC", "STATIC_MODE_VIOLATION"}
      /\ UNCHANGED <<static, touched, limit, dynamic>>
  BY DEF Stage, Ends, Outs
<1>2. status' \notin Alive
  BY <1>1 DEF Alive
<1>3. TypeOK'
  BY <1>1 DEF TypeOK, CInv, BInv, MInv, Mem
<1> QED BY <1>2, <1>3 DEF CInv, BInv, MInv, Funded, GasConserved, CapacityTight, InBounds

\* A step after the last stage of a call or a create: what leaves the gas goes to
\* dynamic, and the range it accesses passed its check.
LEMMA StepKeeps ==
    ASSUME CInv, status = "RUNNING", NEW s, NEW total, Sound(s, total), s.out = "SUCCESS",
           Within(s), memory' = s.memory, gas_left' \in Int, gas_left' >= 0,
           dynamic' \in Int, gas_left' + dynamic' = s.gas + dynamic + (Total - total),
           total \in Int, CostsFit => dynamic' >= dynamic, UNCHANGED <<static, limit>>,
           status' \in {"RUNNING", "PANIC"},
           \/ touched' = touched
           \/ touched' \in Ranges /\ (RangesFit /\ touched'.len > 0
                                        => touched'.from + touched'.len <= s.memory.m_size)
    PROVE  CInv'
<1>1. TypeOK /\ GasConserved
  BY DEF CInv, BInv, MInv
<1>2. s.memory \in Mem /\ s.memory.m_size % WordBytes = 0 /\ s.gas \in Int
      /\ Backed(s.memory) /\ Tight(s.memory) /\ Paid(s.gas, s.memory) = total
  BY DEF Sound
<1>3. touched' \in Ranges
  BY <1>1 DEF TypeOK, Ranges
<1>4. TypeOK'
  BY <1>1, <1>2, <1>3 DEF TypeOK, Ranges, Mem, Alive
<1>5. GasConserved'
  <2> DEFINE old == words_cost(memory.m_size \div WordBytes)
             new == words_cost(s.memory.m_size \div WordBytes)
  <2>1. old \in Int /\ new \in Int
    <3>1. memory.m_size \div WordBytes \in Nat /\ s.memory.m_size \div WordBytes \in Nat
      BY <1>1, <1>2, DivBelow, MemoryAssumption DEF TypeOK, Mem
    <3> QED BY <3>1, CostType
  <2>2. s.gas + new = total /\ gas_left + old = Total
    BY <1>2 DEF Paid, Total
  <2>3. gas_left + old + dynamic = limit
    BY <1>1 DEF GasConserved, Alive
  <2>4. new' = words_cost(memory'.m_size \div WordBytes) /\ limit' = limit
    OBVIOUS
  <2> HIDE DEF old, new
  <2>5. gas_left' + new + dynamic' = limit
    <3>1. gas_left \in Int /\ dynamic \in Int /\ limit \in Int /\ Total \in Int
      BY <1>1, BeforeStage DEF TypeOK
    <3>2. s.gas \in Int /\ gas_left' \in Int /\ dynamic' \in Int /\ total \in Int
      BY <1>2
    <3>3. PICK o \in Int, n \in Int, left \in Int, paid \in Int, g \in Int, d \in Int :
             o = old /\ n = new /\ left = s.gas /\ paid = Total /\ g = gas_left' /\ d = dynamic'
      BY <2>1, <3>1, <3>2
    <3>4. left + n = total /\ gas_left + o = paid /\ gas_left + o + dynamic = limit
      BY <2>2, <2>3, <3>3
    <3>5. g + d = left + dynamic + (paid - total)
      BY <3>3
    <3>6. g + n + d = limit
      BY ONLY <3>1, <3>4, <3>5, o \in Int, n \in Int, left \in Int, paid \in Int,
              g \in Int, d \in Int, total \in Int
    <3> QED BY <3>3, <3>6
  <2>6. gas_left' + words_cost(memory'.m_size \div WordBytes) + dynamic' = limit'
    BY <2>5 DEF new
  <2> QED BY <2>6 DEF GasConserved
<1>6. CapacityTight' /\ Backed(memory)'
  BY <1>2 DEF CapacityTight, Tight, Backed
<1>7. Funded'
  BY <1>1, <1>2 DEF Within, Funded, CInv, Alive, TypeOK
<1>8. ASSUME RangesFit PROVE InBounds'
  <2>1. InBounds
    BY <1>8 DEF CInv, BInv
  <2>2. s.memory.m_size \in Nat /\ memory.m_size \in Nat /\ s.memory.m_size >= memory.m_size
    BY <1>1, <1>2 DEF TypeOK, Mem, Within
  <2>3. touched.from \in Nat /\ touched.len \in Nat
    BY <1>1 DEF TypeOK
  <2>4. touched'.from \in Nat /\ touched'.len \in Nat
    BY <1>3 DEF Ranges
  <2>5. touched'.len > 0 => touched'.from + touched'.len <= s.memory.m_size
    BY <1>8, <2>1, <2>2, <2>3 DEF InBounds, Alive
  <2>6. s.memory.m_size > 0 => s.memory.m_data
    BY <1>2 DEF Backed
  <2>7. touched'.len > 0 => s.memory.m_data
    BY <2>2, <2>4, <2>5, <2>6
  <2> QED BY <1>2, <2>5, <2>7 DEF InBounds, Backed
<1>9. RangesFit' <=> RangesFit
  BY DEF RangesFit
<1> QED BY <1>4, <1>5, <1>6, <1>7, <1>8, <1>9 DEF CInv, BInv, MInv

LEMMA HostCallStatus ==
    ASSUME NEW input, HostCall(input)
    PROVE  status' \in {"RUNNING", "PANIC"}
  BY DEF HostCall, Record

\* The input of a message lies in the memory that was checked for it.
LEMMA InputRangeFacts ==
    ASSUME NEW offset \in Offsets, NEW size \in Sizes, NEW n \in Nat,
           size.low > 0 /\ RangesFit => offset.low + size.low <= n
    PROVE  LET range == InputRange(offset, size)
           IN  range \in Ranges
               /\ (RangesFit /\ range.len > 0 => range.from + range.len <= n)
<1>1. offset \in Operand /\ size \in Operand /\ size.low \in Nat
  BY MemoryAssumption DEF Operand
<1>2. CASE size.low > 0
  <2>1. InputRange(offset, size) = Range(offset, size, size.low)
    BY <1>2 DEF InputRange
  <2>2. Range(offset, size, size.low) \in Ranges
    BY <1>1, OperandFacts
  <2> QED BY <1>2, <2>1, <2>2 DEF Range
<1>3. CASE ~(size.low > 0)
  BY <1>3, WordFacts DEF InputRange, Untouched
<1> QED BY <1>2, <1>3

LEMMA CheckedReaches ==
    ASSUME CInv, status = "RUNNING", NEW o \in Operands, NEW cold \in BOOLEAN,
           NEW alloc \in BOOLEAN, o.size.low > 0, RangesFit,
           Checked(o, cold, alloc).out = "SUCCESS"
    PROVE  o.offset.low + o.size.low <= Checked(o, cold, alloc).memory.m_size
<1> DEFINE cost == IF cold THEN ColdCost ELSE 0
           accessed == Charge(Before, cost)
<1>1. cost \in Int
  BY MemoryAssumption
<1>2. Stage(accessed, Total - cost)
  <2> HIDE DEF cost
  <2> QED BY <1>1, BeforeStage, ChargeStage
<1>3. accessed.out = "SUCCESS"
      /\ Checked(o, cold, alloc) = check_memory_u256(accessed, o.offset, o.size, alloc)
  BY DEF Checked
<1>4. o.offset \in Operand /\ o.size \in Operand /\ o.size \in Sizes
  BY MemoryAssumption DEF Operands
<1>5. MaxBuffer + o.size.low + WordBytes <= Limb
  BY <1>4 DEF RangesFit
<1>6. Sound(accessed, Total - cost)
  BY <1>2, <1>3 DEF Stage
<1> HIDE DEF accessed, cost
<1> QED BY <1>3, <1>4, <1>5, <1>6, Reaches256

LEMMA CallKeeps ==
    ASSUME CInv, NEW op, NEW value, NEW o \in Operands, NEW cold \in BOOLEAN,
           NEW exists \in BOOLEAN, NEW alloc \in BOOLEAN,
           Call(op, o, value, cold, exists, alloc)
    PROVE  CInv'
<1> DEFINE ready == Ready(op, o, value, cold, exists, alloc)
           paying == has_value(value)
           fund == Fund(paying, o.gas, ready.gas)
           spent == Spent(op, value, cold, exists)
           total == Total - spent
           stipend == IF paying THEN CallStipend ELSE 0
           forwarded == Forwarded(o.gas, ready.gas)
<1>1. status = "RUNNING"
  BY DEF Call
<1>2. Stage(ready, total)
  BY <1>1, ReadyStage
<1>3. \/ ready.out # "SUCCESS" /\ Ends(ready)
      \/ /\ ready.out = "SUCCESS" /\ memory' = ready.memory /\ UNCHANGED <<static, limit>>
         /\ \/ /\ gas_left' = fund.left
               /\ dynamic' = dynamic + spent - (fund.left - ready.gas)
               /\ UNCHANGED <<status, touched>>
            \/ /\ gas_left' = fund.left - fund.msg
               /\ dynamic' = dynamic + spent + forwarded
               /\ touched' = InputRange(o.offset, o.size)
               /\ \E input \in {"memory", "unset"} : HostCall(input)
  BY DEF Call, Spent
<1>4. spent \in Nat /\ (paying => ValueCost <= spent) /\ Total \in Int
  BY <1>1, CallCostFacts, BeforeStage
<1>5. stipend \in Nat /\ (CostsFit => stipend <= spent)
  BY <1>4, CallsAssumption DEF CostsFit
<1>6. fund.left = ready.gas + stipend /\ fund.msg = forwarded + stipend
  BY DEF Fund
<1>7. o.gas \in GasOperands /\ o.offset \in Offsets /\ o.size \in Sizes
  BY DEF Operands
<1>8. dynamic \in Int
  BY DEF CInv, BInv, MInv, TypeOK
<1>9. ready.out = "SUCCESS" /\ o.size.low > 0 /\ RangesFit
        => o.offset.low + o.size.low <= ready.memory.m_size
  <2> SUFFICES ASSUME ready.out = "SUCCESS", o.size.low > 0, RangesFit
               PROVE  o.offset.low + o.size.low <= ready.memory.m_size
    OBVIOUS
  <2> DEFINE checked == Checked(o, cold, alloc)
  <2>1. checked.out = "SUCCESS" /\ ready.memory = checked.memory
    BY DEF Ready, Fails, Charge, After
  <2> QED BY <1>1, <2>1, CheckedReaches
<1> HIDE DEF ready, fund, spent, stipend, forwarded, paying
<1>10. CASE ready.out # "SUCCESS"
  BY <1>2, <1>3, <1>10, EndsKeeps
<1>11. CASE ready.out = "SUCCESS"
  <2>1. Sound(ready, total) /\ Within(ready) /\ ready.gas \in Nat /\ ready.memory.m_size \in Nat
    BY <1>2, <1>11 DEF Stage, Sound, Within, Mem
  <2>2. /\ forwarded \in Int /\ forwarded <= ready.gas
        /\ CostsFit => forwarded >= 0
    BY <1>7, <2>1, ForwardedFacts DEF forwarded
  <2>3. total \in Int /\ Total - total = spent
    BY <1>4
  <2> HIDE DEF total
  <2>4. CASE /\ gas_left' = fund.left
             /\ dynamic' = dynamic + spent - (fund.left - ready.gas)
             /\ UNCHANGED <<status, touched>>
    <3>1. gas_left' \in Int /\ gas_left' >= 0 /\ dynamic' \in Int
          /\ gas_left' + dynamic' = ready.gas + dynamic + (Total - total)
          /\ (CostsFit => dynamic' >= dynamic)
      BY <1>4, <1>5, <1>6, <1>8, <2>1, <2>3, <2>4
    <3> QED BY <1>1, <1>3, <1>11, <2>1, <2>3, <2>4, <3>1, StepKeeps
  <2>5. CASE /\ gas_left' = fund.left - fund.msg
             /\ dynamic' = dynamic + spent + forwarded
             /\ touched' = InputRange(o.offset, o.size)
             /\ \E input \in {"memory", "unset"} : HostCall(input)
    <3>1. gas_left' \in Int /\ gas_left' >= 0 /\ dynamic' \in Int
          /\ gas_left' + dynamic' = ready.gas + dynamic + (Total - total)
          /\ (CostsFit => dynamic' >= dynamic)
      BY <1>4, <1>5, <1>6, <1>8, <2>1, <2>2, <2>3, <2>5
    <3>2. status' \in {"RUNNING", "PANIC"}
      BY <2>5, HostCallStatus
    <3>3. touched' \in Ranges /\ (RangesFit /\ touched'.len > 0
                                    => touched'.from + touched'.len <= ready.memory.m_size)
      BY <1>7, <1>9, <1>11, <2>1, <2>5, InputRangeFacts
    <3> QED BY <1>1, <1>3, <1>11, <2>1, <2>3, <3>1, <3>2, <3>3, StepKeeps
  <2> QED BY <1>3, <1>11, <2>4, <2>5
<1> QED BY <1>10, <1>11

\* After the checks of a create.
LEMMA CreateKeeps ==
    ASSUME CInv, status = "RUNNING", NEW s, NEW spent \in Int, Stage(s, Total - spent),
           NEW endowment, NEW touches, NEW input, Create(s, spent, endowment, touches, input),
           CostsFit => spent >= 0,
           s.out = "SUCCESS" =>
               touches \in Ranges /\ (RangesFit /\ touches.len > 0
                                        => touches.from + touches.len <= s.memory.m_size)
    PROVE  CInv'
<1> DEFINE total == Total - spent
           gas == s.gas - s.gas \div Share
<1>1. CASE s.out # "SUCCESS"
  BY <1>1, EndsKeeps DEF Create
<1>2. CASE s.out = "SUCCESS"
  <2>1. Sound(s, total) /\ Within(s) /\ s.gas \in Nat
    BY <1>2 DEF Stage, Sound, Within
  <2>2. s.gas \div Share \in Nat /\ s.gas \div Share <= s.gas
    BY <2>1, DivBelow, CallsAssumption
  <2>3. Total \in Int /\ dynamic \in Int
    BY BeforeStage DEF CInv, BInv, MInv, TypeOK
  <2>4. total \in Int /\ Total - total = spent
    BY <2>3
  <2>5. gas \in Nat /\ gas <= s.gas
    BY <2>1, <2>2
  <2>6. memory' = s.memory /\ UNCHANGED <<static, limit>>
    BY <1>2 DEF Create
  <2>7. \/ gas_left' = s.gas /\ dynamic' = dynamic + spent /\ UNCHANGED <<status, touched>>
        \/ /\ gas_left' = s.gas - gas /\ dynamic' = dynamic + spent + gas
           /\ touched' = touches /\ HostCall(input)
    BY <1>2 DEF Create
  <2> HIDE DEF gas, total
  <2>8. gas_left' \in Int /\ gas_left' >= 0 /\ dynamic' \in Int
        /\ gas_left' + dynamic' = s.gas + dynamic + (Total - total)
        /\ (CostsFit => dynamic' >= dynamic)
    BY <2>1, <2>3, <2>4, <2>5, <2>7
  <2>9. status' \in {"RUNNING", "PANIC"}
    BY <2>7, HostCallStatus
  <2> QED BY <1>2, <2>1, <2>4, <2>6, <2>7, <2>8, <2>9, StepKeeps
<1> QED BY <1>1, <1>2

LEMMA StaticCreate ==
    ASSUME CInv, status = "RUNNING", Ends(Fails(Before, "STATIC_MODE_VIOLATION"))
    PROVE  CInv'
<1> DEFINE s == Fails(Before, "STATIC_MODE_VIOLATION")
<1>1. Stage(s, Total)
  BY BeforeStage, FailedStage DEF Fails
<1>2. s.out # "SUCCESS"
  BY DEF Fails, After
<1> QED BY <1>1, <1>2, EndsKeeps

LEMMA CreatesKeep ==
    ASSUME CInv, NEW endowment, NEW offset \in Offsets, NEW size \in Sizes, NEW alloc \in BOOLEAN,
           create(endowment, offset, size, alloc) \/ create2(endowment, offset, size, alloc)
    PROVE  CInv'
<1> DEFINE checked == check_memory_u256(Before, offset, size, alloc)
           salt_cost == Int64(num_words(size.low) * HashWordCost)
           charged == IF checked.out = "SUCCESS" THEN Charge(checked, salt_cost) ELSE checked
<1>1. status = "RUNNING"
  BY DEF create, create2
<1>2. Sound(Before, Total) /\ Before.out = "SUCCESS" /\ Within(Before) /\ Total \in Int
  BY <1>1, BeforeStage
<1>3. Stage(checked, Total)
  BY <1>2, CheckStage256
<1>4. size.low \in Nat /\ offset \in Operand /\ size \in Operand
  BY MemoryAssumption DEF Operand
<1>5. salt_cost \in Int /\ (CostsFit => salt_cost >= 0)
  <2>1. num_words(size.low) \in Nat /\ HashWordCost \in Nat
    BY <1>4, WordsType, CallsAssumption
  <2>2. num_words(size.low) * HashWordCost \in Int
    BY <2>1
  <2> QED BY <2>2, Integers64 DEF CostsFit
<1>6. checked.out = "SUCCESS" /\ size.low > 0 /\ RangesFit
        => offset.low + size.low <= checked.memory.m_size
  <2> SUFFICES ASSUME checked.out = "SUCCESS", size.low > 0, RangesFit
               PROVE  offset.low + size.low <= checked.memory.m_size
    OBVIOUS
  <2>1. MaxBuffer + size.low + WordBytes <= Limb
    BY DEF RangesFit
  <2> QED BY <1>2, <1>4, <2>1, Reaches256
<1>7. CASE static /\ Ends(Fails(Before, "STATIC_MODE_VIOLATION"))
  BY <1>1, <1>7, StaticCreate
<1>8. CASE Create(checked, 0, endowment, Untouched, "unset")
  <2>1. Total - 0 = Total
    BY <1>2
  <2>2. Untouched \in Ranges /\ Untouched.len = 0
    BY WordFacts DEF Untouched
  <2> HIDE DEF checked
  <2> QED BY <1>1, <1>3, <1>8, <2>1, <2>2, CreateKeeps
<1>9. ASSUME NEW input, Create(charged, salt_cost, endowment, InputRange(offset, size), input)
      PROVE  CInv'
  <2> HIDE DEF checked, salt_cost
  <2>1. Stage(charged, Total - salt_cost)
    <3>1. CASE checked.out = "SUCCESS"
      <4>1. Sound(checked, Total) /\ Within(checked)
        BY <1>3, <3>1 DEF Stage
      <4> QED BY <1>2, <1>5, <3>1, <4>1, ChargeStage
    <3>2. CASE checked.out # "SUCCESS"
      BY <1>3, <3>2 DEF Stage
    <3> QED BY <3>1, <3>2
  <2>2. charged.out = "SUCCESS" => checked.out = "SUCCESS" /\ charged.memory = checked.memory
    BY DEF Charge, After
  <2> HIDE DEF charged
  <2>3. ASSUME charged.out = "SUCCESS"
        PROVE  LET range == InputRange(offset, size)
               IN  range \in Ranges
                   /\ (RangesFit /\ range.len > 0
                         => range.from + range.len <= charged.memory.m_size)
    <3>1. charged.memory.m_size \in Nat
      BY <2>1 DEF Stage, Mem
    <3> QED BY <1>6, <2>2, <2>3, <3>1, InputRangeFacts
  <2> QED BY <1>1, <1>5, <1>9, <2>1, <2>3, CreateKeeps
<1> QED BY <1>7, <1>8, <1>9 DEF create, create2

LEMMA LoadStoreFunded ==
    ASSUME CInv, NEW offset \in Offsets, NEW alloc \in BOOLEAN, load_store(offset, alloc)
    PROVE  CInv'
<1> DEFINE c == check_memory_u64(Before, offset, WordBytes, alloc)
<1>1. BInv'
  BY LoadStoreKeeps DEF CInv
<1>2. status = "RUNNING"
  BY DEF load_store, Access
<1>3. Sound(Before, Total) /\ Before.out = "SUCCESS" /\ Within(Before)
  BY <1>2, BeforeStage
<1>4. Stage(c, Total)
  BY <1>3, CheckStage64, MemoryAssumption DEF CostsFit
<1>5. \/ c.out # "SUCCESS" /\ status' = c.out
      \/ /\ c.out = "SUCCESS" /\ gas_left' = c.gas - 0 /\ dynamic' = dynamic + 0
         /\ memory' = c.memory /\ (gas_left' < 0 => status' = "OUT_OF_GAS")
  BY DEF load_store, Access
<1> HIDE DEF c
<1>6. CASE c.out # "SUCCESS" /\ status' = c.out
  <2>1. status' \notin Alive
    BY <1>4, <1>6 DEF Stage, Outs, Alive
  <2> QED BY <1>1, <2>1 DEF CInv, Funded
<1>7. CASE /\ c.out = "SUCCESS" /\ gas_left' = c.gas - 0 /\ dynamic' = dynamic + 0
           /\ memory' = c.memory
  <2>1. c.gas \in Int /\ c.gas >= 0 /\ (CostsFit => c.memory.m_size <= Top)
    BY <1>4, <1>7 DEF Stage, Within
  <2>2. dynamic \in Int /\ (CostsFit => dynamic >= 0)
    BY <1>2 DEF CInv, BInv, MInv, TypeOK, Funded, Alive
  <2>3. gas_left' >= 0 /\ dynamic' = dynamic
    BY <1>7, <2>1, <2>2
  <2> QED BY <1>1, <1>7, <2>1, <2>2, <2>3 DEF CInv, Funded
<1> QED BY <1>5, <1>6, <1>7

-----------------------------------------------------------------------------
LEMMA CInvInit == CallsInit => CInv
<1> SUFFICES ASSUME CallsInit PROVE CInv
  OBVIOUS
<1>1. BInv
  BY BInvInit DEF CallsInit
<1>2. gas_left \in Nat /\ dynamic = 0 /\ memory.m_size = 0
  BY MemoryAssumption DEF CallsInit, Init
<1>3. 0 <= Top
  BY MemoryAssumption DEF Top
<1> QED BY <1>1, <1>2, <1>3 DEF CInv, Funded

LEMMA CInvNext == CInv /\ [CallsNext]_callVars => CInv'
<1> SUFFICES ASSUME CInv, [CallsNext]_callVars PROVE CInv'
  OBVIOUS
<1>1. CASE UNCHANGED vars
  <2>1. BInv'
    BY <1>1, BInvNext DEF CInv
  <2> QED BY <1>1, <2>1 DEF CInv, Funded, vars
<1>2. ASSUME NEW o \in Operands, NEW cold \in BOOLEAN, NEW alloc \in BOOLEAN,
             NEW value, NEW exists \in BOOLEAN,
             \/ call_(o, value, cold, exists, alloc)
             \/ callcode(o, value, cold, alloc)
             \/ delegatecall(o, cold, alloc)
             \/ staticcall(o, cold, alloc)
      PROVE  CInv'
  BY <1>2, CallKeeps DEF call_, callcode, delegatecall, staticcall
<1>3. ASSUME NEW endowment, NEW offset \in Offsets, NEW size \in Sizes, NEW alloc \in BOOLEAN,
             create(endowment, offset, size, alloc) \/ create2(endowment, offset, size, alloc)
      PROVE  CInv'
  BY <1>3, CreatesKeep
<1>4. ASSUME NEW offset \in Offsets, NEW alloc \in BOOLEAN, load_store(offset, alloc)
      PROVE  CInv'
  BY <1>4, LoadStoreFunded
<1> QED BY <1>1, <1>2, <1>3, <1>4 DEF CallsNext, callVars, Stopped

LEMMA CInvAlways == CallsSpec => []CInv
  BY CInvInit, CInvNext, PTL DEF CallsSpec

\* No order of calls, creates and memory growth loses gas or charges it twice:
\* what the caller has, what its memory costs and what was charged for anything
\* else make up its limit, also after a call that is refused and hands the stipend
\* back.
THEOREM CallsPaidOnce == CallsSpec => []GasConserved
<1>1. CInv => GasConserved
  BY DEF CInv, BInv, MInv
<1> QED BY <1>1, CInvAlways, PTL

\* If no sum of an offset and a size wraps, the input of every call and the init
\* code of every create lies in the allocated memory.
THEOREM CallsInBounds == RangesFit => (CallsSpec => []InBounds)
<1>1. RangesFit => []RangesFit
  <2>1. RangesFit => RangesFit'
    BY DEF RangesFit
  <2> QED BY <2>1, PTL
<1>2. RangesFit /\ CInv => InBounds
  BY DEF CInv, BInv
<1> QED BY <1>1, <1>2, CInvAlways, PTL

\* If the stipend is covered by the price of a call with value and no int64_t turns
\* negative, a call never leaves the caller with less than nothing or with more gas
\* than its limit.
THEOREM CallerSolvent == CostsFit => (CallsSpec => []Solvent)
<1>1. CostsFit => []CostsFit
  <2>1. CostsFit => CostsFit'
    BY DEF CostsFit, Top
  <2> QED BY <2>1, PTL
<1>2. CostsFit /\ CInv => Solvent
  <2> SUFFICES ASSUME CostsFit, CInv, status \in Alive PROVE gas_left \in 0..limit
    BY DEF Solvent
  <2>1. gas_left \in Int /\ limit \in Nat /\ dynamic \in Int /\ memory.m_size \in Nat
    BY DEF CInv, BInv, MInv, TypeOK
  <2>2. gas_left >= 0 /\ dynamic >= 0 /\ memory.m_size <= Top
    BY DEF CInv, Funded
  <2> DEFINE cost == words_cost(memory.m_size \div WordBytes)
  <2>3. cost \in Int /\ cost >= 0
    <3>1. memory.m_size \div WordBytes \in Nat
      BY <2>1, DivBelow, MemoryAssumption
    <3> QED BY <2>1, <2>2, <3>1, CostType, CostNonNegative
  <2>4. gas_left + cost + dynamic = limit
    BY DEF CInv, BInv, MInv, GasConserved
  <2> HIDE DEF cost
  <2> QED BY <2>1, <2>2, <2>3, <2>4
<1> QED BY <1>1, <1>2, CInvAlways, PTL

-----------------------------------------------------------------------------
(***************************************************************************)
(* The recorded messages.  While no allocation failed, both vectors got    *)
(* room for all calls with the first one, so no later push moves them.     *)
(***************************************************************************)
Inputs == {"none", "memory", "unset", "moved"} \cup Uninitialised
Message == [input : Inputs, block : Nat]

Vectors ==
    /\ calls \in Cvec /\ inputs \in Cvec /\ messages \in Seq(Message)
    /\ Len(messages) = calls.size /\ calls.size <= MaxCalls /\ inputs.size <= calls.size
    /\ calls.size = 0 => calls = cvec_init /\ inputs = cvec_init
    /\ calls.size > 0 => calls.cap >= MaxCalls /\ inputs.cap >= MaxCalls

Pointed == \A i \in DOMAIN messages : messages[i].input # "none" => messages[i].block = inputs.block

RInv == ~starved => Vectors /\ Pointed

\* With room for it, a push only counts.
LEMMA PushWithin ==
    ASSUME NEW v \in Cvec, v.size < v.cap, NEW ok
    PROVE  LET p == cvec_push(v, ok)
           IN  p \in Cvec /\ p.size = v.size + 1 /\ p.cap = v.cap /\ p.block = v.block
  BY DEF cvec_push, Cvec

\* The first call makes the room, later ones find it.
LEMMA ReservedRoom ==
    ASSUME Vectors, MaxCalls > 0, NEW room \in BOOLEAN, room
    PROVE  LET r == Reserved(room)
           IN  /\ r.calls \in Cvec /\ r.inputs \in Cvec
               /\ r.calls.size = calls.size /\ r.inputs.size = inputs.size
               /\ r.calls.cap >= MaxCalls /\ r.inputs.cap >= MaxCalls
               /\ calls.size > 0 => r.calls = calls /\ r.inputs = inputs
<1>1. MaxCalls \in Nat
  BY CallsAssumption
<1>2. CASE calls.size = 0
  <2>1. calls = cvec_init /\ inputs = cvec_init
    BY <1>2 DEF Vectors
  <2> DEFINE w == [size |-> 0, cap |-> MaxCalls, block |-> 1]
             r == Reserved(room)
  <2>2. Reallocates(cvec_init, MaxCalls)
    BY <1>1 DEF cvec_init, Reallocates
  <2>3. cvec_reserve(cvec_init, MaxCalls, room) = w
    BY <2>2 DEF cvec_reserve, cvec_init
  <2>4. r.calls = w /\ r.inputs = w
    BY <1>2, <2>1, <2>3 DEF Reserved
  <2>5. calls.size = 0 /\ inputs.size = 0
    BY <2>1 DEF cvec_init
  <2>6. w \in Cvec /\ w.size = 0 /\ w.cap = MaxCalls
    BY <1>1 DEF Cvec
  <2> HIDE DEF w, r
  <2>7. MaxCalls >= MaxCalls /\ ~(calls.size > 0)
    BY <1>1, <2>5
  <2> QED BY <2>4, <2>5, <2>6, <2>7 DEF r
<1>3. CASE calls.size # 0
  <2>1. calls.size > 0
    BY <1>3 DEF Vectors, Cvec
  <2> QED BY <1>3, <2>1 DEF Reserved, Vectors
<1> QED BY <1>2, <1>3

LEMMA RecordKeeps ==
    ASSUME RInv, NEW input \in Inputs, NEW room \in BOOLEAN, NEW ok \in BOOLEAN,
           Record(input, room, ok)
    PROVE  RInv'
<1> SUFFICES ASSUME ~starved' PROVE Vectors' /\ Pointed'
  BY DEF RInv
<1>1. ~starved /\ room /\ ok
  BY DEF Record
<1>2. Vectors /\ Pointed
  BY <1>1 DEF RInv
<1>3. MaxCalls \in Nat
  BY CallsAssumption
<1> DEFINE r == Reserved(room)
           pushed == cvec_push(r.calls, ok)
           copied == cvec_push(r.inputs, ok)
           list == IF pushed.size > r.calls.size
                   THEN Append(messages, [input |-> input, block |-> 0]) ELSE messages
           copies == list # <<>> /\ list[Len(list)].input # "none"
<1>4. LET full == r.calls.size >= MaxCalls
      IN  /\ calls' = IF full THEN r.calls ELSE pushed
          /\ inputs' = IF ~full /\ copies THEN copied ELSE r.inputs
          /\ messages' = IF full THEN messages
                         ELSE IF copies THEN [list EXCEPT ![Len(list)].block = copied.block]
                         ELSE list
  BY <1>1 DEF Record
<1>5. CASE calls.size >= MaxCalls
  <2>1. r = [calls |-> calls, inputs |-> inputs]
    <3>1. CASE calls.size = 0
      <4>1. MaxCalls = 0 /\ calls = cvec_init /\ inputs = cvec_init
        BY <1>2, <1>3, <1>5, <3>1 DEF Vectors
      <4>2. cvec_reserve(cvec_init, 0, room) = cvec_init
        BY DEF cvec_reserve, Reallocates, cvec_init
      <4> QED BY <3>1, <4>1, <4>2 DEF Reserved
    <3>2. CASE calls.size # 0
      BY <3>2 DEF Reserved
    <3> QED BY <3>1, <3>2
  <2>2. UNCHANGED <<calls, inputs, messages>>
    <3>1. r.calls = calls /\ r.inputs = inputs
      BY <2>1
    <3> HIDE DEF r, pushed, copied, list
    <3> QED BY <1>4, <1>5, <3>1
  <2> QED BY <1>2, <2>2 DEF Vectors, Pointed
<1>6. CASE ~(calls.size >= MaxCalls)
  <2>1. calls.size \in Nat /\ inputs.size \in Nat /\ calls.size < MaxCalls
        /\ inputs.size <= calls.size /\ messages \in Seq(Message) /\ Len(messages) = calls.size
    BY <1>2, <1>3, <1>6 DEF Vectors, Cvec
  <2>2. MaxCalls > 0
    BY <1>3, <2>1
  <2>3. /\ r.calls \in Cvec /\ r.inputs \in Cvec
        /\ r.calls.size = calls.size /\ r.inputs.size = inputs.size
        /\ r.calls.cap >= MaxCalls /\ r.inputs.cap >= MaxCalls
        /\ calls.size > 0 => r.calls = calls /\ r.inputs = inputs
    BY <1>1, <1>2, <2>2, ReservedRoom
  <2> HIDE DEF r
  <2>4. /\ pushed \in Cvec /\ pushed.size = calls.size + 1 /\ pushed.cap >= MaxCalls
    <3>1. r.calls.cap \in Nat /\ r.calls.size < r.calls.cap
      BY <1>3, <2>1, <2>3 DEF Cvec
    <3> QED BY <2>3, <3>1, PushWithin
  <2>5. /\ copied \in Cvec /\ copied.size = inputs.size + 1 /\ copied.cap >= MaxCalls
        /\ copied.block = r.inputs.block
    <3>1. r.inputs.cap \in Nat /\ r.inputs.size < r.inputs.cap
      BY <1>3, <2>1, <2>3 DEF Cvec
    <3> QED BY <2>3, <3>1, PushWithin
  <2> HIDE DEF pushed, copied
  <2> DEFINE new == [input |-> input, block |-> 0]
             n == calls.size + 1
  <2>6. new \in Message
    BY DEF Message
  <2>7. list = Append(messages, new)
    BY <2>1, <2>3, <2>4
  <2>8. /\ list \in Seq(Message) /\ Len(list) = n /\ list[n] = new
        /\ \A i \in 1..calls.size : list[i] = messages[i]
    BY <2>1, <2>6, <2>7
  <2>9. list # <<>> /\ list[Len(list)].input = input
    <3>1. new.input = input
      OBVIOUS
    <3> HIDE DEF list, new
    <3>2. Len(list) # 0
      BY <2>1, <2>8
    <3> QED BY <2>8, <3>1, <3>2
  <2> HIDE DEF list, new
  <2>10. /\ calls' = pushed
         /\ inputs' = IF input # "none" THEN copied ELSE r.inputs
         /\ messages' = IF input # "none" THEN [list EXCEPT ![n].block = copied.block]
                        ELSE list
    BY <1>4, <1>6, <2>3, <2>8, <2>9
  <2>11. copied.block \in Nat /\ r.inputs.block \in Nat
    BY <2>3, <2>5 DEF Cvec
  <2>12. inputs'.block = r.inputs.block /\ inputs' \in Cvec /\ inputs'.cap >= MaxCalls
         /\ inputs'.size <= n
    BY <2>1, <2>3, <2>5, <2>10
  <2>13. /\ messages' \in Seq(Message) /\ Len(messages') = n
         /\ \A i \in 1..calls.size : messages'[i] = messages[i]
         /\ messages'[n].input = input
         /\ input # "none" => messages'[n].block = copied.block
    <3>1. CASE input = "none"
      <4>1. messages' = list
        BY <2>10, <3>1
      <4>2. new.input = input
        BY DEF new
      <4> QED BY <2>8, <3>1, <4>1, <4>2
    <3>2. CASE input # "none"
      <4> DEFINE e == [list[n] EXCEPT !.block = copied.block]
      <4>1. messages' = [list EXCEPT ![n] = e]
        BY <2>10, <3>2
      <4>2. e \in Message /\ e.input = input /\ e.block = copied.block
        BY <2>8, <2>11 DEF new, Message
      <4> HIDE DEF e
      <4>3. n \in 1..Len(list) /\ n \notin 1..calls.size
        BY <2>1, <2>8
      <4> QED BY <2>1, <2>8, <4>1, <4>2, <4>3
    <3> QED BY <3>1, <3>2
  <2>14. Vectors'
    <3>1. calls'.size = n /\ calls'.size > 0 /\ calls'.size <= MaxCalls
      BY <1>3, <2>1, <2>4, <2>10
    <3>2. calls' \in Cvec /\ calls'.cap >= MaxCalls /\ n # 0
      BY <2>1, <2>4, <2>10
    <3> HIDE DEF n
    <3> QED BY <2>12, <2>13, <3>1, <3>2 DEF Vectors
  <2>15. Pointed'
    <3> SUFFICES ASSUME NEW i \in DOMAIN messages', messages'[i].input # "none"
                 PROVE  messages'[i].block = inputs'.block
      BY DEF Pointed
    <3>1. i \in 1..calls.size \/ i = n
      BY <2>1, <2>13
    <3>2. CASE i = n
      BY <2>5, <2>12, <2>13, <3>2
    <3>3. CASE i \in 1..calls.size
      <4>1. messages'[i] = messages[i] /\ i \in DOMAIN messages
        BY <2>1, <2>13, <3>3
      <4>2. r.inputs = inputs
        BY <2>1, <2>3, <3>3
      <4> QED BY <1>2, <2>12, <4>1, <4>2 DEF Pointed
    <3> QED BY <3>1, <3>2, <3>3
  <2> QED BY <2>14, <2>15
<1> QED BY <1>5, <1>6

LEMMA HostCallKeeps ==
    ASSUME RInv, NEW input \in Inputs, HostCall(input)
    PROVE  RInv'
<1>1. PICK found \in InputsFound(input), room \in BOOLEAN, ok \in BOOLEAN :
         IF found = "PANIC" THEN status' = "PANIC" /\ UNCHANGED hostVars
         ELSE Record(found, room, ok)
  BY DEF HostCall
<1>2. found \in Inputs
  <2>1. InputsFound(input) \subseteq Uninitialised \cup {input}
    BY DEF InputsFound
  <2> QED BY <2>1 DEF Inputs
<1>3. CASE UNCHANGED hostVars
  BY <1>3 DEF RInv, Vectors, Pointed, hostVars
<1> QED BY <1>1, <1>2, <1>3, RecordKeeps

LEMMA RInvInit == CallsInit => RInv
<1> SUFFICES ASSUME CallsInit PROVE RInv
  OBVIOUS
<1>1. calls = cvec_init /\ inputs = cvec_init /\ messages = <<>>
  BY DEF CallsInit
<1>2. cvec_init \in Cvec /\ cvec_init.size = 0
  BY DEF cvec_init, Cvec
<1>3. MaxCalls \in Nat
  BY CallsAssumption
<1>4. messages \in Seq(Message) /\ Len(messages) = 0 /\ DOMAIN messages = {}
  BY <1>1
<1> QED BY <1>1, <1>2, <1>3, <1>4 DEF RInv, Vectors, Pointed

LEMMA RInvNext == RInv /\ [CallsNext]_callVars => RInv'
<1> SUFFICES ASSUME RInv, [CallsNext]_callVars PROVE RInv'
  OBVIOUS
<1>1. CASE UNCHANGED hostVars
  BY <1>1 DEF RInv, Vectors, Pointed, hostVars
<1>2. ASSUME NEW op, NEW o, NEW value, NEW cold, NEW exists, NEW alloc,
             Call(op, o, value, cold, exists, alloc)
      PROVE  RInv'
  <2>1. UNCHANGED hostVars \/ HostCall("memory") \/ HostCall("unset")
    BY <1>2 DEF Call, Ends
  <2>2. "memory" \in Inputs /\ "unset" \in Inputs
    BY DEF Inputs
  <2> QED BY <1>1, <2>1, <2>2, HostCallKeeps
<1>3. ASSUME NEW s, NEW spent, NEW endowment, NEW touches, NEW input \in Inputs,
             Create(s, spent, endowment, touches, input)
      PROVE  RInv'
  <2>1. UNCHANGED hostVars \/ HostCall(input)
    BY <1>3 DEF Create, Ends
  <2> QED BY <1>1, <2>1, HostCallKeeps
<1>4. ASSUME NEW endowment, NEW offset, NEW size, NEW alloc,
             create(endowment, offset, size, alloc) \/ create2(endowment, offset, size, alloc)
      PROVE  RInv'
  <2>1. \/ UNCHANGED hostVars
        \/ \E s, spent, touches : \E input \in {"unset", "moved"} :
              Create(s, spent, endowment, touches, input)
    <3>1. CASE create(endowment, offset, size, alloc)
      BY <3>1 DEF create, Ends
    <3>2. CASE create2(endowment, offset, size, alloc)
      BY <3>2 DEF create2, Ends
    <3> QED BY <1>4, <3>1, <3>2
  <2>2. {"unset", "moved"} \subseteq Inputs
    BY DEF Inputs
  <2> QED BY <1>1, <1>3, <2>1, <2>2
<1> QED BY <1>1, <1>2, <1>4
        DEF CallsNext, callVars, call_, callcode, delegatecall, staticcall

\* The first call makes room for all the host will record, so "Iterators will not
\* invalidate" holds for every capacity and every growth of the vectors, as long as
\* the host gets its memory.
THEOREM InputsStayFresh == CallsSpec => []InputsFresh
<1>1. RInv => InputsFresh
  BY DEF RInv, Pointed, InputsFresh
<1> QED BY <1>1, RInvInit, RInvNext, PTL DEF CallsSpec
=============================================================================
