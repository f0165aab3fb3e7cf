--------------------------- MODULE DatapathProofs ---------------------------
(***************************************************************************)
(* The data path of the trusted application implements the one of evmone,  *)
(* for every width of limbs and bytes, every message, code and context,    *)
(* every content of the memory and of the buffers that nobody cleared.     *)
(***************************************************************************)
EXTENDS Datapath, Uint256Proofs

\* No operand is passed that evmone is known to read otherwise.
NoDepartures == Departures = {}

-----------------------------------------------------------------------------
(***************************************************************************)
(* Numbers and the bytes that spell them.                                  *)
(***************************************************************************)
LEMMA WordFacts ==
    /\ WordBytes \in Nat \ {0} /\ WordBytes = 4 * LimbBytes
    /\ AddressBytes \in Nat /\ AddressBytes <= WordBytes
    /\ WordBuffers = [1..WordBytes -> Bytes]
    /\ Bytes \subseteq Nat /\ 0 \in Bytes
    /\ Weight(WordBytes) = Modulus
<1>1. /\ WordBytes \in Nat \ {0} /\ WordBytes = 4 * LimbBytes
      /\ WordBuffers = [1..WordBytes -> Bytes]
  BY ByteFacts DEF WordBytes, WordBuffers
<1>2. Weight(WordBytes) = Modulus
  BY LimbWeights DEF WordBytes
<1>3. Bytes \subseteq Nat /\ 0 \in Bytes
  BY ByteFacts
<1>4. AddressBytes \in Nat /\ AddressBytes <= WordBytes
  BY DatapathAssumption DEF WordBytes
<1> QED BY <1>1, <1>2, <1>3, <1>4

\* What bytes spell depends on them only.
LEMMA JoinedAgree ==
    ASSUME NEW b, NEW p, NEW c, NEW q, NEW n \in Nat,
           \A i \in 1..n : b[p + i] = c[q + i]
    PROVE  Joined(b, p, n) = Joined(c, q, n)
<1>1. PICK f : /\ \A k \in 0..n : f[k] = IF k = 0 THEN 0 ELSE f[k - 1] * ByteBase + b[p + k]
               /\ Joined(b, p, n) = f[n]
  BY JoinedFollows
<1>2. PICK g : /\ \A k \in 0..n : g[k] = IF k = 0 THEN 0 ELSE g[k - 1] * ByteBase + c[q + k]
               /\ Joined(c, q, n) = g[n]
  BY JoinedFollows
<1>3. PICK s, d, e : /\ s = [k \in 0..n |-> ByteBase]
                     /\ d = [k \in 0..n |-> b[p + k]] /\ e = [k \in 0..n |-> c[q + k]]
  OBVIOUS
<1>4. \A k \in 0..n : s[k] = ByteBase /\ d[k] = b[p + k] /\ e[k] = c[q + k]
  BY <1>3
<1>5. Follows(n, f, s, d) /\ Follows(n, g, s, e)
  BY <1>1, <1>2, <1>4 DEF Follows, Sequel
<1>6. \A j \in 1..n : s[j] = s[j] /\ d[j] = e[j]
  BY <1>4
<1>7. f[n] = g[n]
  BY <1>5, <1>6, FollowsAgree
<1> QED BY <1>1, <1>2, <1>7

\* The integer of a sequence of bytes, as evmone reads it.
LEMMA NatOfJoined ==
    ASSUME NEW bytes, NEW n \in Nat, Len(bytes) = n
    PROVE  Evm!NatOf(bytes) = Joined(bytes, 0, n)
<1>1. PICK g : /\ \A k \in 0..n : g[k] = IF k = 0 THEN 0 ELSE g[k - 1] * ByteBase + bytes[0 + k]
               /\ Joined(bytes, 0, n) = g[n]
  BY JoinedFollows
<1>2. PICK s, d : s = [k \in 0..n |-> ByteBase] /\ d = [k \in 0..n |-> bytes[k]]
  OBVIOUS
<1>3. \A k \in 0..n : s[k] = ByteBase /\ d[k] = bytes[k]
  BY <1>2
<1>4. PICK h : h = [k \in 0..n |-> h[k]] /\ Follows(n, h, s, d)
  BY FollowsExist
<1>5. h = [k \in 0..n |-> IF k = 0 THEN 0 ELSE h[k - 1] * ByteBase + bytes[k]]
  <2>1. \A k \in 0..n : h[k] = IF k = 0 THEN 0 ELSE h[k - 1] * ByteBase + bytes[k]
    BY <1>3, <1>4 DEF Follows, Sequel
  <2> QED BY <1>4, <2>1
<1> DEFINE F == CHOOSE upto :
      upto = [k \in 0..n |-> IF k = 0 THEN 0 ELSE upto[k - 1] * ByteBase + bytes[k]]
<1>6. F = [k \in 0..n |-> IF k = 0 THEN 0 ELSE F[k - 1] * ByteBase + bytes[k]]
  BY <1>5
<1>7. Evm!NatOf(bytes) = F[n]
  BY DEF Evm!NatOf
<1> HIDE DEF F
<1>8. \A k \in 0..n : F[k] = IF k = 0 THEN 0 ELSE F[k - 1] * ByteBase + bytes[k]
  BY <1>6, Zenon
<1>9. Follows(n, F, s, d)
  BY <1>3, <1>8 DEF Follows, Sequel
<1>10. \A k \in 1..n : bytes[0 + k] = bytes[k]
  OBVIOUS
<1>11. Follows(n, g, s, d)
  <2> SUFFICES ASSUME NEW k \in 0..n PROVE g[k] = Sequel(g, k, s, d)
    BY DEF Follows
  <2>1. s[k] = ByteBase /\ d[k] = bytes[k] /\ (k # 0 => bytes[0 + k] = bytes[k])
    BY <1>3, <1>10
  <2> QED BY <1>1, <2>1 DEF Sequel
<1>12. \A j \in 1..n : s[j] = s[j] /\ d[j] = d[j]
  OBVIOUS
<1>13. F[n] = g[n]
  BY <1>9, <1>11, <1>12, FollowsAgree
<1> QED BY <1>1, <1>7, <1>13

\* The powers of ByteBase of evmone are the weights of bytes.
LEMMA WeighsWeight ==
    ASSUME NEW n \in Nat
    PROVE  Evm!Weighs[n] = Weight(n)
<1> DEFINE W == [k \in Nat |-> Weight(k)]
<1>1. W = [k \in Nat |-> IF k = 0 THEN 1 ELSE ByteBase * W[k - 1]]
  <2>1. ASSUME NEW k \in Nat
        PROVE  W[k] = IF k = 0 THEN 1 ELSE ByteBase * W[k - 1]
    <3>1. CASE k = 0
      BY <3>1, WeightNat
    <3>2. CASE k # 0
      <4>1. PICK j \in Nat : k = j + 1
        BY <3>2
      <4>2. Weight(j + 1) = Weight(j) * ByteBase /\ Weight(j) \in Nat /\ ByteBase \in Nat
        BY WeightNat, ByteFacts
      <4>3. W[k - 1] = Weight(j) /\ W[k] = Weight(j + 1)
        BY <4>1
      <4> QED BY <3>2, <4>2, <4>3
    <3> QED BY <3>1, <3>2
  <2> QED BY <2>1
<1> DEFINE F == CHOOSE Weighs : Weighs = [k \in Nat |-> IF k = 0 THEN 1 ELSE ByteBase * Weighs[k - 1]]
<1>2. Evm!Weighs = F
  BY DEF Evm!Weighs
<1>3. F = [k \in Nat |-> IF k = 0 THEN 1 ELSE ByteBase * F[k - 1]]
  <2> HIDE DEF W
  <2> QED BY <1>1
<1> HIDE DEF F
<1>4. \A k \in Nat : F[k] = IF k = 0 THEN 1 ELSE ByteBase * F[k - 1]
  BY <1>3, Zenon
<1>5. \A k \in Nat : F[k] = Weight(k)
  <2> SUFFICES ASSUME NEW m \in Nat, F[m] # Weight(m) PROVE FALSE
    OBVIOUS
  <2> DEFINE T == {k \in Nat : F[k] # Weight(k)}
  <2>1. T \subseteq Nat /\ T # {}
    OBVIOUS
  <2>2. PICK k \in T : \A j \in T : k <= j
    <3> HIDE DEF T
    <3> QED BY <2>1, LeastNat
  <2>3. CASE k = 0
    BY <1>4, <2>2, <2>3, WeightNat
  <2>4. CASE k # 0
    <3>1. PICK j \in Nat : k = j + 1
      BY <2>2, <2>4
    <3>2. j \notin T
      BY <2>2, <3>1
    <3>3. F[j] = Weight(j)
      BY <3>2
    <3>4. F[k] = ByteBase * F[j]
      BY <1>4, <2>2, <3>1
    <3>5. Weight(j + 1) = Weight(j) * ByteBase /\ Weight(j) \in Nat /\ ByteBase \in Nat
      BY WeightNat, ByteFacts
    <3>6. F[k] = Weight(k)
      BY <3>1, <3>3, <3>4, <3>5
    <3> QED BY <2>2, <3>6
  <2> QED BY <2>3, <2>4
<1> QED BY <1>2, <1>5


\* A buffer read into limbs is the integer evmone reads from it.
LEMMA ReadsNat ==
    ASSUME NEW bytes \in WordBuffers
    PROVE  readu256BE(bytes) \in Uint256 /\ Value256(readu256BE(bytes)) = Evm!NatOf(bytes)
<1>1. Len(bytes) = WordBytes
  BY WordFacts
<1>2. Evm!NatOf(bytes) = Joined(bytes, 0, WordBytes)
  BY <1>1, NatOfJoined, WordFacts
<1> QED BY <1>2, ReadWord, WordFacts DEF BufferValue

\* Leading zeros do not count.
LEMMA JoinedZeros ==
    ASSUME NEW b, NEW n \in Nat, \A i \in 1..n : b[0 + i] = 0
    PROVE  Joined(b, 0, n) = 0
<1>1. PICK f : /\ \A k \in 0..n : f[k] = IF k = 0 THEN 0 ELSE f[k - 1] * ByteBase + b[0 + k]
               /\ Joined(b, 0, n) = f[n]
  BY JoinedFollows
<1>2. \A k \in Nat : k <= n => f[k] = 0
  <2> SUFFICES ASSUME NEW m \in Nat, m <= n, f[m] # 0 PROVE FALSE
    OBVIOUS
  <2> DEFINE T == {k \in Nat : k <= n /\ f[k] # 0}
  <2>1. T \subseteq Nat /\ T # {}
    OBVIOUS
  <2>2. PICK k \in T : \A j \in T : k <= j
    <3> HIDE DEF T
    <3> QED BY <2>1, LeastNat
  <2>3. k # 0
    BY <1>1, <2>2
  <2>4. PICK j \in Nat : k = j + 1 /\ k \in 0..n /\ k \in 1..n
    BY <2>2, <2>3
  <2>5. j \notin T
    BY <2>2, <2>4
  <2>6. f[j] = 0
    BY <2>2, <2>4, <2>5
  <2>7. f[k] = f[j] * ByteBase + b[0 + k]
    BY <1>1, <2>3, <2>4
  <2>8. b[0 + k] = 0 /\ 0 * ByteBase = 0
    BY <2>4, ByteFacts
  <2> QED BY <2>2, <2>6, <2>7, <2>8
<1> QED BY <1>1, <1>2

\* An address in a buffer whose high bytes hold what was left there: what is
\* read are the address and these bytes above it.
LEMMA UnclearedValue ==
    ASSUME NEW bytes \in [1..AddressBytes -> Bytes], NEW left \in Bytes
    PROVE  /\ Uncleared(bytes, left) \in WordBuffers
           /\ Evm!NatOf(Uncleared(bytes, left)) % Evm!Weighs[AddressBytes] = Evm!NatOf(bytes)
           /\ left = 0 => Evm!NatOf(Uncleared(bytes, left)) = Evm!NatOf(bytes)
<1> DEFINE u == Uncleared(bytes, left)
<1>1. PICK above \in Nat : above = WordBytes - AddressBytes /\ WordBytes = above + AddressBytes
  BY WordFacts
<1>2. /\ \A i \in 1..above : u[0 + i] = left
      /\ \A i \in 1..AddressBytes : u[above + i] = bytes[0 + i]
      /\ u \in WordBuffers
  BY <1>1, WordFacts DEF Uncleared
<1> HIDE DEF u
<1>3. Spelt(u, 0, above + AddressBytes)
  BY <1>1, <1>2, WordFacts DEF Spelt
<1>4. SplitAt(u, 0, above, AddressBytes)
  BY <1>3, JoinedSplit, WordFacts
<1>5. Joined(u, above, AddressBytes) = Joined(bytes, 0, AddressBytes)
  BY <1>2, JoinedAgree, WordFacts
<1>6. Joined(bytes, 0, AddressBytes) \in 0..(Weight(AddressBytes) - 1)
  BY JoinedRange, WordFacts
<1>7. Joined(u, 0, above) \in 0..(Weight(above) - 1)
  BY <1>1, <1>2, WordFacts, JoinedRange
<1>8. Len(u) = WordBytes /\ Len(bytes) = AddressBytes
  BY <1>2, WordFacts
<1>9. /\ Evm!NatOf(u) = Joined(u, 0, WordBytes)
      /\ Evm!NatOf(bytes) = Joined(bytes, 0, AddressBytes)
      /\ Evm!Weighs[AddressBytes] = Weight(AddressBytes)
  BY <1>8, NatOfJoined, WeighsWeight, WordFacts
<1>10. PICK h, l, W :
          /\ h = Joined(u, 0, above) /\ l = Joined(bytes, 0, AddressBytes)
          /\ W = Weight(AddressBytes) /\ h \in Nat /\ l \in Nat /\ W \in Nat \ {0} /\ l < W
  <2>1. Weight(above) \in Nat \ {0} /\ Weight(AddressBytes) \in Nat \ {0}
    BY <1>1, WeightNat, WordFacts
  <2> QED BY <1>6, <1>7, <2>1
<1>11. Joined(u, 0, WordBytes) = h * W + l
  <2>1. Joined(u, 0, above + AddressBytes)
            = Joined(u, 0, above) * Weight(AddressBytes) + Joined(u, 0 + above, AddressBytes)
    BY <1>4 DEF SplitAt
  <2>2. 0 + above = above
    BY <1>1
  <2>3. Joined(u, 0, WordBytes) = Joined(u, 0, above + AddressBytes)
    BY <1>1
  <2> QED BY <2>1, <2>2, <2>3, <1>5, <1>10, Zenon
<1>12. (h * W + l) % W = l
  <2>1. h \in Int /\ l \in Nat /\ W \in Nat \ {0} /\ l < W
    BY <1>10
  <2> QED BY <2>1, DivModIs
<1>13. left = 0 => h = 0
  BY <1>2, <1>10, JoinedZeros
<1>14. left = 0 => h * W + l = l
  BY <1>10, <1>13
<1> QED BY <1>2, <1>9, <1>10, <1>11, <1>12, <1>14 DEF u


-----------------------------------------------------------------------------
(***************************************************************************)
(* The stack.                                                              *)
(***************************************************************************)

\* The stack and the memory that evmone has, as the slots and blocks show them.
ItemsOf(s, t) == [i \in 1..t |-> Value256(s[t + 1 - i])]
Items == ItemsOf(slots, top)
ShownOf(bytes, size) == [i \in 1..size |-> bytes[i - 1]]
Shown == ShownOf(data, m_size)

StackTyped == slots \in [1..Slots -> Uint256] /\ top \in 0..Slots

\* A block of memory with a whole number of words in use, in reach of the gas.
Block(bytes, size) ==
    /\ size \in Nat /\ size % WordBytes = 0 /\ size < MaxOffset + WordBytes
    /\ \E n \in Nat : size <= n /\ bytes \in [0..(n - 1) -> Bytes]

TypeInv == StackTyped /\ Block(data, m_size)

\* Two sequences are equal if they are as functions.
LEMMA SeqEqual ==
    ASSUME NEW S, NEW s \in Seq(S), NEW t \in Seq(S), Len(s) = Len(t),
           \A i \in 1..Len(s) : s[i] = t[i]
    PROVE  s = t
OBVIOUS

LEMMA FunctionSeq ==
    ASSUME NEW S, NEW n \in Nat, NEW f \in [1..n -> S]
    PROVE  f \in Seq(S) /\ Len(f) = n
OBVIOUS

LEMMA ItemsFacts ==
    ASSUME NEW s \in [1..Slots -> Uint256], NEW t \in 0..Slots
    PROVE  /\ t \in Nat /\ Slots \in Nat /\ t <= Slots
           /\ ItemsOf(s, t) \in Seq(Nat) /\ Len(ItemsOf(s, t)) = t
           /\ \A i \in 1..t : t + 1 - i \in 1..Slots /\ s[t + 1 - i] \in Uint256
                              /\ ItemsOf(s, t)[i] = Value256(s[t + 1 - i])
<1>1. t \in Nat /\ Slots \in Nat /\ t <= Slots
  BY DatapathAssumption
<1>2. \A i \in 1..t : t + 1 - i \in 1..Slots /\ s[t + 1 - i] \in Uint256
  BY <1>1
<1>3. \A i \in 1..t : Value256(s[t + 1 - i]) \in Nat
  BY <1>2, Parts256
<1>4. ItemsOf(s, t) \in [1..t -> Nat]
  BY <1>3 DEF ItemsOf
<1>5. ItemsOf(s, t) \in Seq(Nat) /\ Len(ItemsOf(s, t)) = t
  BY <1>1, <1>4, FunctionSeq
<1> QED BY <1>1, <1>2, <1>5 DEF ItemsOf

\* An item on top of a sequence.
LEMMA OnTop ==
    ASSUME NEW s \in Seq(Nat), NEW n \in Nat, NEW t \in Seq(Nat), Len(t) = Len(s) + 1,
           t[1] = n, \A i \in 1..Len(s) : t[i + 1] = s[i]
    PROVE  t = <<n>> \o s
<1>1. <<n>> \o s \in Seq(Nat) /\ Len(<<n>> \o s) = Len(s) + 1
  OBVIOUS
<1>2. ASSUME NEW i \in 1..Len(t) PROVE t[i] = (<<n>> \o s)[i]
  <2>1. CASE i = 1
    BY <2>1
  <2>2. CASE i # 1
    <3>1. PICK j \in 1..Len(s) : i = j + 1
      BY <2>2
    <3>2. (<<n>> \o s)[j + 1] = s[j]
      OBVIOUS
    <3> QED BY <3>1, <3>2
  <2> QED BY <2>1, <2>2
<1> QED BY <1>1, <1>2, SeqEqual

LEMMA Pushing ==
    ASSUME StackTyped, NEW word \in Uint256, StackTop_push(word)
    PROVE  StackTyped' /\ Evm!Pushes(Value256(word))
<1>1. /\ top \in Nat /\ Slots \in Nat /\ top < Slots
      /\ top' = top + 1 /\ slots' = [slots EXCEPT ![top + 1] = word]
      /\ UNCHANGED <<data, m_size, output, status>>
  BY ItemsFacts DEF StackTop_push, StackTyped
<1>2. StackTyped'
  BY <1>1 DEF StackTyped
<1>3. /\ Items' \in Seq(Nat) /\ Len(Items') = top + 1
      /\ \A i \in 1..(top + 1) : Items'[i] = Value256(slots'[top + 2 - i])
  <2>1. top + 1 + 1 = top + 2 /\ top + 1 \in 0..Slots /\ slots' \in [1..Slots -> Uint256]
    BY <1>1, <1>2 DEF StackTyped
  <2>2. Items' = ItemsOf(slots', top + 1)
    BY <1>1 DEF Items
  <2>3. /\ ItemsOf(slots', top + 1) \in Seq(Nat) /\ Len(ItemsOf(slots', top + 1)) = top + 1
        /\ \A i \in 1..(top + 1) :
              ItemsOf(slots', top + 1)[i] = Value256(slots'[top + 1 + 1 - i])
    BY <2>1, ItemsFacts
  <2>4. \A i \in 1..(top + 1) : top + 1 + 1 - i = top + 2 - i
    BY <1>1
  <2> QED BY <2>2, <2>3, <2>4
<1>4. Items'[1] = Value256(word)
  <2>1. top + 2 - 1 = top + 1 /\ slots'[top + 1] = word
    BY <1>1 DEF StackTyped
  <2> QED BY <1>1, <1>3, <2>1
<1>5. ASSUME NEW i \in 1..top PROVE Items'[i + 1] = Items[i]
  <2>1. PICK k \in 1..top : k = top + 1 - i /\ k = top + 2 - (i + 1)
    BY <1>1
  <2>2. slots'[k] = slots[k]
    BY <1>1, <2>1 DEF StackTyped
  <2>3. i + 1 \in 1..(top + 1)
    BY <1>1
  <2>4. Items'[i + 1] = Value256(slots'[top + 2 - (i + 1)])
    BY <1>3, <2>3
  <2>5. Items[i] = Value256(slots[top + 1 - i])
    BY ItemsFacts DEF StackTyped, Items
  <2> QED BY <2>1, <2>2, <2>4, <2>5
<1>6. Value256(word) \in Nat /\ Items \in Seq(Nat) /\ Len(Items) = top
  BY Parts256, ItemsFacts DEF StackTyped, Items
<1>7. Items' = <<Value256(word)>> \o Items
  BY <1>3, <1>4, <1>5, <1>6, OnTop
<1> QED BY <1>1, <1>2, <1>7 DEF Evm!Pushes, Items, ItemsOf


LEMMA LimbWordValue ==
    ASSUME NEW n \in 0..(Base - 1)
    PROVE  LimbWord(n) \in Uint256 /\ Value256(LimbWord(n)) = n
BY OneLimb DEF LimbWord

LEMMA RunningMaps ==
    ASSUME NEW name, NEW n, RunsNth(name, n)
    PROVE  Evm!RunsNth(name, n)
BY DEF RunsNth, Evm!RunsNth

\* A push leaves the memory as it is.
LEMMA PushTyped ==
    ASSUME TypeInv, NEW word \in Uint256, StackTop_push(word)
    PROVE  TypeInv' /\ Evm!Pushes(Value256(word))
<1>1. StackTyped' /\ Evm!Pushes(Value256(word))
  BY Pushing DEF TypeInv
<1>2. Block(data', m_size')
  BY DEF TypeInv, StackTop_push
<1> QED BY <1>1, <1>2 DEF TypeInv

LEMMA PushBuffer ==
    ASSUME TypeInv, NEW bytes \in WordBuffers, StackTop_push(readu256BE(bytes))
    PROVE  TypeInv' /\ Evm!Pushes(Evm!NatOf(bytes))
BY ReadsNat, PushTyped

LEMMA PushLimb ==
    ASSUME TypeInv, NEW n \in 0..(Base - 1), StackTop_push(LimbWord(n))
    PROVE  TypeInv' /\ Evm!Pushes(n)
BY LimbWordValue, PushTyped

\* An address that is pushed through a buffer that was not cleared.
LEMMA PushUncleared ==
    ASSUME TypeInv, NEW bytes \in [1..AddressBytes -> Bytes], NEW left \in Bytes,
           StackTop_push(readu256BE(Uncleared(bytes, left)))
    PROVE  TypeInv' /\ Evm!PushesAddress(bytes)
<1> DEFINE n == Evm!NatOf(Uncleared(bytes, left))
<1>1. TypeInv' /\ Evm!Pushes(n)
  BY UnclearedValue, PushBuffer
<1>2. n % Evm!Weighs[AddressBytes] = Evm!NatOf(bytes) /\ n \in Nat
  <2>1. n = Value256(readu256BE(Uncleared(bytes, left)))
    BY UnclearedValue, ReadsNat
  <2>2. n \in Nat
    BY <2>1, UnclearedValue, ReadsNat, Parts256
  <2> QED BY <2>2, UnclearedValue
<1> HIDE DEF n
<1>3. /\ Items' = <<n>> \o Items
      /\ UNCHANGED <<Shown, output, status = "RUNNING">>
  BY <1>1 DEF Evm!Pushes, Items, ItemsOf, Shown, ShownOf
<1>4. Items \in Seq(Nat)
  BY ItemsFacts DEF TypeInv, StackTyped, Items
<1>5. Items' # <<>> /\ Tail(Items') = Items /\ Head(Items') = n
  BY <1>2, <1>3, <1>4
<1> QED BY <1>1, <1>2, <1>3, <1>5
    DEF Evm!PushesAddress, Items, ItemsOf, Shown, ShownOf


LEMMA MemoryFacts ==
    ASSUME TypeInv
    PROVE  /\ m_size \in 0..(Base - 1) /\ m_size % WordBytes = 0
           /\ Shown \in Seq(Bytes) /\ Len(Shown) = m_size
           /\ \A i \in 1..m_size : Shown[i] = data[i - 1]
<1>1. m_size \in Nat /\ m_size % WordBytes = 0 /\ m_size < MaxOffset + WordBytes
  BY DEF TypeInv, Block
<1>2. MaxOffset \in Nat /\ MaxOffset + WordBytes <= Base
  BY DatapathAssumption DEF WordBytes
<1>3. m_size \in 0..(Base - 1)
  BY <1>1, <1>2, WordFacts, BaseFacts
<1>4. PICK n \in Nat : m_size <= n /\ data \in [0..(n - 1) -> Bytes]
  BY DEF TypeInv, Block
<1>5. Shown \in [1..m_size -> Bytes]
  BY <1>1, <1>4 DEF Shown, ShownOf
<1>6. Shown \in Seq(Bytes) /\ Len(Shown) = m_size
  BY <1>1, <1>5, FunctionSeq
<1> QED BY <1>1, <1>3, <1>6 DEF Shown, ShownOf

\* ADDRESS, ORIGIN and COINBASE.
LEMMA AddressSteps ==
    ASSUME TypeInv, NEW left \in Leftover, address(left) \/ origin(left) \/ coinbase(left)
    PROVE  TypeInv' /\ Evm!Next
<1>1. /\ left \in Bytes
      /\ {message.recipient, context.tx_origin, context.block_coinbase}
            \subseteq [1..AddressBytes -> Bytes]
  BY DatapathAssumption
<1>2. CASE origin(left)
  <2>1. TypeInv' /\ Evm!PushesAddress(context.tx_origin)
    BY <1>1, <1>2, PushUncleared DEF origin
  <2>2. Evm!origin
    BY <1>2, <2>1, RunningMaps DEF origin, Runs, Evm!origin, Evm!Runs
  <2> QED BY <2>1, <2>2 DEF Evm!Next
<1>3. CASE coinbase(left)
  <2>1. TypeInv' /\ Evm!PushesAddress(context.block_coinbase)
    BY <1>1, <1>3, PushUncleared DEF coinbase
  <2>2. Evm!coinbase
    BY <1>3, <2>1, RunningMaps DEF coinbase, Runs, Evm!coinbase, Evm!Runs
  <2> QED BY <2>1, <2>2 DEF Evm!Next
<1>4. CASE address(left)
  <2>1. Evm!Runs("address")
    BY <1>4, RunningMaps DEF address, Runs, Evm!Runs
  <2>2. CASE StackTop_push(readu256BE(Uncleared(message.recipient, left)))
    <3>1. TypeInv' /\ Evm!PushesAddress(message.recipient)
      BY <1>1, <2>2, PushUncleared
    <3> QED BY <2>1, <3>1 DEF Evm!Next, Evm!address
  <2>3. CASE status' = "PANIC" /\ UNCHANGED <<slots, top, data, m_size, output>>
    <3>1. TypeInv'
      BY <2>3 DEF TypeInv, StackTyped
    <3>2. Evm!fail
      BY <2>1, <2>3 DEF Evm!fail
    <3> QED BY <3>1, <3>2 DEF Evm!Next
  <2> QED BY <1>4, <2>2, <2>3 DEF address
<1> QED BY <1>2, <1>3, <1>4

\* The getters with a buffer that is cleared or filled.
LEMMA BufferSteps ==
    ASSUME TypeInv, caller \/ callvalue \/ gasprice \/ chainid \/ basefee
    PROVE  TypeInv' /\ Evm!Next
<1>1. /\ message.sender \in [1..AddressBytes -> Bytes]
      /\ {message.value, context.tx_gas_price, context.chain_id, context.block_base_fee}
            \subseteq WordBuffers
  BY DatapathAssumption
<1>2. CASE caller
  <2>1. TypeInv' /\ Evm!Pushes(Evm!NatOf(Uncleared(message.sender, 0)))
    BY <1>1, <1>2, UnclearedValue, WordFacts, PushBuffer DEF caller
  <2>2. TypeInv' /\ Evm!Pushes(Evm!NatOf(message.sender))
    BY <1>1, <2>1, UnclearedValue, WordFacts
  <2>3. Evm!caller
    BY <1>2, <2>2, RunningMaps DEF caller, Runs, Evm!caller, Evm!Runs
  <2> QED BY <2>2, <2>3 DEF Evm!Next
<1>3. CASE callvalue
  <2>1. TypeInv' /\ Evm!Pushes(Evm!NatOf(message.value))
    BY <1>1, <1>3, PushBuffer DEF callvalue
  <2>2. Evm!callvalue
    BY <1>3, <2>1, RunningMaps DEF callvalue, Runs, Evm!callvalue, Evm!Runs
  <2> QED BY <2>1, <2>2 DEF Evm!Next
<1>4. CASE gasprice
  <2>1. TypeInv' /\ Evm!Pushes(Evm!NatOf(context.tx_gas_price))
    BY <1>1, <1>4, PushBuffer DEF gasprice
  <2>2. Evm!gasprice
    BY <1>4, <2>1, RunningMaps DEF gasprice, Runs, Evm!gasprice, Evm!Runs
  <2> QED BY <2>1, <2>2 DEF Evm!Next
<1>5. CASE chainid
  <2>1. TypeInv' /\ Evm!Pushes(Evm!NatOf(context.chain_id))
    BY <1>1, <1>5, PushBuffer DEF chainid
  <2>2. Evm!chainid
    BY <1>5, <2>1, RunningMaps DEF chainid, Runs, Evm!chainid, Evm!Runs
  <2> QED BY <2>1, <2>2 DEF Evm!Next
<1>6. CASE basefee
  <2>1. TypeInv' /\ Evm!Pushes(Evm!NatOf(context.block_base_fee))
    BY <1>1, <1>6, PushBuffer DEF basefee
  <2>2. Evm!basefee
    BY <1>6, <2>1, RunningMaps DEF basefee, Runs, Evm!basefee, Evm!Runs
  <2> QED BY <2>1, <2>2 DEF Evm!Next
<1> QED BY <1>2, <1>3, <1>4, <1>5, <1>6


\* The getters of a number of one limb.
LEMMA LimbSteps ==
    ASSUME TypeInv,
           calldatasize \/ codesize \/ timestamp \/ number \/ gaslimit \/ msize \/ push0
    PROVE  TypeInv' /\ Evm!Next
<1>1. /\ Len(message.input) \in 0..(Base - 1) /\ Len(code) \in 0..(Base - 1)
      /\ context.block_timestamp \in 0..(Base - 1) /\ context.block_gas_limit \in 0..(Base - 1)
  <2>1. Base \in Nat
    BY BaseFacts
  <2>2. /\ message.input \in Seq(Bytes) /\ code \in Seq(Bytes)
        /\ Len(message.input) < Base /\ Len(code) < Base
    BY DatapathAssumption
  <2>3. Len(message.input) \in 0..(Base - 1)
    BY <2>1, <2>2
  <2>4. Len(code) \in 0..(Base - 1)
    BY <2>1, <2>2
  <2>5. {context.block_timestamp, context.block_gas_limit} \subseteq 0..(Base - 1)
    BY DatapathAssumption DEF Limbs
  <2> QED BY <2>3, <2>4, <2>5
<1>2. context.block_number \in 0..(Base - 1)
  <2>1. Base \div 2 \in Int /\ Base \div 2 <= Base /\ Base \in Nat
    BY BaseFacts
  <2>2. context.block_number \in 0..(Base \div 2 - 1)
    BY DatapathAssumption
  <2> QED BY <2>1, <2>2
<1>3. CASE calldatasize
  <2>1. TypeInv' /\ Evm!Pushes(Len(message.input))
    BY <1>1, <1>3, PushLimb DEF calldatasize
  <2>2. Evm!calldatasize
    BY <1>3, <2>1, RunningMaps DEF calldatasize, Runs, Evm!calldatasize, Evm!Runs
  <2> QED BY <2>1, <2>2 DEF Evm!Next
<1>4. CASE codesize
  <2>1. TypeInv' /\ Evm!Pushes(Len(code))
    BY <1>1, <1>4, PushLimb DEF codesize
  <2>2. Evm!codesize
    BY <1>4, <2>1, RunningMaps DEF codesize, Runs, Evm!codesize, Evm!Runs
  <2> QED BY <2>1, <2>2 DEF Evm!Next
<1>5. CASE timestamp
  <2>1. TypeInv' /\ Evm!Pushes(context.block_timestamp)
    BY <1>1, <1>5, PushLimb DEF timestamp
  <2>2. Evm!timestamp
    BY <1>5, <2>1, RunningMaps DEF timestamp, Runs, Evm!timestamp, Evm!Runs
  <2> QED BY <2>1, <2>2 DEF Evm!Next
<1>6. CASE number
  <2>1. TypeInv' /\ Evm!Pushes(context.block_number)
    BY <1>2, <1>6, PushLimb DEF number
  <2>2. Evm!number
    BY <1>6, <2>1, RunningMaps DEF number, Runs, Evm!number, Evm!Runs
  <2> QED BY <2>1, <2>2 DEF Evm!Next
<1>7. CASE gaslimit
  <2>1. TypeInv' /\ Evm!Pushes(context.block_gas_limit)
    BY <1>1, <1>7, PushLimb DEF gaslimit
  <2>2. Evm!gaslimit
    BY <1>7, <2>1, RunningMaps DEF gaslimit, Runs, Evm!gaslimit, Evm!Runs
  <2> QED BY <2>1, <2>2 DEF Evm!Next
<1>8. CASE msize
  <2>1. TypeInv' /\ Evm!Pushes(m_size)
    BY <1>8, MemoryFacts, PushLimb DEF msize
  <2>2. Evm!Pushes(Len(Shown))
    BY <2>1, MemoryFacts
  <2>3. Evm!msize
    BY <1>8, <2>2, RunningMaps DEF msize, Runs, Evm!msize, Evm!Runs, Shown, ShownOf
  <2> QED BY <2>1, <2>3 DEF Evm!Next
<1>9. CASE push0
  <2>1. TypeInv' /\ Evm!Pushes(0)
    BY <1>9, Clear, PushTyped DEF push0
  <2>2. Evm!push0
    BY <1>9, <2>1, RunningMaps DEF push0, Runs, Evm!push0, Evm!Runs
  <2> QED BY <2>1, <2>2 DEF Evm!Next
<1> QED BY <1>3, <1>4, <1>5, <1>6, <1>7, <1>8, <1>9

\* The slot above the top becomes the top, with what it holds.
LEMMA DifficultyStep ==
    ASSUME TypeInv, difficulty
    PROVE  TypeInv' /\ Evm!Next
<1>1. /\ top < Slots /\ top' = top + 1 /\ slots' = slots
      /\ UNCHANGED <<data, m_size, output, status>>
  BY DEF difficulty
<1>2. top \in Nat /\ top + 1 \in 0..Slots /\ top \in 0..Slots /\ slots \in [1..Slots -> Uint256]
  BY <1>1, DatapathAssumption DEF TypeInv, StackTyped
<1>3. TypeInv'
  BY <1>1, <1>2 DEF TypeInv, StackTyped
<1>4. PICK word \in Uint256 : word = slots[top + 1]
  BY <1>1, <1>2
<1>5. slots = [slots EXCEPT ![top + 1] = word]
  BY <1>2, <1>4
<1>6. StackTop_push(word)
  BY <1>1, <1>5 DEF StackTop_push
<1>7. Evm!Pushes(Value256(word)) /\ Value256(word) \in Nat
  BY <1>6, PushTyped, Parts256
<1>8. /\ Items' = <<Value256(word)>> \o Items
      /\ Items \in Seq(Nat)
  BY <1>2, <1>7, ItemsFacts DEF Evm!Pushes, Items, ItemsOf
<1>9. Items' # <<>> /\ Tail(Items') = Items
  BY <1>7, <1>8
<1>10. Evm!difficulty
  BY <1>1, <1>9, RunningMaps DEF difficulty, Runs, Evm!difficulty, Evm!Runs, Items, ItemsOf
<1> QED BY <1>3, <1>10 DEF Evm!Next

\* The items below the first n.
LEMMA PopsMaps ==
    ASSUME TypeInv, NEW n \in Nat, n <= top, top' = top - n, slots' = slots
    PROVE  StackTyped' /\ Evm!Pops(n)
<1>1. /\ top \in 0..Slots /\ top - n \in 0..Slots /\ slots \in [1..Slots -> Uint256]
      /\ top \in Nat /\ top - n \in Nat
  BY DatapathAssumption DEF TypeInv, StackTyped
<1>2. Items' = ItemsOf(slots, top - n)
  BY DEF Items
<1>3. /\ Items \in Seq(Nat) /\ Len(Items) = top
      /\ \A i \in 1..top : Items[i] = Value256(slots[top + 1 - i])
  BY <1>1, ItemsFacts DEF Items
<1>4. /\ Items' \in Seq(Nat) /\ Len(Items') = top - n
      /\ \A i \in 1..(top - n) : Items'[i] = Value256(slots[top - n + 1 - i])
  BY <1>1, <1>2, ItemsFacts
<1>5. /\ SubSeq(Items, n + 1, Len(Items)) \in Seq(Nat)
      /\ Len(SubSeq(Items, n + 1, Len(Items))) = top - n
      /\ \A i \in 1..(top - n) : SubSeq(Items, n + 1, Len(Items))[i] = Items[n + i]
  BY <1>1, <1>3
<1>6. ASSUME NEW i \in 1..(top - n) PROVE Items'[i] = Items[n + i]
  <2>1. n + i \in 1..top /\ top + 1 - (n + i) = top - n + 1 - i
    BY <1>1
  <2> QED BY <1>3, <1>4, <2>1
<1>7. Items' = SubSeq(Items, n + 1, Len(Items))
  <2> DEFINE t == SubSeq(Items, n + 1, Len(Items))
  <2>1. t \in Seq(Nat) /\ Len(t) = Len(Items') /\ \A i \in 1..Len(Items') : Items'[i] = t[i]
    BY <1>4, <1>5, <1>6
  <2> HIDE DEF t
  <2> QED BY <1>4, <2>1, SeqEqual DEF t
<1> QED BY <1>1, <1>7 DEF StackTyped, Evm!Pops, Items, ItemsOf

LEMMA PopStep ==
    ASSUME TypeInv, pop
    PROVE  TypeInv' /\ Evm!Next
<1>1. /\ top > 0 /\ top \in Nat /\ top' = top - 1
      /\ UNCHANGED <<slots, data, m_size, output, status>>
  BY DatapathAssumption DEF pop, TypeInv, StackTyped
<1>2. StackTyped' /\ Evm!Pops(1)
  BY <1>1, PopsMaps
<1>3. TypeInv'
  BY <1>1, <1>2 DEF TypeInv
<1>4. Items # <<>>
  BY <1>1, ItemsFacts DEF TypeInv, StackTyped, Items
<1>5. Evm!pop
  BY <1>1, <1>2, <1>4, RunningMaps DEF pop, Runs, Evm!pop, Evm!Runs, Items, ItemsOf
<1> QED BY <1>3, <1>5 DEF Evm!Next

LEMMA FailsStep ==
    ASSUME TypeInv, fails
    PROVE  TypeInv' /\ Evm!Next
<1>1. TypeInv'
  BY DEF fails, TypeInv, StackTyped
<1>2. Evm!fail
  BY RunningMaps DEF fails, Runs, Evm!Runs, Evm!fail
<1> QED BY <1>1, <1>2 DEF Evm!Next


\* The n-th item of the stack is in the slot n - 1 below the top.
LEMMA Slot ==
    ASSUME TypeInv, NEW n \in Nat, n < top
    PROVE  /\ top \in Nat /\ top <= Slots /\ Slots \in Nat
           /\ StackTop_get(n) = slots[top - n] /\ StackTop_get(n) \in Uint256
           /\ Items \in Seq(Nat) /\ Len(Items) = top /\ Items # <<>>
           /\ Items[n + 1] = Value256(StackTop_get(n))
<1>1. /\ top \in Nat /\ Slots \in Nat /\ top <= Slots
      /\ Items \in Seq(Nat) /\ Len(Items) = top
      /\ \A i \in 1..top : slots[top + 1 - i] \in Uint256 /\ Items[i] = Value256(slots[top + 1 - i])
  BY ItemsFacts DEF TypeInv, StackTyped, Items
<1>2. n + 1 \in 1..top /\ top + 1 - (n + 1) = top - n
  BY <1>1
<1>3. slots[top - n] \in Uint256 /\ Items[n + 1] = Value256(slots[top - n])
  BY <1>1, <1>2
<1> QED BY <1>1, <1>2, <1>3 DEF StackTop_get

LEMMA DupStep ==
    ASSUME TypeInv, NEW n \in 1..16, dup(n)
    PROVE  TypeInv' /\ Evm!Next
<1>1. PICK k \in Nat : k = n - 1 /\ n = k + 1
  OBVIOUS
<1>2. n <= top /\ StackTop_push(StackTop_get(k)) /\ RunsNth("dup", n)
  BY <1>1 DEF dup
<1>3. k < top
  BY <1>1, <1>2, DatapathAssumption DEF TypeInv, StackTyped
<1>4. /\ StackTop_get(k) \in Uint256 /\ Len(Items) = top
      /\ Items[n] = Value256(StackTop_get(k))
  BY <1>1, <1>3, Slot
<1>5. TypeInv' /\ Evm!Pushes(Items[n])
  BY <1>2, <1>4, PushTyped
<1>6. Evm!dup(n)
  BY <1>2, <1>4, <1>5, RunningMaps DEF Evm!dup, Items, ItemsOf
<1> QED BY <1>5, <1>6 DEF Evm!Next

LEMMA SwapStep ==
    ASSUME TypeInv, NEW n \in 1..16, swap(n)
    PROVE  TypeInv' /\ Evm!Next
<1>1. /\ n < top /\ RunsNth("swap", n)
      /\ slots' = [slots EXCEPT ![top] = StackTop_get(n), ![top - n] = StackTop_get(0)]
      /\ UNCHANGED <<top, data, m_size, output, status>>
  BY DEF swap
<1>2. /\ top \in Nat /\ top <= Slots /\ Slots \in Nat
      /\ StackTop_get(n) \in Uint256 /\ Items[n + 1] = Value256(StackTop_get(n))
      /\ Items \in Seq(Nat) /\ Len(Items) = top
  BY <1>1, Slot
<1>3. StackTop_get(0) \in Uint256 /\ Items[1] = Value256(StackTop_get(0))
  <2>1. 0 < top /\ 0 + 1 = 1
    BY <1>1, <1>2
  <2>2. StackTop_get(0) \in Uint256 /\ Items[0 + 1] = Value256(StackTop_get(0))
    BY <2>1, Slot
  <2> QED BY <2>1, <2>2
<1>4. /\ slots \in [1..Slots -> Uint256] /\ top \in 1..Slots /\ top - n \in 1..Slots /\ top - n # top
  BY <1>1, <1>2 DEF TypeInv, StackTyped
<1>5. /\ slots' \in [1..Slots -> Uint256]
      /\ slots'[top] = StackTop_get(n) /\ slots'[top - n] = StackTop_get(0)
      /\ \A j \in 1..Slots : j # top /\ j # top - n => slots'[j] = slots[j]
  BY <1>1, <1>2, <1>3, <1>4
<1>6. TypeInv'
  BY <1>1, <1>4, <1>5 DEF TypeInv, StackTyped
<1>7. /\ Items' \in Seq(Nat) /\ Len(Items') = top
      /\ \A i \in 1..top : Items'[i] = Value256(slots'[top + 1 - i])
  <2>1. Items' = ItemsOf(slots', top)
    BY <1>1 DEF Items
  <2>2. top \in 0..Slots
    BY <1>4
  <2> QED BY <1>5, <2>1, <2>2, ItemsFacts
<1>8. \A i \in 1..top : Items[i] = Value256(slots[top + 1 - i])
  BY ItemsFacts DEF TypeInv, StackTyped, Items
<1> DEFINE t == [Items EXCEPT ![1] = Items[n + 1], ![n + 1] = Items[1]]
<1>9. /\ t \in Seq(Nat) /\ Len(t) = top
      /\ t[1] = Items[n + 1] /\ t[n + 1] = Items[1]
      /\ \A i \in 1..top : i # 1 /\ i # n + 1 => t[i] = Items[i]
  <2>1. Items \in [1..top -> Nat] /\ 1 \in 1..top /\ n + 1 \in 1..top /\ n + 1 # 1
    BY <1>1, <1>2
  <2>2. t \in [1..top -> Nat]
    BY <2>1
  <2>3. /\ t[1] = Items[n + 1] /\ t[n + 1] = Items[1]
        /\ \A i \in 1..top : i # 1 /\ i # n + 1 => t[i] = Items[i]
    BY <2>1
  <2> HIDE DEF t
  <2> QED BY <1>2, <2>2, <2>3, FunctionSeq
<1>10. ASSUME NEW i \in 1..top PROVE Items'[i] = t[i]
  <2> HIDE DEF t
  <2>1. CASE i = 1
    <3>1. top + 1 - i = top
      BY <1>2, <2>1
    <3> QED BY <1>2, <1>5, <1>7, <1>9, <2>1, <3>1
  <2>2. CASE i = n + 1
    <3>1. top + 1 - i = top - n
      BY <1>2, <2>2
    <3> QED BY <1>3, <1>5, <1>7, <1>9, <2>2, <3>1
  <2>3. CASE i # 1 /\ i # n + 1
    <3>1. top + 1 - i \in 1..Slots /\ top + 1 - i # top /\ top + 1 - i # top - n
      BY <1>2, <2>3
    <3>2. slots'[top + 1 - i] = slots[top + 1 - i]
      BY <1>5, <3>1
    <3> QED BY <1>7, <1>8, <1>9, <2>3, <3>2
  <2> QED BY <2>1, <2>2, <2>3
<1>11. Items' = t
  <2> HIDE DEF t
  <2> QED BY <1>7, <1>9, <1>10, SeqEqual
<1>12. Items' = [Items EXCEPT ![1] = Items[n + 1], ![n + 1] = Items[1]] /\ n < Len(Items)
  BY <1>1, <1>2, <1>11
<1>13. Evm!swap(n)
  BY <1>1, <1>12, RunningMaps DEF Evm!swap, Items, ItemsOf
<1> QED BY <1>6, <1>13 DEF Evm!Next

\* A new item in the place of the top.
LEMMA ReplacesTop ==
    ASSUME TypeInv, top >= 1, NEW word \in Uint256,
           slots' = [slots EXCEPT ![top] = word], top' = top
    PROVE  /\ StackTyped' /\ Items' = <<Value256(word)>> \o Tail(Items)
           /\ Items # <<>> /\ Head(Items) = Value256(StackTop_get(0)) /\ StackTop_get(0) \in Uint256
<1>1. /\ top \in Nat /\ top <= Slots /\ Slots \in Nat
      /\ StackTop_get(0) \in Uint256 /\ Items[1] = Value256(StackTop_get(0))
      /\ Items \in Seq(Nat) /\ Len(Items) = top /\ Items # <<>>
  <2>1. 0 < top /\ 0 + 1 = 1
    BY DatapathAssumption DEF TypeInv, StackTyped
  <2>2. /\ top \in Nat /\ top <= Slots /\ Slots \in Nat
        /\ StackTop_get(0) \in Uint256 /\ Items[0 + 1] = Value256(StackTop_get(0))
        /\ Items \in Seq(Nat) /\ Len(Items) = top /\ Items # <<>>
    BY <2>1, Slot
  <2> QED BY <2>1, <2>2
<1>2. slots' \in [1..Slots -> Uint256] /\ top \in 1..Slots /\ top \in 0..Slots
  BY <1>1 DEF TypeInv, StackTyped
<1>3. slots'[top] = word /\ \A j \in 1..Slots : j # top => slots'[j] = slots[j]
  BY <1>2 DEF TypeInv, StackTyped
<1>4. /\ Items' \in Seq(Nat) /\ Len(Items') = top
      /\ \A i \in 1..top : Items'[i] = Value256(slots'[top + 1 - i])
  <2>1. Items' = ItemsOf(slots', top)
    BY DEF Items
  <2> QED BY <1>2, <2>1, ItemsFacts
<1>5. \A i \in 1..top : Items[i] = Value256(slots[top + 1 - i])
  BY ItemsFacts DEF TypeInv, StackTyped, Items
<1>6. /\ Tail(Items) \in Seq(Nat) /\ Len(Tail(Items)) = top - 1
      /\ \A i \in 1..(top - 1) : Tail(Items)[i] = Items[i + 1]
  BY <1>1
<1>7. Items'[1] = Value256(word)
  <2>1. top + 1 - 1 = top /\ 1 \in 1..top
    BY <1>1
  <2> QED BY <1>3, <1>4, <2>1
<1>8. ASSUME NEW i \in 1..(top - 1) PROVE Items'[i + 1] = Tail(Items)[i]
  <2>1. /\ i + 1 \in 1..top /\ top + 1 - (i + 1) \in 1..Slots /\ top + 1 - (i + 1) # top
    BY <1>1
  <2>2. Items'[i + 1] = Value256(slots'[top + 1 - (i + 1)])
    BY <1>4, <2>1
  <2>3. Items[i + 1] = Value256(slots[top + 1 - (i + 1)])
    BY <1>5, <2>1
  <2>4. slots'[top + 1 - (i + 1)] = slots[top + 1 - (i + 1)]
    BY <1>3, <2>1
  <2> QED BY <1>6, <2>2, <2>3, <2>4
<1>9. Value256(word) \in Nat
  BY Parts256
<1>10. Items' = <<Value256(word)>> \o Tail(Items)
  <2>1. Len(Items') = Len(Tail(Items)) + 1
    BY <1>1, <1>4, <1>6
  <2>2. \A i \in 1..Len(Tail(Items)) : Items'[i + 1] = Tail(Items)[i]
    BY <1>6, <1>8
  <2> QED BY <1>4, <1>6, <1>7, <1>9, <2>1, <2>2, OnTop
<1>11. StackTyped'
  BY <1>2 DEF StackTyped
<1> QED BY <1>1, <1>10, <1>11


\* A number of one limb is that limb, and any other is larger.
LEMMA LowLimb ==
    ASSUME NEW word \in Uint256
    PROVE  /\ Low(word) \in 0..(Base - 1) /\ Low(word) \in Nat
           /\ Narrow(word) => Value256(word) = Low(word)
           /\ Value256(word) < Base => Narrow(word)
<1>1. PICK h, l : /\ h = UPPER(word) /\ l = LOWER(word) /\ h \in Uint128 /\ l \in Uint128
                  /\ Value256(word) = Value128(h) * Square + Value128(l)
  BY Parts256
<1>2. PICK u, v : /\ u = UPPER(l) /\ v = LOWER(l) /\ u \in 0..(Base - 1) /\ v \in 0..(Base - 1)
                  /\ Value128(l) = u * Base + v
  BY <1>1, Parts128
<1>3. PICK k \in Nat : k = Value128(h)
  BY <1>1, Parts128
<1>4. zero128(h) <=> k = 0
  BY <1>1, <1>3, Compare128
<1>5. Low(word) = v /\ (Narrow(word) <=> k = 0 /\ u = 0)
  BY <1>1, <1>2, <1>4 DEF Low, Narrow
<1>6. Base \in Nat \ {0} /\ Square \in Nat \ {0} /\ Base <= Square /\ u \in Nat /\ v \in Nat
  BY <1>2, BaseFacts
<1>7. Value256(word) = k * Square + (u * Base + v)
  BY <1>1, <1>2, <1>3
<1>8. k = 0 /\ u = 0 => Value256(word) = v
  BY <1>6, <1>7
<1>9. k * Square \in Nat /\ u * Base \in Nat
  BY <1>3, <1>6, TimesNat
<1>10. k # 0 => Square <= k * Square
  BY <1>3, <1>6, TimesPos
<1>11. u # 0 => Base <= u * Base
  BY <1>6, TimesPos
<1>12. Value256(word) < Base => k = 0 /\ u = 0
  <2> DEFINE a == k * Square
             b == u * Base
  <2>1. a \in Nat /\ b \in Nat /\ (k # 0 => Square <= a) /\ (u # 0 => Base <= b)
    BY <1>9, <1>10, <1>11
  <2>2. Value256(word) = a + (b + v)
    BY <1>7
  <2> HIDE DEF a, b
  <2> QED BY <1>6, <2>1, <2>2
<1> QED BY <1>2, <1>5, <1>6, <1>8, <1>12

LEMMA PaddedBuffer ==
    ASSUME NEW s \in Seq(Bytes), NEW offset \in Nat
    PROVE  Evm!Padded(s, offset, WordBytes) \in WordBuffers
<1>1. \A i \in 1..WordBytes :
         (IF offset + i <= Len(s) THEN s[offset + i] ELSE 0) \in Bytes
  BY WordFacts
<1> QED BY <1>1, WordFacts DEF Evm!Padded

LEMMA CalldataloadStep ==
    ASSUME TypeInv, calldataload
    PROVE  TypeInv' /\ Evm!Next
<1> DEFINE input == message.input
           size  == Len(input)
           index == StackTop_get(0)
           padded == Evm!Padded(input, Value256(index), WordBytes)
           begin == Low(index)
           end   == Least(begin + WordBytes, size)
           bytes == [i \in 1..WordBytes |-> IF i <= end - begin THEN input[begin + i] ELSE 0]
           word  == IF gt256(index, LimbWord(size)) THEN clear256 ELSE readu256BE(bytes)
<1>1. /\ top >= 1 /\ slots' = [slots EXCEPT ![top] = word]
      /\ UNCHANGED <<top, data, m_size, output, status>> /\ Runs("calldataload")
  BY DEF calldataload
<1>2. input \in Seq(Bytes) /\ size \in 0..(Base - 1) /\ size \in Nat
  BY DatapathAssumption, BaseFacts
<1> HIDE DEF input, size
<1>3. index \in Uint256 /\ Value256(index) \in Nat
  <2>1. 0 < top
    BY <1>1, DatapathAssumption DEF TypeInv, StackTyped
  <2> QED BY <2>1, Slot, Parts256
<1> HIDE DEF index
<1>4. gt256(index, LimbWord(size)) <=> Value256(index) > size
  BY <1>2, <1>3, LimbWordValue, Compare256
<1>5. padded \in WordBuffers /\ Len(padded) = WordBytes
  <2>1. padded \in WordBuffers
    BY <1>2, <1>3, PaddedBuffer
  <2> HIDE DEF padded
  <2> QED BY <2>1, WordFacts
<1>6. \A i \in 1..WordBytes :
         padded[i] = IF Value256(index) + i <= size THEN input[Value256(index) + i] ELSE 0
  BY DEF Evm!Padded, size
<1> HIDE DEF padded
<1>7. word \in Uint256 /\ Value256(word) = Evm!NatOf(padded)
  <2>1. CASE Value256(index) > size
    <3>1. \A i \in 1..WordBytes : padded[0 + i] = 0
      BY <1>2, <1>3, <1>6, <2>1, WordFacts
    <3>2. Evm!NatOf(padded) = 0
      <4>1. WordBytes \in Nat
        BY WordFacts
      <4>2. Evm!NatOf(padded) = Joined(padded, 0, WordBytes)
        BY <1>5, <4>1, NatOfJoined
      <4>3. Joined(padded, 0, WordBytes) = 0
        BY <3>1, <4>1, JoinedZeros
      <4> QED BY <4>2, <4>3
    <3> QED BY <1>4, <2>1, <3>2, Clear
  <2>2. CASE ~(Value256(index) > size)
    <3>1. Value256(index) < Base
      BY <1>2, <1>3, <2>2, BaseFacts
    <3>2. begin = Value256(index)
      BY <1>3, <3>1, LowLimb
    <3>3. end - begin = (IF begin + WordBytes < size THEN WordBytes ELSE size - begin)
      BY <1>2, <1>3, <3>2, WordFacts DEF Least
    <3>4. \A i \in 1..WordBytes : i <= end - begin <=> begin + i <= size
      <4> HIDE DEF begin, end
      <4>1. begin \in Nat /\ begin <= size
        BY <1>2, <1>3, <2>2, <3>2
      <4> QED BY <1>2, <3>3, <4>1, WordFacts
    <3>5. \A i \in 1..WordBytes : bytes[i] = padded[i]
      <4> HIDE DEF begin, end
      <4> QED BY <1>6, <3>2, <3>4
    <3>6. bytes = padded
      <4>1. padded = [i \in 1..WordBytes |-> padded[i]]
        BY <1>5, WordFacts
      <4>2. bytes = [i \in 1..WordBytes |-> bytes[i]]
        OBVIOUS
      <4> HIDE DEF bytes
      <4> QED BY <3>5, <4>1, <4>2
    <3>7. word = readu256BE(padded)
      <4> HIDE DEF bytes
      <4> QED BY <1>4, <2>2, <3>6
    <3> QED BY <1>5, <3>7, ReadsNat
  <2> QED BY <2>1, <2>2
<1> HIDE DEF word
<1>8. /\ StackTyped' /\ Items' = <<Value256(word)>> \o Tail(Items)
      /\ Items # <<>> /\ Head(Items) = Value256(StackTop_get(0))
  BY <1>1, <1>7, ReplacesTop
<1>9. Items' = <<Evm!NatOf(Evm!Padded(message.input, Head(Items), WordBytes))>> \o Tail(Items)
  BY <1>7, <1>8 DEF padded, index, input
<1>10. TypeInv'
  BY <1>1, <1>8 DEF TypeInv
<1>11. Evm!calldataload
  BY <1>1, <1>8, <1>9, RunningMaps DEF Runs, Evm!calldataload, Evm!Runs, Items, ItemsOf
<1> QED BY <1>10, <1>11 DEF Evm!Next


\* Outside the window both give zero, before it because of the lower bound and at
\* the block itself because no block is after itself.
LEMMA BlockhashStep ==
    ASSUME NoDepartures, TypeInv, blockhash
    PROVE  TypeInv' /\ Evm!Next
<1> DEFINE number_ == StackTop_get(0)
           upper   == context.block_number
           lower   == IF upper > Window THEN upper - Window ELSE 0
           n       == Signed(Low(number_))
           after   == gt256(number_, LimbWord(upper))
           word    == IF after /\ n >= lower THEN readu256BE(block_hash) ELSE clear256
           v       == Value256(number_)
<1>1. /\ top >= 1 /\ slots' = [slots EXCEPT ![top] = word]
      /\ UNCHANGED <<top, data, m_size, output, status>> /\ Runs("blockhash")
      /\ n < lower \/ number_ = LimbWord(upper)
  BY DEF blockhash, NoDepartures
<1>2. upper \in Nat /\ Window \in Nat /\ upper < Base \div 2 /\ Base \div 2 \in Nat /\ 2 * (Base \div 2) <= Base
  <2>1. Base \div 2 \in Nat /\ 2 * (Base \div 2) <= Base
    BY BaseFacts
  <2> QED BY <2>1, DatapathAssumption
<1>3. lower \in Nat /\ lower <= upper
  BY <1>2
<1>4. number_ \in Uint256 /\ v \in Nat
  <2>1. 0 < top
    BY <1>1, DatapathAssumption DEF TypeInv, StackTyped
  <2> QED BY <2>1, Slot, Parts256
<1>5. LimbWord(upper) \in Uint256 /\ Value256(LimbWord(upper)) = upper
  BY <1>2, LimbWordValue, BaseFacts
<1>6. after <=> v > upper
  BY <1>4, <1>5, Compare256
<1>7. n < lower => ~(v \in lower..(upper - 1))
  <2> SUFFICES ASSUME v \in lower..(upper - 1) PROVE ~(n < lower)
    OBVIOUS
  <2>1. v < Base \div 2 /\ v < Base
    <3> HIDE DEF lower, upper, v
    <3>1. v < upper /\ v < Base \div 2
      BY <1>2, <1>3, <1>4
    <3> QED BY <1>2, <1>4, <3>1, BaseFacts
  <2>2. Low(number_) = v
    BY <1>4, <2>1, LowLimb
  <2>3. n = v
    BY <1>2, <1>4, <2>1, <2>2 DEF Signed
  <2> HIDE DEF n, v
  <2> QED BY <1>2, <1>3, <1>4, <2>3
<1>8. number_ = LimbWord(upper) => v = upper
  BY <1>5
<1>9. ~(v \in lower..(upper - 1)) /\ ~(after /\ n >= lower)
  <2>1. CASE n < lower
    <3>1. n \in Int
      <4>1. Low(number_) \in Nat
        BY <1>4, LowLimb
      <4> QED BY <4>1, BaseFacts DEF Signed
    <3> HIDE DEF n, lower, after, v
    <3> QED BY <1>3, <1>7, <2>1, <3>1
  <2>2. CASE number_ = LimbWord(upper)
    <3>1. v = upper
      BY <1>8, <2>2
    <3> HIDE DEF n, lower, after, v, upper
    <3> QED BY <1>2, <1>6, <3>1
  <2> QED BY <1>1, <2>1, <2>2
<1>10. word = clear256
  BY <1>9
<1> HIDE DEF word
<1>11. /\ StackTyped' /\ Items' = <<0>> \o Tail(Items)
       /\ Items # <<>> /\ Head(Items) = v
  BY <1>1, <1>10, Clear, ReplacesTop
<1>12. TypeInv'
  BY <1>1, <1>11 DEF TypeInv
<1>13. Items' = <<IF Head(Items) \in lower..(upper - 1) THEN Evm!NatOf(block_hash) ELSE 0>> \o Tail(Items)
  BY <1>9, <1>11
<1>14. Evm!blockhash
  BY <1>1, <1>11, <1>13, RunningMaps DEF Runs, Evm!blockhash, Evm!Runs, Items, ItemsOf
<1> QED BY <1>12, <1>14 DEF Evm!Next


-----------------------------------------------------------------------------
(***************************************************************************)
(* The memory.                                                             *)
(***************************************************************************)

\* The whole number of pieces of w that holds n.
RoundedUp(n, w) == ((n + w - 1) \div w) * w

LEMMA DivNat ==
    ASSUME NEW n \in Nat, NEW d \in Nat \ {0}
    PROVE  \E q, r : /\ q = n \div d /\ r = n % d /\ q \in Nat /\ r \in Nat /\ r < d
                     /\ n = q * d + r
<1> DEFINE q == n \div d
           r == n % d
<1>1. q \in Nat /\ r \in Nat /\ r < d /\ n = q * d + r
  <2>1. n \in Int
    OBVIOUS
  <2> QED BY <2>1, DivMod
<1> QED BY <1>1

LEMMA Rounding ==
    ASSUME NEW n \in Nat, NEW w \in Nat \ {0}
    PROVE  /\ RoundedUp(n, w) \in Nat /\ RoundedUp(n, w) % w = 0
           /\ n <= RoundedUp(n, w) /\ RoundedUp(n, w) < n + w
           /\ \A m \in Nat : m % w = 0 /\ n <= m => RoundedUp(n, w) <= m
<1>1. PICK k \in Nat : k = n + w - 1
  OBVIOUS
<1>2. PICK q, r : /\ q = k \div w /\ r = k % w /\ q \in Nat /\ r \in Nat /\ r < w
                  /\ k = q * w + r
  BY <1>1, DivNat
<1>3. RoundedUp(n, w) = q * w
  BY <1>1, <1>2 DEF RoundedUp
<1>4. PICK a \in Nat : a = q * w
  BY <1>2, TimesNat
<1>5. n <= a /\ a < n + w
  BY <1>1, <1>2, <1>4
<1>6. a % w = 0
  <2>1. q \in Int /\ 0 \in Nat /\ 0 < w /\ a = q * w + 0
    BY <1>2, <1>4
  <2> QED BY <2>1, DivModOf
<1>7. ASSUME NEW m \in Nat, m % w = 0, n <= m PROVE a <= m
  <2>1. PICK p \in Nat : m = p * w
    <3>1. PICK p, s : /\ p = m \div w /\ s = m % w /\ p \in Nat /\ s \in Nat /\ s < w
                      /\ m = p * w + s
      BY <1>7, DivNat, Zenon
    <3>2. p * w \in Nat
      BY <3>1, TimesNat
    <3>3. m = p * w
      BY <1>7, <3>1, <3>2
    <3>4. p \in Nat
      BY <3>1
    <3> QED BY <3>3, <3>4, Zenon
  <2> SUFFICES ASSUME m < a PROVE FALSE
    BY <1>4
  <2>2. p < q
    <3> SUFFICES ASSUME q <= p PROVE FALSE
      BY <1>2, <2>1
    <3>1. q * w <= p * w
      BY <1>2, <2>1, TimesMono
    <3> QED BY <1>4, <2>1, <3>1
  <2>3. (p + 1) * w <= q * w
    BY <1>2, <2>1, <2>2, TimesMono
  <2>4. (p + 1) * w = p * w + w
    BY <2>1
  <2> QED BY <1>4, <1>5, <1>7, <2>1, <2>3, <2>4
<1> QED BY <1>3, <1>4, <1>5, <1>6, <1>7

LEMMA CapacityIs ==
    ASSUME NEW n \in Nat, NEW bytes \in [0..(n - 1) -> Bytes]
    PROVE  Capacity(bytes) = n
<1>1. DOMAIN bytes = 0..(n - 1)
  OBVIOUS
<1>2. Cardinality(0..(n - 1)) = IF 0 > n - 1 THEN 0 ELSE n - 1 - 0 + 1
  BY FS_Interval
<1> QED BY <1>1, <1>2 DEF Capacity

\* Memory that reaches to e, at least: what there was is still there and zeros
\* follow it, whatever the allocator left.
Reaches(mem, e) ==
    /\ mem = [bytes |-> mem.bytes, size |-> mem.size]
    /\ Block(mem.bytes, mem.size)
    /\ m_size <= mem.size /\ e <= mem.size
    /\ mem.size = IF e <= m_size THEN m_size ELSE RoundedUp(e, WordBytes)
    /\ e <= m_size => mem.bytes = data
    /\ \A i \in 0..(mem.size - 1) : mem.bytes[i] = IF i < m_size THEN data[i] ELSE 0

LEMMA GrownFacts ==
    ASSUME TypeInv, NEW e \in Nat, e <= MaxOffset, NEW left \in Bytes
    PROVE  Reaches(Grown(e, left), e)
<1>1. /\ m_size \in Nat /\ m_size % WordBytes = 0 /\ m_size < MaxOffset + WordBytes
      /\ MaxOffset \in Nat /\ WordBytes \in Nat \ {0} /\ PageSize \in Nat \ {0}
  BY DatapathAssumption, WordFacts DEF TypeInv, Block
<1>2. PICK n \in Nat : m_size <= n /\ data \in [0..(n - 1) -> Bytes]
  BY DEF TypeInv, Block
<1>3. Capacity(data) = n /\ DOMAIN data = 0..(n - 1)
  BY <1>2, CapacityIs
<1>4. CASE e <= m_size
  <2>1. Grown(e, left) = [bytes |-> data, size |-> m_size]
    BY <1>4 DEF Grown
  <2>2. \A i \in 0..(m_size - 1) : data[i] = IF i < m_size THEN data[i] ELSE 0
    BY <1>1
  <2>3. Block(data, m_size)
    BY DEF TypeInv
  <2> QED BY <1>1, <1>4, <2>1, <2>2, <2>3 DEF Reaches
<1>5. CASE ~(e <= m_size)
  <2> DEFINE size     == RoundedUp(e, WordBytes)
             capacity == IF size <= n THEN n
                         ELSE IF 2 * n >= size THEN 2 * n ELSE RoundedUp(size, PageSize)
             bytes    == [i \in 0..(capacity - 1) |->
                             IF i \in m_size..(size - 1) THEN 0
                             ELSE IF i \in DOMAIN data THEN data[i] ELSE left]
  <2>1. Grown(e, left) = [bytes |-> bytes, size |-> size]
    BY <1>3, <1>5 DEF Grown, RoundedUp
  <2>2. size \in Nat /\ size % WordBytes = 0 /\ e <= size /\ size < e + WordBytes
    BY <1>1, Rounding
  <2>3. capacity \in Nat /\ size <= capacity
    <3>1. RoundedUp(size, PageSize) \in Nat /\ size <= RoundedUp(size, PageSize)
      <4> HIDE DEF size
      <4> QED BY <1>1, <2>2, Rounding
    <3> HIDE DEF size
    <3> QED BY <1>2, <2>2, <3>1
  <2> HIDE DEF size, capacity
  <2>4. bytes \in [0..(capacity - 1) -> Bytes]
    BY <1>2, <1>3, WordFacts
  <2>5. \A i \in 0..(size - 1) : bytes[i] = IF i < m_size THEN data[i] ELSE 0
    <3> SUFFICES ASSUME NEW i \in 0..(size - 1)
                 PROVE  bytes[i] = IF i < m_size THEN data[i] ELSE 0
      OBVIOUS
    <3>1. i \in 0..(capacity - 1) /\ i \in Nat
      BY <2>2, <2>3
    <3>2. CASE i < m_size
      BY <1>1, <1>2, <1>3, <3>1, <3>2
    <3>3. CASE ~(i < m_size)
      BY <1>1, <2>2, <3>1, <3>3
    <3> QED BY <3>2, <3>3
  <2>6. m_size <= size /\ size < MaxOffset + WordBytes
    BY <1>1, <1>5, <2>2
  <2> HIDE DEF bytes
  <2>7. Block(bytes, size)
    BY <2>2, <2>3, <2>4, <2>6 DEF Block
  <2> QED BY <1>5, <2>1, <2>2, <2>5, <2>6, <2>7 DEF Reaches, size
<1> QED BY <1>4, <1>5


LEMMA ReachedFacts ==
    ASSUME TypeInv, NEW mem, NEW e \in Nat, Reaches(mem, e)
    PROVE  /\ mem.size \in Nat /\ m_size \in Nat
           /\ ShownOf(mem.bytes, mem.size) \in Seq(Bytes)
           /\ Len(ShownOf(mem.bytes, mem.size)) = mem.size
           /\ \A i \in 1..mem.size :
                 /\ ShownOf(mem.bytes, mem.size)[i] = mem.bytes[i - 1]
                 /\ mem.bytes[i - 1] = IF i <= m_size THEN Shown[i] ELSE 0
<1>1. PICK n \in Nat : mem.size <= n /\ mem.bytes \in [0..(n - 1) -> Bytes]
  BY DEF Reaches, Block
<1>2. mem.size \in Nat /\ m_size \in Nat
  BY DEF Reaches, Block, TypeInv
<1>3. ShownOf(mem.bytes, mem.size) \in [1..mem.size -> Bytes]
  BY <1>1, <1>2 DEF ShownOf
<1>4. /\ ShownOf(mem.bytes, mem.size) \in Seq(Bytes)
      /\ Len(ShownOf(mem.bytes, mem.size)) = mem.size
  BY <1>2, <1>3, FunctionSeq
<1>5. ASSUME NEW i \in 1..mem.size
      PROVE  mem.bytes[i - 1] = IF i <= m_size THEN Shown[i] ELSE 0
  <2>1. i - 1 \in 0..(mem.size - 1) /\ (i - 1 < m_size <=> i <= m_size)
    BY <1>2
  <2>2. mem.bytes[i - 1] = IF i - 1 < m_size THEN data[i - 1] ELSE 0
    BY <2>1 DEF Reaches
  <2>3. i <= m_size => Shown[i] = data[i - 1]
    BY <1>2, MemoryFacts
  <2> QED BY <2>1, <2>2, <2>3
<1> QED BY <1>2, <1>4, <1>5 DEF ShownOf

LEMMA SizeIs ==
    ASSUME TypeInv, NEW o \in Nat, NEW c \in Nat \ {0}, NEW mem, Reaches(mem, o + c)
    PROVE  Evm!Size(o, c) = mem.size
<1>1. PICK e \in Nat : e = o + c
  OBVIOUS
<1>2. PICK r \in Nat : /\ r = RoundedUp(e, WordBytes)
                       /\ e <= r /\ \A m \in Nat : m % WordBytes = 0 /\ e <= m => r <= m
  BY Rounding, WordFacts
<1>3. Len(Shown) = m_size /\ m_size \in Nat /\ m_size % WordBytes = 0
  BY MemoryFacts, BaseFacts
<1>4. mem.size = IF e <= m_size THEN m_size ELSE r
  BY <1>1, <1>2 DEF Reaches
<1>5. r = ((o + c + WordBytes - 1) \div WordBytes) * WordBytes
  BY <1>1, <1>2 DEF RoundedUp
<1>6. Evm!Size(o, c) = IF r < m_size THEN m_size ELSE r
  <2>1. Evm!Size(o, c) = IF r < Len(Shown) THEN Len(Shown) ELSE r
    BY <1>5 DEF Evm!Size, Shown, ShownOf
  <2> QED BY <1>3, <2>1
<1> QED BY <1>2, <1>3, <1>4, <1>6

LEMMA ExpandedIs ==
    ASSUME TypeInv, NEW o \in Nat, NEW c \in Nat \ {0}, NEW mem, Reaches(mem, o + c)
    PROVE  Evm!Expanded(o, c) = ShownOf(mem.bytes, mem.size)
<1>1. Len(Shown) = m_size /\ \A i \in Nat : 0 + i = i
  BY MemoryFacts
<1>2. Evm!Expanded(o, c) = Evm!Padded(Shown, 0, mem.size)
  BY SizeIs DEF Evm!Expanded, Shown, ShownOf
<1>3. Evm!Padded(Shown, 0, mem.size)
         = [i \in 1..mem.size |-> IF 0 + i <= Len(Shown) THEN Shown[0 + i] ELSE 0]
  BY DEF Evm!Padded
<1>4. o + c \in Nat
  OBVIOUS
<1>5. mem.size \in Nat /\ \A i \in 1..mem.size : mem.bytes[i - 1] = IF i <= m_size THEN Shown[i] ELSE 0
  BY <1>4, ReachedFacts
<1>6. \A i \in 1..mem.size :
         mem.bytes[i - 1] = IF 0 + i <= Len(Shown) THEN Shown[0 + i] ELSE 0
  BY <1>1, <1>5
<1> QED BY <1>2, <1>3, <1>6 DEF ShownOf

\* A range of no bytes does not change the memory.
LEMMA ExpandedByNothing ==
    ASSUME TypeInv, NEW o
    PROVE  Evm!Expanded(o, 0) = Shown
<1>1. /\ Shown \in Seq(Bytes) /\ Len(Shown) = m_size /\ m_size \in Nat
      /\ \A i \in Nat : 0 + i = i
  BY MemoryFacts, BaseFacts
<1>2. Evm!Expanded(o, 0) = Evm!Padded(Shown, 0, Len(Shown))
  BY DEF Evm!Expanded, Evm!Size, Shown, ShownOf
<1>3. Evm!Padded(Shown, 0, Len(Shown))
         = [i \in 1..Len(Shown) |-> IF 0 + i <= Len(Shown) THEN Shown[0 + i] ELSE 0]
  BY DEF Evm!Padded
<1>4. \A i \in 1..m_size : (IF 0 + i <= Len(Shown) THEN Shown[0 + i] ELSE 0) = Shown[i]
  BY <1>1
<1>5. Shown = [i \in 1..m_size |-> Shown[i]]
  BY <1>1
<1> QED BY <1>1, <1>2, <1>3, <1>4, <1>5

\* Bytes between others.
LEMMA Joining ==
    ASSUME NEW S, NEW p \in Seq(S), NEW b \in Seq(S), NEW q \in Seq(S)
    PROVE  /\ p \o b \o q \in Seq(S)
           /\ Len(p \o b \o q) = Len(p) + Len(b) + Len(q)
<1>1. p \o b \in Seq(S) /\ Len(p \o b) = Len(p) + Len(b)
  OBVIOUS
<1>2. PICK a \in Seq(S) : a = p \o b
  BY <1>1
<1>3. a \o q \in Seq(S) /\ Len(a \o q) = Len(a) + Len(q)
  OBVIOUS
<1> QED BY <1>1, <1>2, <1>3

LEMMA Between ==
    ASSUME NEW S, NEW p \in Seq(S), NEW b \in Seq(S), NEW q \in Seq(S), NEW i \in Nat \ {0}
    PROVE  /\ i <= Len(p) => (p \o b \o q)[i] = p[i]
           /\ i > Len(p) /\ i <= Len(p) + Len(b) => (p \o b \o q)[i] = b[i - Len(p)]
           /\ i > Len(p) + Len(b) /\ i <= Len(p) + Len(b) + Len(q) =>
                 (p \o b \o q)[i] = q[i - (Len(p) + Len(b))]
<1>1. /\ p \o b \in Seq(S) /\ Len(p \o b) = Len(p) + Len(b)
      /\ i <= Len(p) => (p \o b)[i] = p[i]
      /\ i > Len(p) /\ i <= Len(p) + Len(b) => (p \o b)[i] = b[i - Len(p)]
  OBVIOUS
<1>2. PICK a \in Seq(S) : a = p \o b
  BY <1>1
<1>3. /\ a \o q \in Seq(S) /\ Len(a \o q) = Len(a) + Len(q)
      /\ i <= Len(a) => (a \o q)[i] = a[i]
      /\ i > Len(a) /\ i <= Len(a) + Len(q) => (a \o q)[i] = q[i - Len(a)]
  OBVIOUS
<1> QED BY <1>1, <1>2, <1>3

LEMMA PaddedFacts ==
    ASSUME NEW s \in Seq(Bytes), NEW offset \in Nat, NEW count \in Nat
    PROVE  /\ Evm!Padded(s, offset, count) \in Seq(Bytes)
           /\ Len(Evm!Padded(s, offset, count)) = count
           /\ \A i \in 1..count : Evm!Padded(s, offset, count)[i]
                                     = IF offset + i <= Len(s) THEN s[offset + i] ELSE 0
<1>1. \A i \in 1..count : (IF offset + i <= Len(s) THEN s[offset + i] ELSE 0) \in Bytes
  BY WordFacts
<1>2. Evm!Padded(s, offset, count) \in [1..count -> Bytes]
  BY <1>1 DEF Evm!Padded
<1> QED BY <1>2, FunctionSeq DEF Evm!Padded


LEMMA MovedFacts ==
    ASSUME NEW n \in Nat, NEW mem \in [0..(n - 1) -> Bytes], NEW o \in Nat, NEW bytes \in Seq(Bytes)
    PROVE  /\ Moved(mem, o, bytes) \in [0..(n - 1) -> Bytes]
           /\ \A i \in 0..(n - 1) :
                 Moved(mem, o, bytes)[i] = IF i \in o..(o + Len(bytes) - 1) THEN bytes[i - o + 1] ELSE mem[i]
           /\ bytes = <<>> => Moved(mem, o, bytes) = mem
<1>1. \A i \in 0..(n - 1) :
         (IF i \in o..(o + Len(bytes) - 1) THEN bytes[i - o + 1] ELSE mem[i]) \in Bytes
  OBVIOUS
<1>2. Moved(mem, o, bytes) \in [0..(n - 1) -> Bytes]
  BY <1>1 DEF Moved
<1>3. \A i \in 0..(n - 1) :
         Moved(mem, o, bytes)[i] = IF i \in o..(o + Len(bytes) - 1) THEN bytes[i - o + 1] ELSE mem[i]
  BY DEF Moved
<1>4. ASSUME bytes = <<>> PROVE Moved(mem, o, bytes) = mem
  <2>1. \A i \in 0..(n - 1) : Moved(mem, o, bytes)[i] = mem[i]
    BY <1>3, <1>4
  <2> QED BY <1>2, <2>1
<1> QED BY <1>2, <1>3, <1>4

\* Bytes stored at an offset.
LEMMA WrittenIs ==
    ASSUME TypeInv, NEW o \in Nat, NEW bytes \in Seq(Bytes), bytes # <<>>,
           NEW mem, Reaches(mem, o + Len(bytes))
    PROVE  /\ Evm!Written(o, bytes) = ShownOf(Moved(mem.bytes, o, bytes), mem.size)
           /\ Block(Moved(mem.bytes, o, bytes), mem.size)
<1>1. PICK c \in Nat \ {0} : c = Len(bytes)
  OBVIOUS
<1>2. PICK e \in Nat : e = o + c
  OBVIOUS
<1>3. PICK s \in Nat : s = mem.size /\ e <= s
  BY <1>1, <1>2 DEF Reaches, Block
<1>4. PICK n \in Nat : s <= n /\ mem.bytes \in [0..(n - 1) -> Bytes]
  BY <1>3 DEF Reaches, Block
<1>5. Block(Moved(mem.bytes, o, bytes), mem.size)
  <2>1. Moved(mem.bytes, o, bytes) \in [0..(n - 1) -> Bytes]
    BY <1>4, MovedFacts
  <2> QED BY <1>3, <1>4, <2>1 DEF Reaches, Block
<1>6. /\ Shown \in Seq(Bytes) /\ Len(Shown) = m_size /\ m_size \in Nat
  BY MemoryFacts, BaseFacts
<1>7. Evm!Size(o, c) = s
  BY <1>1, <1>2, <1>3, SizeIs
<1> DEFINE p == Evm!Padded(Shown, 0, o)
           q == Evm!Padded(Shown, e, s - e)
           t == ShownOf(Moved(mem.bytes, o, bytes), s)
<1>8. Evm!Written(o, bytes) = p \o bytes \o q
  <2>1. Evm!Written(o, bytes)
           = Evm!Padded(Shown, 0, o) \o bytes
                \o Evm!Padded(Shown, o + Len(bytes), Evm!Size(o, Len(bytes)) - (o + Len(bytes)))
    BY DEF Evm!Written, Shown, ShownOf
  <2> QED BY <1>1, <1>2, <1>7, <2>1
<1>9. /\ p \in Seq(Bytes) /\ Len(p) = o
      /\ \A i \in 1..o : p[i] = IF i <= m_size THEN Shown[i] ELSE 0
  <2>1. /\ p \in Seq(Bytes) /\ Len(p) = o
        /\ \A i \in 1..o : p[i] = IF 0 + i <= Len(Shown) THEN Shown[0 + i] ELSE 0
    <3>1. 0 \in Nat
      OBVIOUS
    <3> QED BY <1>6, <3>1, PaddedFacts, ZenonT(60)
  <2> HIDE DEF p
  <2> QED BY <1>6, <2>1
<1>10. /\ q \in Seq(Bytes) /\ Len(q) = s - e
       /\ \A i \in 1..(s - e) : q[i] = IF e + i <= m_size THEN Shown[e + i] ELSE 0
  <2>1. s - e \in Nat
    BY <1>2, <1>3
  <2>2. /\ q \in Seq(Bytes) /\ Len(q) = s - e
        /\ \A i \in 1..(s - e) : q[i] = IF e + i <= Len(Shown) THEN Shown[e + i] ELSE 0
    BY <1>6, <2>1, PaddedFacts, ZenonT(60)
  <2> HIDE DEF q
  <2> QED BY <1>6, <2>2
<1> HIDE DEF p, q
<1>11. p \o bytes \o q \in Seq(Bytes) /\ Len(p \o bytes \o q) = s
  <2>1. /\ p \o bytes \o q \in Seq(Bytes)
        /\ Len(p \o bytes \o q) = Len(p) + Len(bytes) + Len(q)
    <3>1. p \in Seq(Bytes) /\ bytes \in Seq(Bytes) /\ q \in Seq(Bytes)
      BY <1>9, <1>10
    <3> QED BY <3>1, Joining
  <2>2. Len(p) + Len(bytes) + Len(q) = s
    BY <1>1, <1>2, <1>3, <1>9, <1>10
  <2> QED BY <2>1, <2>2
<1>12. \A i \in 1..s : mem.bytes[i - 1] = IF i <= m_size THEN Shown[i] ELSE 0
  BY <1>1, <1>2, <1>3, ReachedFacts
<1>13. /\ t \in Seq(Bytes) /\ Len(t) = s
       /\ \A i \in 1..s : t[i] = IF i - 1 \in o..(o + c - 1) THEN bytes[i - 1 - o + 1]
                                 ELSE IF i <= m_size THEN Shown[i] ELSE 0
  <2>1. /\ Moved(mem.bytes, o, bytes) \in [0..(n - 1) -> Bytes]
        /\ \A i \in 0..(n - 1) : Moved(mem.bytes, o, bytes)[i]
              = IF i \in o..(o + Len(bytes) - 1) THEN bytes[i - o + 1] ELSE mem.bytes[i]
    BY <1>4, MovedFacts
  <2>2. \A i \in 1..s : i - 1 \in 0..(n - 1)
    BY <1>4
  <2>3. t = [i \in 1..s |-> Moved(mem.bytes, o, bytes)[i - 1]]
    BY DEF ShownOf
  <2>4. t \in [1..s -> Bytes]
    BY <2>1, <2>2, <2>3
  <2> HIDE DEF t
  <2>5. \A i \in 1..s : t[i] = IF i - 1 \in o..(o + c - 1) THEN bytes[i - 1 - o + 1] ELSE mem.bytes[i - 1]
    BY <1>1, <2>1, <2>2, <2>3
  <2> QED BY <1>12, <2>4, <2>5, FunctionSeq
<1> HIDE DEF t
<1>14. ASSUME NEW i \in 1..s PROVE (p \o bytes \o q)[i] = t[i]
  <2>0. i \in Nat \ {0}
    OBVIOUS
  <2>1. CASE i <= o
    <3>1. (p \o bytes \o q)[i] = p[i]
      BY <1>9, <1>10, <2>0, <2>1, Between
    <3>2. i \in 1..o /\ ~(i - 1 \in o..(o + c - 1))
      BY <2>1
    <3> QED BY <1>9, <1>13, <3>1, <3>2
  <2>2. CASE i > o /\ i <= e
    <3>1. i > Len(p) /\ i <= Len(p) + Len(bytes) /\ i - 1 \in o..(o + c - 1)
      BY <1>1, <1>2, <1>9, <2>2
    <3>2. (p \o bytes \o q)[i] = bytes[i - Len(p)]
      BY <1>9, <1>10, <2>0, <3>1, Between
    <3>3. i - Len(p) = i - 1 - o + 1
      BY <1>9
    <3> QED BY <1>13, <3>1, <3>2, <3>3
  <2>3. CASE i > e
    <3>1. /\ i > Len(p) + Len(bytes) /\ i <= Len(p) + Len(bytes) + Len(q)
          /\ i - (Len(p) + Len(bytes)) = i - e
          /\ ~(i - 1 \in o..(o + c - 1)) /\ i - e \in 1..(s - e) /\ e + (i - e) = i
      BY <1>1, <1>2, <1>3, <1>9, <1>10, <2>3
    <3>2. (p \o bytes \o q)[i] = q[i - (Len(p) + Len(bytes))]
      BY <1>9, <1>10, <2>0, <3>1, Between, SMTT(40)
    <3>3. q[i - e] = IF i <= m_size THEN Shown[i] ELSE 0
      BY <1>10, <3>1
    <3> QED BY <1>13, <3>1, <3>2, <3>3
  <2>4. i <= o \/ (i > o /\ i <= e) \/ i > e
    BY <1>2, <2>0
  <2> QED BY <2>1, <2>2, <2>3, <2>4
<1>15. p \o bytes \o q = t
  BY <1>11, <1>13, <1>14, SeqEqual
<1> QED BY <1>3, <1>5, <1>8, <1>15 DEF t

LEMMA WrittenNothing ==
    ASSUME NEW o, NEW bytes, bytes = <<>>
    PROVE  Evm!Written(o, bytes) = Shown
BY DEF Evm!Written, Shown, ShownOf


\* What is read from the memory.
LEMMA ReadBack ==
    ASSUME TypeInv, NEW o \in Nat, NEW c \in Nat, NEW mem, Reaches(mem, o + c)
    PROVE  /\ [i \in 1..c |-> mem.bytes[o + i - 1]] \in [1..c -> Bytes]
           /\ SubSeq(ShownOf(mem.bytes, mem.size), o + 1, o + c) = [i \in 1..c |-> mem.bytes[o + i - 1]]
<1>1. PICK s \in Nat : s = mem.size /\ o + c <= s
  BY DEF Reaches, Block
<1>2. PICK n \in Nat : s <= n /\ mem.bytes \in [0..(n - 1) -> Bytes]
  BY <1>1 DEF Reaches, Block
<1>3. \A i \in 1..c : o + i - 1 \in 0..(n - 1) /\ o + i \in 1..s
  BY <1>1, <1>2
<1>4. [i \in 1..c |-> mem.bytes[o + i - 1]] \in [1..c -> Bytes]
  BY <1>2, <1>3
<1>5. PICK t : t = ShownOf(mem.bytes, s)
  OBVIOUS
<1>6. t \in Seq(Bytes) /\ Len(t) = s /\ \A i \in 1..s : t[i] = mem.bytes[i - 1]
  <2>1. o + c \in Nat
    OBVIOUS
  <2> QED BY <1>1, <1>5, <2>1, ReachedFacts
<1>7. PICK u : u = SubSeq(t, o + 1, o + c)
  OBVIOUS
<1>8. u \in Seq(Bytes) /\ Len(u) = c /\ \A i \in 1..c : u[i] = t[o + i]
  <2>1. o + 1 \in 1..(s + 1) /\ o + c \in 0..s /\ o + c >= o
    BY <1>1
  <2>2. u \in Seq(Bytes) /\ Len(u) = o + c - (o + 1) + 1
    BY <1>1, <1>6, <1>7, <2>1
  <2>3. \A i \in 1..c : u[i] = t[o + 1 + i - 1]
    BY <1>1, <1>6, <1>7, <2>1
  <2>4. o + c - (o + 1) + 1 = c /\ \A i \in 1..c : o + 1 + i - 1 = o + i
    OBVIOUS
  <2> QED BY <2>2, <2>3, <2>4
<1>9. PICK v \in [1..c -> Bytes] : v = [i \in 1..c |-> mem.bytes[o + i - 1]]
  BY <1>4
<1>10. v \in Seq(Bytes) /\ Len(v) = c
  BY FunctionSeq
<1>11. \A i \in 1..Len(u) : u[i] = v[i]
  BY <1>3, <1>6, <1>8, <1>9
<1>12. u = v
  BY <1>8, <1>10, <1>11, SeqEqual
<1> QED BY <1>1, <1>4, <1>5, <1>7, <1>9, <1>12

LEMMA MloadStep ==
    ASSUME TypeInv, NEW left \in Leftover, mload(left)
    PROVE  TypeInv' /\ Evm!Next
<1> DEFINE index == StackTop_get(0)
           o     == Low(index)
           mem   == Grown(o + WordBytes, left)
           bytes == [i \in 1..WordBytes |-> mem.bytes[o + i - 1]]
<1>1. /\ Runs("mload") /\ top >= 1 /\ Narrow(index) /\ o + WordBytes <= MaxOffset
      /\ data' = mem.bytes /\ m_size' = mem.size
      /\ slots' = [slots EXCEPT ![top] = readu256BE(bytes)]
      /\ UNCHANGED <<top, output, status>>
  BY DEF mload, Affordable, Keeps, check_memory_u64
<1>2. index \in Uint256
  <2>1. 0 < top
    BY <1>1, DatapathAssumption DEF TypeInv, StackTyped
  <2> QED BY <2>1, Slot
<1>3. o \in Nat /\ Value256(index) = o
  BY <1>1, <1>2, LowLimb
<1>4. WordBytes \in Nat \ {0} /\ o + WordBytes \in Nat /\ left \in Bytes
  BY <1>3, WordFacts, DatapathAssumption, SMTT(40)
<1> HIDE DEF o, index
<1>5. Reaches(mem, o + WordBytes)
  BY <1>1, <1>4, GrownFacts
<1> HIDE DEF mem
<1>6. bytes \in WordBuffers /\ SubSeq(ShownOf(mem.bytes, mem.size), o + 1, o + WordBytes) = bytes
  <2>1. o \in Nat /\ WordBytes \in Nat
    BY <1>3, <1>4
  <2>2. /\ bytes \in [1..WordBytes -> Bytes]
        /\ SubSeq(ShownOf(mem.bytes, mem.size), o + 1, o + WordBytes) = bytes
    BY <1>5, <2>1, ReadBack, ZenonT(60)
  <2> HIDE DEF bytes
  <2> QED BY <2>2, WordFacts
<1> HIDE DEF bytes
<1>7. readu256BE(bytes) \in Uint256 /\ Value256(readu256BE(bytes)) = Evm!NatOf(bytes)
  BY <1>6, ReadsNat
<1>8. /\ StackTyped' /\ Items' = <<Evm!NatOf(bytes)>> \o Tail(Items)
      /\ Items # <<>> /\ Head(Items) = o
  BY <1>1, <1>3, <1>7, ReplacesTop DEF index
<1>9. Shown' = ShownOf(mem.bytes, mem.size) /\ TypeInv'
  BY <1>1, <1>5, <1>8 DEF Shown, TypeInv, Reaches
<1>10. Shown' = Evm!Expanded(Head(Items), WordBytes)
  BY <1>3, <1>4, <1>5, <1>8, <1>9, ExpandedIs
<1>11. Items' = <<Evm!NatOf(SubSeq(Shown', Head(Items) + 1, Head(Items) + WordBytes))>> \o Tail(Items)
  BY <1>6, <1>8, <1>9
<1>12. Evm!mload
  BY <1>1, <1>8, <1>10, <1>11, RunningMaps
     DEF Runs, Evm!mload, Evm!Runs, Items, ItemsOf, Shown, ShownOf
<1> QED BY <1>9, <1>12 DEF Evm!Next

\* The bytes of a number as the code and as evmone write them.
LEMMA WritesNat ==
    ASSUME NEW word \in Uint256
    PROVE  /\ u256_to_u8_32(word) \in WordBuffers /\ u256_to_u8_32(word) \in Seq(Bytes)
           /\ Len(u256_to_u8_32(word)) = WordBytes /\ u256_to_u8_32(word) # <<>>
           /\ Evm!BytesOf(Value256(word)) = u256_to_u8_32(word)
<1> DEFINE b == u256_to_u8_32(word)
           v == Value256(word)
<1>1. b \in [1..WordBytes -> Bytes]
  BY WriteWord, WordFacts
<1>2. \A i \in 1..WordBytes : b[i] = ByteAt(word, 4 * LimbBytes - i)
  BY WordFacts DEF u256_to_u8_32
<1>3. ASSUME NEW i \in 1..WordBytes PROVE b[i] = (v \div Evm!Weighs[WordBytes - i]) % ByteBase
  <2>1. PICK k \in Nat : k = WordBytes - i /\ k \in 0..(4 * LimbBytes - 1) /\ k = 4 * LimbBytes - i
    BY WordFacts
  <2>2. ByteAt(word, k) = Digit(v, k)
    BY <2>1, ByteAtDigit
  <2>3. Evm!Weighs[k] = Weight(k)
    BY WeighsWeight
  <2>4. Digit(v, k) = (v \div Weight(k)) % ByteBase
    BY DEF Digit
  <2> HIDE DEF b, v
  <2> QED BY <1>2, <2>1, <2>2, <2>3, <2>4
<1> HIDE DEF b, v
<1>4. Evm!BytesOf(v) = [i \in 1..WordBytes |-> (v \div Evm!Weighs[WordBytes - i]) % ByteBase]
  BY DEF Evm!BytesOf
<1>5. Evm!BytesOf(v) = b
  BY <1>1, <1>3, <1>4
<1>6. b \in Seq(Bytes) /\ Len(b) = WordBytes /\ b # <<>>
  <2>1. b \in Seq(Bytes) /\ Len(b) = WordBytes
    BY <1>1, WordFacts, FunctionSeq
  <2> QED BY <2>1, WordFacts
<1> QED BY <1>1, <1>5, <1>6, WordFacts DEF b, v


LEMMA MstoreStep ==
    ASSUME TypeInv, NEW left \in Leftover, mstore(left)
    PROVE  TypeInv' /\ Evm!Next
<1> DEFINE index == StackTop_get(0)
           word  == StackTop_get(1)
           o     == Low(index)
           mem   == Grown(o + WordBytes, left)
           bytes == u256_to_u8_32(word)
<1>1. /\ Runs("mstore") /\ top >= 2 /\ Narrow(index) /\ o + WordBytes <= MaxOffset
      /\ data' = Moved(mem.bytes, o, bytes) /\ m_size' = mem.size
      /\ top' = top - 2 /\ UNCHANGED <<slots, output, status>>
  BY DEF mstore, Affordable, Keeps, check_memory_u64
<1>2. /\ index \in Uint256 /\ word \in Uint256 /\ Len(Items) = top
      /\ Items[1] = Value256(index) /\ Items[2] = Value256(word)
  <2>1. 0 < top /\ 1 < top /\ 0 + 1 = 1 /\ 1 + 1 = 2
    BY <1>1, DatapathAssumption DEF TypeInv, StackTyped
  <2>2. index \in Uint256 /\ Len(Items) = top /\ Items[0 + 1] = Value256(index)
    BY <2>1, Slot
  <2>3. word \in Uint256 /\ Items[1 + 1] = Value256(word)
    BY <2>1, Slot
  <2> QED BY <2>1, <2>2, <2>3
<1>3. o \in Nat /\ Items[1] = o
  BY <1>1, <1>2, LowLimb
<1>4. WordBytes \in Nat \ {0} /\ o + WordBytes \in Nat /\ left \in Bytes
  BY <1>3, WordFacts, DatapathAssumption, SMTT(40)
<1>5. /\ bytes \in Seq(Bytes) /\ Len(bytes) = WordBytes /\ bytes # <<>>
      /\ Evm!BytesOf(Items[2]) = bytes
  BY <1>2, WritesNat
<1> HIDE DEF o, index, word, bytes
<1>6. Reaches(mem, o + Len(bytes))
  BY <1>1, <1>4, <1>5, GrownFacts
<1> HIDE DEF mem
<1>7. /\ Evm!Written(o, bytes) = ShownOf(Moved(mem.bytes, o, bytes), mem.size)
      /\ Block(Moved(mem.bytes, o, bytes), mem.size)
  BY <1>3, <1>5, <1>6, WrittenIs
<1>8. StackTyped' /\ Evm!Pops(2)
  <2>1. 2 \in Nat /\ 2 <= top
    BY <1>1, DatapathAssumption DEF TypeInv, StackTyped
  <2> QED BY <1>1, <2>1, PopsMaps
<1>9. TypeInv'
  BY <1>1, <1>7, <1>8 DEF TypeInv
<1>10. Shown' = Evm!Written(Items[1], Evm!BytesOf(Items[2]))
  BY <1>1, <1>3, <1>5, <1>7 DEF Shown
<1>11. Evm!mstore
  BY <1>1, <1>2, <1>8, <1>10, RunningMaps
     DEF Runs, Evm!mstore, Evm!Runs, Items, ItemsOf, Shown, ShownOf
<1> QED BY <1>9, <1>11 DEF Evm!Next


LEMMA PartFacts ==
    ASSUME NEW s \in Seq(Bytes), NEW a \in Nat, NEW n \in Nat, a + n <= Len(s),
           NEW b, b = a + 1, NEW e, e = a + n
    PROVE  /\ SubSeq(s, b, e) \in Seq(Bytes) /\ Len(SubSeq(s, b, e)) = n
           /\ \A i \in 1..n : SubSeq(s, b, e)[i] = s[a + i]
<1>1. b \in 1..(Len(s) + 1) /\ e \in 0..Len(s) /\ e - b + 1 = n
  OBVIOUS
<1>2. SubSeq(s, b, e) \in Seq(Bytes) /\ Len(SubSeq(s, b, e)) = e - b + 1
  BY <1>1
<1>3. \A i \in 1..n : SubSeq(s, b, e)[i] = s[b + i - 1] /\ b + i - 1 = a + i
  BY <1>1
<1> QED BY <1>1, <1>2, <1>3

\* What there is to copy of s bytes from x on, of l bytes: count bytes from src
\* on, those from place b to place e, and n zeros.
CopyRange(l, x, s, src, count, b, e, n) ==
    /\ src \in Nat /\ count \in Nat /\ s - count \in Nat /\ src + count <= l
    /\ \A i \in 1..s : (i <= count) <=> (x + i <= l)
    /\ count # 0 => src = x
    /\ b = src + 1 /\ e = src + count /\ n = s - count

Zeros(z, n) == z \in Seq(Bytes) /\ Len(z) = n /\ \A i \in 1..n : z[i] = 0

CopyOf(source, x, s, bytes) ==
    \E src, count, b, e, n : \E z \in Seq(Bytes) :
        CopyRange(Len(source), x, s, src, count, b, e, n) /\ Zeros(z, n) /\ bytes = SubSeq(source, b, e) \o z

LEMMA CopyRangeIs ==
    ASSUME NEW l \in Nat, NEW x \in Nat, NEW s \in Nat,
           NEW src, src = Least(l, x), NEW count, count = Least(s, l - src)
    PROVE  CopyRange(l, x, s, src, count, src + 1, src + count, s - count)
<1>1. src = IF l < x THEN l ELSE x
  BY DEF Least
<1>2. count = IF s < l - src THEN s ELSE l - src
  BY DEF Least
<1>3. src \in Nat /\ src <= l
  BY <1>1
<1>4. count \in Nat /\ s - count \in Nat /\ src + count <= l
  BY <1>2, <1>3
<1>5. count # 0 => src = x
  BY <1>1, <1>2
<1>6. ASSUME NEW i \in 1..s PROVE (i <= count) <=> (x + i <= l)
  <2>1. CASE l < x
    BY <1>1, <1>2, <2>1
  <2>2. CASE ~(l < x)
    <3>1. src = x
      BY <1>1, <2>2
    <3>2. CASE s < l - src
      BY <1>2, <3>1, <3>2
    <3>3. CASE ~(s < l - src)
      BY <1>2, <3>1, <3>3
    <3> QED BY <3>2, <3>3
  <2> QED BY <2>1, <2>2
<1> QED BY <1>3, <1>4, <1>5, <1>6 DEF CopyRange

\* The part of a sequence from an index on, and zeros after it.
LEMMA PartAndZeros ==
    ASSUME NEW source \in Seq(Bytes), NEW x \in Nat, NEW s \in Nat,
           NEW bytes, CopyOf(source, x, s, bytes)
    PROVE  bytes = Evm!Padded(source, x, s)
<1>1. PICK src, count, b, e, n, z :
         /\ CopyRange(Len(source), x, s, src, count, b, e, n)
         /\ z \in Seq(Bytes) /\ Zeros(z, n) /\ bytes = SubSeq(source, b, e) \o z
  BY DEF CopyOf
<1>2. PICK l \in Nat : l = Len(source)
  OBVIOUS
<1>3. /\ src \in Nat /\ count \in Nat /\ n \in Nat /\ n = s - count
      /\ \A i \in 1..s : (i <= count) <=> (x + i <= l)
      /\ count # 0 => src = x
  BY <1>1, <1>2 DEF CopyRange
<1>4. PICK p : p = SubSeq(source, b, e)
  OBVIOUS
<1>5. p \in Seq(Bytes) /\ Len(p) = count /\ \A i \in 1..count : p[i] = source[src + i]
  <2>1. /\ SubSeq(source, b, e) \in Seq(Bytes) /\ Len(SubSeq(source, b, e)) = count
        /\ \A i \in 1..count : SubSeq(source, b, e)[i] = source[src + i]
    <3>1. /\ src \in Nat /\ count \in Nat
          /\ src + count <= Len(source) /\ b = src + 1 /\ e = src + count
      BY <1>1 DEF CopyRange
    <3> QED BY <3>1, PartFacts
  <2> QED BY <1>4, <2>1
<1>6. z \in Seq(Bytes) /\ Len(z) = s - count /\ \A i \in 1..(s - count) : z[i] = 0
  BY <1>1, <1>3 DEF Zeros
<1>7. PICK t : t = Evm!Padded(source, x, s)
  OBVIOUS
<1>8. /\ t \in Seq(Bytes) /\ Len(t) = s
      /\ \A i \in 1..s : t[i] = IF x + i <= l THEN source[x + i] ELSE 0
  <2>1. /\ t \in Seq(Bytes) /\ Len(t) = s
        /\ \A i \in 1..s : t[i] = IF x + i <= Len(source) THEN source[x + i] ELSE 0
    BY <1>7, PaddedFacts, Zenon
  <2> QED BY <1>2, <2>1
<1>9. PICK u : u = p \o z
  OBVIOUS
<1>10. /\ u \in Seq(Bytes) /\ Len(u) = s
       /\ \A i \in 1..s : u[i] = IF i <= count THEN p[i] ELSE z[i - count]
  <2>0. p \in Seq(Bytes) /\ z \in Seq(Bytes)
    BY <1>5, <1>6
  <2>1. u \in Seq(Bytes) /\ Len(u) = Len(p) + Len(z)
    BY <1>9, <2>0
  <2>2. \A i \in 1..(Len(p) + Len(z)) : u[i] = IF i <= Len(p) THEN p[i] ELSE z[i - Len(p)]
    BY <1>9, <2>0
  <2>3. Len(p) = count /\ Len(p) + Len(z) = s
    BY <1>3, <1>5, <1>6
  <2> QED BY <2>1, <2>2, <2>3
<1>11. ASSUME NEW i \in 1..s PROVE u[i] = t[i]
  <2>1. CASE i <= count
    <3>0. i \in 1..count /\ count # 0
      <4>1. count \in Nat
        BY <1>3
      <4> QED BY <2>1, <4>1
    <3>1. i \in 1..count /\ src = x /\ x + i <= l
      BY <1>3, <2>1, <3>0
    <3>2. u[i] = p[i] /\ p[i] = source[src + i]
      BY <1>5, <1>10, <2>1, <3>1
    <3>3. t[i] = source[x + i]
      BY <1>8, <3>1
    <3> QED BY <3>1, <3>2, <3>3
  <2>2. CASE ~(i <= count)
    <3>1. ~(x + i <= l) /\ count \in Nat
      BY <1>3, <2>2
    <3>2. i - count \in 1..(s - count)
      BY <2>2, <3>1
    <3>3. u[i] = z[i - count]
      BY <1>10, <2>2
    <3>4. z[i - count] = 0
      BY <1>6, <3>2
    <3>5. t[i] = 0
      BY <1>8, <3>1
    <3> QED BY <3>3, <3>4, <3>5
  <2> QED BY <2>1, <2>2
<1>12. u = t
  BY <1>8, <1>10, <1>11, SeqEqual
<1> QED BY <1>1, <1>4, <1>7, <1>9, <1>12

\* Of the operands of a copy their low limbs are used.
LEMMA CopiedPadded ==
    ASSUME TypeInv, top >= 3, NEW source \in Seq(Bytes)
    PROVE  Copied(source) = Evm!Padded(source, Low(StackTop_get(1)), Low(StackTop_get(2)))
<1>1. Low(StackTop_get(1)) \in Nat /\ Low(StackTop_get(2)) \in Nat
  <2>1. 1 < top /\ 2 < top /\ 1 \in Nat /\ 2 \in Nat
    BY DatapathAssumption DEF TypeInv, StackTyped
  <2>2. StackTop_get(1) \in Uint256 /\ StackTop_get(2) \in Uint256
    BY <2>1, Slot
  <2> QED BY <2>2, LowLimb
<1>2. PICK src, count : /\ src = Least(Len(source), Low(StackTop_get(1)))
                        /\ count = Least(Low(StackTop_get(2)), Len(source) - src)
  OBVIOUS
<1>3. Copied(source)
         = SubSeq(source, src + 1, src + count) \o [i \in 1..(Low(StackTop_get(2)) - count) |-> 0]
  BY <1>2 DEF Copied
<1>4. Copied(source) = Evm!Padded(source, Low(StackTop_get(1)), Low(StackTop_get(2)))
  <2>1. Low(StackTop_get(1)) \in Nat /\ Low(StackTop_get(2)) \in Nat
    BY <1>1
  <2>2. PICK y, w, b, e, n :
            /\ y = Low(StackTop_get(1)) /\ w = Low(StackTop_get(2)) /\ y \in Nat /\ w \in Nat
            /\ b = src + 1 /\ e = src + count /\ n = w - count
    BY <2>1
  <2>3. CopyRange(Len(source), y, w, src, count, b, e, n)
    <3>1. PICK l \in Nat : l = Len(source)
      OBVIOUS
    <3>2. src = Least(l, y) /\ count = Least(w, l - src)
      BY <1>2, <2>2, <3>1
    <3>3. CopyRange(l, y, w, src, count, src + 1, src + count, w - count)
      BY <2>2, <3>2, CopyRangeIs
    <3> QED BY <2>2, <3>1, <3>3
  <2>4. SubSeq(source, b, e) \o [i \in 1..n |-> 0] = Evm!Padded(source, y, w)
    <3>1. y \in Nat /\ w \in Nat
      BY <2>2
    <3>2. PICK z \in Seq(Bytes) : z = [i \in 1..n |-> 0] /\ Zeros(z, n)
      <4>1. n \in Nat
        BY <2>3 DEF CopyRange
      <4>2. PICK f \in [1..n -> Bytes] : f = [i \in 1..n |-> 0]
        BY WordFacts
      <4>3. f \in Seq(Bytes) /\ Len(f) = n
        BY <4>1, FunctionSeq
      <4> QED BY <4>2, <4>3 DEF Zeros
    <3>3. CopyOf(source, y, w, SubSeq(source, b, e) \o z)
      BY <2>3, <3>2 DEF CopyOf
    <3>4. SubSeq(source, b, e) \o z = Evm!Padded(source, y, w)
      BY <3>1, <3>3, PartAndZeros
    <3> QED BY <3>2, <3>4, Zenon
  <2>5. Copied(source) = SubSeq(source, b, e) \o [i \in 1..n |-> 0]
    BY <1>3, <2>2
  <2> QED BY <2>2, <2>4, <2>5, Zenon
<1> QED BY <1>4

\* What a copy moves is what evmone copies, if its operands have one limb.
LEMMA CopyOperands ==
    ASSUME TypeInv, top >= 3, NEW source \in Seq(Bytes),
           Narrow(StackTop_get(1)), Narrow(StackTop_get(2))
    PROVE  /\ StackTop_get(0) \in Uint256 /\ StackTop_get(2) \in Uint256
           /\ Len(Items) = top /\ Items[1] = Value256(StackTop_get(0))
           /\ Items[3] = Low(StackTop_get(2)) /\ Items[3] \in Nat
           /\ zero256(StackTop_get(2)) <=> Items[3] = 0
           /\ Copied(source) = Evm!Padded(source, Items[2], Items[3])
<1>1. /\ StackTop_get(0) \in Uint256 /\ StackTop_get(1) \in Uint256 /\ StackTop_get(2) \in Uint256
      /\ Len(Items) = top /\ Items[1] = Value256(StackTop_get(0))
      /\ Items[2] = Value256(StackTop_get(1)) /\ Items[3] = Value256(StackTop_get(2))
  <2>1. 0 < top /\ 1 < top /\ 2 < top /\ 0 + 1 = 1 /\ 1 + 1 = 2 /\ 2 + 1 = 3
    BY DatapathAssumption DEF TypeInv, StackTyped
  <2>2. StackTop_get(0) \in Uint256 /\ Len(Items) = top /\ Items[0 + 1] = Value256(StackTop_get(0))
    BY <2>1, Slot
  <2>3. StackTop_get(1) \in Uint256 /\ Items[1 + 1] = Value256(StackTop_get(1))
    BY <2>1, Slot
  <2>4. StackTop_get(2) \in Uint256 /\ Items[2 + 1] = Value256(StackTop_get(2))
    BY <2>1, Slot
  <2> QED BY <2>1, <2>2, <2>3, <2>4
<1>2. /\ Low(StackTop_get(1)) \in Nat /\ Low(StackTop_get(2)) \in Nat
      /\ Items[2] = Low(StackTop_get(1)) /\ Items[3] = Low(StackTop_get(2))
  BY <1>1, LowLimb
<1>3. zero256(StackTop_get(2)) <=> Items[3] = 0
  BY <1>1, Compare256, Clear
<1>4. Copied(source) = Evm!Padded(source, Low(StackTop_get(1)), Low(StackTop_get(2)))
  BY CopiedPadded
<1> QED BY <1>1, <1>2, <1>3, <1>4

\* The bytes copied, to memory that has room for them.
LEMMA CopyMaps ==
    ASSUME TypeInv, top >= 3, NEW bytes \in Seq(Bytes), NEW o \in Nat, o = Low(StackTop_get(0)),
           NEW mem, CopiedTo(mem, bytes),
           bytes = <<>> => mem = [bytes |-> data, size |-> m_size],
           bytes # <<>> => Reaches(mem, o + Len(bytes))
    PROVE  /\ TypeInv' /\ Shown' = Evm!Written(o, bytes) /\ Evm!Pops(3)
           /\ UNCHANGED <<output, status>>
<1>1. /\ data' = [mem EXCEPT !.bytes = Moved(@, o, bytes)].bytes
      /\ m_size' = [mem EXCEPT !.bytes = Moved(@, o, bytes)].size
      /\ top' = top - 3 /\ UNCHANGED <<slots, output, status>>
  BY DEF CopiedTo, Keeps
<1>2. mem = [bytes |-> mem.bytes, size |-> mem.size]
  BY DEF Reaches
<1>3. data' = Moved(mem.bytes, o, bytes) /\ m_size' = mem.size
  BY <1>1, <1>2
<1>4. StackTyped' /\ Evm!Pops(3)
  <2>1. 3 \in Nat /\ 3 <= top
    BY DatapathAssumption DEF TypeInv, StackTyped
  <2> QED BY <1>1, <2>1, PopsMaps
<1>5. Block(data', m_size') /\ Shown' = Evm!Written(o, bytes)
  <2>1. CASE bytes = <<>>
    <3>1. PICK n \in Nat : m_size <= n /\ data \in [0..(n - 1) -> Bytes]
      BY DEF TypeInv, Block
    <3>2. mem.bytes = data /\ mem.size = m_size
      BY <2>1
    <3>3. data' = data /\ m_size' = m_size
      BY <1>3, <2>1, <3>1, <3>2, MovedFacts
    <3>4. Evm!Written(o, bytes) = Shown
      BY <2>1, WrittenNothing
    <3> QED BY <3>3, <3>4 DEF TypeInv, Shown
  <2>2. CASE bytes # <<>>
    <3>1. /\ Evm!Written(o, bytes) = ShownOf(Moved(mem.bytes, o, bytes), mem.size)
          /\ Block(Moved(mem.bytes, o, bytes), mem.size)
      BY <2>2, WrittenIs
    <3> QED BY <1>3, <3>1 DEF Shown
  <2> QED BY <2>1, <2>2
<1> QED BY <1>1, <1>4, <1>5 DEF TypeInv

LEMMA CalldatacopyStep ==
    ASSUME NoDepartures, TypeInv, NEW left \in Leftover, calldatacopy(left)
    PROVE  TypeInv' /\ Evm!Next
<1> DEFINE index == StackTop_get(0)
           size  == StackTop_get(2)
           o     == Low(index)
           mem   == check_memory_u256(index, size, left)
           bytes == Copied(message.input)
<1>1. /\ Runs("calldatacopy") /\ top >= 3
      /\ zero256(size) \/ (Narrow(index) /\ o + Low(size) <= MaxOffset)
      /\ Narrow(StackTop_get(1)) /\ Narrow(size)
      /\ CopiedTo(mem, bytes)
  BY DEF calldatacopy, Affordable, NoDepartures
<1>2. message.input \in Seq(Bytes) /\ left \in Bytes
  BY DatapathAssumption
<1>3. /\ index \in Uint256 /\ size \in Uint256
      /\ Len(Items) = top /\ Items[1] = Value256(index)
      /\ Items[3] = Low(size) /\ Items[3] \in Nat /\ (zero256(size) <=> Items[3] = 0)
      /\ bytes = Evm!Padded(message.input, Items[2], Items[3])
  BY <1>1, <1>2, CopyOperands
<1>4. o \in Nat /\ (Narrow(index) => Items[1] = o)
  BY <1>3, LowLimb
<1>5. bytes \in Seq(Bytes) /\ Len(bytes) = Items[3]
  <2>1. Items[2] \in Nat
    <3>1. Items \in Seq(Nat) /\ 2 \in 1..Len(Items)
      BY <1>1, <1>3, ItemsFacts DEF TypeInv, StackTyped, Items
    <3> QED BY <3>1
  <2>2. Items[3] \in Nat /\ bytes = Evm!Padded(message.input, Items[2], Items[3])
    BY <1>3
  <2> HIDE DEF bytes
  <2> QED BY <1>2, <2>1, <2>2, PaddedFacts
<1>6. mem = IF Items[3] = 0 THEN [bytes |-> data, size |-> m_size] ELSE Grown(o + Items[3], left)
  BY <1>3 DEF check_memory_u256, check_memory_u64
<1>7. Items[3] # 0 => Reaches(mem, o + Len(bytes)) /\ Items[1] = o
  <2>1. o + Items[3] \in Nat
    BY <1>3, <1>4
  <2> QED BY <1>1, <1>2, <1>3, <1>4, <1>5, <1>6, <2>1, GrownFacts
<1> HIDE DEF mem, bytes
<1>8. (bytes = <<>>) <=> (Items[3] = 0)
  BY <1>5
<1>9. /\ TypeInv' /\ Shown' = Evm!Written(o, bytes) /\ Evm!Pops(3)
      /\ UNCHANGED <<output, status>>
  BY <1>1, <1>4, <1>5, <1>6, <1>7, <1>8, CopyMaps
<1>10. Evm!Written(o, bytes) = Evm!Written(Items[1], bytes)
  <2>1. CASE Items[3] = 0
    BY <1>8, <2>1, WrittenNothing
  <2>2. CASE Items[3] # 0
    BY <1>7, <2>2
  <2> QED BY <2>1, <2>2
<1>11. Shown' = Evm!Written(Items[1], Evm!Padded(message.input, Items[2], Items[3]))
  BY <1>3, <1>9, <1>10
<1>12. Evm!calldatacopy
  BY <1>1, <1>3, <1>9, <1>11, RunningMaps
     DEF Runs, Evm!calldatacopy, Evm!copies, Evm!Runs, Items, ItemsOf, Shown, ShownOf
<1> QED BY <1>9, <1>12 DEF Evm!Next

LEMMA CodecopyStep ==
    ASSUME NoDepartures, TypeInv, NEW left \in Leftover, codecopy(left)
    PROVE  TypeInv' /\ Evm!Next
<1> DEFINE index == StackTop_get(0)
           size  == StackTop_get(2)
           o     == Low(index)
           mem   == check_memory_u64(index, Low(size), left)
           bytes == Copied(code)
<1>1. /\ Runs("codecopy") /\ top >= 3
      /\ Narrow(index) /\ o + Low(size) <= MaxOffset
      /\ Narrow(StackTop_get(1)) /\ Narrow(size)
      /\ zero256(size) => o <= m_size
      /\ CopiedTo(mem, bytes)
  BY DEF codecopy, Affordable, NoDepartures
<1>2. code \in Seq(Bytes) /\ left \in Bytes
  BY DatapathAssumption
<1>3. /\ index \in Uint256 /\ size \in Uint256
      /\ Len(Items) = top /\ Items[1] = Value256(index)
      /\ Items[3] = Low(size) /\ Items[3] \in Nat /\ (zero256(size) <=> Items[3] = 0)
      /\ bytes = Evm!Padded(code, Items[2], Items[3])
  BY <1>1, <1>2, CopyOperands
<1>4. o \in Nat /\ Items[1] = o
  BY <1>1, <1>3, LowLimb
<1>5. bytes \in Seq(Bytes) /\ Len(bytes) = Items[3]
  <2>1. Items[2] \in Nat
    <3>1. Items \in Seq(Nat) /\ 2 \in 1..Len(Items)
      BY <1>1, <1>3, ItemsFacts DEF TypeInv, StackTyped, Items
    <3> QED BY <3>1
  <2>2. Items[3] \in Nat /\ bytes = Evm!Padded(code, Items[2], Items[3])
    BY <1>3
  <2> HIDE DEF bytes
  <2> QED BY <1>2, <2>1, <2>2, PaddedFacts
<1>6. mem = Grown(o + Items[3], left)
  BY <1>3 DEF check_memory_u64
<1>7. Reaches(mem, o + Len(bytes))
  <2>1. o + Items[3] \in Nat
    BY <1>3, <1>4
  <2> QED BY <1>1, <1>2, <1>3, <1>5, <1>6, <2>1, GrownFacts
<1> HIDE DEF mem, bytes
<1>8. (bytes = <<>>) <=> (Items[3] = 0)
  BY <1>5
<1>9. bytes = <<>> => mem = [bytes |-> data, size |-> m_size]
  <2> SUFFICES ASSUME bytes = <<>> PROVE mem = [bytes |-> data, size |-> m_size]
    OBVIOUS
  <2>1. o + Len(bytes) <= m_size
    BY <1>1, <1>3, <1>4, <1>5, <1>8
  <2> QED BY <1>7, <2>1 DEF Reaches
<1>10. /\ TypeInv' /\ Shown' = Evm!Written(o, bytes) /\ Evm!Pops(3)
       /\ UNCHANGED <<output, status>>
  BY <1>1, <1>4, <1>5, <1>7, <1>9, CopyMaps
<1>11. Shown' = Evm!Written(Items[1], Evm!Padded(code, Items[2], Items[3]))
  BY <1>3, <1>4, <1>10
<1>12. Evm!codecopy
  BY <1>1, <1>3, <1>10, <1>11, RunningMaps
     DEF Runs, Evm!codecopy, Evm!copies, Evm!Runs, Items, ItemsOf, Shown, ShownOf
<1> QED BY <1>10, <1>12 DEF Evm!Next


LEMMA ReturnStep ==
    ASSUME NoDepartures, TypeInv, NEW left \in Leftover, return_(left)
    PROVE  TypeInv' /\ Evm!Next
<1> DEFINE offset == StackTop_get(0)
           size   == StackTop_get(1)
           o      == Low(offset)
           mem    == check_memory_u256(offset, size, left)
<1>1. /\ Runs("return_") /\ top >= 2
      /\ zero256(size) \/ (Narrow(offset) /\ o + Low(size) <= MaxOffset)
      /\ Narrow(size)
      /\ data' = mem.bytes /\ m_size' = mem.size
      /\ output' = [i \in 1..Low(size) |-> mem.bytes[o + i - 1]]
      /\ status' \in {"SUCCESS", "REVERT"} /\ UNCHANGED <<slots, top>>
  BY DEF return_, Affordable, Keeps, NoDepartures
<1>2. /\ offset \in Uint256 /\ size \in Uint256 /\ Len(Items) = top
      /\ Items[1] = Value256(offset) /\ Items[2] = Value256(size)
  <2>1. 0 < top /\ 1 < top /\ 0 + 1 = 1 /\ 1 + 1 = 2
    BY <1>1, DatapathAssumption DEF TypeInv, StackTyped
  <2>2. offset \in Uint256 /\ Len(Items) = top /\ Items[0 + 1] = Value256(offset)
    BY <2>1, Slot
  <2>3. size \in Uint256 /\ Items[1 + 1] = Value256(size)
    BY <2>1, Slot
  <2> QED BY <2>1, <2>2, <2>3
<1>3. PICK c \in Nat : /\ c = Low(size) /\ Items[2] = c /\ (zero256(size) <=> c = 0)
  <2>1. Low(size) \in Nat /\ Items[2] = Low(size)
    BY <1>1, <1>2, LowLimb
  <2>2. zero256(size) <=> Items[2] = 0
    BY <1>2, Compare256
  <2> QED BY <2>1, <2>2
<1>4. o \in Nat /\ left \in Bytes /\ (Narrow(offset) => Items[1] = o)
  BY <1>2, LowLimb, DatapathAssumption
<1>5. mem = IF c = 0 THEN [bytes |-> data, size |-> m_size] ELSE Grown(o + c, left)
  BY <1>3 DEF check_memory_u256, check_memory_u64
<1>6. output' = [i \in 1..c |-> mem.bytes[o + i - 1]]
  BY <1>1, <1>3
<1> HIDE DEF mem
<1>7. /\ Block(mem.bytes, mem.size)
      /\ ShownOf(mem.bytes, mem.size) = Evm!Expanded(Items[1], Items[2])
      /\ output' = SubSeq(ShownOf(mem.bytes, mem.size), Items[1] + 1, Items[1] + Items[2])
  <2>1. CASE c = 0
    <3>1. mem.bytes = data /\ mem.size = m_size
      BY <1>5, <2>1
    <3>2. Evm!Expanded(Items[1], 0) = Shown
      BY ExpandedByNothing
    <3>3. output' = <<>>
      BY <1>6, <2>1
    <3>4. SubSeq(Shown, Items[1] + 1, Items[1] + 0) = <<>>
      <4>1. Items[1] \in Nat
        <5>1. Items \in Seq(Nat) /\ 1 \in 1..Len(Items)
          BY <1>1, <1>2, ItemsFacts DEF TypeInv, StackTyped, Items
        <5> QED BY <5>1
      <4>2. Shown \in Seq(Bytes)
        BY MemoryFacts
      <4> QED BY <4>1, <4>2
    <3> QED BY <1>3, <2>1, <3>1, <3>2, <3>3, <3>4 DEF TypeInv, Shown
  <2>2. CASE c # 0
    <3>1. o + c <= MaxOffset /\ Items[1] = o /\ o + c \in Nat /\ c \in Nat \ {0}
      BY <1>1, <1>3, <1>4, <2>2
    <3>2. Reaches(mem, o + c)
      BY <1>4, <1>5, <2>2, <3>1, GrownFacts
    <3>3. Evm!Expanded(o, c) = ShownOf(mem.bytes, mem.size)
      BY <1>4, <3>1, <3>2, ExpandedIs
    <3>4. SubSeq(ShownOf(mem.bytes, mem.size), o + 1, o + c) = [i \in 1..c |-> mem.bytes[o + i - 1]]
      BY <1>4, <3>2, ReadBack, ZenonT(40)
    <3>5. output' = SubSeq(ShownOf(mem.bytes, mem.size), Items[1] + 1, Items[1] + c)
      BY <1>6, <3>1, <3>4, Zenon
    <3>6. ShownOf(mem.bytes, mem.size) = Evm!Expanded(Items[1], c)
      BY <3>1, <3>3, Zenon
    <3> QED BY <1>3, <3>2, <3>5, <3>6 DEF Reaches
  <2> QED BY <2>1, <2>2
<1>8. TypeInv'
  BY <1>1, <1>7 DEF TypeInv, StackTyped
<1>9. Shown' = ShownOf(mem.bytes, mem.size)
  BY <1>1 DEF Shown
<1>10. Evm!return_
  <2>1. /\ Shown' = Evm!Expanded(Items[1], Items[2])
        /\ output' = SubSeq(Shown', Items[1] + 1, Items[1] + Items[2])
    BY <1>7, <1>9
  <2>2. ~(status = "RUNNING")' /\ Items' = Items
    BY <1>1 DEF Items, ItemsOf
  <2> QED BY <1>1, <1>2, <2>1, <2>2, RunningMaps
          DEF Runs, Evm!return_, Evm!Runs, Items, ItemsOf, Shown, ShownOf
<1> QED BY <1>8, <1>10 DEF Evm!Next

-----------------------------------------------------------------------------
(***************************************************************************)
(* The executions.                                                         *)
(***************************************************************************)
LEMMA InitMaps ==
    ASSUME Init
    PROVE  TypeInv /\ Evm!Init
<1>1. PICK left \in Leftover :
         /\ slots = [i \in 1..Slots |-> LimbWord(IF i <= top THEN top - i ELSE left)]
         /\ data = [i \in 0..(PageSize - 1) |-> left]
  BY DEF Init
<1>2. /\ top \in 0..Slots /\ top \in Nat /\ Slots \in Nat /\ Slots <= Base /\ left \in Bytes
      /\ PageSize \in Nat /\ MaxOffset \in Nat /\ Base \in Nat
  BY DatapathAssumption, BaseFacts DEF Init
<1>3. Bytes \subseteq 0..(Base - 1)
  <2>1. ByteBits \in Nat /\ LimbBits \in Nat /\ ByteBits <= LimbBits
    <3>1. LimbBytes \in Nat \ {0} /\ ByteBits \in Nat /\ LimbBytes * ByteBits = LimbBits
      BY ByteFacts
    <3>2. ByteBits <= LimbBytes * ByteBits /\ LimbBytes * ByteBits \in Nat
      BY <3>1, TimesPos, TimesNat
    <3> QED BY <3>1, <3>2
  <2>2. Power2[ByteBits] <= Power2[LimbBits]
    BY <2>1, Power2Mono
  <2>3. ByteBase <= Base /\ Bytes = 0..(ByteBase - 1) /\ ByteBase \in Nat /\ Base \in Nat
    BY <2>2, ByteFacts, BaseFacts DEF Base
  <2> QED BY <2>3
<1>4. \A i \in 1..Slots : LimbWord(IF i <= top THEN top - i ELSE left) \in Uint256
  <2> SUFFICES ASSUME NEW i \in 1..Slots
               PROVE  LimbWord(IF i <= top THEN top - i ELSE left) \in Uint256
    OBVIOUS
  <2>1. (IF i <= top THEN top - i ELSE left) \in 0..(Base - 1)
    BY <1>2, <1>3
  <2> QED BY <2>1, LimbWordValue
<1>5. StackTyped
  BY <1>1, <1>2, <1>4 DEF StackTyped
<1>6. Block(data, m_size)
  <2>1. data \in [0..(PageSize - 1) -> Bytes]
    BY <1>1, <1>2
  <2>2. m_size = 0 /\ 0 % WordBytes = 0 /\ 0 < MaxOffset + WordBytes
    BY <1>2, WordFacts DEF Init
  <2> QED BY <1>2, <2>1, <2>2 DEF Block
<1>7. Items \in Seq(Nat)
  BY <1>5, ItemsFacts DEF StackTyped, Items
<1>8. Shown = <<>>
  BY DEF Init, Shown, ShownOf
<1>9. Evm!Init
  BY <1>7, <1>8 DEF Init, Evm!Init, Items, ItemsOf, Shown, ShownOf
<1> QED BY <1>5, <1>6, <1>9 DEF TypeInv

\* A block after bytes are moved in it.
LEMMA MovedBlock ==
    ASSUME NEW bytes, NEW size, Block(bytes, size), NEW o \in Nat, NEW moved \in Seq(Bytes)
    PROVE  Block(Moved(bytes, o, moved), size)
<1>1. PICK n \in Nat : size <= n /\ bytes \in [0..(n - 1) -> Bytes]
  BY DEF Block
<1>2. Moved(bytes, o, moved) \in [0..(n - 1) -> Bytes]
  BY <1>1, MovedFacts
<1> QED BY <1>1, <1>2 DEF Block

\* Whatever operands are passed to the instructions that evmone may read otherwise,
\* limbs, bytes and words are left.
LEMMA DepartingTyped ==
    ASSUME TypeInv, NEW left \in Bytes,
           blockhash \/ calldatacopy(left) \/ codecopy(left) \/ return_(left)
    PROVE  TypeInv'
<1>1. top \in Nat /\ top <= Slots /\ Slots \in Nat
  BY DatapathAssumption DEF TypeInv, StackTyped
<1>2. ASSUME NEW n \in Nat, n < top
      PROVE  StackTop_get(n) \in Uint256 /\ Low(StackTop_get(n)) \in Nat
  BY <1>2, Slot, LowLimb
<1>3. CASE blockhash
  <2>1. \E word \in {readu256BE(block_hash), clear256} : slots' = [slots EXCEPT ![top] = word]
    BY <1>3 DEF blockhash
  <2>2. readu256BE(block_hash) \in Uint256 /\ clear256 \in Uint256
    BY ReadsNat, Clear, DatapathAssumption
  <2>3. slots' \in [1..Slots -> Uint256]
    BY <2>1, <2>2 DEF TypeInv, StackTyped
  <2> QED BY <1>3, <2>3 DEF blockhash, TypeInv, StackTyped
<1>4. ASSUME NEW source \in Seq(Bytes), NEW mem, Block(mem.bytes, mem.size),
             mem = [bytes |-> mem.bytes, size |-> mem.size],
             top >= 3, CopiedTo(mem, Copied(source))
      PROVE  TypeInv'
  <2>1. 0 < top /\ 1 < top /\ 2 < top
    BY <1>1, <1>4
  <2>2. /\ Low(StackTop_get(0)) \in Nat /\ Low(StackTop_get(1)) \in Nat
        /\ Low(StackTop_get(2)) \in Nat
    BY <1>2, <2>1
  <2>3. Copied(source) \in Seq(Bytes)
    <3>1. Copied(source) = Evm!Padded(source, Low(StackTop_get(1)), Low(StackTop_get(2)))
      BY <1>4, CopiedPadded
    <3> QED BY <2>2, <3>1, PaddedFacts
  <2>4. /\ data' = Moved(mem.bytes, Low(StackTop_get(0)), Copied(source)) /\ m_size' = mem.size
        /\ top' = top - 3 /\ slots' = slots
    <3>1. /\ data' = [mem EXCEPT !.bytes = Moved(@, Low(StackTop_get(0)), Copied(source))].bytes
          /\ m_size' = [mem EXCEPT !.bytes = Moved(@, Low(StackTop_get(0)), Copied(source))].size
          /\ top' = top - 3 /\ slots' = slots
      BY <1>4 DEF CopiedTo, Keeps
    <3> QED BY <1>4, <3>1
  <2>5. Block(data', m_size')
    BY <1>4, <2>2, <2>3, <2>4, MovedBlock
  <2>6. StackTyped'
    BY <1>1, <1>4, <2>4 DEF TypeInv, StackTyped
  <2> QED BY <2>5, <2>6 DEF TypeInv
<1>5. CASE calldatacopy(left)
  <2> DEFINE mem == check_memory_u256(StackTop_get(0), StackTop_get(2), left)
  <2>1. /\ top >= 3 /\ CopiedTo(mem, Copied(message.input)) /\ message.input \in Seq(Bytes)
        /\ \/ zero256(StackTop_get(2))
           \/ Low(StackTop_get(0)) + Low(StackTop_get(2)) <= MaxOffset
    BY <1>5, DatapathAssumption DEF calldatacopy, Affordable
  <2>2. Low(StackTop_get(0)) \in Nat /\ Low(StackTop_get(2)) \in Nat
    <3>1. 0 < top /\ 2 < top
      BY <1>1, <2>1
    <3> QED BY <1>2, <3>1
  <2>3. Block(mem.bytes, mem.size) /\ mem = [bytes |-> mem.bytes, size |-> mem.size]
    <3>1. CASE zero256(StackTop_get(2))
      BY <3>1 DEF check_memory_u256, TypeInv
    <3>2. CASE ~zero256(StackTop_get(2))
      <4>1. mem = Grown(Low(StackTop_get(0)) + Low(StackTop_get(2)), left)
        BY <3>2 DEF check_memory_u256, check_memory_u64
      <4>2. Low(StackTop_get(0)) + Low(StackTop_get(2)) \in Nat
        BY <2>2
      <4>3. Reaches(mem, Low(StackTop_get(0)) + Low(StackTop_get(2)))
        BY <1>1, <2>1, <3>2, <4>1, <4>2, GrownFacts
      <4> QED BY <4>3 DEF Reaches
    <3> QED BY <3>1, <3>2
  <2> HIDE DEF mem
  <2> QED BY <1>4, <2>1, <2>3
<1>6. CASE codecopy(left)
  <2> DEFINE mem == check_memory_u64(StackTop_get(0), Low(StackTop_get(2)), left)
  <2>1. /\ top >= 3 /\ CopiedTo(mem, Copied(code)) /\ code \in Seq(Bytes)
        /\ Low(StackTop_get(0)) + Low(StackTop_get(2)) <= MaxOffset
    BY <1>6, DatapathAssumption DEF codecopy, Affordable
  <2>2. Low(StackTop_get(0)) + Low(StackTop_get(2)) \in Nat
    <3>1. 0 < top /\ 2 < top
      BY <1>1, <2>1
    <3>2. Low(StackTop_get(0)) \in Nat /\ Low(StackTop_get(2)) \in Nat
      BY <1>2, <3>1
    <3> QED BY <3>2
  <2>3. Reaches(mem, Low(StackTop_get(0)) + Low(StackTop_get(2)))
    BY <1>1, <2>1, <2>2, GrownFacts DEF check_memory_u64
  <2> HIDE DEF mem
  <2> QED BY <1>4, <2>1, <2>3 DEF Reaches
<1>7. CASE return_(left)
  <2> DEFINE mem == check_memory_u256(StackTop_get(0), StackTop_get(1), left)
  <2>1. /\ top >= 2 /\ data' = mem.bytes /\ m_size' = mem.size /\ UNCHANGED <<slots, top>>
        /\ \/ zero256(StackTop_get(1))
           \/ Low(StackTop_get(0)) + Low(StackTop_get(1)) <= MaxOffset
    BY <1>7 DEF return_, Affordable, Keeps
  <2>2. Low(StackTop_get(0)) + Low(StackTop_get(1)) \in Nat
    <3>1. 0 < top /\ 1 < top
      BY <1>1, <2>1
    <3>2. Low(StackTop_get(0)) \in Nat /\ Low(StackTop_get(1)) \in Nat
      BY <1>2, <3>1
    <3> QED BY <3>2
  <2>3. Block(mem.bytes, mem.size)
    <3>1. CASE zero256(StackTop_get(1))
      BY <3>1 DEF check_memory_u256, TypeInv
    <3>2. CASE ~zero256(StackTop_get(1))
      <4>1. mem = Grown(Low(StackTop_get(0)) + Low(StackTop_get(1)), left)
        BY <3>2 DEF check_memory_u256, check_memory_u64
      <4>2. Reaches(mem, Low(StackTop_get(0)) + Low(StackTop_get(1)))
        BY <1>1, <2>1, <2>2, <3>2, <4>1, GrownFacts
      <4> QED BY <4>2 DEF Reaches
    <3> QED BY <3>1, <3>2
  <2> HIDE DEF mem
  <2> QED BY <2>1, <2>3 DEF TypeInv, StackTyped
<1> QED BY <1>3, <1>5, <1>6, <1>7

\* Every step of the other instructions is one of evmone.
Plain ==
    \/ UNCHANGED vars
    \/ \E left \in Leftover : address(left) \/ origin(left) \/ coinbase(left) \/ mload(left) \/ mstore(left)
    \/ caller \/ callvalue \/ calldatasize \/ codesize \/ gasprice \/ timestamp \/ number
    \/ gaslimit \/ chainid \/ basefee \/ msize \/ push0
    \/ difficulty \/ pop
    \/ \E n \in 1..16 : dup(n) \/ swap(n)
    \/ calldataload \/ fails

LEMMA PlainMaps ==
    ASSUME TypeInv, Plain
    PROVE  TypeInv' /\ [Evm!Next]_Evm!vars
<1>1. CASE UNCHANGED vars
  BY <1>1 DEF vars, TypeInv, StackTyped, Evm!vars
<1>2. ASSUME NEW left \in Leftover, address(left) \/ origin(left) \/ coinbase(left)
      PROVE  TypeInv' /\ Evm!Next
  BY <1>2, AddressSteps
<1>3. ASSUME NEW left \in Leftover, mload(left)
      PROVE  TypeInv' /\ Evm!Next
  BY <1>3, MloadStep
<1>4. ASSUME NEW left \in Leftover, mstore(left)
      PROVE  TypeInv' /\ Evm!Next
  BY <1>4, MstoreStep
<1>5. CASE caller \/ callvalue \/ gasprice \/ chainid \/ basefee
  BY <1>5, BufferSteps
<1>6. CASE calldatasize \/ codesize \/ timestamp \/ number \/ gaslimit \/ msize \/ push0
  BY <1>6, LimbSteps
<1>7. CASE difficulty
  BY <1>7, DifficultyStep
<1>8. CASE pop
  BY <1>8, PopStep
<1>9. ASSUME NEW n \in 1..16, dup(n)
      PROVE  TypeInv' /\ Evm!Next
  BY <1>9, DupStep
<1>10. ASSUME NEW n \in 1..16, swap(n)
       PROVE  TypeInv' /\ Evm!Next
  BY <1>10, SwapStep
<1>11. CASE calldataload
  BY <1>11, CalldataloadStep
<1>12. CASE fails
  BY <1>12, FailsStep
<1> QED
  BY <1>1, <1>2, <1>3, <1>4, <1>5, <1>6, <1>7, <1>8, <1>9, <1>10, <1>11, <1>12 DEF Plain

LEMMA StepTyped ==
    ASSUME TypeInv, [Next]_vars
    PROVE  TypeInv'
<1>1. CASE Plain
  BY <1>1, PlainMaps
<1>2. ASSUME NEW left \in Leftover, calldatacopy(left) \/ codecopy(left) \/ return_(left)
      PROVE  TypeInv'
  <2>1. left \in Bytes
    BY DatapathAssumption
  <2> QED BY <1>2, <2>1, DepartingTyped
<1>3. CASE blockhash
  <2>1. 0 \in Bytes
    BY ByteFacts
  <2> QED BY <1>3, <2>1, DepartingTyped
<1> QED BY <1>1, <1>2, <1>3 DEF Next, Plain

LEMMA StepMaps ==
    ASSUME NoDepartures, TypeInv, [Next]_vars
    PROVE  TypeInv' /\ [Evm!Next]_Evm!vars
<1>1. CASE Plain
  BY <1>1, PlainMaps
<1>2. ASSUME NEW left \in Leftover, calldatacopy(left)
      PROVE  TypeInv' /\ Evm!Next
  BY <1>2, CalldatacopyStep
<1>3. ASSUME NEW left \in Leftover, codecopy(left)
      PROVE  TypeInv' /\ Evm!Next
  BY <1>3, CodecopyStep
<1>4. ASSUME NEW left \in Leftover, return_(left)
      PROVE  TypeInv' /\ Evm!Next
  BY <1>4, ReturnStep
<1>5. CASE blockhash
  BY <1>5, BlockhashStep
<1> QED BY <1>1, <1>2, <1>3, <1>4, <1>5 DEF Next, Plain

\* Slots hold limbs and buffers bytes, and the memory in use is a whole number of
\* words within what gas is enough for: the inductive invariant of the data path.
THEOREM DatapathTyped == Spec => []TypeInv
<1>1. Init => TypeInv
  BY InitMaps
<1>2. TypeInv /\ [Next]_vars => TypeInv'
  BY StepTyped
<1> QED BY <1>1, <1>2, PTL DEF Spec

\* The interpreter of the trusted application computes what evmone computes: from
\* every state of limbs, slots and dirty buffers, each instruction leaves the
\* numbers and the bytes evmone leaves, if no operand is of the kinds the two are
\* known to read differently.
THEOREM DatapathRefines == NoDepartures => (Spec => ImplementsEvm)
<1> SUFFICES ASSUME NoDepartures PROVE Spec => ImplementsEvm
  OBVIOUS
<1>1. Init => TypeInv /\ Evm!Init
  BY InitMaps
<1>2. TypeInv /\ [Next]_vars => TypeInv' /\ [Evm!Next]_Evm!vars
  BY StepMaps
<1> QED BY <1>1, <1>2, PTL DEF Spec, ImplementsEvm, Evm!Spec
=============================================================================
