------------------------------ MODULE Uint256 ------------------------------
(***************************************************************************)
(* The numbers of uint256.c: four limbs, <<<<3, 2>>, <<1, 0>>>>, the upper *)
(* half of each pair first.  A limb has LimbBits bits (64) and is as the   *)
(* code reads it made of bytes of ByteBits bits (8).                       *)
(*                                                                         *)
(* mul128 needs four bits or more for its sums of half limbs to fit a limb,*)
(* as they do in 64 bits.                                                  *)
(***************************************************************************)
EXTENDS Integers, Sequences, FiniteSets

CONSTANTS LimbBits, ByteBits

\* 2 ^ k, as a function the proofs can unfold.
Power2[k \in Nat] == IF k = 0 THEN 1 ELSE 2 * Power2[k - 1]

ASSUME Uint256Assumption ==
    /\ LimbBits \in Nat /\ LimbBits >= 4 /\ LimbBits % 2 = 0
    /\ ByteBits \in Nat \ {0} /\ LimbBits % ByteBits = 0

Base == Power2[LimbBits]
Half == Power2[LimbBits \div 2]
LimbBytes == LimbBits \div ByteBits
ByteBase == Power2[ByteBits]

Limbs == 0..(Base - 1)
Uint128 == Limbs \X Limbs
Uint256 == Uint128 \X Uint128

UPPER(x) == x[1]
LOWER(x) == x[2]

clear128 == <<0, 0>>
clear256 == <<clear128, clear128>>
one256 == <<clear128, <<0, 1>>>>

zero128(n) == LOWER(n) = 0 /\ UPPER(n) = 0
zero256(n) == zero128(LOWER(n)) /\ zero128(UPPER(n))

-----------------------------------------------------------------------------
\* A limb shifted, by less than LimbBits.
Shl(limb, k) == (limb * Power2[k]) % Base
Shr(limb, k) == limb \div Power2[k]

Bool(b) == IF b THEN 1 ELSE 0

equal128(a, b) == UPPER(a) = UPPER(b) /\ LOWER(a) = LOWER(b)
equal256(a, b) == equal128(UPPER(a), UPPER(b)) /\ equal128(LOWER(a), LOWER(b))

gt128(a, b) == IF UPPER(a) = UPPER(b) THEN LOWER(a) > LOWER(b) ELSE UPPER(a) > UPPER(b)

gt256(a, b) ==
    IF equal128(UPPER(a), UPPER(b)) THEN gt128(LOWER(a), LOWER(b)) ELSE gt128(UPPER(a), UPPER(b))

gte256(a, b) == gt256(a, b) \/ equal256(a, b)

\* A sum is less than its operand if it wrapped.
add128(a, b) ==
    LET low == (LOWER(a) + LOWER(b)) % Base
    IN  <<(UPPER(a) + UPPER(b) + Bool(low < LOWER(a))) % Base, low>>

\* Mutant of add256: the carry between the halves is lost.
add256_nocarry(a, b) == <<add128(UPPER(a), UPPER(b)), add128(LOWER(a), LOWER(b))>>

add256(a, b) ==
    LET low   == add128(LOWER(a), LOWER(b))
        upper == add128(UPPER(a), UPPER(b))
    IN  <<IF gt128(LOWER(a), low) THEN add128(upper, <<0, 1>>) ELSE upper, low>>

minus128(a, b) ==
    LET low == (LOWER(a) - LOWER(b)) % Base
    IN  <<(UPPER(a) - UPPER(b) - Bool(low > LOWER(a))) % Base, low>>

minus256(a, b) ==
    LET low   == minus128(LOWER(a), LOWER(b))
        upper == minus128(UPPER(a), UPPER(b))
    IN  <<IF gt128(low, LOWER(a)) THEN minus128(upper, <<0, 1>>) ELSE upper, low>>

-----------------------------------------------------------------------------
shiftl128(n, k) ==
    CASE k >= 2 * LimbBits -> clear128
      [] k = LimbBits      -> <<LOWER(n), 0>>
      [] k = 0             -> n
      [] 0 < k /\ k < LimbBits ->
            <<(Shl(UPPER(n), k) + Shr(LOWER(n), LimbBits - k)) % Base, Shl(LOWER(n), k)>>
      [] OTHER             -> <<Shl(LOWER(n), k - LimbBits), 0>>

shiftr128(n, k) ==
    CASE k >= 2 * LimbBits -> clear128
      [] k = LimbBits      -> <<0, UPPER(n)>>
      [] k = 0             -> n
      [] 0 < k /\ k < LimbBits ->
            <<Shr(UPPER(n), k), (Shl(UPPER(n), LimbBits - k) + Shr(LOWER(n), k)) % Base>>
      [] OTHER             -> <<0, Shr(UPPER(n), k - LimbBits)>>

shiftl256(n, k) ==
    CASE k >= 4 * LimbBits -> clear256
      [] k = 2 * LimbBits  -> <<LOWER(n), clear128>>
      [] k = 0             -> n
      [] 0 < k /\ k < 2 * LimbBits ->
            <<add128(shiftl128(UPPER(n), k), shiftr128(LOWER(n), 2 * LimbBits - k)),
              shiftl128(LOWER(n), k)>>
      [] OTHER             -> <<shiftl128(LOWER(n), k - 2 * LimbBits), clear128>>

shiftr256(n, k) ==
    CASE k >= 4 * LimbBits -> clear256
      [] k = 2 * LimbBits  -> <<clear128, UPPER(n)>>
      [] k = 0             -> n
      [] 0 < k /\ k < 2 * LimbBits ->
            <<shiftr128(UPPER(n), k),
              add128(shiftr128(LOWER(n), k), shiftl128(UPPER(n), 2 * LimbBits - k))>>
      [] OTHER             -> <<clear128, shiftr128(UPPER(n), k - 2 * LimbBits)>>

\* The shifts by one until nothing is left, counted.
Bits(limb) == Cardinality({k \in 0..(LimbBits - 1) : Shr(limb, k) # 0})
bits128(n) == IF UPPER(n) # 0 THEN LimbBits + Bits(UPPER(n)) ELSE Bits(LOWER(n))

\* Mutant of bits256: the bits of the upper half only.
bits256_upper(n) == bits128(IF ~zero128(UPPER(n)) THEN UPPER(n) ELSE LOWER(n))

bits256(n) ==
    IF ~zero128(UPPER(n)) THEN 2 * LimbBits + bits128(UPPER(n)) ELSE bits128(LOWER(n))

-----------------------------------------------------------------------------
\* The bitwise operators of C on limbs, bit by bit from the lowest.
Bit(limb, k) == (limb \div Power2[k]) % 2

LimbOf(bits) ==
    LET below[k \in 0..LimbBits] ==
            IF k = 0 THEN 0 ELSE below[k - 1] + bits[k - 1] * Power2[k - 1]
    IN  below[LimbBits]

LimbAnd(a, b) == LimbOf([k \in 0..(LimbBits - 1) |-> Bit(a, k) * Bit(b, k)])
LimbXor(a, b) == LimbOf([k \in 0..(LimbBits - 1) |-> (Bit(a, k) + Bit(b, k)) % 2])
LimbOr(a, b)  == a + b - LimbAnd(a, b)
LimbNot(a)    == Base - 1 - a

or128(a, b)  == <<LimbOr(UPPER(a), UPPER(b)), LimbOr(LOWER(a), LOWER(b))>>
xor128(a, b) == <<LimbXor(UPPER(a), UPPER(b)), LimbXor(LOWER(a), LOWER(b))>>
and128(a, b) == <<LimbAnd(UPPER(a), UPPER(b)), LimbAnd(LOWER(a), LOWER(b))>>
not128(n)    == <<LimbNot(UPPER(n)), LimbNot(LOWER(n))>>

or256(a, b)  == <<or128(UPPER(a), UPPER(b)), or128(LOWER(a), LOWER(b))>>
xor256(a, b) == <<xor128(UPPER(a), UPPER(b)), xor128(LOWER(a), LOWER(b))>>
and256(a, b) == <<and128(UPPER(a), UPPER(b)), and128(LOWER(a), LOWER(b))>>
not256(n)    == <<not128(UPPER(n)), not128(LOWER(n))>>

-----------------------------------------------------------------------------
(***************************************************************************)
(* Long multiplication: products[3 - i][j] of half limbs i and j, summed by*)
(* column, the columns added.                                              *)
(***************************************************************************)
mul128(a, b) ==
    LET halves(n) == <<UPPER(n) \div Half, UPPER(n) % Half, LOWER(n) \div Half, LOWER(n) % Half>>
        top       == halves(a)
        bottom    == halves(b)
        lo(i, j)  == (top[4 - i] * bottom[j + 1]) % Half
        hi(i, j)  == (top[4 - i] * bottom[j + 1]) \div Half
        third     == (lo(0, 2) + hi(0, 3) + lo(1, 3)) % Base
        second    == (lo(0, 1) + hi(0, 2) + lo(1, 2) + hi(1, 3) + lo(2, 3)) % Base
        first     == (lo(0, 0) + hi(0, 1) + lo(1, 1) + hi(1, 2) + lo(2, 2) + hi(2, 3) + lo(3, 3))
                        % Base
        outer     == add128(<<(first * Half) % Base, 0>>, <<third \div Half, (third * Half) % Base>>)
    IN  add128(<<0, lo(0, 3)>>, add128(<<second, 0>>, outer))

\* The same with limbs.  The carry out of the third column is added to the
\* highest limb instead of the one above the column.
mul256(a, b) ==
    LET limbs(n)  == <<UPPER(UPPER(n)), LOWER(UPPER(n)), UPPER(LOWER(n)), LOWER(LOWER(n))>>
        top       == limbs(a)
        bottom    == limbs(b)
        p(i, j)   == mul128(<<0, top[4 - i]>>, <<0, bottom[j + 1]>>)
        lo(i, j)  == <<0, LOWER(p(i, j))>>
        hi(i, j)  == <<0, UPPER(p(i, j))>>
        third     == add128(lo(1, 3), add128(lo(0, 2), hi(0, 3)))
        second    == add128(lo(2, 3), add128(hi(1, 3), add128(lo(1, 2), add128(lo(0, 1), hi(0, 2)))))
        row       == add128(hi(1, 2), add128(lo(1, 1), add128(lo(0, 0), hi(0, 1))))
        first     == add128(lo(3, 3), add128(hi(2, 3), add128(lo(2, 2), row)))
        outer     == add256(<<shiftl128(first, LimbBits), clear128>>,
                            <<<<UPPER(third), 0>>, shiftl128(third, LimbBits)>>)
    IN  add256(<<clear128, lo(0, 3)>>, add256(<<second, clear128>>, outer))

-----------------------------------------------------------------------------
(***************************************************************************)
(* Bytes, most significant first.                                          *)
(***************************************************************************)
Bytes == 0..(ByteBase - 1)
WordBuffers == [1..(4 * LimbBytes) -> Bytes]

\* The number n bytes of a buffer spell.
Joined(buffer, from, n) ==
    LET upto[k \in 0..n] == IF k = 0 THEN 0 ELSE upto[k - 1] * ByteBase + buffer[from + k]
    IN  upto[n]

readUint64BE(buffer, from) == Joined(buffer, from, LimbBytes)

readu128BE(buffer, from) ==
    <<readUint64BE(buffer, from), readUint64BE(buffer, from + LimbBytes)>>

readu256BE(buffer) == <<readu128BE(buffer, 0), readu128BE(buffer, 2 * LimbBytes)>>

\* Limb i of a number, 0 the lowest.
u256_index(n, i) ==
    CASE i = 0 -> LOWER(LOWER(n))
      [] i = 1 -> UPPER(LOWER(n))
      [] i = 2 -> LOWER(UPPER(n))
      [] i = 3 -> UPPER(UPPER(n))

\* Byte i of a number, 0 the lowest.
ByteAt(n, i) == Shr(u256_index(n, i \div LimbBytes), (i % LimbBytes) * ByteBits) % ByteBase

u256_to_u8_32(n) == [i \in 1..(4 * LimbBytes) |-> ByteAt(n, 4 * LimbBytes - i)]

-----------------------------------------------------------------------------
(***************************************************************************)
(* The integer a number stands for.                                        *)
(***************************************************************************)
Value128(n) == UPPER(n) * Base + LOWER(n)
Value256(n) == Value128(UPPER(n)) * Base * Base + Value128(LOWER(n))
Modulus == Base * Base * Base * Base

BufferValue(buffer) == Joined(buffer, 0, 4 * LimbBytes)
=============================================================================
