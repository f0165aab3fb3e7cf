-------------------------- MODULE ArithmeticProofs --------------------------
(***************************************************************************)
(* The instructions of Arithmetic compute what those of evmone do, for     *)
(* limbs and bytes of every size: the division and its loop, the sums, the *)
(* comparisons, the bits, the shifts and the product.                      *)
(***************************************************************************)
EXTENDS Arithmetic, Uint256Proofs

Divisions == [l : Uint256, r : Uint256, copyd : Uint256, adder : Uint256,
              resDiv : Uint256, resMod : Uint256]

Typed ==
    /\ input \in Operands
    /\ x = readu256BE(input[1]) /\ y = readu256BE(input[2])
    /\ phase \in {"ready", "dividing", "raising", "done", "OUT_OF_GAS"}
    /\ div \in Divisions
    /\ power \in [target : Uint256, exponent : Uint256]

\* L = M + Q * R, where the bits of Q that are still open are those of the
\* weight A and the ones below it.
Weighed(L, R, M, Q, A, C) ==
    /\ L = M + Q * R
    /\ \/ A = 0 /\ M < R
       \/ \E j \in 0..(4 * LimbBits) :
             /\ A = Power2[j] /\ C = A * R /\ M < 2 * C
             /\ Q % (2 * A) = 0

\* The same of the locals of divmod256.
DividedOf(d) ==
    Weighed(Value256(d.l), Value256(d.r), Value256(d.resMod), Value256(d.resDiv),
            Value256(d.adder), Value256(d.copyd))

DivisionOps == {"DIV", "SDIV", "MOD", "SMOD", "ADDMOD", "MULMOD"}

Dividing ==
    phase = "dividing" =>
        /\ op \in DivisionOps
        /\ op \in ArithmeticOps => div.l = x /\ div.r = y
        /\ Value256(div.r) # 0 /\ DividedOf(div)

Raising == phase = "raising" => op = "EXP"

IInv == Typed /\ Dividing /\ Raising /\ Exact

-----------------------------------------------------------------------------
(***************************************************************************)
(* A round of the division, on integers.                                   *)
(***************************************************************************)
\* A round that finds the rest at least as large as the divisor has a weight.
LEMMA WeightLeft ==
    ASSUME NEW L \in Nat, NEW R \in Nat \ {0}, NEW M \in Nat, NEW Q \in Nat, NEW A \in Nat, NEW C \in Nat,
           Weighed(L, R, M, Q, A, C), M >= R
    PROVE  \E j \in 0..(4 * LimbBits) :
              A = Power2[j] /\ A # 0 /\ C = A * R /\ M < 2 * C /\ Q % (2 * A) = 0
<1>1. PICK j \in 0..(4 * LimbBits) : A = Power2[j] /\ C = A * R /\ M < 2 * C /\ Q % (2 * A) = 0
  BY DEF Weighed
<1>2. j \in Nat
  BY BaseFacts
<1>3. A # 0
  BY <1>1, <1>2, Power2Pos
<1> QED BY <1>1, <1>3

\* A multiple of twice the weight, the weight added or not, is a multiple of it.
LEMMA WeightAdded ==
    ASSUME NEW A \in Nat \ {0}, NEW Q \in Nat, Q % (2 * A) = 0
    PROVE  Q % A = 0 /\ (Q + A) % A = 0
<1>1. PICK d \in Nat \ {0} : d = 2 * A
  OBVIOUS
<1>2. PICK q \in Int : q = Q \div d /\ Q = q * d
  <2>1. Q \div d \in Int /\ Q = (Q \div d) * d + (Q % d)
    BY DivMod
  <2> QED BY <1>1, <2>1
<1>3. Q = (2 * q) * A + 0 /\ Q + A = (2 * q + 1) * A + 0
  BY <1>1, <1>2
<1>4. PICK e \in Int, f \in Int, W \in Int : e = 2 * q /\ f = 2 * q + 1 /\ W = Q + A
  OBVIOUS
<1>5. Q = e * A + 0 /\ W = f * A + 0
  BY <1>3, <1>4
<1>6. Q % A = 0
  BY <1>5, DivModOf
<1>7. W % A = 0
  BY <1>5, DivModOf
<1> QED BY <1>4, <1>6, <1>7

\* Half of a power and of its multiple.
LEMMA WeightHalved ==
    ASSUME NEW j \in Nat, NEW R \in Nat
    PROVE  /\ j = 0 => Power2[j] = 1 /\ Power2[j] \div 2 = 0
           /\ j # 0 => /\ j - 1 \in Nat /\ Power2[j] = 2 * Power2[j - 1]
                       /\ Power2[j] \div 2 = Power2[j - 1]
                       /\ (Power2[j] * R) \div 2 = Power2[j - 1] * R
<1>1. CASE j = 0
  <2>1. Power2[0] = 1
    BY Power2Step
  <2> QED BY <1>1, <2>1
<1>2. CASE j # 0
  <2>1. PICK i \in Nat : i = j - 1 /\ j = i + 1
    BY <1>2
  <2>2. PICK P \in Nat : P = Power2[i]
    BY Power2Pos
  <2>3. Power2[i + 1] = 2 * P
    BY <2>2, Power2Step
  <2>4. (2 * P) \div 2 = P
    OBVIOUS
  <2>5. PICK W \in Nat : W = P * R
    OBVIOUS
  <2>6. (2 * P) * R = 2 * W
    BY <2>5
  <2>7. (2 * W) \div 2 = W
    OBVIOUS
  <2> QED BY <1>2, <2>1, <2>2, <2>3, <2>4, <2>5, <2>6, <2>7
<1> QED BY <1>1, <1>2

LEMMA RoundWeighed ==
    ASSUME NEW L \in Nat, NEW R \in Nat \ {0}, NEW M \in Nat, NEW Q \in Nat, NEW A \in Nat, NEW C \in Nat,
           Weighed(L, R, M, Q, A, C), M >= R,
           NEW N, NEW P, N = IF M >= C THEN M - C ELSE M, P = IF M >= C THEN Q + A ELSE Q
    PROVE  Weighed(L, R, N, P, A \div 2, C \div 2)
<1>1. PICK j \in 0..(4 * LimbBits) :
          A = Power2[j] /\ A # 0 /\ C = A * R /\ M < 2 * C /\ Q % (2 * A) = 0
  BY WeightLeft
<1>2. j \in Nat /\ 4 * LimbBits \in Nat
  BY BaseFacts
<1>3. N \in Nat /\ P \in Nat /\ N < C
  BY <1>1
<1>4. L = N + P * R
  <2>1. L = M + Q * R
    BY DEF Weighed
  <2>2. CASE M >= C
    <3>1. (Q + A) * R = Q * R + A * R
      OBVIOUS
    <3> QED BY <1>1, <2>1, <2>2, <3>1
  <2>3. CASE ~(M >= C)
    BY <2>1, <2>3
  <2> QED BY <2>2, <2>3
<1>5. P % A = 0
  BY <1>1, WeightAdded
<1>6. CASE j = 0
  <2>1. A = 1 /\ A \div 2 = 0
    BY <1>1, <1>2, <1>6, WeightHalved
  <2>2. C = R
    BY <1>1, <2>1
  <2> QED BY <1>3, <1>4, <2>1, <2>2 DEF Weighed
<1>7. CASE j # 0
  <2>1. PICK i \in 0..(4 * LimbBits) : i = j - 1
    BY <1>2, <1>7
  <2>2. /\ Power2[j] = 2 * Power2[i] /\ Power2[j] \div 2 = Power2[i]
        /\ (Power2[j] * R) \div 2 = Power2[i] * R /\ i \in Nat
    BY <1>2, <1>7, <2>1, WeightHalved
  <2>3. PICK B, D : B = A \div 2 /\ D = C \div 2
    OBVIOUS
  <2>4. B = Power2[i] /\ D = B * R /\ A = 2 * B /\ B \in Nat
    BY <1>1, <2>2, <2>3, Power2Pos
  <2>5. C = 2 * D
    BY <1>1, <2>4
  <2>6. N < 2 * D
    BY <1>3, <2>5
  <2>7. P % (2 * B) = 0
    BY <1>5, <2>4
  <2>8. Weighed(L, R, N, P, B, D)
    BY <1>4, <2>4, <2>6, <2>7 DEF Weighed
  <2> QED BY <2>3, <2>8
<1> QED BY <1>6, <1>7

\* What the weight says of the rest and of the quotient.
LEMMA WeighedBounds ==
    ASSUME NEW L \in Nat, NEW R \in Nat \ {0}, NEW M \in Nat, NEW Q \in Nat, NEW A \in Nat, NEW C \in Nat,
           Weighed(L, R, M, Q, A, C)
    PROVE  /\ M <= L /\ L - M = Q * R /\ Q <= L \div R
           /\ A # 0 => C = A * R
           /\ M < R \/ (A # 0 /\ M < 2 * C)
           /\ M < R => Q = L \div R /\ M = L % R
<1>1. L = M + Q * R
  BY DEF Weighed
<1>2. PICK p \in Nat : p = Q * R
  BY TimesNat
<1>3. M <= L /\ L - M = p
  BY <1>1, <1>2
<1>4. Q <= L \div R
  <2>1. L \div R = Q + (M \div R)
    <3>1. L = Q * R + M
      BY <1>1, <1>2
    <3>2. (Q * R + M) \div R = Q + (M \div R)
      BY ModPlus
    <3> QED BY <3>1, <3>2
  <2>2. M \div R \in Nat
    BY DivMod
  <2> QED BY <2>1, <2>2
<1>5. A # 0 => C = A * R
  BY DEF Weighed
<1>6. M < R \/ (A # 0 /\ M < 2 * C)
  <2>1. CASE M < R
    BY <2>1
  <2>2. CASE M >= R
    BY <2>2, WeightLeft
  <2> QED BY <2>1, <2>2
<1>7. M < R => Q = L \div R /\ M = L % R
  <2>1. L = Q * R + M
    BY <1>1, <1>2
  <2>2. ASSUME M < R PROVE (Q * R + M) \div R = Q /\ (Q * R + M) % R = M
    BY <2>2, DivModIs
  <2> QED BY <2>1, <2>2
<1> QED BY <1>2, <1>3, <1>4, <1>5, <1>6, <1>7

-----------------------------------------------------------------------------
(***************************************************************************)
(* A round of the division, on numbers of four limbs.                      *)
(***************************************************************************)
\* A multiple of twice a power has no bit up to the power's.
LEMMA NoBitBelow ==
    ASSUME NEW j \in Nat, NEW Q \in Nat, Q % (2 * Power2[j]) = 0, NEW k \in 0..j
    PROVE  Bit(Q, k) = 0
<1>1. PICK w \in Nat, R \in Nat \ {0} : w = j + 1 /\ R = Power2[w] /\ R = 2 * Power2[j]
  <2>1. Power2[j + 1] = 2 * Power2[j] /\ j + 1 \in Nat
    BY Power2Step
  <2> QED BY <2>1, Power2Pos
<1>2. PICK q \in Nat : q = Q \div R /\ Q = q * R
  <2>1. Q \div R \in Nat /\ Q = (Q \div R) * R + (Q % R)
    BY DivMod
  <2> QED BY <1>1, <2>1
<1>3. PICK z \in Nat : z = 0
  OBVIOUS
<1>4. z \in 0..(Power2[w] - 1) /\ k \in Nat /\ k < w
  BY <1>1, <1>3
<1>5. Bit(q * Power2[w] + z, k) = Bit(z, k)
  BY <1>4, BitOfPair
<1>6. q * Power2[w] + z = Q
  BY <1>1, <1>2, <1>3
<1>7. Bit(z, k) = 0
  <2>1. Power2[k] \in Nat \ {0} /\ Power2[k] > z
    BY <1>3, <1>4, Power2Pos
  <2>2. z \div Power2[k] = 0
    BY <2>1, ModSmall
  <2>3. 0 % 2 = 0
    OBVIOUS
  <2> QED BY <2>2, <2>3 DEF Bit
<1> QED BY <1>5, <1>6, <1>7

\* A power has no bit above its own.
LEMMA NoBitAbove ==
    ASSUME NEW j \in Nat, NEW k \in Nat, j < k
    PROVE  Bit(Power2[j], k) = 0
<1>1. Power2[j] \in Nat \ {0} /\ Power2[k] \in Nat \ {0} /\ 2 * Power2[j] <= Power2[k]
  BY Power2Pos, Power2Mono
<1>2. Power2[j] < Power2[k]
  BY <1>1
<1>3. Power2[j] \div Power2[k] = 0
  BY <1>1, <1>2, ModSmall
<1>4. 0 % 2 = 0
  OBVIOUS
<1> QED BY <1>3, <1>4 DEF Bit

LEMMA OrAdds ==
    ASSUME NEW q \in Uint256, NEW a \in Uint256, NEW j \in Nat,
           Value256(a) = Power2[j], Value256(q) % (2 * Power2[j]) = 0
    PROVE  or256(q, a) \in Uint256 /\ Value256(or256(q, a)) = Value256(q) + Value256(a)
<1>1. Value256(q) \in Nat
  BY Parts256, BaseFacts
<1>2. ASSUME NEW k \in 0..(4 * LimbBits - 1)
      PROVE  Bit(Value256(q), k) * Bit(Value256(a), k) = 0
  <2>1. k \in Nat
    BY BaseFacts
  <2>2. Bit(Value256(q), k) \in {0, 1} /\ Bit(Value256(a), k) \in {0, 1}
    <3>1. Value256(a) \in Int /\ Value256(q) \in Int
      BY <1>1, Power2Pos
    <3> QED BY <2>1, <3>1, BitRange
  <2>3. Bit(Value256(q), k) = 0 \/ Bit(Value256(a), k) = 0
    <3>1. CASE k <= j
      <4>1. k \in 0..j
        BY <2>1, <3>1
      <4> QED BY <1>1, <4>1, NoBitBelow
    <3>2. CASE j < k
      BY <2>1, <3>2, NoBitAbove
    <3> QED BY <2>1, <3>1, <3>2
  <2> QED BY <2>2, <2>3
<1> QED BY <1>2, OrIsSum

LEMMA ShiftOne ==
    ASSUME NEW n \in Uint256
    PROVE  shiftr256(n, 1) \in Uint256 /\ Value256(shiftr256(n, 1)) = Value256(n) \div 2
<1>1. Power2[0 + 1] = 2 * Power2[0] /\ Power2[0] = 1
  BY Power2Step
<1>2. Power2[1] = 2
  BY <1>1
<1>3. PICK one \in Nat : one = 1
  OBVIOUS
<1>4. shiftr256(n, one) \in Uint256 /\ Value256(shiftr256(n, one)) = Value256(n) \div Power2[one]
  BY Shiftr256
<1> QED BY <1>2, <1>3, <1>4

LEMMA RoundReduced ==
    ASSUME NEW d \in Divisions, DividedOf(d), Value256(d.r) # 0, gte256(d.resMod, d.r)
    PROVE  /\ Reduced(d) \in Divisions /\ Reduced(d).l = d.l /\ Reduced(d).r = d.r
           /\ DividedOf(Reduced(d))
           /\ Value256(Reduced(d).adder) < Value256(d.adder)
<1>1. /\ d.l \in Uint256 /\ d.r \in Uint256 /\ d.copyd \in Uint256 /\ d.adder \in Uint256
      /\ d.resDiv \in Uint256 /\ d.resMod \in Uint256
  BY DEF Divisions
<1>2. PICK L, R, M, Q, A, C :
          /\ L = Value256(d.l) /\ R = Value256(d.r) /\ M = Value256(d.resMod)
          /\ Q = Value256(d.resDiv) /\ A = Value256(d.adder) /\ C = Value256(d.copyd)
  OBVIOUS
<1>3. L \in Nat /\ R \in Nat \ {0} /\ M \in Nat /\ Q \in Nat /\ A \in Nat /\ C \in Nat
  <2>1. \A n \in Uint256 : Value256(n) \in Nat
    BY Parts256, BaseFacts
  <2> QED BY <1>1, <1>2, <2>1
<1>4. M >= R
  BY <1>1, <1>2, Compare256
<1>5. Weighed(L, R, M, Q, A, C)
  BY <1>2 DEF DividedOf
<1>6. PICK j \in 0..(4 * LimbBits) :
          A = Power2[j] /\ A # 0 /\ C = A * R /\ M < 2 * C /\ Q % (2 * A) = 0
  BY <1>3, <1>4, <1>5, WeightLeft
<1>7. PICK e : e = Reduced(d)
  OBVIOUS
<1>8. /\ e.l = d.l /\ e.r = d.r
      /\ e.resMod = IF gte256(d.resMod, d.copyd) THEN minus256(d.resMod, d.copyd) ELSE d.resMod
      /\ e.resDiv = IF gte256(d.resMod, d.copyd) THEN or256(d.resDiv, d.adder) ELSE d.resDiv
      /\ e.copyd = shiftr256(d.copyd, 1) /\ e.adder = shiftr256(d.adder, 1)
      /\ e = [l |-> e.l, r |-> e.r, copyd |-> e.copyd, adder |-> e.adder, resDiv |-> e.resDiv,
              resMod |-> e.resMod]
  BY <1>7 DEF Reduced, Divisions
<1>9. gte256(d.resMod, d.copyd) <=> M >= C
  BY <1>1, <1>2, Compare256
<1>10. e.resMod \in Uint256 /\ Value256(e.resMod) = IF M >= C THEN M - C ELSE M
  <2>1. CASE M >= C
    <3>1. e.resMod = minus256(d.resMod, d.copyd)
      BY <1>8, <1>9, <2>1
    <3>2. e.resMod \in Uint256 /\ Value256(e.resMod) = (M - C) % Modulus
      BY <1>1, <1>2, <3>1, Minus256
    <3>3. M - C \in Nat /\ M - C < Modulus
      <4>1. M < Modulus
        BY <1>1, <1>2, Parts256, BaseFacts
      <4> QED BY <1>3, <2>1, <4>1, BaseFacts
    <3>4. (M - C) % Modulus = M - C
      BY <3>3, ModSmall, BaseFacts
    <3> QED BY <2>1, <3>2, <3>4
  <2>2. CASE ~(M >= C)
    BY <1>1, <1>2, <1>8, <1>9, <2>2
  <2> QED BY <2>1, <2>2
<1>11. e.resDiv \in Uint256 /\ Value256(e.resDiv) = IF M >= C THEN Q + A ELSE Q
  <2>1. CASE M >= C
    <3>1. e.resDiv = or256(d.resDiv, d.adder)
      BY <1>8, <1>9, <2>1
    <3>2. j \in Nat
      BY BaseFacts
    <3>3. Value256(d.adder) = Power2[j] /\ Value256(d.resDiv) % (2 * Power2[j]) = 0
      BY <1>2, <1>6
    <3>4. or256(d.resDiv, d.adder) \in Uint256 /\ Value256(or256(d.resDiv, d.adder)) = Q + A
      BY <1>1, <1>2, <3>2, <3>3, OrAdds
    <3> QED BY <2>1, <3>1, <3>4
  <2>2. CASE ~(M >= C)
    BY <1>1, <1>2, <1>8, <1>9, <2>2
  <2> QED BY <2>1, <2>2
<1>12. /\ e.copyd \in Uint256 /\ Value256(e.copyd) = C \div 2
       /\ e.adder \in Uint256 /\ Value256(e.adder) = A \div 2
  BY <1>1, <1>2, <1>8, ShiftOne
<1>13. e \in Divisions
  BY <1>1, <1>8, <1>10, <1>11, <1>12 DEF Divisions
<1>14. DividedOf(e)
  <2>1. PICK N, P : N = Value256(e.resMod) /\ P = Value256(e.resDiv)
    OBVIOUS
  <2>2. N = (IF M >= C THEN M - C ELSE M) /\ P = (IF M >= C THEN Q + A ELSE Q)
    BY <1>10, <1>11, <2>1
  <2>3. Weighed(L, R, N, P, A \div 2, C \div 2)
    BY <1>3, <1>4, <1>5, <2>2, RoundWeighed
  <2> QED BY <1>2, <1>8, <1>12, <2>1, <2>3, Zenon DEF DividedOf
<1>15. A \div 2 < A
  BY <1>3, <1>6
<1> QED BY <1>2, <1>7, <1>8, <1>12, <1>13, <1>14, <1>15

-----------------------------------------------------------------------------
(***************************************************************************)
(* The divisor aligned with what is divided.                               *)
(***************************************************************************)
\* The numbers of bits of two numbers are ordered as the numbers are, and their
\* difference brings the smaller one near the larger one.
LEMMA BitsApart ==
    ASSUME NEW L \in Nat, NEW R \in Nat \ {0}, R <= L, NEW b, NEW c, HasBits(L, b), HasBits(R, c)
    PROVE  /\ b - c \in Nat /\ b \in Nat /\ c \in Nat
           /\ L < 2 * (R * Power2[b - c]) /\ R * Power2[b - c] < Power2[b]
<1>1. /\ b \in Nat /\ L < Power2[b] /\ (b # 0 => b - 1 \in Nat /\ Power2[b - 1] <= L)
      /\ c \in Nat /\ R < Power2[c] /\ (c # 0 => c - 1 \in Nat /\ Power2[c - 1] <= R)
  BY DEF HasBits
<1>2. c # 0
  <2>1. Power2[0] = 1
    BY Power2Step
  <2> QED BY <1>1, <2>1
<1>3. PICK e \in Nat : e = c - 1 /\ c = e + 1
  BY <1>1, <1>2
<1>4. PICK P \in Nat \ {0} : P = Power2[e]
  BY Power2Pos
<1>5. Power2[c] = 2 * P /\ P <= R
  <2>1. Power2[e + 1] = 2 * P
    BY <1>4, Power2Step
  <2> QED BY <1>1, <1>2, <1>3, <1>4, <2>1
<1>6. c <= b
  <2>1. SUFFICES ASSUME b < c PROVE FALSE
    BY <1>1
  <2>2. b <= e
    BY <1>1, <1>3, <2>1
  <2>3. Power2[b] <= P
    BY <1>1, <1>4, <2>2, Power2Mono
  <2>4. Power2[b] \in Nat
    BY <1>1, Power2Pos
  <2> QED BY <1>1, <1>5, <2>3, <2>4
<1>7. PICK f \in Nat : f = b - c /\ b = c + f
  BY <1>1, <1>6
<1>8. PICK W \in Nat \ {0} : W = Power2[f]
  BY Power2Pos
<1>9. Power2[b] = (2 * P) * W
  BY <1>1, <1>5, <1>7, <1>8, Power2Sum
<1>10. PICK U \in Nat, V \in Nat : U = P * W /\ V = R * W
  BY TimesNat
<1>11. U <= V
  BY <1>5, <1>10, TimesMono
<1>12. (2 * P) * W = 2 * U
  BY <1>10
<1>13. L < 2 * V
  BY <1>1, <1>9, <1>11, <1>12
<1>14. R * W < (2 * P) * W
  <2>1. R < 2 * P /\ 2 * P \in Nat
    BY <1>1, <1>5
  <2> QED BY <2>1
<1> QED BY <1>1, <1>7, <1>8, <1>9, <1>10, <1>13, <1>14

LEMMA AlignedWeighed ==
    ASSUME NEW l \in Uint256, NEW r \in Uint256, Value256(r) # 0, Value256(r) <= Value256(l), NEW d,
           d = [l |-> l, r |-> r, resDiv |-> clear256, resMod |-> l,
                copyd |-> Aligned(l, r).copyd, adder |-> Aligned(l, r).adder]
    PROVE  d \in Divisions /\ DividedOf(d)
<1>1. PICK L, R : L = Value256(l) /\ R = Value256(r)
  OBVIOUS
<1>2. L \in Nat /\ R \in Nat \ {0} /\ R <= L
  BY <1>1, Parts256, BaseFacts
<1>3. PICK b, c : b = bits256(l) /\ c = bits256(r)
  OBVIOUS
<1>4. HasBits(L, b) /\ b <= 4 * LimbBits /\ HasBits(R, c)
  BY <1>1, <1>3, Bits256
<1>5. /\ b - c \in Nat /\ b \in Nat /\ c \in Nat
      /\ L < 2 * (R * Power2[b - c]) /\ R * Power2[b - c] < Power2[b]
  BY <1>2, <1>4, BitsApart
<1>6. PICK f \in Nat : f = b - c
  BY <1>5
<1>7. PICK W \in Nat \ {0} : W = Power2[f]
  BY Power2Pos
<1>8. PICK C \in Nat : C = R * W
  BY <1>2, TimesNat
<1>9. L < 2 * C /\ C < Modulus /\ W <= C
  <2>1. Power2[b] <= Modulus /\ Power2[b] \in Nat
    <3>1. 4 * LimbBits \in Nat
      BY BaseFacts
    <3> QED BY <1>4, <1>5, <3>1, Power2Mono, Power2Pos, BasePowers
  <2>2. L < 2 * C /\ C < Power2[b]
    BY <1>5, <1>6, <1>7, <1>8
  <2>3. W <= C
    BY <1>2, <1>8
  <2> QED BY <2>1, <2>2, <2>3, BaseFacts
<1>10. PICK g, h : g = shiftl256(r, f) /\ h = shiftl256(one256, f)
  OBVIOUS
<1>11. g \in Uint256 /\ Value256(g) = C /\ h \in Uint256 /\ Value256(h) = W
  <2>1. C % Modulus = C /\ W % Modulus = W
    BY <1>9, ModSmall, BaseFacts
  <2>2. one256 \in Uint256 /\ Value256(one256) = 1
    <3>1. 1 \in 0..(Base - 1)
      BY BaseFacts
    <3> QED BY <3>1, OneLimb DEF one256
  <2>3. g \in Uint256 /\ Value256(g) = (R * W) % Modulus
    BY <1>1, <1>7, <1>10, Shiftl256
  <2>4. h \in Uint256 /\ Value256(h) = (1 * W) % Modulus
    BY <1>7, <1>10, <2>2, Shiftl256
  <2>5. 1 * W = W
    OBVIOUS
  <2> QED BY <1>8, <2>1, <2>3, <2>4, <2>5
<1>12. PICK back : back = IF gt256(g, l) THEN 1 ELSE 0
  OBVIOUS
<1>13. d.copyd = shiftr256(g, back) /\ d.adder = shiftr256(h, back)
  BY <1>3, <1>6, <1>10, <1>12 DEF Aligned
<1>14. gt256(g, l) <=> C > L
  BY <1>1, <1>11, Compare256
<1>15. /\ d.l = l /\ d.r = r /\ d.resDiv = clear256 /\ d.resMod = l
  OBVIOUS
<1>16. clear256 \in Uint256 /\ Value256(clear256) = 0
  BY Clear
<1>17. d.copyd \in Uint256 /\ d.adder \in Uint256
  <2>1. back \in Nat
    BY <1>12
  <2> QED BY <1>11, <1>13, <2>1, Shiftr256
<1>18. d \in Divisions
  BY <1>16, <1>17 DEF Divisions
<1>19. L = L + 0 * R
  BY <1>2
<1>20. f \in 0..(4 * LimbBits)
  BY <1>4, <1>5, <1>6, BaseFacts
<1>21. PICK A, D, Z : A = Value256(d.adder) /\ D = Value256(d.copyd) /\ Z = Value256(d.resDiv)
  OBVIOUS
<1>22. Z = 0
  BY <1>15, <1>16, <1>21
<1>23. \E j \in 0..(4 * LimbBits) : A = Power2[j] /\ D = A * R /\ L < 2 * D
  <2>1. CASE C > L
    <3>1. f # 0
      <4>1. Power2[0] = 1
        BY Power2Step
      <4>2. ASSUME f = 0 PROVE FALSE
        <5>1. C = R
          BY <1>2, <1>7, <1>8, <4>1, <4>2
        <5> QED BY <1>2, <2>1, <5>1
      <4> QED BY <4>2
    <3>2. PICK i \in 0..(4 * LimbBits) : i = f - 1
      BY <1>20, <3>1, BaseFacts
    <3>3. W \div 2 = Power2[i] /\ (W * R) \div 2 = Power2[i] * R /\ Power2[f] = 2 * Power2[i] /\ i \in Nat
      BY <1>2, <1>7, <3>1, <3>2, WeightHalved
    <3>4. D = C \div 2 /\ A = W \div 2
      BY <1>11, <1>12, <1>13, <1>14, <1>21, <2>1, ShiftOne
    <3>5. PICK E \in Nat : E = Power2[i]
      BY <3>3, Power2Pos
    <3>6. W * R = C /\ C = 2 * (E * R)
      BY <1>2, <1>7, <1>8, <3>3, <3>5
    <3>7. A = E /\ D = E * R
      BY <3>3, <3>4, <3>5, <3>6
    <3>8. L < 2 * D
      <4>1. PICK m \in Nat : m = E * R
        BY <1>2, TimesNat
      <4> QED BY <1>2, <2>1, <3>6, <3>7, <4>1
    <3> QED BY <3>5, <3>7, <3>8
  <2>2. CASE ~(C > L)
    <3>1. back = 0
      BY <1>12, <1>14, <2>2
    <3>2. PICK z \in Nat : z = 0
      OBVIOUS
    <3>3. Power2[z] = 1
      BY <3>2, Power2Step
    <3>4. D = C \div 1 /\ A = W \div 1
      BY <1>11, <1>13, <1>21, <3>1, <3>2, <3>3, Shiftr256
    <3>5. D = C /\ A = W
      BY <3>4
    <3>6. D = A * R /\ L < 2 * D /\ A = Power2[f]
      BY <1>2, <1>7, <1>8, <1>9, <3>5
    <3> QED BY <1>20, <3>6
  <2> QED BY <2>1, <2>2
<1>24. ASSUME NEW j \in 0..(4 * LimbBits), A = Power2[j] PROVE Z % (2 * A) = 0
  <2>1. A \in Nat \ {0}
    BY <1>24, Power2Pos, BaseFacts
  <2>2. 2 * A \in Nat \ {0} /\ 0 < 2 * A
    BY <2>1
  <2> QED BY <1>22, <2>2, ModSmall
<1>25. Weighed(L, R, L, Z, A, D)
  BY <1>19, <1>22, <1>23, <1>24 DEF Weighed
<1> QED BY <1>1, <1>15, <1>18, <1>21, <1>25, Zenon DEF DividedOf

-----------------------------------------------------------------------------
(***************************************************************************)
(* The instructions of evmone, one by one.                                 *)
(***************************************************************************)
\* AsEvmone of the values of the operands and of the result.
Answers(name, a, b, n) ==
    /\ name \in ArithmeticOps => n = evmone_arithmetic(name, a, b)
    /\ name \in CompareOps => n = evmone_compare(name, a, b)
    /\ name \in ShiftOps => n = evmone_shift(name, a, b)
    /\ name \in BitOps => evmone_bits(name, n, a, b)

\* Regular of an instruction and its operands.
Allowed(name, p, q) ==
    /\ name \in {"SDIV", "SMOD", "SLT", "SGT", "SAR"} => ~Negative(p) /\ ~Negative(q)
    /\ name = "MUL" => Small(p, Base) /\ Small(q, Base)
    /\ name \in {"SHL", "SHR", "SAR"} => Small(p, Power2[OffsetBits])

LEMMA ArithmeticNames ==
    ASSUME NEW a, NEW b
    PROVE  /\ evmone_arithmetic("ADD", a, b) = (a + b) % Modulus
           /\ evmone_arithmetic("MUL", a, b) = Product(a, b)
           /\ evmone_arithmetic("SUB", a, b) = (a - b) % Modulus
           /\ evmone_arithmetic("DIV", a, b) = IF b = 0 THEN 0 ELSE a \div b
           /\ evmone_arithmetic("MOD", a, b) = IF b = 0 THEN 0 ELSE a % b
           /\ evmone_arithmetic("SDIV", a, b) = IF b = 0 THEN 0 ELSE sdivrem(a, b).quot
           /\ evmone_arithmetic("SMOD", a, b) = IF b = 0 THEN 0 ELSE sdivrem(a, b).rem
  BY DEF evmone_arithmetic, Wrapped

LEMMA CompareNames ==
    ASSUME NEW a, NEW b
    PROVE  /\ evmone_compare("LT", a, b) = Bool(a < b)
           /\ evmone_compare("GT", a, b) = Bool(a > b)
           /\ evmone_compare("SLT", a, b) = Bool(Signed(a) < Signed(b))
           /\ evmone_compare("SGT", a, b) = Bool(Signed(a) > Signed(b))
           /\ evmone_compare("EQ", a, b) = Bool(a = b)
           /\ evmone_compare("ISZERO", a, b) = Bool(a = 0)
  BY DEF evmone_compare

LEMMA ShiftNames ==
    ASSUME NEW a, NEW b
    PROVE  /\ evmone_shift("BYTE", a, b)
                = IF a >= 4 * LimbBytes THEN 0
                  ELSE (b \div Power2[ByteBits * (4 * LimbBytes - 1 - a)]) % ByteBase
           /\ evmone_shift("SHL", a, b)
                = IF a >= 4 * LimbBits THEN 0 ELSE (b % Power2[4 * LimbBits - a]) * Power2[a]
           /\ evmone_shift("SHR", a, b) = IF a >= 4 * LimbBits THEN 0 ELSE b \div Power2[a]
           /\ evmone_shift("SAR", a, b)
                = (Signed(b) \div Power2[IF a >= 4 * LimbBits THEN 4 * LimbBits - 1 ELSE a]) % Modulus
  BY DEF evmone_shift, Wrapped

LEMMA BitNames ==
    ASSUME NEW n, NEW a, NEW b
    PROVE  /\ evmone_bits("AND", n, a, b)
                <=> \A k \in 0..(4 * LimbBits - 1) : Bit(n, k) = Bit(a, k) * Bit(b, k)
           /\ evmone_bits("OR", n, a, b)
                <=> \A k \in 0..(4 * LimbBits - 1) : Bit(n, k) = Bit(a, k) + Bit(b, k) - Bit(a, k) * Bit(b, k)
           /\ evmone_bits("XOR", n, a, b)
                <=> \A k \in 0..(4 * LimbBits - 1) : Bit(n, k) = (Bit(a, k) + Bit(b, k)) % 2
           /\ evmone_bits("NOT", n, a, b)
                <=> \A k \in 0..(4 * LimbBits - 1) : Bit(n, k) = 1 - Bit(a, k)
  BY DEF evmone_bits, BitsAgree

LEMMA AnswerNames ==
    ASSUME NEW name, NEW a, NEW b, NEW n
    PROVE  /\ name \in ArithmeticOps /\ n = evmone_arithmetic(name, a, b) => Answers(name, a, b, n)
           /\ name \in CompareOps /\ n = evmone_compare(name, a, b) => Answers(name, a, b, n)
           /\ name \in ShiftOps /\ n = evmone_shift(name, a, b) => Answers(name, a, b, n)
           /\ name \in BitOps /\ evmone_bits(name, n, a, b) => Answers(name, a, b, n)
           /\ name \notin ArithmeticOps \cup CompareOps \cup ShiftOps \cup BitOps => Answers(name, a, b, n)
  BY DEF Answers, ArithmeticOps, CompareOps, ShiftOps, BitOps

LEMMA AnswerBits ==
    ASSUME NEW p \in Uint256, NEW q \in Uint256
    PROVE  /\ and256(p, q) \in Uint256 /\ Answers("AND", Value256(p), Value256(q), Value256(and256(p, q)))
           /\ or256(p, q) \in Uint256 /\ Answers("OR", Value256(p), Value256(q), Value256(or256(p, q)))
           /\ xor256(p, q) \in Uint256 /\ Answers("XOR", Value256(p), Value256(q), Value256(xor256(p, q)))
           /\ not256(p) \in Uint256 /\ Answers("NOT", Value256(p), Value256(q), Value256(not256(p)))
<1>1. PICK a \in Nat, b \in Nat : a = Value256(p) /\ b = Value256(q)
  BY Parts256, BaseFacts
<1>2. ASSUME NEW k \in 0..(4 * LimbBits - 1)
      PROVE  Bit(a, k) \in {0, 1} /\ Bit(b, k) \in {0, 1}
  <2>1. k \in Nat /\ a \in Int /\ b \in Int
    BY BaseFacts
  <2> QED BY <2>1, BitRange
<1>3. PICK c, d, e, f : c = Value256(and256(p, q)) /\ d = Value256(or256(p, q))
                        /\ e = Value256(xor256(p, q)) /\ f = Value256(not256(p))
  OBVIOUS
<1>4. /\ Agrees(AndTable, 4 * LimbBits, c, a, b) /\ Agrees(OrTable, 4 * LimbBits, d, a, b)
      /\ Agrees(XorTable, 4 * LimbBits, e, a, b) /\ Agrees(NotTable, 4 * LimbBits, f, a, a)
  BY <1>1, <1>3, Wise256
<1>5. \A k \in 0..(4 * LimbBits - 1) : Bit(c, k) = Bit(a, k) * Bit(b, k)
  BY <1>2, <1>4 DEF Agrees, AndTable
<1>6. \A k \in 0..(4 * LimbBits - 1) : Bit(d, k) = Bit(a, k) + Bit(b, k) - Bit(a, k) * Bit(b, k)
  BY <1>2, <1>4 DEF Agrees, OrTable
<1>7. \A k \in 0..(4 * LimbBits - 1) : Bit(e, k) = (Bit(a, k) + Bit(b, k)) % 2
  BY <1>2, <1>4 DEF Agrees, XorTable
<1>8. \A k \in 0..(4 * LimbBits - 1) : Bit(f, k) = 1 - Bit(a, k)
  BY <1>2, <1>4 DEF Agrees, NotTable
<1>9. "AND" \in BitOps /\ "OR" \in BitOps /\ "XOR" \in BitOps /\ "NOT" \in BitOps
  BY DEF BitOps
<1>10. evmone_bits("AND", c, a, b) /\ evmone_bits("OR", d, a, b)
  BY <1>5, <1>6, BitNames
<1>11. evmone_bits("XOR", e, a, b) /\ evmone_bits("NOT", f, a, b)
  BY <1>7, <1>8, BitNames
<1>12. /\ Answers("AND", a, b, c) /\ Answers("OR", a, b, d)
       /\ Answers("XOR", a, b, e) /\ Answers("NOT", a, b, f)
  BY <1>9, <1>10, <1>11, AnswerNames
<1> QED BY <1>1, <1>3, <1>12, Wise256

LEMMA AnswerSums ==
    ASSUME NEW p \in Uint256, NEW q \in Uint256
    PROVE  /\ add256(p, q) \in Uint256 /\ Answers("ADD", Value256(p), Value256(q), Value256(add256(p, q)))
           /\ minus256(p, q) \in Uint256
           /\ Answers("SUB", Value256(p), Value256(q), Value256(minus256(p, q)))
<1>1. PICK a, b, c, d : /\ a = Value256(p) /\ b = Value256(q)
                        /\ c = Value256(add256(p, q)) /\ d = Value256(minus256(p, q))
  OBVIOUS
<1>2. c = (a + b) % Modulus /\ d = (a - b) % Modulus
  BY <1>1, Add256, Minus256
<1>3. "ADD" \in ArithmeticOps /\ "SUB" \in ArithmeticOps
  BY DEF ArithmeticOps
<1>4. c = evmone_arithmetic("ADD", a, b) /\ d = evmone_arithmetic("SUB", a, b)
  BY <1>2, ArithmeticNames, Zenon
<1>5. Answers("ADD", a, b, c) /\ Answers("SUB", a, b, d)
  BY <1>3, <1>4, AnswerNames
<1> QED BY <1>1, <1>5, Add256, Minus256

LEMMA WordValue ==
    ASSUME NEW n \in 0..(Base - 1)
    PROVE  Word(n) \in Uint256 /\ Value256(Word(n)) = n
  BY OneLimb DEF Word

\* A number whose highest bit is clear stands for itself.
LEMMA NotNegative ==
    ASSUME NEW p \in Uint256, ~Negative(p)
    PROVE  2 * Value256(p) < Modulus /\ Signed(Value256(p)) = Value256(p)
<1>1. PICK u, l, h, m : u = UPPER(p) /\ l = Value128(LOWER(p)) /\ h = UPPER(u) /\ m = LOWER(u)
  OBVIOUS
<1>2. /\ h \in 0..(Base - 1) /\ m \in 0..(Base - 1) /\ l \in 0..(Square - 1)
      /\ Value256(p) = (h * Base + m) * Square + l
  BY <1>1, Parts256, Parts128
<1>3. u256_index(p, 3) = h
  BY <1>1 DEF u256_index
<1>4. ~(2 * h >= Base)
  BY <1>3 DEF Negative
<1>5. PICK g \in Nat : Base = 2 * g
  <2>1. PICK k \in Nat : LimbBits = k + 1
    <3>1. LimbBits - 1 \in Nat /\ LimbBits = (LimbBits - 1) + 1
      BY BaseFacts
    <3> QED BY <3>1
  <2>2. Power2[k + 1] = 2 * Power2[k] /\ Power2[k] \in Nat
    BY Power2Step, Power2Pos
  <2> QED BY <2>1, <2>2 DEF Base
<1>6. h + 1 <= g
  BY <1>2, <1>4, <1>5, BaseFacts
<1>7. PICK B \in Nat \ {0}, S \in Nat \ {0} : B = Base /\ S = Square
  BY BaseFacts
<1>8. PICK w : w = h * B + m
  OBVIOUS
<1>9. w \in Nat /\ w + 1 <= (h + 1) * B
  BY <1>2, <1>7, <1>8
<1>10. (h + 1) * B <= g * B
  <2>1. h + 1 \in Int
    BY <1>2, BaseFacts
  <2> QED BY <1>6, <1>7, <2>1, TimesMono
<1>11. PICK e \in Nat : e = g * B
  BY <1>7, TimesNat
<1>12. w + 1 <= e
  BY <1>2, <1>7, <1>9, <1>10, <1>11
<1>13. w * S + l < (w + 1) * S
  BY <1>2, <1>7, <1>9
<1>14. (w + 1) * S <= e * S
  BY <1>9, <1>12, TimesMono
<1>15. 2 * (e * S) = Modulus
  <2>1. S = B * B
    BY <1>7 DEF Square
  <2>2. Modulus = B * B * B * B
    BY <1>7 DEF Modulus
  <2>3. 2 * ((g * B) * (B * B)) = (2 * g) * B * B * B
    OBVIOUS
  <2> QED BY <1>5, <1>7, <1>11, <2>1, <2>2, <2>3
<1>16. PICK v \in Nat : v = Value256(p)
  BY Parts256, BaseFacts
<1>17. v = w * S + l
  BY <1>2, <1>7, <1>8, <1>16
<1>18. 2 * v < Modulus
  <2>1. PICK c, d, f : c = w * S + l /\ d = (w + 1) * S /\ f = e * S
    OBVIOUS
  <2>2. c \in Int /\ d \in Int /\ f \in Int
    BY <1>2, <1>7, <1>9, <2>1
  <2>3. c < d /\ d <= f /\ 2 * f = Modulus /\ v = c
    BY <1>13, <1>14, <1>15, <1>17, <2>1
  <2> QED BY <2>2, <2>3
<1> QED BY <1>16, <1>18, BaseFacts DEF Signed

LEMMA AnswerComparisons ==
    ASSUME NEW p \in Uint256, NEW q \in Uint256, NEW name \in CompareOps, Allowed(name, p, q), NEW w,
           w = CASE name = "LT" -> Word(Bool(gt256(q, p)))
                 [] name = "GT" -> Word(Bool(gt256(p, q)))
                 [] name = "SLT" -> Word(Bool(gt256(q, p)))
                 [] name = "SGT" -> Word(Bool(gt256(p, q)))
                 [] name = "EQ" -> Word(Bool(equal256(p, q)))
                 [] name = "ISZERO" -> Word(Bool(zero256(p)))
    PROVE  w \in Uint256 /\ Answers(name, Value256(p), Value256(q), Value256(w))
<1>1. PICK a \in Nat, b \in Nat : a = Value256(p) /\ b = Value256(q)
  BY Parts256, BaseFacts
<1>2. /\ gt256(q, p) <=> a < b
      /\ gt256(p, q) <=> a > b
      /\ equal256(p, q) <=> a = b
      /\ zero256(p) <=> a = 0
  BY <1>1, Compare256
<1>3. name \in {"SLT", "SGT"} => Signed(a) = a /\ Signed(b) = b
  BY <1>1, NotNegative DEF Allowed
<1>4. name \in {"LT", "GT", "SLT", "SGT", "EQ", "ISZERO"}
  BY DEF CompareOps
<1>5. \E c : c \in {0, 1} /\ w = Word(c) /\ c = evmone_compare(name, a, b)
  <2>1. CASE name = "LT"
    <3>1. w = Word(Bool(gt256(q, p))) /\ evmone_compare(name, a, b) = Bool(a < b)
      BY <2>1, CompareNames
    <3> QED BY <1>2, <3>1 DEF Bool
  <2>2. CASE name = "GT"
    <3>1. w = Word(Bool(gt256(p, q))) /\ evmone_compare(name, a, b) = Bool(a > b)
      BY <2>2, CompareNames
    <3> QED BY <1>2, <3>1 DEF Bool
  <2>3. CASE name = "SLT"
    <3>1. w = Word(Bool(gt256(q, p))) /\ evmone_compare(name, a, b) = Bool(a < b)
      BY <1>3, <2>3, CompareNames
    <3> QED BY <1>2, <3>1 DEF Bool
  <2>4. CASE name = "SGT"
    <3>1. w = Word(Bool(gt256(p, q))) /\ evmone_compare(name, a, b) = Bool(a > b)
      BY <1>3, <2>4, CompareNames
    <3> QED BY <1>2, <3>1 DEF Bool
  <2>5. CASE name = "EQ"
    <3>1. w = Word(Bool(equal256(p, q))) /\ evmone_compare(name, a, b) = Bool(a = b)
      BY <2>5, CompareNames
    <3> QED BY <1>2, <3>1 DEF Bool
  <2>6. CASE name = "ISZERO"
    <3>1. w = Word(Bool(zero256(p))) /\ evmone_compare(name, a, b) = Bool(a = 0)
      BY <2>6, CompareNames
    <3> QED BY <1>2, <3>1 DEF Bool
  <2> QED BY <1>4, <2>1, <2>2, <2>3, <2>4, <2>5, <2>6
<1>6. w \in Uint256 /\ Value256(w) = evmone_compare(name, a, b)
  <2>1. 0 \in 0..(Base - 1) /\ 1 \in 0..(Base - 1)
    BY BaseFacts
  <2> QED BY <1>5, <2>1, WordValue
<1> QED BY <1>1, <1>6, AnswerNames

\* A small number is its lowest limb.
LEMMA SmallValue ==
    ASSUME NEW p \in Uint256, NEW bound \in 0..Base, Small(p, bound)
    PROVE  /\ Value256(p) = LOWER(LOWER(p)) /\ LOWER(LOWER(p)) \in 0..(Base - 1)
           /\ LOWER(LOWER(p)) < bound
           /\ p = <<clear128, <<0, LOWER(LOWER(p))>>>>
<1>1. PICK u, w, h, l : u = UPPER(p) /\ w = LOWER(p) /\ h = UPPER(w) /\ l = LOWER(w)
  OBVIOUS
<1>2. /\ u \in Uint128 /\ w \in Uint128 /\ p = <<u, w>> /\ w = <<h, l>> /\ l \in 0..(Base - 1)
  BY <1>1, Parts256, Parts128
<1>3. zero128(u) /\ h = 0 /\ l < bound
  BY <1>1 DEF Small
<1>4. u = clear128
  BY <1>2, <1>3, Compare128, Clear
<1>5. p = <<clear128, <<0, l>>>>
  BY <1>2, <1>3, <1>4
<1>6. Value256(p) = l
  BY <1>2, <1>5, OneLimb
<1> QED BY <1>1, <1>2, <1>3, <1>5, <1>6

\* A number less than a limb's bound is small.
LEMMA SmallIf ==
    ASSUME NEW p \in Uint256, NEW bound \in 0..Base, Value256(p) < bound
    PROVE  Small(p, bound)
<1>1. PICK v \in Nat : v = Value256(p)
  BY Parts256, BaseFacts
<1>2. v \in 0..(Base - 1) /\ v < bound
  BY <1>1, BaseFacts
<1>3. Word(v) \in Uint256 /\ Value256(Word(v)) = v
  BY <1>2, WordValue
<1>4. p = Word(v)
  BY <1>1, <1>3, Compare256
<1>5. zero128(clear128)
  BY Clear, Compare128
<1> QED BY <1>2, <1>4, <1>5 DEF Small, Word, UPPER, LOWER

LEMMA AnswerProduct ==
    ASSUME NEW p \in Uint256, NEW q \in Uint256, Allowed("MUL", p, q)
    PROVE  /\ mul256(p, q) \in Uint256
           /\ Answers("MUL", Value256(p), Value256(q), Value256(mul256(p, q)))
<1>1. PICK a, b : a = Value256(p) /\ b = Value256(q)
  OBVIOUS
<1>2. /\ a \in 0..(Base - 1) /\ b \in 0..(Base - 1)
      /\ p = <<clear128, <<0, a>>>> /\ q = <<clear128, <<0, b>>>>
  <2>1. Small(p, Base) /\ Small(q, Base) /\ Base \in 0..Base
    BY BaseFacts DEF Allowed
  <2> QED BY <1>1, <2>1, SmallValue
<1>3. mul256(p, q) \in Uint256 /\ Value256(mul256(p, q)) = a * b
  BY <1>2, MulSmall
<1>4. Product(a, b) = a * b
  <2>1. a \in Nat /\ b \in Nat /\ a < Square /\ b < Square
    BY <1>2, BaseFacts
  <2>2. a \div Square = 0 /\ a % Square = a /\ b \div Square = 0 /\ b % Square = b
    BY <2>1, ModSmall, BaseFacts
  <2>3. PICK m \in Nat : m = a * b
    BY <2>1, TimesNat
  <2>4. m < Modulus
    <3>1. Value256(mul256(p, q)) \in 0..(Modulus - 1)
      BY <1>3, Parts256
    <3> QED BY <1>3, <2>3, <3>1, BaseFacts
  <2>5. m % Modulus = m
    BY <2>4, ModSmall, BaseFacts
  <2>6. 0 % Square = 0
    BY ModSmall, BaseFacts
  <2>7. Product(a, b)
          = ((a % Square) * (b % Square)
               + (((((a \div Square) * (b % Square)) % Square) + (((a % Square) * (b \div Square)) % Square))
                    % Square) * Square) % Modulus
    BY DEF Product, Wrapped, Square
  <2>8. 0 * b = 0 /\ a * 0 = 0 /\ 0 + 0 = 0 /\ 0 * Square = 0 /\ m + 0 = m
    BY <2>1, <2>3, BaseFacts
  <2> QED BY <2>2, <2>3, <2>5, <2>6, <2>7, <2>8
<1>5. "MUL" \in ArithmeticOps /\ evmone_arithmetic("MUL", a, b) = Product(a, b)
  BY ArithmeticNames DEF ArithmeticOps
<1> QED BY <1>1, <1>3, <1>4, <1>5, AnswerNames

\* Shifts by any number of bits.
LEMMA ShiftValues ==
    ASSUME NEW b \in 0..(Modulus - 1), NEW a \in Nat, NEW d \in Nat, d = 4 * LimbBits
    PROVE  /\ (b * Power2[a]) % Modulus = IF a >= d THEN 0 ELSE (b % Power2[d - a]) * Power2[a]
           /\ a >= d => b \div Power2[a] = 0
           /\ a < d => d - a \in Nat
<1>1. b \in Nat /\ b < Modulus /\ Modulus \in Nat \ {0} /\ Power2[d] = Modulus
  BY BaseFacts, BasePowers
<1>2. PICK M \in Nat \ {0} : M = Modulus
  BY <1>1
<1>3. PICK P \in Nat \ {0} : P = Power2[a]
  BY Power2Pos
<1>4. CASE a >= d
  <2>1. PICK e \in Nat : e = a - d /\ a = d + e
    BY <1>4
  <2>2. PICK Q \in Nat \ {0} : Q = Power2[e]
    BY Power2Pos
  <2>3. P = M * Q
    <3>1. Power2[d + e] = Power2[d] * Power2[e]
      BY Power2Sum
    <3> QED BY <1>1, <1>2, <1>3, <2>1, <2>2, <3>1, Zenon
  <2>4. b < M
    BY <1>1, <1>2
  <2>5. (b * (M * Q)) % M = 0 /\ b \div (M * Q) = 0
    BY <1>1, <2>4, ShiftOut
  <2> QED BY <1>2, <1>3, <1>4, <2>3, <2>5
<1>5. CASE a < d
  <2>1. PICK e \in Nat : e = d - a /\ d = e + a
    BY <1>5
  <2>2. PICK Q \in Nat \ {0} : Q = Power2[e]
    BY Power2Pos
  <2>3. M = P * Q
    <3>1. Power2[e + a] = Power2[e] * Power2[a]
      BY Power2Sum
    <3>2. M = Q * P
      BY <1>1, <1>2, <1>3, <2>1, <2>2, <3>1
    <3>3. Q * P = P * Q
      OBVIOUS
    <3> QED BY <3>2, <3>3
  <2>4. (b * P) % (P * Q) = (b % Q) * P
    <3>1. b \in Int
      BY <1>1
    <3> QED BY <3>1, ModTimes, Zenon
  <2> QED BY <1>2, <1>3, <1>5, <2>1, <2>2, <2>3, <2>4
<1> QED BY <1>4, <1>5

LEMMA OffsetValue ==
    ASSUME NEW p \in Uint256, Small(p, Power2[OffsetBits])
    PROVE  offset(p) = Value256(p) /\ Value256(p) \in Nat
<1>1. OffsetBits \in 1..LimbBits /\ OffsetBits \in Nat /\ LimbBits \in Nat
  BY ArithmeticAssumption, BaseFacts
<1>2. Power2[OffsetBits] \in Nat \ {0} /\ Power2[OffsetBits] <= Base
  BY <1>1, Power2Pos, Power2Mono, BasePowers
<1>3. Power2[OffsetBits] \in 0..Base
  BY <1>2, BaseFacts
<1>4. Value256(p) = LOWER(LOWER(p)) /\ LOWER(LOWER(p)) \in 0..(Base - 1) /\ LOWER(LOWER(p)) < Power2[OffsetBits]
  BY <1>3, SmallValue
<1>5. LOWER(LOWER(p)) \in Nat
  BY <1>4, BaseFacts
<1>6. LOWER(LOWER(p)) % Power2[OffsetBits] = LOWER(LOWER(p))
  BY <1>2, <1>4, <1>5, ModSmall
<1> QED BY <1>4, <1>5, <1>6 DEF offset

LEMMA AnswerShifts ==
    ASSUME NEW p \in Uint256, NEW q \in Uint256, Small(p, Power2[OffsetBits])
    PROVE  /\ shiftl256(q, offset(p)) \in Uint256
           /\ Answers("SHL", Value256(p), Value256(q), Value256(shiftl256(q, offset(p))))
           /\ shiftr256(q, offset(p)) \in Uint256
           /\ Answers("SHR", Value256(p), Value256(q), Value256(shiftr256(q, offset(p))))
<1>1. PICK a, b : a = Value256(p) /\ b = Value256(q)
  OBVIOUS
<1>2. a \in Nat /\ b \in 0..(Modulus - 1) /\ offset(p) = a
  BY <1>1, OffsetValue, Parts256
<1>3. PICK l, r : l = shiftl256(q, a) /\ r = shiftr256(q, a)
  OBVIOUS
<1>4. /\ l \in Uint256 /\ Value256(l) = (b * Power2[a]) % Modulus
      /\ r \in Uint256 /\ Value256(r) = b \div Power2[a]
  BY <1>1, <1>2, <1>3, Shiftl256, Shiftr256
<1>5. PICK d \in Nat : d = 4 * LimbBits
  BY BaseFacts
<1>6. /\ (b * Power2[a]) % Modulus = IF a >= d THEN 0 ELSE (b % Power2[d - a]) * Power2[a]
      /\ a >= d => b \div Power2[a] = 0
  BY <1>2, <1>5, ShiftValues
<1>7. Value256(l) = evmone_shift("SHL", a, b)
  <2>1. Value256(l) = IF a >= d THEN 0 ELSE (b % Power2[d - a]) * Power2[a]
    BY <1>4, <1>6, Zenon
  <2> QED BY <1>5, <2>1, ShiftNames, Zenon
<1>8. Value256(r) = evmone_shift("SHR", a, b)
  <2>1. Value256(r) = IF a >= d THEN 0 ELSE b \div Power2[a]
    BY <1>4, <1>6
  <2> QED BY <1>5, <2>1, ShiftNames, Zenon
<1>9. "SHL" \in ShiftOps /\ "SHR" \in ShiftOps
  BY DEF ShiftOps
<1>10. Answers("SHL", a, b, Value256(l)) /\ Answers("SHR", a, b, Value256(r))
  BY <1>7, <1>8, <1>9, AnswerNames
<1> QED BY <1>1, <1>2, <1>3, <1>4, <1>10

LEMMA AnswerSigned ==
    ASSUME NEW p \in Uint256, NEW q \in Uint256, Small(p, Power2[OffsetBits]), ~Negative(q)
    PROVE  /\ ShiftedSigned(p, q) \in Uint256
           /\ Answers("SAR", Value256(p), Value256(q), Value256(ShiftedSigned(p, q)))
<1>1. PICK a, b : a = Value256(p) /\ b = Value256(q)
  OBVIOUS
<1>2. a \in Nat /\ b \in 0..(Modulus - 1) /\ offset(p) = a
  BY <1>1, OffsetValue, Parts256
<1>3. 2 * b < Modulus /\ Signed(b) = b
  BY <1>1, NotNegative
<1>4. ShiftedSigned(p, q) = add256(shiftr256(q, a), shiftl256(clear256, a))
  BY <1>2 DEF ShiftedSigned
<1>5. PICK z, r : z = shiftl256(clear256, a) /\ r = shiftr256(q, a)
  OBVIOUS
<1>6. z \in Uint256 /\ Value256(z) = 0
  <2>1. z \in Uint256 /\ Value256(z) = (0 * Power2[a]) % Modulus
    BY <1>2, <1>5, Shiftl256, Clear
  <2>2. 0 * Power2[a] = 0 /\ 0 % Modulus = 0
    <3>1. Power2[a] \in Nat
      BY <1>2, Power2Pos
    <3> QED BY <3>1, ModSmall, BaseFacts
  <2> QED BY <2>1, <2>2
<1>7. r \in Uint256 /\ Value256(r) = b \div Power2[a]
  BY <1>1, <1>2, <1>5, Shiftr256
<1>8. PICK v \in Nat : v = Value256(r) /\ v < Modulus
  BY <1>7, Parts256, BaseFacts
<1>9. add256(r, z) \in Uint256 /\ Value256(add256(r, z)) = v
  <2>1. Value256(r) + Value256(z) = v /\ v < Modulus
    BY <1>6, <1>8
  <2> QED BY <1>6, <1>7, <2>1, AddSmall256
<1>10. PICK d \in Nat : d = 4 * LimbBits /\ d # 0
  BY BaseFacts
<1>11. (b \div Power2[IF a >= d THEN d - 1 ELSE a]) % Modulus = v
  <2>1. v % Modulus = v
    BY <1>8, ModSmall, BaseFacts
  <2>2. CASE a >= d
    <3>1. v = 0
      <4>1. b \div Power2[a] = 0
        BY <1>2, <1>10, <2>2, ShiftValues
      <4> QED BY <1>7, <1>8, <4>1
    <3>2. PICK e \in Nat : e = d - 1 /\ d = e + 1
      BY <1>10
    <3>3. Power2[e + 1] = 2 * Power2[e] /\ Power2[d] = Modulus /\ Power2[e] \in Nat \ {0}
      BY <1>10, Power2Step, Power2Pos, BasePowers
    <3>4. b < Power2[e] /\ b \in Nat
      BY <1>2, <1>3, <3>2, <3>3
    <3>5. b \div Power2[e] = 0
      BY <3>3, <3>4, ModSmall
    <3> QED BY <2>1, <2>2, <3>1, <3>2, <3>5
  <2>3. CASE ~(a >= d)
    BY <1>7, <1>8, <2>1, <2>3
  <2> QED BY <2>2, <2>3
<1>12. v = evmone_shift("SAR", a, b)
  BY <1>3, <1>10, <1>11, ShiftNames, ZenonT(40)
<1>13. "SAR" \in ShiftOps
  BY DEF ShiftOps
<1>14. Answers("SAR", a, b, v)
  BY <1>12, <1>13, AnswerNames
<1> QED BY <1>1, <1>4, <1>5, <1>9, <1>14

LEMMA AnswerByte ==
    ASSUME NEW p \in Uint256, NEW q \in Uint256
    PROVE  /\ ByteFromTop(p, q) \in Uint256
           /\ Answers("BYTE", Value256(p), Value256(q), Value256(ByteFromTop(p, q)))
<1>1. PICK a, b : a = Value256(p) /\ b = Value256(q)
  OBVIOUS
<1>2. a \in Nat /\ b \in Nat
  BY <1>1, Parts256, BaseFacts
<1>3. PICK count \in Nat \ {0} : count = 4 * LimbBytes
  BY ByteFacts
<1>4. count \in 0..Base
  <2>1. OffsetBits \in Nat /\ OffsetBits <= LimbBits /\ Power2[OffsetBits] > 4 * LimbBits
    BY ArithmeticAssumption, BaseFacts
  <2>2. Power2[OffsetBits] <= Base
    BY <2>1, Power2Mono, BasePowers, BaseFacts
  <2>3. LimbBytes <= LimbBits
    BY ByteFacts, TimesPos
  <2>4. Power2[OffsetBits] \in Nat /\ LimbBytes \in Nat
    BY <2>1, Power2Pos, ByteFacts
  <2> QED BY <1>3, <2>1, <2>2, <2>3, <2>4, BaseFacts
<1>5. ByteBase <= Base
  <2>1. ByteBits <= LimbBits
    BY ByteFacts, TimesPos
  <2> QED BY <2>1, Power2Mono, BasePowers, BaseFacts, ByteFacts
<1>6. PICK index : index = count - 1 - (LOWER(LOWER(p)) % count)
  OBVIOUS
<1>7. PICK n : n = IF Small(p, count) THEN ByteAt(q, index) ELSE 0
  OBVIOUS
<1>8. ByteFromTop(p, q) = Word(n)
  BY <1>3, <1>6, <1>7 DEF ByteFromTop
<1>9. n \in 0..(Base - 1) /\ n = evmone_shift("BYTE", a, b)
  <2>1. CASE a < count
    <3>1. Small(p, count)
      BY <1>1, <1>4, <2>1, SmallIf
    <3>2. LOWER(LOWER(p)) = a
      BY <1>1, <1>4, <3>1, SmallValue
    <3>3. a % count = a
      BY <1>2, <2>1, ModSmall
    <3>4. index = count - 1 - a /\ index \in 0..(4 * LimbBytes - 1) /\ index \in Nat
      BY <1>2, <1>3, <1>6, <2>1, <3>2, <3>3
    <3>5. n = Digit(b, index)
      BY <1>1, <1>7, <3>1, <3>4, ByteAtDigit
    <3>6. Digit(b, index) \in Bytes
      BY <1>2, <3>4, DigitRange
    <3>7. n \in 0..(Base - 1)
      BY <1>5, <3>5, <3>6, ByteFacts, BaseFacts
    <3>8. index * ByteBits = ByteBits * (4 * LimbBytes - 1 - a)
      <4>1. index * ByteBits = ByteBits * index
        BY <3>4, ByteFacts
      <4> QED BY <1>3, <3>4, <4>1
    <3>9. evmone_shift("BYTE", a, b) = (b \div Power2[ByteBits * (4 * LimbBytes - 1 - a)]) % ByteBase
      <4>1. ~(a >= 4 * LimbBytes)
        BY <1>2, <1>3, <2>1
      <4> QED BY <4>1, ShiftNames, Zenon
    <3>10. Digit(b, index) = (b \div Power2[ByteBits * (4 * LimbBytes - 1 - a)]) % ByteBase
      BY <3>8, Zenon DEF Digit, Weight
    <3> QED BY <3>5, <3>7, <3>9, <3>10, Zenon
  <2>2. CASE a >= count
    <3>1. ~Small(p, count)
      <4>1. ASSUME Small(p, count) PROVE FALSE
        <5>1. a = LOWER(LOWER(p)) /\ LOWER(LOWER(p)) < count
          BY <1>1, <1>4, <4>1, SmallValue
        <5> QED BY <1>2, <2>2, <5>1
      <4> QED BY <4>1
    <3>2. n = 0
      BY <1>7, <3>1
    <3>3. evmone_shift("BYTE", a, b) = 0
      <4>1. a >= 4 * LimbBytes
        BY <1>3, <2>2
      <4> QED BY <4>1, ShiftNames, Zenon
    <3> QED BY <3>2, <3>3, BaseFacts
  <2> QED BY <1>2, <2>1, <2>2
<1>10. Word(n) \in Uint256 /\ Value256(Word(n)) = n
  BY <1>9, WordValue
<1>11. "BYTE" \in ShiftOps
  BY DEF ShiftOps
<1>12. Answers("BYTE", a, b, n)
  BY <1>9, <1>11, AnswerNames
<1> QED BY <1>1, <1>8, <1>10, <1>12

LEMMA AnswerDivision ==
    ASSUME NEW name \in {"DIV", "SDIV", "MOD", "SMOD"}, NEW p \in Uint256, NEW q \in Uint256,
           Allowed(name, p, q), NEW n \in Uint256,
           Value256(n) = IF Value256(q) = 0 THEN 0
                         ELSE IF name \in {"MOD", "SMOD"} THEN Value256(p) % Value256(q)
                              ELSE Value256(p) \div Value256(q)
    PROVE  Answers(name, Value256(p), Value256(q), Value256(n))
<1>1. PICK a \in Nat, b \in Nat, v \in Nat : a = Value256(p) /\ b = Value256(q) /\ a < Modulus /\ v = Value256(n)
  BY Parts256, BaseFacts
<1>2. v = IF b = 0 THEN 0 ELSE IF name \in {"MOD", "SMOD"} THEN a % b ELSE a \div b
  BY <1>1
<1>3. name \in ArithmeticOps
  BY DEF ArithmeticOps
<1>4. ASSUME name \in {"SDIV", "SMOD"}, b # 0
      PROVE  sdivrem(a, b).quot = a \div b /\ sdivrem(a, b).rem = a % b
  <2>1. Signed(a) = a /\ Signed(b) = b
    BY <1>1, <1>4, NotNegative DEF Allowed
  <2>2. Abs(a) = a /\ Abs(b) = b /\ Sign(a) = 1 /\ Sign(b) = 1
    BY DEF Abs, Sign
  <2>3. PICK c \in Nat, d \in Nat : c = a \div b /\ d = a % b /\ d < b /\ a = c * b + d
    BY <1>4, DivMod
  <2>4. c <= a /\ d <= a
    <3>1. PICK m \in Nat : m = c * b
      BY TimesNat
    <3>2. c <= c * b
      BY <1>4
    <3> QED BY <2>3, <3>1, <3>2
  <2>5. c % Modulus = c /\ d % Modulus = d
    <3>1. c < Modulus /\ d < Modulus
      BY <1>1, <2>4, BaseFacts
    <3> QED BY <3>1, ModSmall, BaseFacts
  <2>6. (1 * 1) * c = c /\ 1 * d = d
    OBVIOUS
  <2>7. /\ sdivrem(a, b).quot
            = (Sign(Signed(a)) * Sign(Signed(b)) * (Abs(Signed(a)) \div Abs(Signed(b)))) % Modulus
        /\ sdivrem(a, b).rem = (Sign(Signed(a)) * (Abs(Signed(a)) % Abs(Signed(b)))) % Modulus
    BY DEF sdivrem, Wrapped
  <2> QED BY <2>1, <2>2, <2>3, <2>5, <2>6, <2>7, Zenon
<1>5. v = evmone_arithmetic(name, a, b)
  <2>1. CASE name = "DIV"
    <3>1. evmone_arithmetic(name, a, b) = IF b = 0 THEN 0 ELSE a \div b
      BY <2>1, ArithmeticNames, Zenon
    <3> QED BY <1>2, <2>1, <3>1
  <2>2. CASE name = "MOD"
    <3>1. evmone_arithmetic(name, a, b) = IF b = 0 THEN 0 ELSE a % b
      BY <2>2, ArithmeticNames, ZenonT(40)
    <3> QED BY <1>2, <2>2, <3>1
  <2>3. CASE name = "SDIV"
    <3>1. evmone_arithmetic(name, a, b) = IF b = 0 THEN 0 ELSE sdivrem(a, b).quot
      BY <2>3, ArithmeticNames, ZenonT(40)
    <3> QED BY <1>2, <1>4, <2>3, <3>1
  <2>4. CASE name = "SMOD"
    <3>1. evmone_arithmetic(name, a, b) = IF b = 0 THEN 0 ELSE sdivrem(a, b).rem
      BY <2>4, ArithmeticNames, ZenonT(40)
    <3> QED BY <1>2, <1>4, <2>4, <3>1
  <2> QED BY <2>1, <2>2, <2>3, <2>4
<1> QED BY <1>1, <1>3, <1>5, AnswerNames

-----------------------------------------------------------------------------
(***************************************************************************)
(* The steps.                                                              *)
(***************************************************************************)
LEMMA OperandValues ==
    ASSUME NEW i \in Operands
    PROVE  /\ readu256BE(i[1]) \in Uint256 /\ BufferValue(i[1]) = Value256(readu256BE(i[1]))
           /\ readu256BE(i[2]) \in Uint256 /\ BufferValue(i[2]) = Value256(readu256BE(i[2]))
<1>1. i[1] \in WordBuffers /\ i[2] \in WordBuffers
  BY ArithmeticAssumption
<1> QED BY <1>1, ReadWord

LEMMA TypedOperands ==
    ASSUME Typed
    PROVE  /\ x \in Uint256 /\ BufferValue(input[1]) = Value256(x)
           /\ y \in Uint256 /\ BufferValue(input[2]) = Value256(y)
  BY OperandValues DEF Typed

LEMMA AnswerLeft ==
    ASSUME Typed, input' = input, result' \in Uint256,
           Answers(op', Value256(x), Value256(y), Value256(result'))
    PROVE  AsEvmone'
<1>1. BufferValue(u256_to_u8_32(result')) = Value256(result')
  BY WriteWord
<1>2. BufferValue(input[1]) = Value256(x) /\ BufferValue(input[2]) = Value256(y)
  BY TypedOperands
<1> QED BY <1>1, <1>2, Zenon DEF AsEvmone, Answers

LEMMA ComputeKeeps ==
    ASSUME IInv, NEW name, NEW value, Compute(name, value), Allowed(name, x, y) => AsEvmone'
    PROVE  IInv'
<1>1. /\ op' = name /\ phase' = "done" /\ input' = input /\ x' = x /\ y' = y
      /\ div' = div /\ power' = power
  BY DEF Compute, operands
<1>2. Typed'
  BY <1>1 DEF IInv, Typed
<1>3. Dividing' /\ Raising'
  BY <1>1 DEF Dividing, Raising
<1>4. Exact'
  <2>1. SUFFICES ASSUME Regular' PROVE AsEvmone'
    BY DEF Exact
  <2>2. Allowed(name, x, y)
    BY <1>1, <2>1, Zenon DEF Regular, Allowed
  <2> QED BY <2>2
<1> QED BY <1>2, <1>3, <1>4 DEF IInv

LEMMA ComputeStep ==
    ASSUME IInv, NEW name, NEW value, Compute(name, value),
           Allowed(name, x, y) =>
              value \in Uint256 /\ Answers(name, Value256(x), Value256(y), Value256(value))
    PROVE  IInv'
<1>1. op' = name /\ result' = value /\ input' = input
  BY DEF Compute, operands
<1>2. Allowed(name, x, y) => AsEvmone'
  BY <1>1, AnswerLeft DEF IInv
<1> QED BY <1>2, ComputeKeeps

\* An instruction whose result nothing is said about.
LEMMA SilentStep ==
    ASSUME IInv, NEW name, NEW value, Compute(name, value),
           name \notin ArithmeticOps \cup CompareOps \cup ShiftOps \cup BitOps
    PROVE  IInv'
<1>1. op' = name
  BY DEF Compute
<1>2. AsEvmone'
  BY <1>1 DEF AsEvmone
<1> QED BY <1>2, ComputeKeeps

LEMMA DivideStep ==
    ASSUME IInv, NEW name \in DivisionOps, NEW l \in Uint256, NEW r \in Uint256,
           name \in ArithmeticOps => l = x /\ r = y, Divide(name, l, r)
    PROVE  IInv'
<1>1. PICK a \in Nat, b \in Nat : a = Value256(l) /\ b = Value256(r)
  BY Parts256, BaseFacts
<1>2. (zero256(r) <=> b = 0) /\ (gt256(r, l) <=> b > a)
  BY <1>1, Compare256
<1>3. x \in Uint256 /\ y \in Uint256
  BY TypedOperands DEF IInv
<1>4. ASSUME NEW value \in Uint256, Compute(name, value),
             Value256(value) = IF b = 0 THEN 0
                               ELSE IF name \in {"MOD", "SMOD"} THEN a % b ELSE a \div b
      PROVE  IInv'
  <2>1. CASE name \in {"DIV", "SDIV", "MOD", "SMOD"}
    <3>1. l = x /\ r = y
      BY <2>1 DEF ArithmeticOps
    <3>2. Allowed(name, x, y) => Answers(name, Value256(x), Value256(y), Value256(value))
      BY <1>1, <1>3, <1>4, <2>1, <3>1, AnswerDivision
    <3> QED BY <1>4, <3>2, ComputeStep
  <2>2. CASE name \notin {"DIV", "SDIV", "MOD", "SMOD"}
    <3>1. name \notin ArithmeticOps \cup CompareOps \cup ShiftOps \cup BitOps
      BY <2>2 DEF DivisionOps, ArithmeticOps, CompareOps, ShiftOps, BitOps
    <3> QED BY <1>4, <3>1, SilentStep
  <2> QED BY <2>1, <2>2
<1>5. CASE zero256(r) /\ Compute(name, clear256)
  BY <1>2, <1>4, <1>5, Clear
<1>6. CASE ~zero256(r) /\ gt256(r, l) /\ Compute(name, Taken(name, clear256, l))
  <2>1. b # 0 /\ a < b
    BY <1>1, <1>2, <1>6
  <2>2. a \div b = 0 /\ a % b = a
    BY <2>1, ModSmall
  <2>3. PICK value : value = Taken(name, clear256, l)
    OBVIOUS
  <2>4. value = IF name \in {"MOD", "SMOD"} THEN l ELSE clear256
    BY <2>3 DEF Taken
  <2>5. value \in Uint256
        /\ Value256(value) = IF b = 0 THEN 0 ELSE IF name \in {"MOD", "SMOD"} THEN a % b ELSE a \div b
    BY <1>1, <2>1, <2>2, <2>4, Clear
  <2> QED BY <1>4, <1>6, <2>3, <2>5
<1>7. CASE /\ phase = "ready" /\ ~zero256(r) /\ ~gt256(r, l) /\ op' = name
           /\ div' = [l |-> l, r |-> r, resDiv |-> clear256, resMod |-> l,
                      copyd |-> Aligned(l, r).copyd, adder |-> Aligned(l, r).adder]
           /\ phase' = "dividing" /\ UNCHANGED <<operands, result, power>>
  <2>1. b # 0 /\ b <= a
    BY <1>1, <1>2, <1>7
  <2>2. div' \in Divisions /\ DividedOf(div')
    BY <1>1, <1>7, <2>1, AlignedWeighed
  <2>3. div'.l = l /\ div'.r = r
    BY <1>7
  <2>4. input' = input /\ x' = x /\ y' = y /\ power' = power
    BY <1>7 DEF operands
  <2>5. Typed'
    BY <1>7, <2>2, <2>4 DEF IInv, Typed
  <2>6. Dividing'
    <3>1. DividedOf(div)'
      BY <2>2, Zenon DEF DividedOf
    <3>2. Value256(div'.r) # 0
      BY <1>1, <2>1, <2>3
    <3> QED BY <1>7, <2>3, <2>4, <3>1, <3>2 DEF Dividing
  <2>7. Raising' /\ Exact'
    BY <1>7 DEF Raising, Exact
  <2> QED BY <2>5, <2>6, <2>7 DEF IInv
<1> QED BY <1>5, <1>6, <1>7 DEF Divide

LEMMA RoundStep ==
    ASSUME IInv, divmod256
    PROVE  IInv'
<1>1. /\ phase = "dividing" /\ input' = input /\ x' = x /\ y' = y /\ op' = op /\ power' = power
  BY DEF divmod256, operands
<1>2. /\ Typed /\ op \in DivisionOps /\ (op \in ArithmeticOps => div.l = x /\ div.r = y)
      /\ Value256(div.r) # 0 /\ DividedOf(div) /\ div \in Divisions
  BY <1>1 DEF IInv, Dividing, Typed
<1>3. CASE gte256(div.resMod, div.r) /\ div' = Reduced(div) /\ UNCHANGED <<phase, result>>
  <2>1. div' \in Divisions /\ div'.l = div.l /\ div'.r = div.r /\ DividedOf(div')
    BY <1>2, <1>3, RoundReduced
  <2>2. phase' = "dividing"
    BY <1>1, <1>3
  <2>3. Typed'
    BY <1>1, <1>2, <2>1, <2>2 DEF Typed
  <2>4. Dividing'
    <3>1. DividedOf(div)'
      BY <2>1, Zenon DEF DividedOf
    <3> QED BY <1>1, <1>2, <2>1, <3>1 DEF Dividing
  <2>5. Raising' /\ Exact'
    BY <2>2 DEF Raising, Exact
  <2> QED BY <2>3, <2>4, <2>5 DEF IInv
<1>4. CASE /\ ~gte256(div.resMod, div.r) /\ phase' = "done"
           /\ result' = Taken(op, div.resDiv, div.resMod) /\ div' = div
  <2>1. Typed'
    BY <1>1, <1>2, <1>4 DEF Typed
  <2>2. Dividing' /\ Raising'
    BY <1>4 DEF Dividing, Raising
  <2>3. Exact'
    <3>1. SUFFICES ASSUME Regular' PROVE AsEvmone'
      BY DEF Exact
    <3>2. Allowed(op, x, y)
      BY <1>1, <3>1, Zenon DEF Regular, Allowed
    <3>3. div.l \in Uint256 /\ div.r \in Uint256 /\ div.resDiv \in Uint256 /\ div.resMod \in Uint256
          /\ div.adder \in Uint256 /\ div.copyd \in Uint256
      BY <1>2 DEF Divisions
    <3>4. PICK L, R, M, Q, A, C :
              /\ L = Value256(div.l) /\ R = Value256(div.r) /\ M = Value256(div.resMod)
              /\ Q = Value256(div.resDiv) /\ A = Value256(div.adder) /\ C = Value256(div.copyd)
      OBVIOUS
    <3>5. L \in Nat /\ R \in Nat \ {0} /\ M \in Nat /\ Q \in Nat /\ A \in Nat /\ C \in Nat
      <4>1. \A n \in Uint256 : Value256(n) \in Nat
        BY Parts256, BaseFacts
      <4> QED BY <1>2, <3>3, <3>4, <4>1
    <3>6. M < R
      BY <1>4, <3>3, <3>4, <3>5, Compare256
    <3>7. Weighed(L, R, M, Q, A, C)
      BY <1>2, <3>4, Zenon DEF DividedOf
    <3>8. Q = L \div R /\ M = L % R
      BY <3>5, <3>6, <3>7, WeighedBounds
    <3>9. result' = IF op \in {"MOD", "SMOD"} THEN div.resMod ELSE div.resDiv
      BY <1>4 DEF Taken
    <3>10. result' \in Uint256
      BY <3>3, <3>9
    <3>11. Answers(op, Value256(x), Value256(y), Value256(result'))
      <4>1. CASE op \in {"DIV", "SDIV", "MOD", "SMOD"}
        <5>1. div.l = x /\ div.r = y
          BY <1>2, <4>1 DEF ArithmeticOps
        <5>2. x \in Uint256 /\ y \in Uint256 /\ Value256(y) # 0 /\ L = Value256(x) /\ R = Value256(y)
          BY <1>2, <3>3, <3>4, <5>1
        <5>3. Value256(result') = IF Value256(y) = 0 THEN 0
                                  ELSE IF op \in {"MOD", "SMOD"} THEN Value256(x) % Value256(y)
                                       ELSE Value256(x) \div Value256(y)
          BY <3>4, <3>8, <3>9, <5>2
        <5> QED BY <3>2, <3>10, <4>1, <5>2, <5>3, AnswerDivision
      <4>2. CASE op \notin {"DIV", "SDIV", "MOD", "SMOD"}
        <5>1. op \notin ArithmeticOps \cup CompareOps \cup ShiftOps \cup BitOps
          BY <1>2, <4>2 DEF DivisionOps, ArithmeticOps, CompareOps, ShiftOps, BitOps
        <5> QED BY <5>1, AnswerNames
      <4> QED BY <4>1, <4>2
    <3> QED BY <1>1, <1>2, <3>10, <3>11, AnswerLeft
  <2> QED BY <2>1, <2>2, <2>3 DEF IInv
<1> QED BY <1>3, <1>4 DEF divmod256

LEMMA RaiseStep ==
    ASSUME IInv, \/ \E gas_left \in GasLimits : exp_(gas_left)
                 \/ exp_loop
    PROVE  IInv'
<1>1. /\ input' = input /\ x' = x /\ y' = y /\ div' = div
      /\ phase' \in {"ready", "dividing", "raising", "done", "OUT_OF_GAS"}
      /\ phase' # "dividing" /\ op' = "EXP" /\ power' \in [target : Uint256, exponent : Uint256]
  <2>1. CASE \E gas_left \in GasLimits : exp_(gas_left)
    <3>1. PICK gas_left \in GasLimits : exp_(gas_left)
      BY <2>1
    <3>2. /\ input' = input /\ x' = x /\ y' = y /\ div' = div /\ op' = "EXP"
          /\ power' = [target |-> x, exponent |-> y]
      BY <3>1 DEF exp_, operands
    <3>3. phase' \in {"OUT_OF_GAS", "done", "raising"}
      <4>1. gas_left \in Int
        BY ArithmeticAssumption
      <4>2. PICK cost : cost = csb256(y) * ExpByteCost
        OBVIOUS
      <4>3. phase' = CASE gas_left - cost < 0 -> "OUT_OF_GAS"
                       [] gas_left - cost >= 0 /\ zero256(y) -> "done"
                       [] OTHER -> "raising"
        BY <3>1, <4>2 DEF exp_
      <4> QED BY <4>3
    <3>4. x \in Uint256 /\ y \in Uint256
      BY TypedOperands DEF IInv
    <3> QED BY <3>2, <3>3, <3>4
  <2>2. CASE exp_loop
    <3>1. phase = "raising" /\ op = "EXP" /\ power \in [target : Uint256, exponent : Uint256]
      BY <2>2 DEF exp_loop, IInv, Raising, Typed
    <3>2. /\ input' = input /\ x' = x /\ y' = y /\ div' = div /\ op' = op
          /\ phase' \in {"raising", "done"}
          /\ \/ power' = power
             \/ power' = [target |-> mul256(power.target, x), exponent |-> minus256(power.exponent, one256)]
      BY <2>2, <3>1 DEF exp_loop, operands
    <3>3. x \in Uint256
      BY TypedOperands DEF IInv
    <3>4. one256 \in Uint256
      <4>1. 1 \in 0..(Base - 1)
        BY BaseFacts
      <4> QED BY <4>1, OneLimb DEF one256
    <3>5. mul256(power.target, x) \in Uint256 /\ minus256(power.exponent, one256) \in Uint256
      BY <3>1, <3>3, <3>4, Mul256, Minus256
    <3> QED BY <3>1, <3>2, <3>5
  <2> QED BY <2>1, <2>2
<1>2. Typed'
  BY <1>1 DEF IInv, Typed
<1>3. Dividing' /\ Raising'
  BY <1>1 DEF Dividing, Raising
<1>4. Exact'
  <2>1. AsEvmone'
    BY <1>1 DEF AsEvmone, ArithmeticOps, CompareOps, ShiftOps, BitOps
  <2> QED BY <2>1 DEF Exact
<1> QED BY <1>2, <1>3, <1>4 DEF IInv

LEMMA ComparisonStep ==
    ASSUME IInv, lt \/ gt \/ slt \/ sgt \/ eq \/ iszero
    PROVE  IInv'
<1>1. x \in Uint256 /\ y \in Uint256
  BY TypedOperands DEF IInv
<1>2. ASSUME NEW name \in CompareOps, NEW w, Compute(name, w),
             w = CASE name = "LT" -> Word(Bool(gt256(y, x)))
                   [] name = "GT" -> Word(Bool(gt256(x, y)))
                   [] name = "SLT" -> Word(Bool(gt256(y, x)))
                   [] name = "SGT" -> Word(Bool(gt256(x, y)))
                   [] name = "EQ" -> Word(Bool(equal256(x, y)))
                   [] name = "ISZERO" -> Word(Bool(zero256(x)))
      PROVE  IInv'
  <2>1. Allowed(name, x, y) =>
           w \in Uint256 /\ Answers(name, Value256(x), Value256(y), Value256(w))
    BY <1>1, <1>2, AnswerComparisons
  <2> QED BY <1>2, <2>1, ComputeStep
<1>3. CASE lt
  BY <1>2, <1>3 DEF lt, CompareOps
<1>4. CASE gt
  BY <1>2, <1>4 DEF gt, CompareOps
<1>5. CASE slt
  BY <1>2, <1>5 DEF slt, CompareOps
<1>6. CASE sgt
  BY <1>2, <1>6 DEF sgt, CompareOps
<1>7. CASE eq
  BY <1>2, <1>7 DEF eq, CompareOps
<1>8. CASE iszero
  BY <1>2, <1>8 DEF iszero, CompareOps
<1> QED BY <1>3, <1>4, <1>5, <1>6, <1>7, <1>8

LEMMA ShiftStep ==
    ASSUME IInv, byte_ \/ shl \/ shr \/ sar \/ signextend
    PROVE  IInv'
<1>1. x \in Uint256 /\ y \in Uint256
  BY TypedOperands DEF IInv
<1>2. CASE byte_
  BY <1>1, <1>2, AnswerByte, ComputeStep DEF byte_
<1>3. CASE shl
  <2>1. Allowed("SHL", x, y) => Small(x, Power2[OffsetBits])
    BY DEF Allowed
  <2> QED BY <1>1, <1>3, <2>1, AnswerShifts, ComputeStep DEF shl
<1>4. CASE shr
  <2>1. Allowed("SHR", x, y) => Small(x, Power2[OffsetBits])
    BY DEF Allowed
  <2> QED BY <1>1, <1>4, <2>1, AnswerShifts, ComputeStep DEF shr
<1>5. CASE sar
  <2>1. Allowed("SAR", x, y) => Small(x, Power2[OffsetBits]) /\ ~Negative(y)
    BY DEF Allowed
  <2> QED BY <1>1, <1>5, <2>1, AnswerSigned, ComputeStep DEF sar
<1>6. CASE signextend
  <2>1. "SIGNEXTEND" \notin ArithmeticOps \cup CompareOps \cup ShiftOps \cup BitOps
    BY DEF ArithmeticOps, CompareOps, ShiftOps, BitOps
  <2> QED BY <1>6, <2>1, SilentStep DEF signextend
<1> QED BY <1>2, <1>3, <1>4, <1>5, <1>6

LEMMA InitIInv == Init => IInv
<1> SUFFICES ASSUME Init PROVE IInv
  OBVIOUS
<1>1. NoDivision \in Divisions /\ NoPower \in [target : Uint256, exponent : Uint256]
  BY Clear DEF NoDivision, NoPower, Divisions
<1>2. phase = "ready"
  BY DEF Init
<1>3. Typed
  BY <1>1 DEF Init, Typed
<1>4. Dividing /\ Raising /\ Exact
  BY <1>2 DEF Dividing, Raising, Exact
<1> QED BY <1>3, <1>4 DEF IInv

LEMMA StepIInv == IInv /\ [Next]_vars => IInv'
<1> SUFFICES ASSUME IInv, [Next]_vars PROVE IInv'
  OBVIOUS
<1>1. x \in Uint256 /\ y \in Uint256
  BY TypedOperands DEF IInv
<1>2. CASE add
  BY <1>1, <1>2, AnswerSums, ComputeStep DEF add
<1>3. CASE mul
  BY <1>1, <1>3, AnswerProduct, ComputeStep DEF mul
<1>4. CASE sub
  BY <1>1, <1>4, AnswerSums, ComputeStep DEF sub
<1>5. CASE lt \/ gt \/ slt \/ sgt \/ eq \/ iszero
  BY <1>5, ComparisonStep
<1>6. CASE and_
  BY <1>1, <1>6, AnswerBits, ComputeStep DEF and_
<1>7. CASE or_
  BY <1>1, <1>7, AnswerBits, ComputeStep DEF or_
<1>8. CASE xor_
  BY <1>1, <1>8, AnswerBits, ComputeStep DEF xor_
<1>9. CASE not_
  BY <1>1, <1>9, AnswerBits, ComputeStep DEF not_
<1>10. CASE byte_ \/ shl \/ shr \/ sar \/ signextend
  BY <1>10, ShiftStep
<1>11. CASE div_ \/ sdiv \/ mod \/ smod
  <2>1. PICK name \in {"DIV", "SDIV", "MOD", "SMOD"} : Divide(name, x, y)
    BY <1>11 DEF div_, sdiv, mod, smod
  <2>2. name \in DivisionOps
    BY DEF DivisionOps
  <2> QED BY <1>1, <2>1, <2>2, DivideStep
<1>12. ASSUME NEW m \in {readu256BE(buffer) : buffer \in Moduli}, addmod(m) \/ mulmod(m)
       PROVE  IInv'
  <2>1. m \in Uint256
    BY ArithmeticAssumption, ReadWord
  <2>2. add256(x, y) \in Uint256 /\ mul256(x, y) \in Uint256
    BY <1>1, Add256, Mul256
  <2>3. PICK name \in {"ADDMOD", "MULMOD"}, l \in Uint256 : Divide(name, l, m)
    BY <1>12, <2>2 DEF addmod, mulmod
  <2>4. name \in DivisionOps /\ name \notin ArithmeticOps
    BY DEF DivisionOps, ArithmeticOps
  <2> QED BY <2>1, <2>3, <2>4, DivideStep
<1>13. CASE divmod256
  BY <1>13, RoundStep
<1>14. CASE \E gas_left \in GasLimits : exp_(gas_left)
  BY <1>14, RaiseStep
<1>15. CASE exp_loop
  BY <1>15, RaiseStep
<1>16. CASE UNCHANGED vars
  <2>1. /\ input' = input /\ x' = x /\ y' = y /\ op' = op /\ phase' = phase /\ result' = result
        /\ div' = div /\ power' = power
    BY <1>16 DEF vars
  <2>2. Typed' /\ Raising'
    BY <2>1 DEF IInv, Typed, Raising
  <2>3. Dividing'
    BY <2>1, Zenon DEF IInv, Dividing, DividedOf
  <2>4. Exact'
    BY <2>1, Zenon DEF IInv, Exact, Regular, AsEvmone
  <2> QED BY <2>2, <2>3, <2>4 DEF IInv
<1>17. CASE Stopped
  BY <1>16, <1>17 DEF Stopped
<1> QED BY <1>2, <1>3, <1>4, <1>5, <1>6, <1>7, <1>8, <1>9, <1>10, <1>11, <1>12, <1>13, <1>14, <1>15,
           <1>16, <1>17 DEF Next

THEOREM Invariant == Spec => []IInv
<1> QED BY InitIInv, StepIInv, PTL DEF Spec

-----------------------------------------------------------------------------
(***************************************************************************)
(* What the instructions leave, and that the loops end.                    *)
(***************************************************************************)
\* From the bytes of the operands to the bytes of the result, every instruction
\* computes in its regular cases what evmone computes: the sums with their carries
\* and borrows, the comparisons, the bits, the shifts, the bytes, the product of
\* numbers of one limb, and the quotient and the remainder that the loop of
\* divmod256 is left with.
THEOREM ExactTheorem == Spec => []Exact
<1>1. IInv => Exact
  BY DEF IInv
<1> QED BY <1>1, Invariant, PTL

\* The loop of divmod256: what was taken off the dividend is quotient times
\* divisor, and the rest is less than twice the divisor moved under it.
THEOREM DivisionTheorem == Spec => []DivisionSound
<1>1. IInv => DivisionSound
  <2> SUFFICES ASSUME IInv, phase = "dividing" PROVE DivisionSound
    BY DEF DivisionSound
  <2>1. div \in Divisions /\ Value256(div.r) # 0 /\ DividedOf(div)
    BY DEF IInv, Typed, Dividing
  <2>2. PICK L, R, M, Q, A, C :
            /\ L = Value256(div.l) /\ R = Value256(div.r) /\ M = Value256(div.resMod)
            /\ Q = Value256(div.resDiv) /\ A = Value256(div.adder) /\ C = Value256(div.copyd)
    OBVIOUS
  <2>3. L \in Nat /\ R \in Nat \ {0} /\ M \in Nat /\ Q \in Nat /\ A \in Nat /\ C \in Nat
    <3>1. \A n \in Uint256 : Value256(n) \in Nat
      BY Parts256, BaseFacts
    <3> QED BY <2>1, <2>2, <3>1 DEF Divisions
  <2>4. Weighed(L, R, M, Q, A, C)
    BY <2>1, <2>2, Zenon DEF DividedOf
  <2>5. /\ M <= L /\ L - M = Q * R /\ Q <= L \div R /\ (A # 0 => C = A * R)
        /\ M < R \/ (A # 0 /\ M < 2 * C)
    BY <2>3, <2>4, WeighedBounds, SMTT(40)
  <2> QED BY <2>2, <2>5, Zenon DEF DivisionSound
<1> QED BY <1>1, Invariant, PTL

\* A round of divmod256 makes the weight of the divisor smaller, and a round of EXP
\* the exponent that is left.
THEOREM LoopsTheorem == Spec => []LoopsEnd
<1>1. IInv => LoopsEnd
  <2> SUFFICES ASSUME IInv PROVE LoopsEnd
    OBVIOUS
  <2>1. ASSUME phase = "dividing", gte256(div.resMod, div.r)
        PROVE  Value256(Reduced(div).adder) < Value256(div.adder)
    <3>1. div \in Divisions /\ Value256(div.r) # 0 /\ DividedOf(div)
      BY <2>1 DEF IInv, Typed, Dividing
    <3> QED BY <2>1, <3>1, RoundReduced
  <2>2. ASSUME ~zero256(power.exponent)
        PROVE  Value256(minus256(power.exponent, one256)) < Value256(power.exponent)
    <3>1. power.exponent \in Uint256
      BY DEF IInv, Typed
    <3>2. one256 \in Uint256 /\ Value256(one256) = 1
      <4>1. 1 \in 0..(Base - 1)
        BY BaseFacts
      <4> QED BY <4>1, OneLimb DEF one256
    <3>3. PICK e \in Nat : e = Value256(power.exponent) /\ e # 0 /\ e < Modulus
      BY <2>2, <3>1, Compare256, Parts256, BaseFacts
    <3>4. Value256(minus256(power.exponent, one256)) = (e - 1) % Modulus
      BY <3>1, <3>2, <3>3, Minus256
    <3>5. e - 1 \in Nat /\ e - 1 < Modulus
      BY <3>3, BaseFacts
    <3>6. (e - 1) % Modulus = e - 1
      BY <3>5, ModSmall, BaseFacts
    <3> QED BY <3>3, <3>4, <3>6
  <2> QED BY <2>1, <2>2 DEF LoopsEnd
<1> QED BY <1>1, Invariant, PTL
=============================================================================
