--------------------------- MODULE Uint256Proofs ---------------------------
(***************************************************************************)
(* The functions of uint256.c on limbs are those of integer arithmetic, for*)
(* every width of limbs and bytes: lemmas about the operators of Uint256.  *)
(***************************************************************************)
EXTENDS Uint256, FiniteSetTheorems, WellFoundedInduction, TLAPS

-----------------------------------------------------------------------------
(***************************************************************************)
(* Integers.                                                               *)
(***************************************************************************)

\* A set of natural numbers has a least member.
LEMMA LeastNat ==
    ASSUME NEW T, T \subseteq Nat, T # {}
    PROVE  \E x \in T : \A y \in T : x <= y
<1>1. IsWellFoundedOn(OpToRel(<, Nat), Nat)
  BY NatLessThanWellFounded
<1>2. PICK x \in T : \A y \in T : ~(<<y, x>> \in OpToRel(<, Nat))
  BY <1>1, WFMin
<1>3. ASSUME NEW y \in T PROVE x <= y
  <2>1. ~(<<y, x>> \in OpToRel(<, Nat))
    BY <1>2
  <2>2. ~(y < x)
    BY <2>1 DEF OpToRel
  <2> QED BY <2>2
<1> QED BY <1>3

LEMMA TimesMono ==
    ASSUME NEW a \in Int, NEW b \in Int, NEW c \in Nat, a <= b
    PROVE  a * c <= b * c
  OBVIOUS

LEMMA TimesNat ==
    ASSUME NEW a \in Nat, NEW b \in Nat
    PROVE  a * b \in Nat
  OBVIOUS

LEMMA TimesPos ==
    ASSUME NEW a \in Nat \ {0}, NEW b \in Nat \ {0}
    PROVE  a * b \in Nat \ {0} /\ a <= a * b /\ b <= a * b
<1>1. 1 * b <= a * b /\ 1 * a <= b * a
  BY TimesMono
<1>2. b * a = a * b /\ a * b \in Int
  OBVIOUS
<1> QED BY <1>1, <1>2

\* Quotient and remainder.
LEMMA DivMod ==
    ASSUME NEW n \in Int, NEW d \in Nat \ {0}
    PROVE  /\ n \div d \in Int /\ n % d \in Nat /\ n % d < d
           /\ n = (n \div d) * d + (n % d)
           /\ n \in Nat => n \div d \in Nat
<1> PICK q, r : q = n \div d /\ r = n % d
  OBVIOUS
<1>1. q \in Int /\ r \in Nat /\ r < d /\ n = d * q + r
  OBVIOUS
<1>2. n = q * d + r
  BY <1>1
<1>3. ASSUME n \in Nat PROVE q \in Nat
  <2>1. CASE q < 0
    <3>1. q * d <= (-1) * d
      BY <1>1, <2>1, TimesMono
    <3> QED BY <1>1, <1>2, <1>3, <3>1
  <2> QED BY <1>1, <2>1
<1> QED BY <1>1, <1>2, <1>3

LEMMA DivModIs ==
    ASSUME NEW d \in Nat \ {0}, NEW q \in Int, NEW r \in Nat, r < d
    PROVE  (q * d + r) \div d = q /\ (q * d + r) % d = r
<1> PICK n : n = q * d + r
  OBVIOUS
<1>0. n \in Int
  OBVIOUS
<1> PICK Q, R : Q = n \div d /\ R = n % d
  OBVIOUS
<1>1. Q \in Int /\ R \in Nat /\ R < d /\ n = Q * d + R
  BY <1>0, DivMod
<1>2. CASE Q < q
  <2>1. (Q + 1) * d <= q * d
    BY <1>1, <1>2, TimesMono
  <2>2. (Q + 1) * d = Q * d + d
    BY <1>1
  <2> QED BY <1>0, <1>1, <2>1, <2>2
<1>3. CASE Q > q
  <2>1. (q + 1) * d <= Q * d
    BY <1>1, <1>3, TimesMono
  <2>2. (q + 1) * d = q * d + d
    OBVIOUS
  <2> QED BY <1>0, <1>1, <2>1, <2>2
<1>4. Q = q
  BY <1>1, <1>2, <1>3
<1> QED BY <1>1, <1>4

\* The form that is used: n is what it is said to be.
LEMMA DivModOf ==
    ASSUME NEW d \in Nat \ {0}, NEW q \in Int, NEW r \in Nat, r < d, NEW n, n = q * d + r
    PROVE  n \div d = q /\ n % d = r
  BY DivModIs

LEMMA ModSmall ==
    ASSUME NEW d \in Nat \ {0}, NEW n \in Nat, n < d
    PROVE  n % d = n /\ n \div d = 0
<1>1. n = 0 * d + n
  OBVIOUS
<1> QED BY <1>1, DivModOf

LEMMA Divided ==
    ASSUME NEW n \in Int, NEW d \in Nat \ {0}
    PROVE  \E q \in Int, r \in Nat : r < d /\ n = q * d + r
  BY DivMod

LEMMA ModPlus ==
    ASSUME NEW d \in Nat \ {0}, NEW q \in Int, NEW n \in Int
    PROVE  (q * d + n) % d = n % d /\ (q * d + n) \div d = q + (n \div d)
<1>1. PICK p \in Int, r \in Nat : r < d /\ n = p * d + r
  BY Divided
<1>2. PICK s \in Int, m \in Int : s = q + p /\ m = q * d + n
  OBVIOUS
<1>3. m = s * d + r
  BY <1>1, <1>2
<1>4. m \div d = s /\ m % d = r
  BY <1>1, <1>3, DivModOf
<1>5. n \div d = p /\ n % d = r
  BY <1>1, DivModOf
<1> QED BY <1>2, <1>4, <1>5

\* Remainders of sums may be taken early.
LEMMA ModLeft ==
    ASSUME NEW d \in Nat \ {0}, NEW a \in Int, NEW b \in Int
    PROVE  ((a % d) + b) % d = (a + b) % d
<1>1. PICK p \in Int, r \in Nat : r < d /\ a = p * d + r
  BY Divided
<1>2. a % d = r
  BY <1>1, DivModOf
<1> PICK m : m = r + b
  OBVIOUS
<1>3. m \in Int /\ a + b = p * d + m
  BY <1>1
<1>4. (p * d + m) % d = m % d
  BY <1>3, ModPlus
<1> QED BY <1>2, <1>3, <1>4

LEMMA ModAdd ==
    ASSUME NEW d \in Nat \ {0}, NEW a \in Int, NEW b \in Int
    PROVE  ((a % d) + b) % d = (a + b) % d /\ (a + (b % d)) % d = (a + b) % d
<1> PICK r : r = b % d
  OBVIOUS
<1>1. r \in Int
  BY DivMod
<1>2. (r + a) % d = (b + a) % d
  BY ModLeft
<1>3. r + a = a + r /\ b + a = a + b
  BY <1>1
<1> QED BY <1>2, <1>3, ModLeft

\* Products of two moduli.
LEMMA Nested ==
    ASSUME NEW c \in Nat \ {0}, NEW d \in Nat \ {0}, NEW q \in Int,
           NEW s \in Nat, s < d, NEW r \in Nat, r < c
    PROVE  /\ s * c + r \in Nat /\ s * c + r < c * d
           /\ (q * d + s) * c + r = q * (c * d) + (s * c + r)
<1>1. (s + 1) * c <= d * c
  BY TimesMono
<1>2. (s + 1) * c = s * c + c /\ d * c = c * d /\ s * c \in Nat /\ c * d \in Nat
  OBVIOUS
<1>3. s * c + r \in Nat /\ s * c + r < c * d
  BY <1>1, <1>2
<1>4. (q * d + s) * c + r = q * (c * d) + (s * c + r)
  OBVIOUS
<1> QED BY <1>3, <1>4

LEMMA ModTimes ==
    ASSUME NEW c \in Nat \ {0}, NEW d \in Nat \ {0}, NEW n \in Int
    PROVE  (n * c) % (c * d) = (n % d) * c /\ (n * c) \div (c * d) = n \div d
<1>1. PICK p \in Int, r \in Nat : r < d /\ n = p * d + r
  BY Divided
<1>2. n \div d = p /\ n % d = r
  BY <1>1, DivModOf
<1>3. PICK e, m, t : e = c * d /\ m = n * c /\ t = r * c + 0
  OBVIOUS
<1>4. e \in Nat \ {0} /\ t \in Nat /\ t < e /\ (p * d + r) * c + 0 = p * e + t
  BY <1>1, <1>3, TimesPos, Nested
<1>5. m = p * e + t
  BY <1>1, <1>3, <1>4
<1>6. m \div e = p /\ m % e = t
  BY <1>4, <1>5, DivModOf
<1>7. t = r * c
  BY <1>1, <1>3
<1> QED BY <1>2, <1>3, <1>6, <1>7

LEMMA DivTimes ==
    ASSUME NEW c \in Nat \ {0}, NEW d \in Nat \ {0}, NEW n \in Int
    PROVE  /\ (n \div c) \div d = n \div (c * d)
           /\ n % (c * d) = ((n \div c) % d) * c + (n % c)
<1>1. PICK p \in Int, r \in Nat : r < c /\ n = p * c + r
  BY Divided
<1>2. PICK q \in Int, s \in Nat : s < d /\ p = q * d + s
  BY Divided
<1>3. n \div c = p /\ n % c = r /\ p \div d = q /\ p % d = s
  BY <1>1, <1>2, DivModOf
<1>4. PICK e, t : e = c * d /\ t = s * c + r
  OBVIOUS
<1>5. e \in Nat \ {0} /\ t \in Nat /\ t < e /\ (q * d + s) * c + r = q * e + t
  BY <1>1, <1>2, <1>4, TimesPos, Nested
<1>6. n = q * e + t
  BY <1>1, <1>2, <1>5
<1>7. n \div e = q /\ n % e = t
  BY <1>5, <1>6, DivModOf
<1> QED BY <1>3, <1>4, <1>7


-----------------------------------------------------------------------------
(***************************************************************************)
(* Powers of two.                                                          *)
(***************************************************************************)

\* f doubles up to n.
Doubles(n, f) == \A k \in 0..n : f[k] = IF k = 0 THEN 1 ELSE 2 * f[k - 1]

LEMMA DoublesExist ==
    ASSUME NEW n \in Nat
    PROVE  \E f : Doubles(n, f)
<1> DEFINE Bad == {m \in Nat : ~\E f : Doubles(m, f)}
<1> SUFFICES ASSUME Bad # {} PROVE FALSE
  OBVIOUS
<1>1. PICK m \in Bad : \A y \in Bad : m <= y
  <2>1. Bad \subseteq Nat
    OBVIOUS
  <2> HIDE DEF Bad
  <2> QED BY <2>1, LeastNat
<1>2. m \in Nat /\ ~\E f : Doubles(m, f)
  OBVIOUS
<1>3. CASE m = 0
  <2>1. Doubles(0, [k \in {0} |-> 1])
    BY DEF Doubles
  <2> QED BY <1>2, <1>3, <2>1
<1>4. CASE m # 0
  <2>1. m - 1 \in Nat /\ ~(m <= m - 1)
    BY <1>2, <1>4
  <2>2. PICK g : Doubles(m - 1, g)
    <3>1. m - 1 \notin Bad
      <4> HIDE DEF Bad
      <4> QED BY <1>1, <2>1
    <3> QED BY <2>1, <3>1
  <2> DEFINE f == [k \in 0..m |-> IF k = m THEN 2 * g[m - 1] ELSE g[k]]
  <2>3. ASSUME NEW k \in 0..m
        PROVE  f[k] = IF k = 0 THEN 1 ELSE 2 * f[k - 1]
    <3>1. CASE k = m
      BY <1>2, <1>4, <3>1
    <3>2. CASE k # m
      <4>1. k \in 0..(m - 1) /\ (k # 0 => k - 1 \in 0..m /\ k - 1 # m)
        BY <1>2, <3>2
      <4>2. g[k] = IF k = 0 THEN 1 ELSE 2 * g[k - 1]
        BY <2>2, <4>1 DEF Doubles
      <4> QED BY <3>2, <4>1, <4>2
    <3> QED BY <3>1, <3>2
  <2>4. Doubles(m, f)
    <3> HIDE DEF f
    <3> QED BY <2>3 DEF Doubles
  <2> QED BY <1>2, <2>4
<1> QED BY <1>3, <1>4

LEMMA DoublesAgree ==
    ASSUME NEW n \in Nat, NEW m \in Nat, NEW f, NEW g, Doubles(n, f), Doubles(m, g),
           NEW k \in Nat, k <= n, k <= m
    PROVE  f[k] = g[k]
<1> DEFINE Bad == {j \in 0..k : f[j] # g[j]}
<1> SUFFICES ASSUME Bad # {} PROVE FALSE
  OBVIOUS
<1>1. PICK j \in Bad : \A y \in Bad : j <= y
  <2>1. Bad \subseteq Nat
    OBVIOUS
  <2> HIDE DEF Bad
  <2> QED BY <2>1, LeastNat
<1>2. j \in 0..n /\ j \in 0..m /\ j \in 0..k /\ f[j] # g[j]
  OBVIOUS
<1>3. /\ f[j] = IF j = 0 THEN 1 ELSE 2 * f[j - 1]
      /\ g[j] = IF j = 0 THEN 1 ELSE 2 * g[j - 1]
  BY <1>2 DEF Doubles
<1>4. j # 0 => j - 1 \in 0..k /\ ~(j <= j - 1)
  BY <1>2
<1>5. j # 0 => f[j - 1] = g[j - 1]
  BY <1>1, <1>4
<1> QED BY <1>2, <1>3, <1>5

LEMMA Power2Def ==
    /\ Power2 = [k \in Nat |-> IF k = 0 THEN 1 ELSE 2 * Power2[k - 1]]
<1> DEFINE Sol(n) == CHOOSE f : Doubles(n, f)
           F == [k \in Nat |-> Sol(k)[k]]
<1>1. \A n \in Nat : Doubles(n, Sol(n))
  BY DoublesExist
<1>2. ASSUME NEW k \in Nat
      PROVE  F[k] = IF k = 0 THEN 1 ELSE 2 * F[k - 1]
  <2>1. F[k] = Sol(k)[k] /\ (k # 0 => F[k - 1] = Sol(k - 1)[k - 1])
    OBVIOUS
  <2>2. Doubles(k, Sol(k)) /\ (k # 0 => k - 1 \in Nat /\ Doubles(k - 1, Sol(k - 1)))
    BY <1>1
  <2> HIDE DEF Sol, F
  <2>3. Sol(k)[k] = IF k = 0 THEN 1 ELSE 2 * Sol(k)[k - 1]
    BY <2>2 DEF Doubles
  <2>4. k # 0 => Sol(k)[k - 1] = Sol(k - 1)[k - 1]
    <3> PICK f, g : f = Sol(k) /\ g = Sol(k - 1)
      OBVIOUS
    <3>1. ASSUME k # 0 PROVE f[k - 1] = g[k - 1]
      <4>1. k - 1 \in Nat /\ k - 1 <= k /\ k - 1 <= k - 1
        BY <3>1
      <4>2. Doubles(k, f) /\ Doubles(k - 1, g)
        BY <2>2, <3>1
      <4> QED BY <4>1, <4>2, DoublesAgree
    <3> QED BY <3>1
  <2> QED BY <2>1, <2>3, <2>4
<1>3. F = [k \in Nat |-> IF k = 0 THEN 1 ELSE 2 * F[k - 1]]
  <2>1. F = [k \in Nat |-> F[k]]
    OBVIOUS
  <2> HIDE DEF F
  <2> QED BY <1>2, <2>1
<1> HIDE DEF F
<1>4. \E f : f = [k \in Nat |-> IF k = 0 THEN 1 ELSE 2 * f[k - 1]]
  BY <1>3
<1> QED BY <1>4, Zenon DEF Power2

LEMMA Power2Step ==
    /\ Power2[0] = 1
    /\ \A k \in Nat : Power2[k + 1] = 2 * Power2[k]
<1> PICK f : f = Power2
  OBVIOUS
<1>1. f = [k \in Nat |-> IF k = 0 THEN 1 ELSE 2 * f[k - 1]]
  BY Power2Def
<1>2. \A k \in Nat : f[k] = IF k = 0 THEN 1 ELSE 2 * f[k - 1]
  BY <1>1, Zenon
<1>3. ASSUME NEW k \in Nat PROVE f[k + 1] = 2 * f[k]
  <2>1. k + 1 \in Nat /\ k + 1 # 0 /\ (k + 1) - 1 = k
    OBVIOUS
  <2> QED BY <1>2, <2>1
<1> QED BY <1>2, <1>3

LEMMA Power2Pos ==
    ASSUME NEW n \in Nat
    PROVE  Power2[n] \in Nat \ {0}
<1> DEFINE Bad == {m \in Nat : Power2[m] \notin Nat \ {0}}
<1> SUFFICES ASSUME Bad # {} PROVE FALSE
  OBVIOUS
<1>1. PICK m \in Bad : \A y \in Bad : m <= y
  <2>1. Bad \subseteq Nat
    OBVIOUS
  <2> HIDE DEF Bad
  <2> QED BY <2>1, LeastNat
<1>2. m \in Nat /\ Power2[m] \notin Nat \ {0}
  OBVIOUS
<1>3. m # 0
  BY <1>2, Power2Step
<1>4. m - 1 \in Nat /\ (m - 1) + 1 = m /\ ~(m <= m - 1)
  BY <1>2, <1>3
<1>5. Power2[m - 1] \in Nat \ {0}
  BY <1>1, <1>4
<1>6. Power2[m] = 2 * Power2[m - 1]
  <2>1. Power2[(m - 1) + 1] = 2 * Power2[m - 1]
    BY <1>4, Power2Step
  <2> QED BY <1>4, <2>1
<1> QED BY <1>2, <1>5, <1>6

LEMMA Power2Sum ==
    ASSUME NEW a \in Nat, NEW b \in Nat
    PROVE  Power2[a + b] = Power2[a] * Power2[b]
<1> DEFINE Bad == {m \in Nat : Power2[a + m] # Power2[a] * Power2[m]}
<1> SUFFICES ASSUME Bad # {} PROVE FALSE
  OBVIOUS
<1>1. PICK m \in Bad : \A y \in Bad : m <= y
  <2>1. Bad \subseteq Nat
    OBVIOUS
  <2> HIDE DEF Bad
  <2> QED BY <2>1, LeastNat
<1>2. m \in Nat /\ Power2[a + m] # Power2[a] * Power2[m]
  OBVIOUS
<1>3. Power2[a] \in Nat
  BY Power2Pos
<1>4. m # 0
  <2>1. a + 0 = a /\ Power2[0] = 1
    BY Power2Step
  <2> QED BY <1>2, <1>3, <2>1
<1>5. PICK l \in Nat : l = m - 1 /\ m = l + 1 /\ a + m = (a + l) + 1 /\ ~(m <= l)
  BY <1>2, <1>4
<1>6. Power2[a + l] = Power2[a] * Power2[l]
  BY <1>1, <1>5
<1>7. Power2[m] = 2 * Power2[l] /\ Power2[a + m] = 2 * Power2[a + l]
  BY <1>5, Power2Step
<1>8. PICK p, q, s, t : p = Power2[a] /\ q = Power2[l] /\ s = Power2[a + m] /\ t = Power2[m]
  OBVIOUS
<1>9. p \in Nat /\ q \in Nat
  BY <1>8, Power2Pos
<1>10. s = 2 * (p * q) /\ t = 2 * q
  BY <1>6, <1>7, <1>8
<1>11. s = p * t
  BY <1>9, <1>10
<1> QED BY <1>2, <1>8, <1>11

LEMMA Power2Mono ==
    ASSUME NEW a \in Nat, NEW b \in Nat, a <= b
    PROVE  /\ Power2[a] <= Power2[b]
           /\ a < b => 2 * Power2[a] <= Power2[b]
<1>1. PICK c \in Nat : b = a + c /\ c = b - a
  OBVIOUS
<1>2. PICK p, q, s : p = Power2[a] /\ q = Power2[c] /\ s = Power2[b]
  OBVIOUS
<1>3. p \in Nat \ {0} /\ q \in Nat \ {0} /\ s = p * q
  BY <1>1, <1>2, Power2Pos, Power2Sum
<1>4. p <= s
  BY <1>3, TimesPos
<1>5. ASSUME a < b PROVE 2 * p <= s
  <2>1. PICK e \in Nat : c = e + 1
    <3>1. c - 1 \in Nat /\ c = (c - 1) + 1
      BY <1>1, <1>5
    <3> QED BY <3>1
  <2>2. PICK r : r = Power2[e]
    OBVIOUS
  <2>3. r \in Nat \ {0} /\ q = 2 * r
    BY <1>2, <2>1, <2>2, Power2Pos, Power2Step
  <2>4. p <= p * r /\ p * r \in Nat
    BY <1>3, <2>3, TimesPos
  <2>5. s = 2 * (p * r)
    BY <1>3, <2>3
  <2> QED BY <1>3, <2>4, <2>5
<1> QED BY <1>2, <1>4, <1>5


-----------------------------------------------------------------------------
(***************************************************************************)
(* Numbers of two digits in radix R, the upper one below S.                *)
(***************************************************************************)
LEMMA PairRange ==
    ASSUME NEW R \in Nat \ {0}, NEW S \in Nat \ {0},
           NEW h \in 0..(S - 1), NEW l \in 0..(R - 1)
    PROVE  h * R + l \in 0..(S * R - 1)
<1>1. (h + 1) * R <= S * R
  BY TimesMono
<1>2. (h + 1) * R = h * R + R /\ h * R \in Nat /\ S * R \in Nat
  OBVIOUS
<1> QED BY <1>1, <1>2

LEMMA PairOrder ==
    ASSUME NEW R \in Nat \ {0}, NEW h \in Nat, NEW l \in 0..(R - 1),
           NEW k \in Nat, NEW m \in 0..(R - 1)
    PROVE  h * R + l < k * R + m <=> (h < k \/ (h = k /\ l < m))
<1>0. h * R \in Nat /\ k * R \in Nat
  OBVIOUS
<1>1. CASE h < k
  <2>1. (h + 1) * R <= k * R
    BY <1>1, TimesMono
  <2>2. (h + 1) * R = h * R + R
    OBVIOUS
  <2> QED BY <1>0, <1>1, <2>1, <2>2
<1>2. CASE h > k
  <2>1. (k + 1) * R <= h * R
    BY <1>2, TimesMono
  <2>2. (k + 1) * R = k * R + R
    OBVIOUS
  <2> QED BY <1>0, <1>2, <2>1, <2>2
<1>3. CASE h = k
  BY <1>0, <1>3
<1> QED BY <1>1, <1>2, <1>3

LEMMA PairEqual ==
    ASSUME NEW R \in Nat \ {0}, NEW h \in Nat, NEW l \in 0..(R - 1),
           NEW k \in Nat, NEW m \in 0..(R - 1)
    PROVE  h * R + l = k * R + m <=> (h = k /\ l = m)
<1>1. h * R + l < k * R + m <=> (h < k \/ (h = k /\ l < m))
  BY PairOrder
<1>2. k * R + m < h * R + l <=> (k < h \/ (k = h /\ m < l))
  BY PairOrder
<1>3. h * R + l \in Nat /\ k * R + m \in Nat
  OBVIOUS
<1> PICK v, w : v = h * R + l /\ w = k * R + m
  OBVIOUS
<1>4. v \in Nat /\ w \in Nat /\ (v < w <=> (h < k \/ (h = k /\ l < m)))
      /\ (w < v <=> (k < h \/ (k = h /\ m < l)))
  BY <1>1, <1>2, <1>3
<1>5. v = w <=> (h = k /\ l = m)
  BY <1>4
<1> QED BY <1>5

\* The digits after an addition, the carry noticed by the lower one.
Carries(R, l, m, low, c) == low = (l + m) % R /\ c = IF low < l THEN 1 ELSE 0

Sums(R, S, h, l, k, m, low, c) ==
    /\ low \in 0..(R - 1)
    /\ ((h + k + c) % S) * R + low = ((h * R + l) + (k * R + m)) % (S * R)

LEMMA PairAdd ==
    ASSUME NEW R \in Nat \ {0}, NEW S \in Nat \ {0},
           NEW h \in Int, NEW l \in 0..(R - 1), NEW k \in Int, NEW m \in 0..(R - 1),
           NEW low, NEW c, Carries(R, l, m, low, c)
    PROVE  Sums(R, S, h, l, k, m, low, c)
<1>0. low = (l + m) % R /\ c = IF low < l THEN 1 ELSE 0
  BY DEF Carries
<1>1. low \in 0..(R - 1) /\ c \in Nat /\ l + m = c * R + low
  <2>1. CASE l + m < R
    <3>1. low = l + m
      BY <1>0, <2>1, ModSmall
    <3> QED BY <1>0, <2>1, <3>1
  <2>2. CASE l + m >= R
    <3>1. PICK t : t = l + m - R
      OBVIOUS
    <3>2. PICK n : n = l + m
      OBVIOUS
    <3>6. PICK q \in Int : q = 1
      OBVIOUS
    <3>3. n = q * R + t /\ t \in Nat /\ t < R
      BY <2>2, <3>1, <3>2, <3>6
    <3>4. n % R = t
      BY <3>3, DivModOf
    <3>5. low = t
      BY <1>0, <3>2, <3>4
    <3> QED BY <1>0, <2>2, <3>1, <3>5
  <2> QED BY <2>1, <2>2
<1>10. PICK n : n = h + k + c
  OBVIOUS
<1>2. PICK q \in Int, s \in Nat : s < S /\ n = q * S + s
  <2>1. n \in Int
    BY <1>1, <1>10
  <2> QED BY <2>1, Divided
<1>3. n % S = s
  BY <1>2, DivModOf
<1>4. PICK e, t, v : e = R * S /\ t = s * R + low /\ v = (h * R + l) + (k * R + m)
  OBVIOUS
<1>5. e \in Nat \ {0} /\ t \in Nat /\ t < e /\ (q * S + s) * R + low = q * e + t
  BY <1>1, <1>2, <1>4, TimesPos, Nested
<1>6. v = n * R + low
  BY <1>1, <1>4, <1>10
<1>7. v = q * e + t
  BY <1>2, <1>5, <1>6
<1>8. v % e = t
  BY <1>2, <1>5, <1>7, DivModOf
<1>9. R * S = S * R
  OBVIOUS
<1> QED BY <1>1, <1>3, <1>4, <1>8, <1>9, <1>10 DEF Sums

\* After a subtraction, with its borrow.
Borrows(R, l, m, low, c) == low = (l - m) % R /\ c = IF low > l THEN 1 ELSE 0

Differs(R, S, h, l, k, m, low, c) ==
    /\ low \in 0..(R - 1)
    /\ (((h - k) - c) % S) * R + low = ((h * R + l) - (k * R + m)) % (S * R)

LEMMA PairMinus ==
    ASSUME NEW R \in Nat \ {0}, NEW S \in Nat \ {0},
           NEW h \in Int, NEW l \in 0..(R - 1), NEW k \in Int, NEW m \in 0..(R - 1),
           NEW low, NEW c, Borrows(R, l, m, low, c)
    PROVE  Differs(R, S, h, l, k, m, low, c)
<1>0. low = (l - m) % R /\ c = IF low > l THEN 1 ELSE 0
  BY DEF Borrows
<1>1. low \in 0..(R - 1) /\ c \in Nat /\ l - m = low - c * R
  <2>1. CASE l >= m
    <3>1. low = l - m
      BY <1>0, <2>1, ModSmall
    <3> QED BY <1>0, <2>1, <3>1
  <2>2. CASE l < m
    <3>1. PICK t : t = l - m + R
      OBVIOUS
    <3>2. PICK n : n = l - m
      OBVIOUS
    <3>6. PICK q \in Int : q = -1
      OBVIOUS
    <3>3. n = q * R + t /\ t \in Nat /\ t < R
      BY <2>2, <3>1, <3>2, <3>6
    <3>4. n % R = t
      BY <3>3, DivModOf
    <3>5. low = t
      BY <1>0, <3>2, <3>4
    <3> QED BY <1>0, <2>2, <3>1, <3>5
  <2> QED BY <2>1, <2>2
<1>2. PICK q \in Int, s \in Nat : s < S /\ (h - k) - c = q * S + s
  <2>1. (h - k) - c \in Int
    BY <1>1
  <2> QED BY <2>1, Divided
<1>3. ((h - k) - c) % S = s
  BY <1>2, DivModOf
<1>4. PICK e, t, v : e = R * S /\ t = s * R + low /\ v = (h * R + l) - (k * R + m)
  OBVIOUS
<1>5. e \in Nat \ {0} /\ t \in Nat /\ t < e /\ (q * S + s) * R + low = q * e + t
  BY <1>1, <1>2, <1>4, TimesPos, Nested
<1>6. v = ((h - k) - c) * R + low
  BY <1>1, <1>4
<1>7. v = q * e + t
  BY <1>2, <1>5, <1>6
<1>8. v % e = t
  BY <1>2, <1>5, <1>7, DivModOf
<1>9. R * S = S * R
  OBVIOUS
<1> QED BY <1>1, <1>3, <1>4, <1>8, <1>9 DEF Differs


-----------------------------------------------------------------------------
(***************************************************************************)
(* Limbs and numbers.                                                      *)
(***************************************************************************)
Square == Base * Base

LEMMA BaseFacts ==
    /\ LimbBits \in Nat /\ LimbBits >= 4
    /\ Base \in Nat \ {0} /\ Base >= 16
    /\ Square \in Nat \ {0} /\ Base <= Square
    /\ Modulus \in Nat \ {0} /\ Modulus = Square * Square /\ Square <= Modulus
<1>1. LimbBits \in Nat /\ LimbBits >= 4
  BY Uint256Assumption
<1>2. Power2[4] <= Base
  BY <1>1, Power2Mono DEF Base
<1>3. Power2[4] = 16
  <2>1. Power2[0 + 1] = 2 * Power2[0] /\ Power2[1 + 1] = 2 * Power2[1]
        /\ Power2[2 + 1] = 2 * Power2[2] /\ Power2[3 + 1] = 2 * Power2[3] /\ Power2[0] = 1
    BY Power2Step
  <2> QED BY <2>1
<1>4. Base \in Nat \ {0}
  BY <1>1, Power2Pos DEF Base
<1> PICK b : b = Base
  OBVIOUS
<1> PICK s : s = Square
  OBVIOUS
<1>5. s = b * b
  BY DEF Square
<1>6. s \in Nat \ {0} /\ b <= s
  BY <1>4, <1>5, TimesPos
<1>7. Modulus = s * s
  <2>1. Modulus = b * b * b * b
    BY DEF Modulus
  <2>2. b * b * b * b = (b * b) * (b * b)
    BY <1>4
  <2> QED BY <1>5, <2>1, <2>2
<1>8. s * s \in Nat \ {0} /\ s <= s * s
  BY <1>6, TimesPos
<1> QED BY <1>1, <1>2, <1>3, <1>4, <1>6, <1>7, <1>8

LEMMA Parts128 ==
    ASSUME NEW n \in Uint128
    PROVE  /\ UPPER(n) \in 0..(Base - 1) /\ LOWER(n) \in 0..(Base - 1)
           /\ n = <<UPPER(n), LOWER(n)>>
           /\ Value128(n) = UPPER(n) * Base + LOWER(n)
           /\ Value128(n) \in 0..(Square - 1)
<1>1. UPPER(n) \in 0..(Base - 1) /\ LOWER(n) \in 0..(Base - 1) /\ n = <<UPPER(n), LOWER(n)>>
  BY DEF Uint128, Limbs, UPPER, LOWER
<1> QED BY <1>1, PairRange, BaseFacts DEF Value128, Square

LEMMA Make128 ==
    ASSUME NEW h \in 0..(Base - 1), NEW l \in 0..(Base - 1)
    PROVE  /\ <<h, l>> \in Uint128 /\ UPPER(<<h, l>>) = h /\ LOWER(<<h, l>>) = l
           /\ Value128(<<h, l>>) = h * Base + l
           /\ Value128(<<h, l>>) \in 0..(Square - 1)
<1>1. <<h, l>> \in Uint128 /\ UPPER(<<h, l>>) = h /\ LOWER(<<h, l>>) = l
  BY DEF Uint128, Limbs, UPPER, LOWER
<1> QED BY <1>1, Parts128

LEMMA Parts256 ==
    ASSUME NEW n \in Uint256
    PROVE  /\ UPPER(n) \in Uint128 /\ LOWER(n) \in Uint128
           /\ n = <<UPPER(n), LOWER(n)>>
           /\ Value256(n) = Value128(UPPER(n)) * Square + Value128(LOWER(n))
           /\ Value256(n) \in 0..(Modulus - 1)
<1>1. UPPER(n) \in Uint128 /\ LOWER(n) \in Uint128 /\ n = <<UPPER(n), LOWER(n)>>
  BY DEF Uint256, UPPER, LOWER
<1>2. Value128(UPPER(n)) \in 0..(Square - 1) /\ Value128(LOWER(n)) \in 0..(Square - 1)
  BY <1>1, Parts128
<1> PICK h, l, v : h = Value128(UPPER(n)) /\ l = Value128(LOWER(n)) /\ v = Value256(n)
  OBVIOUS
<1>3. v = h * Square + l
  <2> PICK b : b = Base
    OBVIOUS
  <2>1. v = h * b * b + l
    BY DEF Value256
  <2>2. Square = b * b /\ b \in Nat
    BY BaseFacts DEF Square
  <2>3. h * b * b + l = h * (b * b) + l
    BY <1>2, <2>2
  <2> QED BY <2>1, <2>2, <2>3
<1>4. h * Square + l \in 0..(Square * Square - 1)
  <2> PICK s : s = Square
    OBVIOUS
  <2>1. s \in Nat \ {0} /\ h \in 0..(s - 1) /\ l \in 0..(s - 1)
    BY <1>2, BaseFacts
  <2>2. h * s + l \in 0..(s * s - 1)
    BY <2>1, PairRange
  <2> QED BY <2>2
<1> QED BY <1>1, <1>3, <1>4, BaseFacts

LEMMA Make256 ==
    ASSUME NEW h \in Uint128, NEW l \in Uint128
    PROVE  /\ <<h, l>> \in Uint256 /\ UPPER(<<h, l>>) = h /\ LOWER(<<h, l>>) = l
           /\ Value256(<<h, l>>) = Value128(h) * Square + Value128(l)
           /\ Value256(<<h, l>>) \in 0..(Modulus - 1)
<1>1. <<h, l>> \in Uint256 /\ UPPER(<<h, l>>) = h /\ LOWER(<<h, l>>) = l
  BY DEF Uint256, UPPER, LOWER
<1> QED BY <1>1, Parts256

LEMMA Clear ==
    /\ clear128 \in Uint128 /\ Value128(clear128) = 0
    /\ clear256 \in Uint256 /\ Value256(clear256) = 0
<1>1. 0 \in 0..(Base - 1) /\ 0 * Base + 0 = 0 /\ 0 * Square + 0 = 0
  BY BaseFacts
<1>2. clear128 \in Uint128 /\ Value128(clear128) = 0
  BY <1>1, Make128 DEF clear128
<1>3. clear256 \in Uint256 /\ Value256(clear256) = 0
  BY <1>1, <1>2, Make256 DEF clear256
<1> QED BY <1>2, <1>3

\* A number of one limb.
LEMMA OneLimb ==
    ASSUME NEW k \in 0..(Base - 1)
    PROVE  /\ <<0, k>> \in Uint128 /\ Value128(<<0, k>>) = k
           /\ <<clear128, <<0, k>>>> \in Uint256 /\ Value256(<<clear128, <<0, k>>>>) = k
<1>1. 0 \in 0..(Base - 1) /\ 0 * Base + k = k /\ 0 * Square + k = k
  BY BaseFacts
<1>2. <<0, k>> \in Uint128 /\ Value128(<<0, k>>) = k
  BY <1>1, Make128
<1> QED BY <1>1, <1>2, Clear, Make256

-----------------------------------------------------------------------------
(***************************************************************************)
(* Comparisons.                                                            *)
(***************************************************************************)
LEMMA Compare128 ==
    ASSUME NEW a \in Uint128, NEW b \in Uint128
    PROVE  /\ equal128(a, b) <=> Value128(a) = Value128(b)
           /\ equal128(a, b) <=> a = b
           /\ gt128(a, b) <=> Value128(a) > Value128(b)
           /\ zero128(a) <=> Value128(a) = 0
<1> PICK h, l, k, m : h = UPPER(a) /\ l = LOWER(a) /\ k = UPPER(b) /\ m = LOWER(b)
  OBVIOUS
<1>1. h \in 0..(Base - 1) /\ l \in 0..(Base - 1) /\ k \in 0..(Base - 1) /\ m \in 0..(Base - 1)
      /\ a = <<h, l>> /\ b = <<k, m>>
      /\ Value128(a) = h * Base + l /\ Value128(b) = k * Base + m
  BY Parts128
<1> PICK r, v, w : r = Base /\ v = Value128(a) /\ w = Value128(b)
  OBVIOUS
<1>2. r \in Nat \ {0} /\ h \in Nat /\ l \in 0..(r - 1) /\ k \in Nat /\ m \in 0..(r - 1)
      /\ v = h * r + l /\ w = k * r + m
  BY <1>1, BaseFacts
<1>3. v = w <=> (h = k /\ l = m)
  <2>1. v < w <=> (h < k \/ (h = k /\ l < m))
    BY <1>2, PairOrder
  <2>2. w < v <=> (k < h \/ (k = h /\ m < l))
    BY <1>2, PairOrder
  <2>3. v \in Nat /\ w \in Nat /\ h \in Nat /\ k \in Nat /\ l \in Nat /\ m \in Nat
    BY <1>2
  <2> QED BY <2>1, <2>2, <2>3
<1>4. w < v <=> (k < h \/ (k = h /\ m < l))
  BY <1>2, PairOrder
<1>5. v = 0 <=> (h = 0 /\ l = 0)
  <2>1. h * r + l = 0 * r + 0 <=> (h = 0 /\ l = 0)
    BY <1>2, PairEqual
  <2> QED BY <1>2, <2>1
<1>6. equal128(a, b) <=> (h = k /\ l = m)
  BY DEF equal128
<1>7. equal128(a, b) <=> a = b
  BY <1>1, <1>6
<1>8. gt128(a, b) <=> (k < h \/ (k = h /\ m < l))
  BY <1>2 DEF gt128
<1>9. zero128(a) <=> (h = 0 /\ l = 0)
  BY DEF zero128
<1>10. v \in Nat /\ w \in Nat
  BY <1>2
<1>11. v > w <=> w < v
  BY <1>10
<1> QED BY <1>3, <1>4, <1>5, <1>6, <1>7, <1>8, <1>9, <1>11

LEMMA Compare256 ==
    ASSUME NEW a \in Uint256, NEW b \in Uint256
    PROVE  /\ equal256(a, b) <=> Value256(a) = Value256(b)
           /\ equal256(a, b) <=> a = b
           /\ gt256(a, b) <=> Value256(a) > Value256(b)
           /\ gte256(a, b) <=> Value256(a) >= Value256(b)
           /\ zero256(a) <=> Value256(a) = 0
<1>1. UPPER(a) \in Uint128 /\ LOWER(a) \in Uint128 /\ UPPER(b) \in Uint128 /\ LOWER(b) \in Uint128
      /\ a = <<UPPER(a), LOWER(a)>> /\ b = <<UPPER(b), LOWER(b)>>
      /\ Value256(a) = Value128(UPPER(a)) * Square + Value128(LOWER(a))
      /\ Value256(b) = Value128(UPPER(b)) * Square + Value128(LOWER(b))
  BY Parts256
<1> PICK h, l, k, m : h = Value128(UPPER(a)) /\ l = Value128(LOWER(a))
                      /\ k = Value128(UPPER(b)) /\ m = Value128(LOWER(b))
  OBVIOUS
<1> PICK r, v, w : r = Square /\ v = Value256(a) /\ w = Value256(b)
  OBVIOUS
<1>2. r \in Nat \ {0} /\ h \in 0..(r - 1) /\ l \in 0..(r - 1) /\ k \in 0..(r - 1) /\ m \in 0..(r - 1)
      /\ v = h * r + l /\ w = k * r + m
  BY <1>1, BaseFacts, Parts128
<1>3. v = w <=> (h = k /\ l = m)
  <2>1. v < w <=> (h < k \/ (h = k /\ l < m))
    BY <1>2, PairOrder
  <2>2. w < v <=> (k < h \/ (k = h /\ m < l))
    BY <1>2, PairOrder
  <2>3. v \in Nat /\ w \in Nat /\ h \in Nat /\ k \in Nat /\ l \in Nat /\ m \in Nat
    BY <1>2
  <2> QED BY <2>1, <2>2, <2>3
<1>4. w < v <=> (k < h \/ (k = h /\ m < l))
  BY <1>2, PairOrder
<1>5. v = 0 <=> (h = 0 /\ l = 0)
  <2>1. h * r + l = 0 * r + 0 <=> (h = 0 /\ l = 0)
    BY <1>2, PairEqual
  <2> QED BY <1>2, <2>1
<1>6. equal256(a, b) <=> (h = k /\ l = m)
  BY <1>1, Compare128 DEF equal256
<1>7. equal256(a, b) <=> a = b
  BY <1>1, Compare128 DEF equal256
<1>8. gt256(a, b) <=> (k < h \/ (k = h /\ m < l))
  <2>1. equal128(UPPER(a), UPPER(b)) <=> h = k
    BY <1>1, Compare128
  <2>2. gt128(UPPER(a), UPPER(b)) <=> h > k
    BY <1>1, Compare128
  <2>3. gt128(LOWER(a), LOWER(b)) <=> l > m
    BY <1>1, Compare128
  <2>4. gt256(a, b) <=> IF h = k THEN l > m ELSE h > k
    BY <2>1, <2>2, <2>3 DEF gt256
  <2> QED BY <1>2, <2>4
<1>9. zero256(a) <=> (h = 0 /\ l = 0)
  BY <1>1, Compare128 DEF zero256
<1>10. v \in Nat /\ w \in Nat
  BY <1>2
<1>11. (v > w <=> w < v) /\ (v >= w <=> (w < v \/ v = w))
  BY <1>10
<1>12. gte256(a, b) <=> (gt256(a, b) \/ equal256(a, b))
  BY DEF gte256
<1> QED BY <1>3, <1>4, <1>5, <1>6, <1>7, <1>8, <1>9, <1>11, <1>12


-----------------------------------------------------------------------------
(***************************************************************************)
(* Sums and differences.                                                   *)
(***************************************************************************)
LEMMA Add128 ==
    ASSUME NEW a \in Uint128, NEW b \in Uint128
    PROVE  /\ add128(a, b) \in Uint128
           /\ Value128(add128(a, b)) = (Value128(a) + Value128(b)) % Square
<1> PICK h, l, k, m : h = UPPER(a) /\ l = LOWER(a) /\ k = UPPER(b) /\ m = LOWER(b)
  OBVIOUS
<1>1. h \in 0..(Base - 1) /\ l \in 0..(Base - 1) /\ k \in 0..(Base - 1) /\ m \in 0..(Base - 1)
      /\ Value128(a) = h * Base + l /\ Value128(b) = k * Base + m
  BY Parts128
<1> PICK low, c : low = (l + m) % Base /\ c = IF low < l THEN 1 ELSE 0
  OBVIOUS
<1>2. /\ low \in 0..(Base - 1)
      /\ ((h + k + c) % Base) * Base + low = ((h * Base + l) + (k * Base + m)) % (Base * Base)
  <2>0. Carries(Base, l, m, low, c)
    BY DEF Carries
  <2>2. h \in Int /\ k \in Int /\ l \in 0..(Base - 1) /\ m \in 0..(Base - 1)
    BY <1>1
  <2>1. Sums(Base, Base, h, l, k, m, low, c)
    BY <2>0, <2>2, BaseFacts, PairAdd
  <2> QED BY <2>1 DEF Sums
<1> PICK u : u = (h + k + c) % Base
  OBVIOUS
<1>3. add128(a, b) = <<u, low>>
  BY DEF add128, Bool
<1>4. u \in 0..(Base - 1)
  <2>1. h + k + c \in Int
    BY <1>1
  <2> QED BY <2>1, BaseFacts, DivMod
<1>5. <<u, low>> \in Uint128 /\ Value128(<<u, low>>) = u * Base + low
  BY <1>2, <1>4, Make128
<1> QED BY <1>1, <1>2, <1>3, <1>5 DEF Square

LEMMA Minus128 ==
    ASSUME NEW a \in Uint128, NEW b \in Uint128
    PROVE  /\ minus128(a, b) \in Uint128
           /\ Value128(minus128(a, b)) = (Value128(a) - Value128(b)) % Square
<1> PICK h, l, k, m : h = UPPER(a) /\ l = LOWER(a) /\ k = UPPER(b) /\ m = LOWER(b)
  OBVIOUS
<1>1. h \in 0..(Base - 1) /\ l \in 0..(Base - 1) /\ k \in 0..(Base - 1) /\ m \in 0..(Base - 1)
      /\ Value128(a) = h * Base + l /\ Value128(b) = k * Base + m
  BY Parts128
<1> PICK low, c : low = (l - m) % Base /\ c = IF low > l THEN 1 ELSE 0
  OBVIOUS
<1>2. /\ low \in 0..(Base - 1)
      /\ (((h - k) - c) % Base) * Base + low = ((h * Base + l) - (k * Base + m)) % (Base * Base)
  <2>0. Borrows(Base, l, m, low, c)
    BY DEF Borrows
  <2>2. h \in Int /\ k \in Int /\ l \in 0..(Base - 1) /\ m \in 0..(Base - 1)
    BY <1>1
  <2>1. Differs(Base, Base, h, l, k, m, low, c)
    BY <2>0, <2>2, BaseFacts, PairMinus
  <2> QED BY <2>1 DEF Differs
<1> PICK u : u = ((h - k) - c) % Base
  OBVIOUS
<1>3. minus128(a, b) = <<u, low>>
  BY DEF minus128, Bool
<1>4. u \in 0..(Base - 1)
  <2>1. (h - k) - c \in Int
    BY <1>1
  <2> QED BY <2>1, BaseFacts, DivMod
<1>5. <<u, low>> \in Uint128 /\ Value128(<<u, low>>) = u * Base + low
  BY <1>2, <1>4, Make128
<1> QED BY <1>1, <1>2, <1>3, <1>5 DEF Square

LEMMA Add256 ==
    ASSUME NEW a \in Uint256, NEW b \in Uint256
    PROVE  /\ add256(a, b) \in Uint256
           /\ Value256(add256(a, b)) = (Value256(a) + Value256(b)) % Modulus
<1>1. UPPER(a) \in Uint128 /\ LOWER(a) \in Uint128 /\ UPPER(b) \in Uint128 /\ LOWER(b) \in Uint128
      /\ Value256(a) = Value128(UPPER(a)) * Square + Value128(LOWER(a))
      /\ Value256(b) = Value128(UPPER(b)) * Square + Value128(LOWER(b))
  BY Parts256
<1> PICK h, l, k, m : h = Value128(UPPER(a)) /\ l = Value128(LOWER(a))
                      /\ k = Value128(UPPER(b)) /\ m = Value128(LOWER(b))
  OBVIOUS
<1>2. h \in 0..(Square - 1) /\ l \in 0..(Square - 1) /\ k \in 0..(Square - 1) /\ m \in 0..(Square - 1)
  BY <1>1, Parts128
<1> PICK lower, upper : lower = add128(LOWER(a), LOWER(b)) /\ upper = add128(UPPER(a), UPPER(b))
  OBVIOUS
<1>3. lower \in Uint128 /\ Value128(lower) = (l + m) % Square
      /\ upper \in Uint128 /\ Value128(upper) = (h + k) % Square
  BY <1>1, Add128
<1> PICK low, c : low = (l + m) % Square /\ c = IF low < l THEN 1 ELSE 0
  OBVIOUS
<1>4. /\ low \in 0..(Square - 1)
      /\ ((h + k + c) % Square) * Square + low
           = ((h * Square + l) + (k * Square + m)) % (Square * Square)
  <2>0. Carries(Square, l, m, low, c)
    BY DEF Carries
  <2>2. h \in Int /\ k \in Int /\ l \in 0..(Square - 1) /\ m \in 0..(Square - 1)
    BY <1>2
  <2>1. Sums(Square, Square, h, l, k, m, low, c)
    BY <2>0, <2>2, BaseFacts, PairAdd
  <2> QED BY <2>1 DEF Sums
<1> PICK top : top = IF gt128(LOWER(a), lower) THEN add128(upper, <<0, 1>>) ELSE upper
  OBVIOUS
<1>5. add256(a, b) = <<top, lower>>
  BY DEF add256
<1>6. top \in Uint128 /\ Value128(top) = (h + k + c) % Square
  <2>1. gt128(LOWER(a), lower) <=> l > low
    BY <1>1, <1>3, Compare128
  <2>2. l > low <=> low < l
    BY <1>2, <1>4
  <2>3. CASE low < l
    <3>1. <<0, 1>> \in Uint128 /\ Value128(<<0, 1>>) = 1
      <4>1. 1 \in 0..(Base - 1)
        BY BaseFacts
      <4> QED BY <4>1, OneLimb
    <3>2. top = add128(upper, <<0, 1>>)
      BY <2>1, <2>2, <2>3
    <3>3. top \in Uint128 /\ Value128(top) = (((h + k) % Square) + 1) % Square
      BY <1>3, <3>1, <3>2, Add128
    <3>4. (((h + k) % Square) + 1) % Square = (h + k + 1) % Square
      <4>1. h + k \in Int
        BY <1>2
      <4> QED BY <4>1, ModLeft, BaseFacts
    <3> QED BY <2>3, <3>3, <3>4
  <2>4. CASE ~(low < l)
    <3>1. top = upper /\ c = 0
      BY <2>1, <2>2, <2>4
    <3>2. h + k + 0 = h + k
      BY <1>2
    <3> QED BY <1>3, <3>1, <3>2
  <2> QED BY <2>3, <2>4
<1>7. <<top, lower>> \in Uint256 /\ Value256(<<top, lower>>) = Value128(top) * Square + Value128(lower)
  BY <1>3, <1>6, Make256
<1> QED BY <1>1, <1>3, <1>4, <1>5, <1>6, <1>7, BaseFacts

LEMMA Minus256 ==
    ASSUME NEW a \in Uint256, NEW b \in Uint256
    PROVE  /\ minus256(a, b) \in Uint256
           /\ Value256(minus256(a, b)) = (Value256(a) - Value256(b)) % Modulus
<1>1. UPPER(a) \in Uint128 /\ LOWER(a) \in Uint128 /\ UPPER(b) \in Uint128 /\ LOWER(b) \in Uint128
      /\ Value256(a) = Value128(UPPER(a)) * Square + Value128(LOWER(a))
      /\ Value256(b) = Value128(UPPER(b)) * Square + Value128(LOWER(b))
  BY Parts256
<1> PICK h, l, k, m : h = Value128(UPPER(a)) /\ l = Value128(LOWER(a))
                      /\ k = Value128(UPPER(b)) /\ m = Value128(LOWER(b))
  OBVIOUS
<1>2. h \in 0..(Square - 1) /\ l \in 0..(Square - 1) /\ k \in 0..(Square - 1) /\ m \in 0..(Square - 1)
  BY <1>1, Parts128
<1> PICK lower, upper : lower = minus128(LOWER(a), LOWER(b)) /\ upper = minus128(UPPER(a), UPPER(b))
  OBVIOUS
<1>3. lower \in Uint128 /\ Value128(lower) = (l - m) % Square
      /\ upper \in Uint128 /\ Value128(upper) = (h - k) % Square
  BY <1>1, Minus128
<1> PICK low, c : low = (l - m) % Square /\ c = IF low > l THEN 1 ELSE 0
  OBVIOUS
<1>4. /\ low \in 0..(Square - 1)
      /\ (((h - k) - c) % Square) * Square + low
           = ((h * Square + l) - (k * Square + m)) % (Square * Square)
  <2>0. Borrows(Square, l, m, low, c)
    BY DEF Borrows
  <2>2. h \in Int /\ k \in Int /\ l \in 0..(Square - 1) /\ m \in 0..(Square - 1)
    BY <1>2
  <2>1. Differs(Square, Square, h, l, k, m, low, c)
    BY <2>0, <2>2, BaseFacts, PairMinus
  <2> QED BY <2>1 DEF Differs
<1> PICK top : top = IF gt128(lower, LOWER(a)) THEN minus128(upper, <<0, 1>>) ELSE upper
  OBVIOUS
<1>5. minus256(a, b) = <<top, lower>>
  BY DEF minus256
<1>6. top \in Uint128 /\ Value128(top) = ((h - k) - c) % Square
  <2>1. gt128(lower, LOWER(a)) <=> low > l
    BY <1>1, <1>3, Compare128
  <2>3. CASE low > l
    <3>1. <<0, 1>> \in Uint128 /\ Value128(<<0, 1>>) = 1
      <4>1. 1 \in 0..(Base - 1)
        BY BaseFacts
      <4> QED BY <4>1, OneLimb
    <3>2. top = minus128(upper, <<0, 1>>)
      BY <2>1, <2>3
    <3>3. top \in Uint128 /\ Value128(top) = (((h - k) % Square) - 1) % Square
      BY <1>3, <3>1, <3>2, Minus128
    <3>4. (((h - k) % Square) - 1) % Square = ((h - k) - 1) % Square
      <4>1. PICK e, f : e = h - k /\ f = e % Square
        OBVIOUS
      <4>2. e \in Int
        BY <1>2, <4>1
      <4>5. f \in Int
        BY <4>1, <4>2, BaseFacts, DivMod
      <4>6. PICK o \in Int : o = -1
        OBVIOUS
      <4>3. ((e % Square) + o) % Square = (e + o) % Square
        BY <4>2, ModLeft, BaseFacts
      <4>4. f + o = f - 1 /\ e + o = e - 1
        BY <4>2, <4>5, <4>6
      <4> QED BY <4>1, <4>3, <4>4
    <3> QED BY <2>3, <3>3, <3>4
  <2>4. CASE ~(low > l)
    <3>1. top = upper /\ c = 0
      BY <2>1, <2>4
    <3>2. (h - k) - 0 = h - k
      BY <1>2
    <3> QED BY <1>3, <3>1, <3>2
  <2> QED BY <2>3, <2>4
<1>7. <<top, lower>> \in Uint256 /\ Value256(<<top, lower>>) = Value128(top) * Square + Value128(lower)
  BY <1>3, <1>6, Make256
<1> QED BY <1>1, <1>3, <1>4, <1>5, <1>6, <1>7, BaseFacts


-----------------------------------------------------------------------------
(***************************************************************************)
(* Shifts: of two digits in radix R by the factor P, where R = P * Q.      *)
(***************************************************************************)
Factors(R, P, Q) == P * Q = R

ShiftsUp(R, P, Q, h, l) ==
    /\ (l * P) % R \in 0..(R - 1)
    /\ ((((h * P) % R) + (l \div Q)) % R) * R + ((l * P) % R) = ((h * R + l) * P) % (R * R)

ShiftsDown(R, P, Q, h, l) ==
    /\ h \div P \in Nat /\ h \div P <= h
    /\ (h \div P) * R + ((((h * Q) % R) + (l \div P)) % R) = (h * R + l) \div P

LEMMA PairShiftUp ==
    ASSUME NEW P \in Nat \ {0}, NEW Q \in Nat \ {0}, NEW R \in Nat \ {0}, Factors(R, P, Q),
           NEW h \in Nat, NEW l \in 0..(R - 1)
    PROVE  ShiftsUp(R, P, Q, h, l)
<1>0. P * Q = R
  BY DEF Factors
<1>1. PICK s \in Int, t \in Nat : t < Q /\ l = s * Q + t
  <2>1. l \in Int
    OBVIOUS
  <2>2. l \div Q \in Int /\ l % Q \in Nat /\ l % Q < Q
        /\ l = (l \div Q) * Q + (l % Q)
    BY <2>1, DivMod
  <2> QED BY <2>2
<1>2. l \div Q = s
  BY <1>1, DivModOf
<1>3. PICK f : f = t * P
  OBVIOUS
<1>4. f \in Nat /\ f < R
  <2>1. (t + 1) * P <= Q * P
    BY <1>1, TimesMono
  <2>2. (t + 1) * P = t * P + P /\ Q * P = P * Q /\ t * P \in Nat
    BY <1>1
  <2> QED BY <1>0, <1>3, <2>1, <2>2
<1>5. PICK n : n = l * P
  OBVIOUS
<1>6. n = s * R + f
  <2>1. (s * Q + t) * P = s * (P * Q) + t * P
    BY <1>1
  <2> QED BY <1>0, <1>1, <1>3, <1>5, <2>1
<1>7. n % R = f
  BY <1>1, <1>4, <1>6, DivModOf
<1>8. PICK m : m = h * P
  OBVIOUS
<1>9. m \in Nat
  BY <1>8
<1>10. PICK v : v = m + s
  OBVIOUS
<1>11. PICK y \in Int, z \in Nat : z < R /\ v = y * R + z
  <2>1. v \in Int
    BY <1>1, <1>9, <1>10
  <2> QED BY <1>0, <2>1, Divided
<1>12. ((m % R) + s) % R = z
  <2>1. ((m % R) + s) % R = (m + s) % R
    <3>1. s \in Int /\ m \in Int
      BY <1>1, <1>9
    <3> QED BY <3>1, ModLeft
  <2>2. v % R = z
    BY <1>0, <1>11, DivModOf
  <2> QED BY <1>10, <2>1, <2>2
<1>13. PICK e, g, w : e = R * R /\ g = z * R + f /\ w = (h * R + l) * P
  OBVIOUS
<1>14. e \in Nat \ {0} /\ g \in Nat /\ g < e /\ (y * R + z) * R + f = y * e + g
  BY <1>0, <1>4, <1>11, <1>13, TimesPos, Nested
<1>15. w = v * R + f
  <2>1. w = (h * P) * R + l * P
    BY <1>0, <1>13
  <2>2. w = m * R + n
    BY <1>5, <1>8, <2>1
  <2>3. m * R + (s * R + f) = (m + s) * R + f
    BY <1>0, <1>1, <1>4, <1>9
  <2> QED BY <1>6, <1>10, <2>2, <2>3
<1>16. w = y * e + g
  BY <1>11, <1>14, <1>15
<1>17. w % e = g
  BY <1>11, <1>14, <1>16, DivModOf
<1>18. (l * P) % R = f /\ ((((h * P) % R) + (l \div Q)) % R) = z
  BY <1>2, <1>5, <1>7, <1>8, <1>12
<1>19. f \in 0..(R - 1)
  BY <1>0, <1>4
<1>20. z * R + f = ((h * R + l) * P) % (R * R)
  BY <1>13, <1>17
<1> QED BY <1>18, <1>19, <1>20 DEF ShiftsUp

LEMMA PairShiftDown ==
    ASSUME NEW P \in Nat \ {0}, NEW Q \in Nat \ {0}, NEW R \in Nat \ {0}, Factors(R, P, Q),
           NEW h \in Nat, NEW l \in 0..(R - 1)
    PROVE  ShiftsDown(R, P, Q, h, l)
<1>0. P * Q = R
  BY DEF Factors
<1>1. PICK s \in Int, t \in Nat : t < P /\ h = s * P + t
  <2>1. h \in Int
    OBVIOUS
  <2>2. h \div P \in Int /\ h % P \in Nat /\ h % P < P
        /\ h = (h \div P) * P + (h % P)
    BY <2>1, DivMod
  <2> QED BY <2>2
<1>2. h \div P = s
  BY <1>1, DivModOf
<1>3. s \in Nat
  BY <1>2, DivMod
<1>4. PICK a \in Int, b \in Nat : b < P /\ l = a * P + b
  <2>1. l \in Int
    OBVIOUS
  <2>2. l \div P \in Int /\ l % P \in Nat /\ l % P < P
        /\ l = (l \div P) * P + (l % P)
    BY <2>1, DivMod
  <2> QED BY <2>2
<1>5. l \div P = a
  BY <1>4, DivModOf
<1>6. a \in Nat
  BY <1>0, <1>5, DivMod
<1>7. a < Q
  <2>1. CASE a >= Q
    <3>1. Q * P <= a * P
      BY <1>6, <2>1, TimesMono
    <3>2. Q * P = P * Q /\ a * P \in Nat
      BY <1>6
    <3> QED BY <1>0, <1>4, <3>1, <3>2
  <2> QED BY <1>6, <2>1
<1>8. PICK f : f = t * Q + a
  OBVIOUS
<1>9. f \in Nat /\ f < R
  <2>1. (t + 1) * Q <= P * Q
    BY <1>1, TimesMono
  <2>2. (t + 1) * Q = t * Q + Q /\ t * Q \in Nat
    BY <1>1
  <2> QED BY <1>0, <1>6, <1>7, <1>8, <2>1, <2>2
<1>10. PICK n : n = h * Q
  OBVIOUS
<1>11. n \in Nat
  BY <1>10
<1>12. ((n % R) + a) % R = f
  <2>1. ((n % R) + a) % R = (n + a) % R
    <3>1. a \in Int /\ n \in Int
      BY <1>6, <1>11
    <3> QED BY <3>1, ModLeft
  <2>2. PICK v : v = n + a
    OBVIOUS
  <2>3. v = s * R + f
    <3>1. (s * P + t) * Q + a = s * (P * Q) + (t * Q + a)
      BY <1>1, <1>6
    <3> QED BY <1>0, <1>1, <1>8, <1>10, <2>2, <3>1
  <2>4. v % R = f
    BY <1>0, <1>1, <1>9, <2>3, DivModOf, ZenonT(40)
  <2> QED BY <2>1, <2>2, <2>4
<1>13. PICK w : w = h * R + l
  OBVIOUS
<1>14. PICK g : g = s * R + f
  OBVIOUS
<1>15. w = g * P + b
  <2>1. (s * P + t) * (P * Q) + (a * P + b) = (s * (P * Q) + (t * Q + a)) * P + b
    BY <1>1, <1>4
  <2> QED BY <1>0, <1>1, <1>4, <1>8, <1>13, <1>14, <2>1
<1>16. g \in Int
  BY <1>0, <1>1, <1>9, <1>14
<1>17. w \div P = g
  BY <1>4, <1>15, <1>16, DivModOf
<1>18. s <= h
  <2>1. s <= s * P
    <3>1. CASE s = 0
      BY <3>1
    <3>2. CASE s # 0
      BY <1>3, <3>2, TimesPos
    <3> QED BY <3>1, <3>2
  <2>2. s * P \in Nat
    BY <1>3
  <2> QED BY <1>1, <1>3, <2>1, <2>2
<1>19. (((h * Q) % R) + (l \div P)) % R = f
  BY <1>5, <1>10, <1>12
<1>20. s * R + f = (h * R + l) \div P
  BY <1>13, <1>14, <1>17
<1> QED BY <1>2, <1>3, <1>18, <1>19, <1>20 DEF ShiftsDown

\* Shifts by a digit and more.
ShiftsFar(R, P, h, l) ==
    /\ ((h * R + l) * (P * R)) % (R * R) = ((l * P) % R) * R
    /\ (h * R + l) \div (P * R) = h \div P

LEMMA PairShiftFar ==
    ASSUME NEW P \in Nat \ {0}, NEW R \in Nat \ {0}, NEW h \in Nat, NEW l \in 0..(R - 1)
    PROVE  ShiftsFar(R, P, h, l)
<1>0. PICK v : v = h * R + l
  OBVIOUS
<1>1. v \in Nat
  BY <1>0
<1>2. v % R = l /\ v \div R = h
  BY <1>0, DivModOf
<1>3. PICK n : n = v * P
  OBVIOUS
<1>4. n \in Nat /\ v * (P * R) = n * R
  BY <1>1, <1>3
<1>5. (n * R) % (R * R) = (n % R) * R
  <2>1. PICK c \in Nat \ {0} : c = R
    OBVIOUS
  <2>3. n \in Int
    BY <1>4
  <2>2. (n * c) % (c * R) = (n % R) * c
    BY <2>3, ModTimes
  <2> QED BY <2>1, <2>2
<1>6. n % R = (l * P) % R
  <2>1. PICK q, m : q = h * P /\ m = l * P
    OBVIOUS
  <2>2. q \in Int /\ m \in Int /\ n = q * R + m
    BY <1>0, <1>3, <2>1
  <2>3. (q * R + m) % R = m % R
    BY <2>2, ModPlus
  <2> QED BY <2>1, <2>2, <2>3
<1>7. (v \div R) \div P = v \div (R * P)
  <2>1. PICK w \in Nat : w = v
    BY <1>1
  <2>2. (w \div R) \div P = w \div (R * P)
    <3>1. w \in Int
      OBVIOUS
    <3> QED BY <3>1, DivTimes, Zenon
  <2> QED BY <2>1, <2>2
<1>8. R * P = P * R
  OBVIOUS
<1>9. (v * (P * R)) % (R * R) = ((l * P) % R) * R
  BY <1>4, <1>5, <1>6
<1>10. v \div (P * R) = h \div P
  BY <1>2, <1>7, <1>8
<1> QED BY <1>0, <1>9, <1>10 DEF ShiftsFar

\* Shifts of everything out.
LEMMA ShiftOut ==
    ASSUME NEW n \in Nat, NEW d \in Nat \ {0}, NEW P \in Nat \ {0}, n < d
    PROVE  (n * (d * P)) % d = 0 /\ n \div (d * P) = 0
<1>1. PICK e, q, m : e = d * P /\ q = n * P /\ m = n * (d * P)
  OBVIOUS
<1>2. e \in Nat \ {0} /\ d <= e /\ q \in Int /\ m = q * d + 0
  BY <1>1, TimesPos
<1>3. m % d = 0
  BY <1>2, DivModOf
<1>4. n \div e = 0
  BY <1>2, ModSmall
<1> QED BY <1>1, <1>3, <1>4


\* The powers the digits are made of.
LEMMA BasePowers ==
    /\ Power2[LimbBits] = Base /\ Power2[2 * LimbBits] = Square
    /\ Power2[4 * LimbBits] = Modulus
<1>1. LimbBits \in Nat /\ Square \in Nat /\ 2 * LimbBits \in Nat
  BY BaseFacts
<1>2. Power2[LimbBits] = Base
  BY DEF Base
<1>3. Power2[LimbBits + LimbBits] = Base * Base
  BY <1>1, <1>2, Power2Sum
<1>4. LimbBits + LimbBits = 2 * LimbBits
  BY <1>1
<1>5. Power2[2 * LimbBits] = Square
  BY <1>3, <1>4 DEF Square
<1>6. Power2[2 * LimbBits + 2 * LimbBits] = Square * Square
  BY <1>1, <1>5, Power2Sum
<1>7. 2 * LimbBits + 2 * LimbBits = 4 * LimbBits
  BY <1>1
<1> QED BY <1>2, <1>5, <1>6, <1>7, BaseFacts

\* A power below that of a radix divides it.
LEMMA PowerFactors ==
    ASSUME NEW n \in Nat, NEW k \in Nat, k <= n
    PROVE  /\ n - k \in Nat
           /\ Power2[k] \in Nat \ {0} /\ Power2[n - k] \in Nat \ {0} /\ Power2[n] \in Nat \ {0}
           /\ Factors(Power2[n], Power2[k], Power2[n - k])
           /\ Power2[n] = Power2[n - k] * Power2[k]
<1>1. n - k \in Nat /\ k + (n - k) = n /\ (n - k) + k = n
  OBVIOUS
<1>2. Power2[k + (n - k)] = Power2[k] * Power2[n - k]
  BY <1>1, Power2Sum
<1>3. Power2[(n - k) + k] = Power2[n - k] * Power2[k]
  BY <1>1, Power2Sum
<1> QED BY <1>1, <1>2, <1>3, Power2Pos DEF Factors

LEMMA Shiftl128 ==
    ASSUME NEW n \in Uint128, NEW k \in Nat
    PROVE  /\ shiftl128(n, k) \in Uint128
           /\ Value128(shiftl128(n, k)) = (Value128(n) * Power2[k]) % Square
<1> PICK h, l : h = UPPER(n) /\ l = LOWER(n)
  OBVIOUS
<1>1. h \in 0..(Base - 1) /\ l \in 0..(Base - 1) /\ Value128(n) = h * Base + l
      /\ Value128(n) \in 0..(Square - 1) /\ n = <<h, l>>
  BY Parts128
<1>0. Base \in Nat \ {0} /\ LimbBits \in Nat \ {0} /\ Square \in Nat \ {0} /\ Square = Base * Base
  BY BaseFacts DEF Square
<1>2. CASE k >= 2 * LimbBits
  <2>1. shiftl128(n, k) = clear128
    BY <1>0, <1>2 DEF shiftl128
  <2>2. Power2[k] = Square * Power2[k - 2 * LimbBits] /\ Power2[k - 2 * LimbBits] \in Nat \ {0}
    <3>1. PICK j \in Nat : j = 2 * LimbBits
      BY <1>0
    <3>2. j <= k
      BY <1>2, <3>1
    <3>3. Factors(Power2[k], Power2[j], Power2[k - j]) /\ Power2[k - j] \in Nat \ {0}
      BY <3>2, PowerFactors
    <3> QED BY <3>1, <3>3, BasePowers DEF Factors
  <2>3. PICK v \in Nat, P \in Nat \ {0} : v = Value128(n) /\ P = Power2[k - 2 * LimbBits]
    BY <1>1, <2>2
  <2>4. v < Square
    BY <1>0, <1>1, <2>3
  <2>5. (v * (Square * P)) % Square = 0
    BY <1>0, <2>4, ShiftOut, Zenon
  <2> QED BY <2>1, <2>2, <2>3, <2>5, Clear
<1>3. CASE k = LimbBits
  <2>1. shiftl128(n, k) = <<l, 0>>
    BY <1>0, <1>3 DEF shiftl128
  <2>2. <<l, 0>> \in Uint128 /\ Value128(<<l, 0>>) = l * Base + 0
    BY <1>0, <1>1, Make128
  <2>3. l * Base = (Value128(n) * Power2[k]) % Square
    <3>1. ShiftsFar(Base, 1, h, l)
      BY <1>0, <1>1, PairShiftFar
    <3>2. ((h * Base + l) * (1 * Base)) % (Base * Base) = ((l * 1) % Base) * Base
      BY <3>1 DEF ShiftsFar
    <3>3. l * 1 = l /\ 1 * Base = Base
      BY <1>0, <1>1
    <3>4. l % Base = l
      BY <1>0, <1>1, ModSmall
    <3> QED BY <1>0, <1>1, <1>3, <3>2, <3>3, <3>4, BasePowers
  <2>4. l * Base + 0 = l * Base
    BY <1>0, <1>1
  <2> QED BY <2>1, <2>2, <2>3, <2>4
<1>4. CASE k = 0
  <2>1. shiftl128(n, k) = n
    BY <1>0, <1>4 DEF shiftl128
  <2>2. Value128(n) * Power2[k] = Value128(n)
    BY <1>0, <1>1, <1>4, Power2Step
  <2>3. Value128(n) % Square = Value128(n)
    BY <1>0, <1>1, ModSmall
  <2> QED BY <2>1, <2>2, <2>3
<1>5. CASE 0 < k /\ k < LimbBits
  <2>1. shiftl128(n, k) = <<(Shl(h, k) + Shr(l, LimbBits - k)) % Base, Shl(l, k)>>
    BY <1>0, <1>5 DEF shiftl128
  <2>2. PICK P \in Nat \ {0}, Q \in Nat \ {0} :
           P = Power2[k] /\ Q = Power2[LimbBits - k] /\ Factors(Base, P, Q)
    <3>1. k <= LimbBits
      BY <1>0, <1>5
    <3>2. Power2[k] \in Nat \ {0} /\ Power2[LimbBits - k] \in Nat \ {0}
          /\ Factors(Power2[LimbBits], Power2[k], Power2[LimbBits - k])
      BY <1>0, <3>1, PowerFactors
    <3> QED BY <3>2, BasePowers
  <2>3. ShiftsUp(Base, P, Q, h, l)
    <3>1. Base \in Nat \ {0} /\ h \in Nat /\ l \in 0..(Base - 1) /\ Factors(Base, P, Q)
      BY <1>0, <1>1, <2>2
    <3> QED BY <3>1, PairShiftUp
  <2>4. PICK u, m : u = (((h * P) % Base) + (l \div Q)) % Base /\ m = (l * P) % Base
    OBVIOUS
  <2>5. shiftl128(n, k) = <<u, m>>
    BY <2>1, <2>2, <2>4 DEF Shl, Shr
  <2>6. m \in 0..(Base - 1) /\ u * Base + m = ((h * Base + l) * P) % (Base * Base)
    BY <2>3, <2>4 DEF ShiftsUp
  <2>7. u \in 0..(Base - 1)
    <3>1. h * P \in Int /\ l \in Int
      BY <1>1
    <3>2. (h * P) % Base \in Int /\ l \div Q \in Int
      BY <1>0, <3>1, DivMod
    <3>3. ((h * P) % Base) + (l \div Q) \in Int
      BY <3>2
    <3> QED BY <1>0, <2>4, <3>3, DivMod
  <2>8. <<u, m>> \in Uint128 /\ Value128(<<u, m>>) = u * Base + m
    BY <2>6, <2>7, Make128
  <2> QED BY <1>0, <1>1, <2>2, <2>5, <2>6, <2>8
<1>6. CASE k > LimbBits /\ k < 2 * LimbBits
  <2>1. shiftl128(n, k) = <<Shl(l, k - LimbBits), 0>>
    BY <1>0, <1>6 DEF shiftl128
  <2>2. PICK P \in Nat \ {0} : P = Power2[k - LimbBits] /\ Power2[k] = P * Base
    <3>1. PICK j \in Nat : j = LimbBits
      BY <1>0
    <3>2. j <= k
      BY <1>6, <3>1
    <3>3. Power2[k] = Power2[k - j] * Power2[j] /\ Power2[k - j] \in Nat \ {0}
      BY <3>2, PowerFactors
    <3> QED BY <3>1, <3>3, BasePowers
  <2>3. ShiftsFar(Base, P, h, l)
    BY <1>0, <1>1, PairShiftFar
  <2>4. PICK m : m = (l * P) % Base
    OBVIOUS
  <2>5. m * Base = ((h * Base + l) * (P * Base)) % (Base * Base)
    BY <2>3, <2>4 DEF ShiftsFar
  <2>6. shiftl128(n, k) = <<m, 0>>
    BY <2>1, <2>2, <2>4 DEF Shl
  <2>7. m \in 0..(Base - 1)
    <3>1. l * P \in Int
      BY <1>1
    <3> QED BY <1>0, <2>4, <3>1, DivMod
  <2>8. <<m, 0>> \in Uint128 /\ Value128(<<m, 0>>) = m * Base + 0
    BY <1>0, <2>7, Make128
  <2>9. m * Base + 0 = m * Base
    BY <1>0, <2>7
  <2> QED BY <1>0, <1>1, <2>2, <2>5, <2>6, <2>8, <2>9
<1> QED BY <1>0, <1>2, <1>3, <1>4, <1>5, <1>6

LEMMA Shiftr128 ==
    ASSUME NEW n \in Uint128, NEW k \in Nat
    PROVE  /\ shiftr128(n, k) \in Uint128
           /\ Value128(shiftr128(n, k)) = Value128(n) \div Power2[k]
<1> PICK h, l : h = UPPER(n) /\ l = LOWER(n)
  OBVIOUS
<1>1. h \in 0..(Base - 1) /\ l \in 0..(Base - 1) /\ Value128(n) = h * Base + l
      /\ Value128(n) \in 0..(Square - 1) /\ n = <<h, l>>
  BY Parts128
<1>0. Base \in Nat \ {0} /\ LimbBits \in Nat \ {0} /\ Square \in Nat \ {0} /\ Square = Base * Base
  BY BaseFacts DEF Square
<1>2. CASE k >= 2 * LimbBits
  <2>1. shiftr128(n, k) = clear128
    BY <1>0, <1>2 DEF shiftr128
  <2>2. Power2[k] = Square * Power2[k - 2 * LimbBits] /\ Power2[k - 2 * LimbBits] \in Nat \ {0}
    <3>1. PICK j \in Nat : j = 2 * LimbBits
      BY <1>0
    <3>2. j <= k
      BY <1>2, <3>1
    <3>3. Factors(Power2[k], Power2[j], Power2[k - j]) /\ Power2[k - j] \in Nat \ {0}
      BY <3>2, PowerFactors
    <3> QED BY <3>1, <3>3, BasePowers DEF Factors
  <2>3. PICK v \in Nat, P \in Nat \ {0} : v = Value128(n) /\ P = Power2[k - 2 * LimbBits]
    BY <1>1, <2>2
  <2>4. v < Square
    BY <1>0, <1>1, <2>3
  <2>5. v \div (Square * P) = 0
    BY <1>0, <2>4, ShiftOut, Zenon
  <2> QED BY <2>1, <2>2, <2>3, <2>5, Clear
<1>3. CASE k = LimbBits
  <2>1. shiftr128(n, k) = <<0, h>>
    BY <1>0, <1>3 DEF shiftr128
  <2>2. <<0, h>> \in Uint128 /\ Value128(<<0, h>>) = h
    BY <1>1, OneLimb
  <2>3. h = Value128(n) \div Power2[k]
    BY <1>0, <1>1, <1>3, BasePowers, DivModOf
  <2> QED BY <2>1, <2>2, <2>3
<1>4. CASE k = 0
  <2>1. shiftr128(n, k) = n
    BY <1>0, <1>4 DEF shiftr128
  <2>2. Value128(n) \div Power2[k] = Value128(n)
    BY <1>0, <1>1, <1>4, Power2Step
  <2> QED BY <2>1, <2>2
<1>5. CASE 0 < k /\ k < LimbBits
  <2>1. shiftr128(n, k) = <<Shr(h, k), (Shl(h, LimbBits - k) + Shr(l, k)) % Base>>
    BY <1>0, <1>5 DEF shiftr128
  <2>2. PICK P \in Nat \ {0}, Q \in Nat \ {0} :
           P = Power2[k] /\ Q = Power2[LimbBits - k] /\ Factors(Base, P, Q)
    <3>1. k <= LimbBits
      BY <1>0, <1>5
    <3>2. Power2[k] \in Nat \ {0} /\ Power2[LimbBits - k] \in Nat \ {0}
          /\ Factors(Power2[LimbBits], Power2[k], Power2[LimbBits - k])
      BY <1>0, <3>1, PowerFactors
    <3> QED BY <3>2, BasePowers
  <2>3. ShiftsDown(Base, P, Q, h, l)
    <3>1. Base \in Nat \ {0} /\ h \in Nat /\ l \in 0..(Base - 1) /\ Factors(Base, P, Q)
      BY <1>0, <1>1, <2>2
    <3> QED BY <3>1, PairShiftDown
  <2>4. PICK u, m : u = h \div P /\ m = (((h * Q) % Base) + (l \div P)) % Base
    OBVIOUS
  <2>5. shiftr128(n, k) = <<u, m>>
    BY <2>1, <2>2, <2>4 DEF Shl, Shr
  <2>6. u \in Nat /\ u <= h /\ u * Base + m = (h * Base + l) \div P
    BY <2>3, <2>4 DEF ShiftsDown
  <2>7. m \in 0..(Base - 1)
    <3>1. h * Q \in Int /\ l \in Int
      BY <1>1
    <3>2. (h * Q) % Base \in Int /\ l \div P \in Int
      BY <1>0, <3>1, DivMod
    <3>3. ((h * Q) % Base) + (l \div P) \in Int
      BY <3>2
    <3> QED BY <1>0, <2>4, <3>3, DivMod
  <2>9. u \in 0..(Base - 1)
    <3>1. h \in 0..(Base - 1) /\ u \in Nat /\ u <= h
      BY <1>1, <2>6
    <3> QED BY <1>0, <3>1
  <2>8. <<u, m>> \in Uint128 /\ Value128(<<u, m>>) = u * Base + m
    BY <2>7, <2>9, Make128
  <2> QED BY <1>0, <1>1, <2>2, <2>5, <2>6, <2>8
<1>6. CASE k > LimbBits /\ k < 2 * LimbBits
  <2>1. shiftr128(n, k) = <<0, Shr(h, k - LimbBits)>>
    BY <1>0, <1>6 DEF shiftr128
  <2>2. PICK P \in Nat \ {0} : P = Power2[k - LimbBits] /\ Power2[k] = P * Base
    <3>1. PICK j \in Nat : j = LimbBits
      BY <1>0
    <3>2. j <= k
      BY <1>6, <3>1
    <3>3. Power2[k] = Power2[k - j] * Power2[j] /\ Power2[k - j] \in Nat \ {0}
      BY <3>2, PowerFactors
    <3> QED BY <3>1, <3>3, BasePowers
  <2>3. ShiftsFar(Base, P, h, l)
    BY <1>0, <1>1, PairShiftFar
  <2>4. PICK m : m = h \div P
    OBVIOUS
  <2>5. m = (h * Base + l) \div (P * Base)
    BY <2>3, <2>4 DEF ShiftsFar
  <2>6. shiftr128(n, k) = <<0, m>>
    BY <2>1, <2>2, <2>4 DEF Shr
  <2>7. m \in 0..(Base - 1)
    <3>1. h \in Nat
      BY <1>1
    <3>2. PICK t \in Nat : h = m * P + t /\ m \in Nat
      <4>1. h = (h \div P) * P + (h % P) /\ h \div P \in Nat /\ h % P \in Nat
        BY <3>1, DivMod
      <4> QED BY <2>4, <4>1
    <3>3. m <= m * P /\ m * P \in Nat
      <4>1. CASE m = 0
        BY <4>1
      <4>2. CASE m # 0
        BY <3>2, <4>2, TimesPos
      <4> QED BY <4>1, <4>2
    <3>4. m <= h
      BY <3>1, <3>2, <3>3
    <3>5. h <= Base - 1
      BY <1>1
    <3> QED BY <1>0, <3>1, <3>2, <3>4, <3>5
  <2>8. <<0, m>> \in Uint128 /\ Value128(<<0, m>>) = m
    BY <2>7, OneLimb
  <2> QED BY <1>0, <1>1, <2>2, <2>5, <2>6, <2>8
<1> QED BY <1>0, <1>2, <1>3, <1>4, <1>5, <1>6


LEMMA Shiftl256 ==
    ASSUME NEW n \in Uint256, NEW k \in Nat
    PROVE  /\ shiftl256(n, k) \in Uint256
           /\ Value256(shiftl256(n, k)) = (Value256(n) * Power2[k]) % Modulus
<1> PICK x, y, h, l : x = UPPER(n) /\ y = LOWER(n) /\ h = Value128(x) /\ l = Value128(y)
  OBVIOUS
<1>1. x \in Uint128 /\ y \in Uint128 /\ n = <<x, y>> /\ n \in Uint256
      /\ h \in 0..(Square - 1) /\ l \in 0..(Square - 1) /\ Value256(n) = h * Square + l
      /\ Value256(n) \in 0..(Modulus - 1)
  BY Parts256, Parts128
<1>0. Square \in Nat \ {0} /\ LimbBits \in Nat \ {0} /\ Modulus \in Nat \ {0}
      /\ Modulus = Square * Square
  BY BaseFacts
<1>2. CASE k >= 4 * LimbBits
  <2>1. shiftl256(n, k) = clear256
    BY <1>0, <1>2 DEF shiftl256
  <2>2. Power2[k] = Modulus * Power2[k - 4 * LimbBits] /\ Power2[k - 4 * LimbBits] \in Nat \ {0}
    <3>1. PICK j \in Nat : j = 4 * LimbBits
      BY <1>0
    <3>2. j <= k
      BY <1>2, <3>1
    <3>3. Factors(Power2[k], Power2[j], Power2[k - j]) /\ Power2[k - j] \in Nat \ {0}
      BY <3>2, PowerFactors
    <3> QED BY <3>1, <3>3, BasePowers DEF Factors
  <2>3. PICK v \in Nat, P \in Nat \ {0} : v = Value256(n) /\ P = Power2[k - 4 * LimbBits]
    BY <1>1, <2>2
  <2>4. v < Modulus
    BY <1>0, <1>1, <2>3
  <2>5. (v * (Modulus * P)) % Modulus = 0
    BY <1>0, <2>4, ShiftOut, Zenon
  <2> QED BY <2>1, <2>2, <2>3, <2>5, Clear
<1>3. CASE k = 2 * LimbBits
  <2>1. shiftl256(n, k) = <<y, clear128>>
    BY <1>0, <1>3 DEF shiftl256
  <2>2. <<y, clear128>> \in Uint256 /\ Value256(<<y, clear128>>) = l * Square + 0
    BY <1>1, Clear, Make256
  <2>3. l * Square = (Value256(n) * Power2[k]) % Modulus
    <3>1. ShiftsFar(Square, 1, h, l)
      BY <1>0, <1>1, PairShiftFar
    <3>2. ((h * Square + l) * (1 * Square)) % (Square * Square) = ((l * 1) % Square) * Square
      BY <3>1 DEF ShiftsFar
    <3>3. l * 1 = l /\ 1 * Square = Square
      BY <1>0, <1>1
    <3>4. l % Square = l
      BY <1>0, <1>1, ModSmall
    <3> QED BY <1>0, <1>1, <1>3, <3>2, <3>3, <3>4, BasePowers
  <2>4. l * Square + 0 = l * Square
    BY <1>0, <1>1
  <2> QED BY <2>1, <2>2, <2>3, <2>4
<1>4. CASE k = 0
  <2>1. shiftl256(n, k) = n
    BY <1>0, <1>4 DEF shiftl256
  <2>2. Value256(n) * Power2[k] = Value256(n)
    BY <1>0, <1>1, <1>4, Power2Step
  <2>3. Value256(n) % Modulus = Value256(n)
    <3>1. PICK v \in Nat : v = Value256(n) /\ v < Modulus
      BY <1>0, <1>1
    <3>2. v % Modulus = v
      BY <1>0, <3>1, ModSmall
    <3> QED BY <3>1, <3>2
  <2> QED BY <1>1, <2>1, <2>2, <2>3
<1>5. CASE 0 < k /\ k < 2 * LimbBits
  <2>1. shiftl256(n, k)
          = <<add128(shiftl128(x, k), shiftr128(y, 2 * LimbBits - k)), shiftl128(y, k)>>
    BY <1>0, <1>5 DEF shiftl256
  <2>9. PICK j \in Nat : j = 2 * LimbBits - k
    BY <1>0, <1>5
  <2>2. PICK P \in Nat \ {0}, Q \in Nat \ {0} :
           P = Power2[k] /\ Q = Power2[j] /\ Factors(Square, P, Q)
    <3>1. k <= 2 * LimbBits /\ 2 * LimbBits \in Nat
      BY <1>0, <1>5
    <3>2. Power2[k] \in Nat \ {0} /\ Power2[2 * LimbBits - k] \in Nat \ {0}
          /\ Factors(Power2[2 * LimbBits], Power2[k], Power2[2 * LimbBits - k])
      BY <3>1, PowerFactors
    <3> QED BY <2>9, <3>2, BasePowers
  <2>3. ShiftsUp(Square, P, Q, h, l)
    <3>1. Square \in Nat \ {0} /\ h \in Nat /\ l \in 0..(Square - 1) /\ Factors(Square, P, Q)
      BY <1>0, <1>1, <2>2
    <3> QED BY <3>1, PairShiftUp
  <2>4. PICK a, b, c, u : a = shiftl128(x, k) /\ b = shiftr128(y, j) /\ c = shiftl128(y, k)
                          /\ u = add128(a, b)
    OBVIOUS
  <2>5. shiftl256(n, k) = <<u, c>>
    BY <2>1, <2>4, <2>9
  <2>6. a \in Uint128 /\ Value128(a) = (h * P) % Square /\ c \in Uint128 /\ Value128(c) = (l * P) % Square
    BY <1>1, <2>2, <2>4, Shiftl128
  <2>7. b \in Uint128 /\ Value128(b) = l \div Q
    BY <1>1, <2>2, <2>4, <2>9, Shiftr128
  <2>8. u \in Uint128 /\ Value128(u) = (((h * P) % Square) + (l \div Q)) % Square
    <3>1. u \in Uint128 /\ Value128(u) = (Value128(a) + Value128(b)) % Square
      BY <2>4, <2>6, <2>7, Add128
    <3> QED BY <2>6, <2>7, <3>1
  <2>10. Value128(u) * Square + Value128(c) = ((h * Square + l) * P) % (Square * Square)
    BY <2>3, <2>6, <2>8 DEF ShiftsUp
  <2>11. <<u, c>> \in Uint256 /\ Value256(<<u, c>>) = Value128(u) * Square + Value128(c)
    BY <2>6, <2>8, Make256
  <2> QED BY <1>0, <1>1, <2>2, <2>5, <2>10, <2>11
<1>6. CASE k > 2 * LimbBits /\ k < 4 * LimbBits
  <2>1. shiftl256(n, k) = <<shiftl128(y, k - 2 * LimbBits), clear128>>
    BY <1>0, <1>6 DEF shiftl256
  <2>9. PICK j \in Nat : j = k - 2 * LimbBits
    BY <1>0, <1>6
  <2>2. PICK P \in Nat \ {0} : P = Power2[j] /\ Power2[k] = P * Square
    <3>1. PICK i \in Nat : i = 2 * LimbBits
      BY <1>0
    <3>2. i <= k
      BY <1>6, <3>1
    <3>3. Power2[k] = Power2[k - i] * Power2[i] /\ Power2[k - i] \in Nat \ {0}
      BY <3>2, PowerFactors
    <3> QED BY <2>9, <3>1, <3>3, BasePowers
  <2>3. ShiftsFar(Square, P, h, l)
    BY <1>0, <1>1, PairShiftFar
  <2>4. PICK c : c = shiftl128(y, j)
    OBVIOUS
  <2>6. c \in Uint128 /\ Value128(c) = (l * P) % Square
    BY <1>1, <2>2, <2>4, <2>9, Shiftl128
  <2>5. Value128(c) * Square = ((h * Square + l) * (P * Square)) % (Square * Square)
    BY <2>3, <2>6 DEF ShiftsFar
  <2>7. shiftl256(n, k) = <<c, clear128>>
    BY <2>1, <2>4, <2>9
  <2>8. <<c, clear128>> \in Uint256 /\ Value256(<<c, clear128>>) = Value128(c) * Square + 0
    BY <2>6, Clear, Make256
  <2>10. Value128(c) * Square + 0 = Value128(c) * Square
    <3>1. Value128(c) \in Nat
      BY <2>6, Parts128
    <3> QED BY <1>0, <3>1
  <2> QED BY <1>0, <1>1, <2>2, <2>5, <2>7, <2>8, <2>10
<1> QED BY <1>0, <1>2, <1>3, <1>4, <1>5, <1>6

LEMMA Shiftr256 ==
    ASSUME NEW n \in Uint256, NEW k \in Nat
    PROVE  /\ shiftr256(n, k) \in Uint256
           /\ Value256(shiftr256(n, k)) = Value256(n) \div Power2[k]
<1> PICK x, y, h, l : x = UPPER(n) /\ y = LOWER(n) /\ h = Value128(x) /\ l = Value128(y)
  OBVIOUS
<1>1. x \in Uint128 /\ y \in Uint128 /\ n = <<x, y>> /\ n \in Uint256
      /\ h \in 0..(Square - 1) /\ l \in 0..(Square - 1) /\ Value256(n) = h * Square + l
      /\ Value256(n) \in 0..(Modulus - 1)
  BY Parts256, Parts128
<1>0. Square \in Nat \ {0} /\ LimbBits \in Nat \ {0} /\ Modulus \in Nat \ {0}
      /\ Modulus = Square * Square
  BY BaseFacts
<1>2. CASE k >= 4 * LimbBits
  <2>1. shiftr256(n, k) = clear256
    BY <1>0, <1>2 DEF shiftr256
  <2>2. Power2[k] = Modulus * Power2[k - 4 * LimbBits] /\ Power2[k - 4 * LimbBits] \in Nat \ {0}
    <3>1. PICK j \in Nat : j = 4 * LimbBits
      BY <1>0
    <3>2. j <= k
      BY <1>2, <3>1
    <3>3. Factors(Power2[k], Power2[j], Power2[k - j]) /\ Power2[k - j] \in Nat \ {0}
      BY <3>2, PowerFactors
    <3> QED BY <3>1, <3>3, BasePowers DEF Factors
  <2>3. PICK v \in Nat, P \in Nat \ {0} : v = Value256(n) /\ P = Power2[k - 4 * LimbBits]
    BY <1>1, <2>2
  <2>4. v < Modulus
    BY <1>0, <1>1, <2>3
  <2>5. v \div (Modulus * P) = 0
    BY <1>0, <2>4, ShiftOut, Zenon
  <2> QED BY <2>1, <2>2, <2>3, <2>5, Clear
<1>3. CASE k = 2 * LimbBits
  <2>1. shiftr256(n, k) = <<clear128, x>>
    BY <1>0, <1>3 DEF shiftr256
  <2>2. <<clear128, x>> \in Uint256 /\ Value256(<<clear128, x>>) = 0 * Square + h
    BY <1>1, Clear, Make256
  <2>3. h = Value256(n) \div Power2[k]
    BY <1>0, <1>1, <1>3, BasePowers, DivModOf
  <2>4. 0 * Square + h = h
    BY <1>0, <1>1
  <2> QED BY <2>1, <2>2, <2>3, <2>4
<1>4. CASE k = 0
  <2>1. shiftr256(n, k) = n
    BY <1>0, <1>4 DEF shiftr256
  <2>2. Value256(n) \div Power2[k] = Value256(n)
    BY <1>0, <1>1, <1>4, Power2Step
  <2> QED BY <1>1, <2>1, <2>2
<1>5. CASE 0 < k /\ k < 2 * LimbBits
  <2>1. shiftr256(n, k)
          = <<shiftr128(x, k), add128(shiftr128(y, k), shiftl128(x, 2 * LimbBits - k))>>
    BY <1>0, <1>5 DEF shiftr256
  <2>9. PICK j \in Nat : j = 2 * LimbBits - k
    BY <1>0, <1>5
  <2>2. PICK P \in Nat \ {0}, Q \in Nat \ {0} :
           P = Power2[k] /\ Q = Power2[j] /\ Factors(Square, P, Q)
    <3>1. k <= 2 * LimbBits /\ 2 * LimbBits \in Nat
      BY <1>0, <1>5
    <3>2. Power2[k] \in Nat \ {0} /\ Power2[2 * LimbBits - k] \in Nat \ {0}
          /\ Factors(Power2[2 * LimbBits], Power2[k], Power2[2 * LimbBits - k])
      BY <3>1, PowerFactors
    <3> QED BY <2>9, <3>2, BasePowers
  <2>3. ShiftsDown(Square, P, Q, h, l)
    <3>1. Square \in Nat \ {0} /\ h \in Nat /\ l \in 0..(Square - 1) /\ Factors(Square, P, Q)
      BY <1>0, <1>1, <2>2
    <3> QED BY <3>1, PairShiftDown
  <2>4. PICK a, b, c, u : a = shiftr128(x, k) /\ b = shiftr128(y, k) /\ c = shiftl128(x, j)
                          /\ u = add128(b, c)
    OBVIOUS
  <2>5. shiftr256(n, k) = <<a, u>>
    BY <2>1, <2>4, <2>9
  <2>6. a \in Uint128 /\ Value128(a) = h \div P /\ b \in Uint128 /\ Value128(b) = l \div P
    BY <1>1, <2>2, <2>4, Shiftr128
  <2>7. c \in Uint128 /\ Value128(c) = (h * Q) % Square
    BY <1>1, <2>2, <2>4, <2>9, Shiftl128
  <2>8. u \in Uint128 /\ Value128(u) = (((h * Q) % Square) + (l \div P)) % Square
    <3>1. u \in Uint128 /\ Value128(u) = (Value128(b) + Value128(c)) % Square
      BY <2>4, <2>6, <2>7, Add128
    <3>2. Value128(b) + Value128(c) = Value128(c) + Value128(b)
      <4>1. Value128(b) \in Nat /\ Value128(c) \in Nat
        BY <2>6, <2>7, Parts128
      <4> QED BY <4>1
    <3> QED BY <2>6, <2>7, <3>1, <3>2
  <2>10. Value128(a) * Square + Value128(u) = (h * Square + l) \div P
    BY <2>3, <2>6, <2>8 DEF ShiftsDown
  <2>11. <<a, u>> \in Uint256 /\ Value256(<<a, u>>) = Value128(a) * Square + Value128(u)
    BY <2>6, <2>8, Make256
  <2> QED BY <1>0, <1>1, <2>2, <2>5, <2>10, <2>11
<1>6. CASE k > 2 * LimbBits /\ k < 4 * LimbBits
  <2>1. shiftr256(n, k) = <<clear128, shiftr128(x, k - 2 * LimbBits)>>
    BY <1>0, <1>6 DEF shiftr256
  <2>9. PICK j \in Nat : j = k - 2 * LimbBits
    BY <1>0, <1>6
  <2>2. PICK P \in Nat \ {0} : P = Power2[j] /\ Power2[k] = P * Square
    <3>1. PICK i \in Nat : i = 2 * LimbBits
      BY <1>0
    <3>2. i <= k
      BY <1>6, <3>1
    <3>3. Power2[k] = Power2[k - i] * Power2[i] /\ Power2[k - i] \in Nat \ {0}
      BY <3>2, PowerFactors
    <3> QED BY <2>9, <3>1, <3>3, BasePowers
  <2>3. ShiftsFar(Square, P, h, l)
    BY <1>0, <1>1, PairShiftFar
  <2>4. PICK c : c = shiftr128(x, j)
    OBVIOUS
  <2>6. c \in Uint128 /\ Value128(c) = h \div P
    BY <1>1, <2>2, <2>4, <2>9, Shiftr128
  <2>5. Value128(c) = (h * Square + l) \div (P * Square)
    BY <2>3, <2>6 DEF ShiftsFar
  <2>7. shiftr256(n, k) = <<clear128, c>>
    BY <2>1, <2>4, <2>9
  <2>8. <<clear128, c>> \in Uint256 /\ Value256(<<clear128, c>>) = 0 * Square + Value128(c)
    BY <2>6, Clear, Make256
  <2>10. 0 * Square + Value128(c) = Value128(c)
    <3>1. Value128(c) \in Nat
      BY <2>6, Parts128
    <3> QED BY <1>0, <3>1
  <2> QED BY <1>0, <1>1, <2>2, <2>5, <2>7, <2>8, <2>10
<1> QED BY <1>0, <1>2, <1>3, <1>4, <1>5, <1>6


-----------------------------------------------------------------------------
(***************************************************************************)
(* Significant bits.                                                       *)
(***************************************************************************)
HasBits(v, b) ==
    /\ b \in Nat /\ v < Power2[b]
    /\ b # 0 => b - 1 \in Nat /\ Power2[b - 1] <= v

LEMMA QuotientZero ==
    ASSUME NEW n \in Nat, NEW d \in Nat \ {0}
    PROVE  n \div d = 0 <=> n < d
<1>1. CASE n < d
  BY <1>1, ModSmall
<1>2. CASE n >= d
  <2>1. n = (n \div d) * d + (n % d) /\ n \div d \in Nat /\ n % d < d /\ n % d \in Nat
    BY DivMod
  <2>2. PICK q, r : q = n \div d /\ r = n % d
    OBVIOUS
  <2>3. n = q * d + r /\ q \in Nat /\ r < d /\ r \in Nat
    BY <2>1, <2>2
  <2>4. q # 0
    BY <1>2, <2>3
  <2> QED BY <1>2, <2>2, <2>4
<1> QED BY <1>1, <1>2

LEMMA BitsOf ==
    ASSUME NEW limb \in 0..(Base - 1)
    PROVE  HasBits(limb, Bits(limb)) /\ Bits(limb) <= LimbBits
<1>0. LimbBits \in Nat /\ Base \in Nat /\ Power2[LimbBits] = Base /\ limb \in Nat
  BY BaseFacts, BasePowers
<1> DEFINE T == {m \in Nat : limb < Power2[m]}
<1>1. LimbBits \in T
  BY <1>0
<1>2. PICK b \in T : \A m \in T : b <= m
  <2>1. T \subseteq Nat /\ T # {}
    BY <1>1
  <2> HIDE DEF T
  <2> QED BY <2>1, LeastNat
<1>3. b \in Nat /\ limb < Power2[b] /\ b <= LimbBits
  BY <1>1, <1>2
<1>4. ASSUME NEW k \in Nat PROVE limb \div Power2[k] # 0 <=> k < b
  <2>1. Power2[k] \in Nat \ {0}
    BY Power2Pos
  <2>2. limb \div Power2[k] = 0 <=> limb < Power2[k]
    BY <1>0, <2>1, QuotientZero
  <2>3. limb < Power2[k] <=> k \in T
    OBVIOUS
  <2>4. k \in T => b <= k
    BY <1>2
  <2>5. b <= k => limb < Power2[k]
    <3>1. b <= k => Power2[b] <= Power2[k]
      BY <1>3, Power2Mono
    <3>2. Power2[b] \in Nat
      BY <1>3, Power2Pos
    <3> QED BY <1>0, <1>3, <2>1, <3>1, <3>2
  <2> HIDE DEF T
  <2> QED BY <1>3, <2>2, <2>3, <2>4, <2>5
<1>5. {k \in 0..(LimbBits - 1) : Shr(limb, k) # 0} = 0..(b - 1)
  <2> HIDE DEF T
  <2>1. ASSUME NEW k PROVE k \in {j \in 0..(LimbBits - 1) : Shr(limb, j) # 0} <=> k \in 0..(b - 1)
    <3>1. CASE k \in 0..(LimbBits - 1)
      <4>1. k \in Nat
        BY <3>1
      <4>2. Shr(limb, k) # 0 <=> k < b
        BY <1>4, <4>1 DEF Shr
      <4> QED BY <1>3, <3>1, <4>1, <4>2
    <3>2. CASE k \notin 0..(LimbBits - 1)
      BY <1>0, <1>3, <3>2
    <3> QED BY <3>1, <3>2
  <2> QED BY <2>1
<1>6. Cardinality(0..(b - 1)) = b
  <2>1. 0 \in Int /\ b - 1 \in Int
    BY <1>3
  <2>2. Cardinality(0..(b - 1)) = IF 0 > b - 1 THEN 0 ELSE (b - 1) - 0 + 1
    BY <2>1, FS_Interval
  <2> QED BY <1>3, <2>2
<1>7. Bits(limb) = b
  BY <1>5, <1>6 DEF Bits
<1>8. ASSUME b # 0 PROVE b - 1 \in Nat /\ Power2[b - 1] <= limb
  <2>1. b - 1 \in Nat /\ ~(b <= b - 1)
    BY <1>3, <1>8
  <2>2. ~(limb < Power2[b - 1])
    BY <1>2, <2>1
  <2>3. Power2[b - 1] \in Nat
    BY <2>1, Power2Pos
  <2> QED BY <1>0, <2>1, <2>2, <2>3
<1> HIDE DEF T
<1> QED BY <1>3, <1>7, <1>8 DEF HasBits

LEMMA PairBits ==
    ASSUME NEW w \in Nat, NEW h \in Nat \ {0}, NEW l \in 0..(Power2[w] - 1), NEW c, HasBits(h, c)
    PROVE  HasBits(h * Power2[w] + l, w + c) /\ c # 0
<1>1. c \in Nat /\ h < Power2[c] /\ c # 0 => c - 1 \in Nat /\ Power2[c - 1] <= h
  BY DEF HasBits
<1>2. c \in Nat /\ h < Power2[c]
  BY DEF HasBits
<1>3. c # 0
  BY <1>2, Power2Step
<1>4. PICK d \in Nat : d = c - 1 /\ Power2[d] <= h /\ (w + c) - 1 = w + d
  BY <1>1, <1>2, <1>3
<1>5. PICK R, v, p, q : R = Power2[w] /\ v = h * R + l /\ p = Power2[c] /\ q = Power2[d]
  OBVIOUS
<1>6. R \in Nat \ {0} /\ p \in Nat \ {0} /\ q \in Nat \ {0} /\ l \in 0..(R - 1)
  BY <1>2, <1>4, <1>5, Power2Pos
<1>7. Power2[w + c] = R * p /\ Power2[w + d] = R * q
  BY <1>2, <1>4, <1>5, Power2Sum
<1>8. h \in 0..(p - 1)
  BY <1>2, <1>5, <1>6
<1>9. v \in 0..(p * R - 1)
  <2>1. h * R + l \in 0..(p * R - 1)
    BY <1>6, <1>8, PairRange
  <2> QED BY <1>5, <2>1
<1>10. q * R <= h * R
  BY <1>4, <1>5, <1>6, TimesMono
<1>11. p * R = R * p /\ q * R = R * q /\ h * R \in Nat /\ R * q \in Nat /\ R * p \in Nat
  BY <1>6
<1>12. h * R <= v
  BY <1>5, <1>6, <1>11
<1>13. v < Power2[w + c]
  BY <1>7, <1>9, <1>11
<1>14. Power2[w + d] <= v
  BY <1>7, <1>9, <1>10, <1>11, <1>12
<1>15. w + c \in Nat /\ w + d \in Nat
  BY <1>2
<1>16. HasBits(v, w + c)
  BY <1>4, <1>13, <1>14, <1>15 DEF HasBits
<1> QED BY <1>3, <1>5, <1>16

LEMMA Bits128 ==
    ASSUME NEW n \in Uint128
    PROVE  HasBits(Value128(n), bits128(n)) /\ bits128(n) <= 2 * LimbBits
<1> PICK h, l : h = UPPER(n) /\ l = LOWER(n)
  OBVIOUS
<1>1. h \in 0..(Base - 1) /\ l \in 0..(Base - 1) /\ Value128(n) = h * Base + l
  BY Parts128
<1>2. LimbBits \in Nat /\ Base \in Nat /\ Power2[LimbBits] = Base
  BY BaseFacts, BasePowers
<1>3. HasBits(h, Bits(h)) /\ Bits(h) <= LimbBits /\ HasBits(l, Bits(l)) /\ Bits(l) <= LimbBits
  BY <1>1, BitsOf
<1>4. Bits(h) \in Nat /\ Bits(l) \in Nat
  BY <1>3 DEF HasBits
<1>5. CASE h # 0
  <2>1. bits128(n) = LimbBits + Bits(h)
    BY <1>5 DEF bits128
  <2>2. HasBits(h * Power2[LimbBits] + l, LimbBits + Bits(h))
    <3>1. h \in Nat \ {0} /\ l \in 0..(Power2[LimbBits] - 1)
      BY <1>1, <1>2, <1>5
    <3> QED BY <1>2, <1>3, <3>1, PairBits
  <2>3. LimbBits + Bits(h) <= 2 * LimbBits
    BY <1>2, <1>3, <1>4
  <2> QED BY <1>1, <1>2, <2>1, <2>2, <2>3
<1>6. CASE h = 0
  <2>1. bits128(n) = Bits(l)
    BY <1>6 DEF bits128
  <2>2. Value128(n) = l
    BY <1>1, <1>2, <1>6
  <2>3. Bits(l) <= 2 * LimbBits
    BY <1>2, <1>3, <1>4
  <2> QED BY <1>3, <2>1, <2>2, <2>3
<1> QED BY <1>5, <1>6

LEMMA Bits256 ==
    ASSUME NEW n \in Uint256
    PROVE  HasBits(Value256(n), bits256(n)) /\ bits256(n) <= 4 * LimbBits
<1> PICK x, y, h, l : x = UPPER(n) /\ y = LOWER(n) /\ h = Value128(x) /\ l = Value128(y)
  OBVIOUS
<1>1. x \in Uint128 /\ y \in Uint128
      /\ h \in 0..(Square - 1) /\ l \in 0..(Square - 1) /\ Value256(n) = h * Square + l
  BY Parts256, Parts128
<1>2. 2 * LimbBits \in Nat /\ Square \in Nat /\ Power2[2 * LimbBits] = Square
  BY BaseFacts, BasePowers
<1>3. HasBits(h, bits128(x)) /\ bits128(x) <= 2 * LimbBits
      /\ HasBits(l, bits128(y)) /\ bits128(y) <= 2 * LimbBits
  BY <1>1, Bits128
<1>4. bits128(x) \in Nat /\ bits128(y) \in Nat /\ LimbBits \in Nat
  BY <1>3, BaseFacts DEF HasBits
<1>7. zero128(x) <=> h = 0
  BY <1>1, Compare128
<1>5. CASE h # 0
  <2>1. bits256(n) = 2 * LimbBits + bits128(x)
    BY <1>5, <1>7 DEF bits256
  <2>2. HasBits(h * Power2[2 * LimbBits] + l, 2 * LimbBits + bits128(x))
    <3>1. h \in Nat \ {0} /\ l \in 0..(Power2[2 * LimbBits] - 1)
      BY <1>1, <1>2, <1>5
    <3>2. PICK w \in Nat : w = 2 * LimbBits
      BY <1>2
    <3>3. HasBits(h * Power2[w] + l, w + bits128(x))
      BY <1>3, <3>1, <3>2, PairBits
    <3> QED BY <3>2, <3>3
  <2>3. 2 * LimbBits + bits128(x) <= 4 * LimbBits
    BY <1>3, <1>4
  <2> QED BY <1>1, <1>2, <2>1, <2>2, <2>3
<1>6. CASE h = 0
  <2>1. bits256(n) = bits128(y)
    BY <1>6, <1>7 DEF bits256
  <2>2. Value256(n) = l
    BY <1>1, <1>2, <1>6
  <2>3. bits128(y) <= 4 * LimbBits
    BY <1>3, <1>4
  <2> QED BY <1>3, <2>1, <2>2, <2>3
<1> QED BY <1>5, <1>6


-----------------------------------------------------------------------------
(***************************************************************************)
(* Sums by recursion, f[k] = f[k - 1] * c[k] + d[k] from 0: the numbers    *)
(* made of bits and of bytes.                                              *)
(***************************************************************************)
Sequel(f, k, c, d) == IF k = 0 THEN 0 ELSE f[k - 1] * c[k] + d[k]

Follows(n, f, c, d) == \A k \in 0..n : f[k] = Sequel(f, k, c, d)

LEMMA FollowsExist ==
    ASSUME NEW n \in Nat, NEW c, NEW d
    PROVE  \E f : f = [k \in 0..n |-> f[k]] /\ Follows(n, f, c, d)
<1> DEFINE Bad == {m \in Nat : ~\E f : Follows(m, f, c, d)}
<1>1. Bad = {}
  <2> SUFFICES ASSUME Bad # {} PROVE FALSE
    OBVIOUS
  <2>1. PICK m \in Bad : \A y \in Bad : m <= y
    <3>1. Bad \subseteq Nat
      OBVIOUS
    <3> HIDE DEF Bad
    <3> QED BY <3>1, LeastNat
  <2>2. m \in Nat /\ ~\E f : Follows(m, f, c, d)
    OBVIOUS
  <2>3. CASE m = 0
    <3>1. Follows(0, [k \in {0} |-> 0], c, d)
      BY DEF Follows, Sequel
    <3> QED BY <2>2, <2>3, <3>1
  <2>4. CASE m # 0
    <3>1. m - 1 \in Nat /\ ~(m <= m - 1)
      BY <2>2, <2>4
    <3>2. PICK g : Follows(m - 1, g, c, d)
      <4>1. m - 1 \notin Bad
        <5> HIDE DEF Bad
        <5> QED BY <2>1, <3>1
      <4> QED BY <3>1, <4>1
    <3> DEFINE f == [k \in 0..m |-> IF k = m THEN Sequel(g, m, c, d) ELSE g[k]]
    <3>3. ASSUME NEW k \in 0..m
          PROVE  f[k] = Sequel(f, k, c, d)
      <4>1. k # 0 => f[k - 1] = g[k - 1]
        <5>1. k # 0 => k - 1 \in 0..m /\ k - 1 # m
          BY <2>2
        <5> QED BY <5>1
      <4>2. Sequel(f, k, c, d) = Sequel(g, k, c, d)
        <5> HIDE DEF f
        <5> QED BY <4>1 DEF Sequel
      <4>3. CASE k = m
        <5>1. f[k] = Sequel(g, k, c, d)
          BY <4>3
        <5> QED BY <4>2, <5>1
      <4>4. CASE k # m
        <5>1. k \in 0..(m - 1)
          BY <2>2, <4>4
        <5>2. g[k] = Sequel(g, k, c, d)
          BY <3>2, <5>1 DEF Follows
        <5>3. f[k] = g[k]
          BY <4>4
        <5> QED BY <4>2, <5>2, <5>3
      <4> QED BY <4>3, <4>4
    <3>4. Follows(m, f, c, d)
      <4> HIDE DEF f
      <4> QED BY <3>3 DEF Follows
    <3> QED BY <2>2, <3>4
  <2> QED BY <2>3, <2>4
<1>2. PICK g : Follows(n, g, c, d)
  <2>1. n \notin Bad
    BY <1>1
  <2> QED BY <2>1
<1> DEFINE f == [k \in 0..n |-> g[k]]
<1>3. ASSUME NEW k \in 0..n PROVE f[k] = Sequel(f, k, c, d)
  <2>1. f[k] = g[k] /\ (k # 0 => f[k - 1] = g[k - 1])
    OBVIOUS
  <2> HIDE DEF f
  <2>2. g[k] = Sequel(g, k, c, d)
    BY <1>2 DEF Follows
  <2>3. Sequel(g, k, c, d) = Sequel(f, k, c, d)
    BY <2>1 DEF Sequel
  <2> QED BY <2>1, <2>2, <2>3
<1>4. f = [k \in 0..n |-> f[k]]
  OBVIOUS
<1> HIDE DEF f
<1>5. Follows(n, f, c, d)
  BY <1>3 DEF Follows
<1> QED BY <1>4, <1>5

LEMMA FollowsAgree ==
    ASSUME NEW n \in Nat, NEW m \in Nat, NEW f, NEW g, NEW c, NEW d, NEW e, NEW h,
           Follows(n, f, c, d), Follows(m, g, e, h),
           NEW k \in Nat, k <= n, k <= m,
           \A j \in 1..k : c[j] = e[j] /\ d[j] = h[j]
    PROVE  f[k] = g[k]
<1> DEFINE Bad == {j \in 0..k : f[j] # g[j]}
<1> SUFFICES ASSUME Bad # {} PROVE FALSE
  OBVIOUS
<1>1. PICK j \in Bad : \A y \in Bad : j <= y
  <2>1. Bad \subseteq Nat
    OBVIOUS
  <2> HIDE DEF Bad
  <2> QED BY <2>1, LeastNat
<1>2. j \in 0..n /\ j \in 0..m /\ j \in 0..k /\ f[j] # g[j]
  OBVIOUS
<1>3. f[j] = Sequel(f, j, c, d) /\ g[j] = Sequel(g, j, e, h)
  BY <1>2 DEF Follows
<1>4. j # 0 => j - 1 \in 0..k /\ ~(j <= j - 1) /\ j \in 1..k
  BY <1>2
<1>5. j # 0 => f[j - 1] = g[j - 1]
  BY <1>1, <1>4
<1>6. j # 0 => c[j] = e[j] /\ d[j] = h[j]
  BY <1>4
<1>7. Sequel(f, j, c, d) = Sequel(g, j, e, h)
  BY <1>5, <1>6 DEF Sequel
<1> QED BY <1>2, <1>3, <1>7

\* Bytes joined to a number: what Joined(buffer, from, n) follows.
LEMMA JoinedFollows ==
    ASSUME NEW buffer, NEW from, NEW n \in Nat
    PROVE  \E f : /\ \A k \in 0..n :
                        f[k] = IF k = 0 THEN 0 ELSE f[k - 1] * ByteBase + buffer[from + k]
                  /\ Joined(buffer, from, n) = f[n]
<1> DEFINE c == [k \in 0..n |-> ByteBase]
           d == [k \in 0..n |-> buffer[from + k]]
<1>1. PICK g : g = [k \in 0..n |-> g[k]] /\ Follows(n, g, c, d)
  <2> HIDE DEF c, d
  <2> QED BY FollowsExist
<1>2. ASSUME NEW k \in 0..n
      PROVE  Sequel(g, k, c, d) = IF k = 0 THEN 0 ELSE g[k - 1] * ByteBase + buffer[from + k]
  <2>1. c[k] = ByteBase /\ d[k] = buffer[from + k]
    OBVIOUS
  <2> HIDE DEF c, d
  <2> QED BY <2>1 DEF Sequel
<1>3. g = [k \in 0..n |-> IF k = 0 THEN 0 ELSE g[k - 1] * ByteBase + buffer[from + k]]
  <2> HIDE DEF c, d
  <2>1. \A k \in 0..n : g[k] = Sequel(g, k, c, d)
    BY <1>1 DEF Follows
  <2>2. \A k \in 0..n :
           g[k] = IF k = 0 THEN 0 ELSE g[k - 1] * ByteBase + buffer[from + k]
    BY <1>2, <2>1
  <2> QED BY <1>1, <2>2
<1> HIDE DEF c, d
<1> DEFINE F == CHOOSE upto :
      upto = [k \in 0..n |-> IF k = 0 THEN 0 ELSE upto[k - 1] * ByteBase + buffer[from + k]]
<1>4. F = [k \in 0..n |-> IF k = 0 THEN 0 ELSE F[k - 1] * ByteBase + buffer[from + k]]
  BY <1>3
<1>5. Joined(buffer, from, n) = F[n]
  BY DEF Joined
<1> HIDE DEF F
<1>6. \A k \in 0..n : F[k] = IF k = 0 THEN 0 ELSE F[k - 1] * ByteBase + buffer[from + k]
  BY <1>4, Zenon
<1> QED BY <1>5, <1>6


LEMMA JoinedStep ==
    ASSUME NEW buffer, NEW from, NEW n \in Nat
    PROVE  /\ Joined(buffer, from, 0) = 0
           /\ Joined(buffer, from, n + 1) = Joined(buffer, from, n) * ByteBase + buffer[from + (n + 1)]
<1>1. Joined(buffer, from, 0) = 0
  BY JoinedFollows
<1>2. PICK m \in Nat : m = n + 1
  OBVIOUS
<1>3. PICK f : /\ \A k \in 0..m : f[k] = IF k = 0 THEN 0 ELSE f[k - 1] * ByteBase + buffer[from + k]
               /\ Joined(buffer, from, m) = f[m]
  BY JoinedFollows
<1>4. PICK g : /\ \A k \in 0..n : g[k] = IF k = 0 THEN 0 ELSE g[k - 1] * ByteBase + buffer[from + k]
               /\ Joined(buffer, from, n) = g[n]
  BY JoinedFollows
<1>5. PICK c, d : c = [k \in 0..m |-> ByteBase] /\ d = [k \in 0..m |-> buffer[from + k]]
  OBVIOUS
<1>6. \A k \in 0..m : c[k] = ByteBase /\ d[k] = buffer[from + k]
  BY <1>5
<1>7. Follows(m, f, c, d)
  BY <1>3, <1>6 DEF Follows, Sequel
<1>8. Follows(n, g, c, d)
  <2>1. \A k \in 0..n : k \in 0..m
    BY <1>2
  <2> QED BY <1>4, <1>6, <2>1 DEF Follows, Sequel
<1>9. f[n] = g[n]
  <2>1. n <= m /\ n <= n
    BY <1>2
  <2> QED BY <1>7, <1>8, <2>1, FollowsAgree
<1>10. f[m] = f[n] * ByteBase + buffer[from + m]
  <2>1. m \in 0..m /\ m # 0 /\ m - 1 = n
    BY <1>2
  <2> QED BY <1>3, <2>1
<1> QED BY <1>1, <1>2, <1>3, <1>4, <1>9, <1>10

\* The number made of the lowest n bits.
Below(bits, n) ==
    LET below[k \in 0..n] == IF k = 0 THEN 0 ELSE below[k - 1] + bits[k - 1] * Power2[k - 1]
    IN  below[n]

LEMMA LimbOfBelow ==
    ASSUME NEW bits
    PROVE  LimbOf(bits) = Below(bits, LimbBits)
  BY DEF LimbOf, Below

LEMMA BelowFollows ==
    ASSUME NEW bits, NEW n \in Nat, \A k \in 0..n : k < n => bits[k] \in Nat
    PROVE  \E f : /\ \A k \in 0..n :
                        f[k] = IF k = 0 THEN 0 ELSE f[k - 1] + bits[k - 1] * Power2[k - 1]
                  /\ Below(bits, n) = f[n]
                  /\ \A k \in 0..n : f[k] \in Nat
<1> DEFINE c == [k \in 0..n |-> 1]
           d == [k \in 0..n |-> bits[k - 1] * Power2[k - 1]]
<1>1. PICK g : g = [k \in 0..n |-> g[k]] /\ Follows(n, g, c, d)
  <2> HIDE DEF c, d
  <2> QED BY FollowsExist
<1>2. ASSUME NEW k \in 0..n
      PROVE  g[k] = IF k = 0 THEN 0 ELSE g[k - 1] * 1 + bits[k - 1] * Power2[k - 1]
  <2>1. c[k] = 1 /\ d[k] = bits[k - 1] * Power2[k - 1]
    OBVIOUS
  <2> HIDE DEF c, d
  <2>2. g[k] = Sequel(g, k, c, d)
    BY <1>1 DEF Follows
  <2> QED BY <2>1, <2>2 DEF Sequel
<1> HIDE DEF c, d
<1>3. \A k \in 0..n : g[k] \in Nat
  <2> DEFINE Bad == {k \in 0..n : g[k] \notin Nat}
  <2> SUFFICES ASSUME Bad # {} PROVE FALSE
    OBVIOUS
  <2>1. PICK k \in Bad : \A y \in Bad : k <= y
    <3>1. Bad \subseteq Nat
      OBVIOUS
    <3> HIDE DEF Bad
    <3> QED BY <3>1, LeastNat
  <2>2. k \in 0..n /\ g[k] \notin Nat
    OBVIOUS
  <2>3. k # 0
    BY <1>2, <2>2
  <2>4. k - 1 \in 0..n /\ k - 1 < n /\ ~(k <= k - 1)
    BY <2>2, <2>3
  <2>5. g[k - 1] \in Nat
    BY <2>1, <2>4
  <2>6. bits[k - 1] \in Nat /\ Power2[k - 1] \in Nat
    <3>1. k - 1 \in Nat
      BY <2>4
    <3> QED BY <2>4, <3>1, Power2Pos
  <2>7. bits[k - 1] * Power2[k - 1] \in Nat
    BY <2>6
  <2>8. g[k] = g[k - 1] * 1 + bits[k - 1] * Power2[k - 1]
    BY <1>2, <2>2, <2>3
  <2> QED BY <2>2, <2>5, <2>7, <2>8
<1>4. ASSUME NEW k \in 0..n
      PROVE  g[k] = IF k = 0 THEN 0 ELSE g[k - 1] + bits[k - 1] * Power2[k - 1]
  <2>1. k # 0 => g[k - 1] \in Nat
    <3>1. k # 0 => k - 1 \in 0..n
      OBVIOUS
    <3> QED BY <1>3, <3>1
  <2>2. k # 0 => g[k - 1] * 1 = g[k - 1]
    BY <2>1
  <2> QED BY <1>2, <2>2
<1>5. g = [k \in 0..n |-> IF k = 0 THEN 0 ELSE g[k - 1] + bits[k - 1] * Power2[k - 1]]
  BY <1>1, <1>4
<1> DEFINE F == CHOOSE below :
      below = [k \in 0..n |-> IF k = 0 THEN 0 ELSE below[k - 1] + bits[k - 1] * Power2[k - 1]]
<1>6. F = [k \in 0..n |-> IF k = 0 THEN 0 ELSE F[k - 1] + bits[k - 1] * Power2[k - 1]]
  BY <1>5
<1>7. Below(bits, n) = F[n]
  BY DEF Below
<1> HIDE DEF F
<1>8. \A k \in 0..n : F[k] = IF k = 0 THEN 0 ELSE F[k - 1] + bits[k - 1] * Power2[k - 1]
  BY <1>6, Zenon
<1>9. ASSUME NEW k \in 0..n PROVE F[k] = g[k]
  <2> DEFINE Bad == {j \in 0..n : F[j] # g[j]}
  <2> SUFFICES ASSUME Bad # {} PROVE FALSE
    OBVIOUS
  <2>1. PICK j \in Bad : \A y \in Bad : j <= y
    <3>1. Bad \subseteq Nat
      OBVIOUS
    <3> HIDE DEF Bad
    <3> QED BY <3>1, LeastNat
  <2>2. j \in 0..n /\ F[j] # g[j]
    OBVIOUS
  <2>3. j # 0 => j - 1 \in 0..n /\ ~(j <= j - 1)
    BY <2>2
  <2>4. j # 0 => F[j - 1] = g[j - 1]
    BY <2>1, <2>3
  <2> QED BY <1>4, <1>8, <2>2, <2>4
<1> QED BY <1>3, <1>7, <1>8, <1>9

LEMMA BelowZero ==
    ASSUME NEW bits
    PROVE  Below(bits, 0) = 0
<1>1. \A k \in 0..0 : k < 0 => bits[k] \in Nat
  OBVIOUS
<1>2. PICK f : /\ \A k \in 0..0 :
                      f[k] = IF k = 0 THEN 0 ELSE f[k - 1] + bits[k - 1] * Power2[k - 1]
               /\ Below(bits, 0) = f[0]
  BY <1>1, BelowFollows
<1> QED BY <1>2

LEMMA BelowStep ==
    ASSUME NEW bits, NEW n \in Nat, \A k \in 0..n : bits[k] \in Nat
    PROVE  /\ Below(bits, 0) = 0
           /\ Below(bits, n) \in Nat
           /\ Below(bits, n + 1) = Below(bits, n) + bits[n] * Power2[n]
<1>1. Below(bits, 0) = 0
  BY BelowZero
<1>2. PICK m \in Nat : m = n + 1
  OBVIOUS
<1>3. PICK f : /\ \A k \in 0..m :
                        f[k] = IF k = 0 THEN 0 ELSE f[k - 1] + bits[k - 1] * Power2[k - 1]
               /\ Below(bits, m) = f[m]
  <2>1. \A k \in 0..m : k < m => bits[k] \in Nat
    BY <1>2
  <2> QED BY <2>1, BelowFollows
<1>4. PICK g : /\ \A k \in 0..n :
                        g[k] = IF k = 0 THEN 0 ELSE g[k - 1] + bits[k - 1] * Power2[k - 1]
               /\ Below(bits, n) = g[n] /\ \A k \in 0..n : g[k] \in Nat
  <2>1. \A k \in 0..n : k < n => bits[k] \in Nat
    OBVIOUS
  <2> QED BY <2>1, BelowFollows
<1>5. f[n] = g[n]
  <2> DEFINE Bad == {j \in 0..n : f[j] # g[j]}
  <2> SUFFICES ASSUME Bad # {} PROVE FALSE
    OBVIOUS
  <2>1. PICK j \in Bad : \A y \in Bad : j <= y
    <3>1. Bad \subseteq Nat
      OBVIOUS
    <3> HIDE DEF Bad
    <3> QED BY <3>1, LeastNat
  <2>2. j \in 0..n /\ j \in 0..m /\ f[j] # g[j]
    BY <1>2
  <2>3. j # 0 => j - 1 \in 0..n /\ ~(j <= j - 1)
    BY <2>2
  <2>4. j # 0 => f[j - 1] = g[j - 1]
    BY <2>1, <2>3
  <2> QED BY <1>3, <1>4, <2>2, <2>4
<1>6. f[m] = f[n] + bits[n] * Power2[n]
  <2>1. m \in 0..m /\ m # 0 /\ m - 1 = n
    BY <1>2
  <2> QED BY <1>3, <2>1
<1>7. g[n] \in Nat
  BY <1>4
<1> QED BY <1>1, <1>2, <1>3, <1>4, <1>5, <1>6, <1>7


-----------------------------------------------------------------------------
(***************************************************************************)
(* Bits.                                                                   *)
(***************************************************************************)
LEMMA BitRange ==
    ASSUME NEW v \in Int, NEW k \in Nat
    PROVE  Bit(v, k) \in {0, 1}
<1>1. Power2[k] \in Nat \ {0}
  BY Power2Pos
<1>2. v \div Power2[k] \in Int
  BY <1>1, DivMod
<1>3. PICK q \in Int : q = v \div Power2[k]
  BY <1>2
<1>4. q % 2 \in {0, 1}
  OBVIOUS
<1> QED BY <1>3, <1>4 DEF Bit

LEMMA BitSplit ==
    ASSUME NEW v \in Nat, NEW n \in Nat
    PROVE  v % Power2[n + 1] = (v % Power2[n]) + Bit(v, n) * Power2[n]
<1>1. PICK p \in Nat \ {0} : p = Power2[n]
  BY Power2Pos
<1>2. Power2[n + 1] = p * 2
  BY <1>1, Power2Step
<1>3. v % (p * 2) = ((v \div p) % 2) * p + (v % p)
  <2>1. v \in Int /\ 2 \in Nat \ {0}
    OBVIOUS
  <2> QED BY <2>1, DivTimes, Zenon
<1>4. PICK b \in {0, 1} : b = Bit(v, n)
  BY BitRange
<1>5. b = (v \div p) % 2
  BY <1>1, <1>4 DEF Bit
<1>6. PICK r \in Nat : r = v % p
  BY DivMod
<1>7. b * p + r = r + b * p
  OBVIOUS
<1> QED BY <1>1, <1>2, <1>3, <1>4, <1>5, <1>6, <1>7

\* The bits of a number of two digits.
LEMMA BitOfPair ==
    ASSUME NEW w \in Nat, NEW h \in Nat, NEW l \in 0..(Power2[w] - 1), NEW i \in Nat
    PROVE  Bit(h * Power2[w] + l, i) = IF i < w THEN Bit(l, i) ELSE Bit(h, i - w)
<1>0. Power2[w] \in Nat \ {0} /\ Power2[i] \in Nat \ {0} /\ l \in Nat
  BY Power2Pos
<1>1. CASE i < w
  <2>1. PICK j \in Nat : w = i + (j + 1)
    <3>1. w - (i + 1) \in Nat /\ w = i + ((w - (i + 1)) + 1)
      BY <1>1
    <3> QED BY <3>1
  <2>2. PICK p \in Nat \ {0}, e \in Nat \ {0} : p = Power2[i] /\ e = Power2[j]
    BY Power2Pos
  <2>3. Power2[w] = p * (2 * e)
    <3>1. Power2[j + 1] = 2 * e
      BY <2>2, Power2Step
    <3>2. Power2[i + (j + 1)] = Power2[i] * Power2[j + 1]
      BY Power2Sum
    <3> QED BY <2>1, <2>2, <3>1, <3>2
  <2>4. PICK f \in Nat : f = h * e
    OBVIOUS
  <2>5. h * Power2[w] = (2 * f) * p
    <3>1. h * (p * (2 * e)) = (2 * (h * e)) * p
      OBVIOUS
    <3> QED BY <2>3, <2>4, <3>1
  <2>6. PICK g \in Int : g = 2 * f
    OBVIOUS
  <2>7. (g * p + l) \div p = g + (l \div p)
    <3>1. l \in Int
      BY <1>0
    <3> QED BY <3>1, ModPlus
  <2>8. PICK q \in Int : q = l \div p
    <3>1. l \in Int
      BY <1>0
    <3>2. l \div p \in Int
      BY <3>1, DivMod
    <3> QED BY <3>2
  <2>9. (f * 2 + q) % 2 = q % 2
    <3>1. f \in Int /\ 2 \in Nat \ {0}
      OBVIOUS
    <3> QED BY <3>1, ModPlus
  <2>10. g + q = f * 2 + q
    BY <2>6
  <2>11. Bit(h * Power2[w] + l, i) = (g + q) % 2
    <3>1. h * Power2[w] + l = g * p + l
      BY <2>5, <2>6
    <3> QED BY <2>2, <2>7, <2>8, <3>1 DEF Bit
  <2>12. Bit(l, i) = q % 2
    BY <2>2, <2>8 DEF Bit
  <2> QED BY <1>1, <2>9, <2>10, <2>11, <2>12
<1>2. CASE i >= w
  <2>1. PICK j \in Nat : j = i - w /\ i = w + j
    BY <1>2
  <2>2. PICK p \in Nat \ {0}, e \in Nat \ {0} : p = Power2[w] /\ e = Power2[j]
    BY Power2Pos
  <2>3. Power2[i] = p * e
    BY <2>1, <2>2, Power2Sum
  <2>4. PICK v : v = h * p + l
    OBVIOUS
  <2>5. v \in Int
    BY <1>0, <2>4
  <2>6. (v \div p) \div e = v \div (p * e)
    BY <2>5, DivTimes, Zenon
  <2>7. v \div p = h
    <3>1. l \in Nat /\ l < p /\ h \in Int
      BY <1>0, <2>2
    <3> QED BY <2>4, <3>1, DivModOf
  <2>8. Bit(v, i) = Bit(h, j)
    BY <2>2, <2>3, <2>6, <2>7 DEF Bit
  <2> QED BY <1>2, <2>1, <2>2, <2>4, <2>8
<1> QED BY <1>1, <1>2

\* The bits below n of a number, summed.
LEMMA BelowBits ==
    ASSUME NEW v \in Nat, NEW n \in Nat, NEW bits, \A k \in 0..(n - 1) : bits[k] = Bit(v, k)
    PROVE  Below(bits, n) = v % Power2[n]
<1> DEFINE Bad == {m \in 0..n : Below(bits, m) # v % Power2[m]}
<1> SUFFICES ASSUME Bad # {} PROVE FALSE
  OBVIOUS
<1>1. PICK m \in Bad : \A y \in Bad : m <= y
  <2>1. Bad \subseteq Nat
    OBVIOUS
  <2> HIDE DEF Bad
  <2> QED BY <2>1, LeastNat
<1>2. m \in 0..n /\ Below(bits, m) # v % Power2[m]
  OBVIOUS
<1>3. m # 0
  <2>1. Below(bits, 0) = 0
    BY BelowZero
  <2>2. v % Power2[0] = 0
    BY Power2Step
  <2> QED BY <1>2, <2>1, <2>2
<1>4. PICK j \in Nat : m = j + 1 /\ j \in 0..n /\ j \in 0..(n - 1) /\ ~(m <= j)
  <2>1. m - 1 \in Nat /\ m = (m - 1) + 1 /\ m - 1 \in 0..n /\ m - 1 \in 0..(n - 1) /\ ~(m <= m - 1)
    BY <1>2, <1>3
  <2> QED BY <2>1
<1>5. Below(bits, j) = v % Power2[j]
  BY <1>1, <1>4
<1>6. Below(bits, j + 1) = Below(bits, j) + bits[j] * Power2[j]
  <2>1. \A k \in 0..j : bits[k] \in Nat
    <3>1. \A k \in 0..j : k \in Nat /\ k \in 0..(n - 1)
      BY <1>4
    <3>2. \A k \in 0..j : Bit(v, k) \in {0, 1}
      BY <3>1, BitRange
    <3> QED BY <3>1, <3>2
  <2> QED BY <2>1, BelowStep
<1>7. v % Power2[j + 1] = (v % Power2[j]) + Bit(v, j) * Power2[j]
  BY BitSplit
<1>8. bits[j] = Bit(v, j)
  BY <1>4
<1> QED BY <1>2, <1>4, <1>5, <1>6, <1>7, <1>8

\* The bits of a sum of bits.
LEMMA BitOfBelow ==
    ASSUME NEW n \in Nat, NEW bits, \A k \in 0..(n - 1) : bits[k] \in {0, 1}
    PROVE  /\ Below(bits, n) \in 0..(Power2[n] - 1)
           /\ \A k \in 0..(n - 1) : Bit(Below(bits, n), k) = bits[k]
<1> DEFINE Good(m) == /\ Below(bits, m) \in 0..(Power2[m] - 1)
                      /\ \A k \in 0..(m - 1) : Bit(Below(bits, m), k) = bits[k]
           Bad == {m \in 0..n : ~Good(m)}
<1> SUFFICES ASSUME Bad # {} PROVE FALSE
  OBVIOUS
<1>1. PICK m \in Bad : \A y \in Bad : m <= y
  <2>1. Bad \subseteq Nat
    OBVIOUS
  <2> HIDE DEF Bad
  <2> QED BY <2>1, LeastNat
<1>2. m \in 0..n /\ ~Good(m)
  OBVIOUS
<1>3. m # 0
  <2>1. Below(bits, 0) = 0
    BY BelowZero
  <2>2. Good(0)
    BY <2>1, Power2Step
  <2> QED BY <1>2, <2>2
<1>4. PICK j \in Nat : m = j + 1 /\ j \in 0..n /\ j \in 0..(n - 1) /\ ~(m <= j)
  <2>1. m - 1 \in Nat /\ m = (m - 1) + 1 /\ m - 1 \in 0..n /\ m - 1 \in 0..(n - 1) /\ ~(m <= m - 1)
    BY <1>2, <1>3
  <2> QED BY <2>1
<1>5. Good(j)
  <2> HIDE DEF Good
  <2> QED BY <1>1, <1>4
<1>6. Below(bits, j + 1) = Below(bits, j) + bits[j] * Power2[j]
  <2>1. \A k \in 0..j : bits[k] \in Nat
    BY <1>4
  <2> QED BY <2>1, BelowStep
<1>7. PICK l, h, v : l = Below(bits, j) /\ h = bits[j] /\ v = Below(bits, j + 1)
  OBVIOUS
<1>8. l \in 0..(Power2[j] - 1) /\ h \in {0, 1} /\ \A k \in 0..(j - 1) : Bit(l, k) = bits[k]
  BY <1>4, <1>5, <1>7
<1>9. v = h * Power2[j] + l
  <2>1. v = l + h * Power2[j]
    BY <1>6, <1>7
  <2>2. Power2[j] \in Nat
    BY Power2Pos
  <2> QED BY <1>8, <2>1, <2>2
<1>10. v \in 0..(Power2[m] - 1)
  <2>1. PICK p \in Nat \ {0} : p = Power2[j]
    BY Power2Pos
  <2>2. h * p + l \in 0..(2 * p - 1)
    BY <1>8, <2>1
  <2>3. Power2[m] = 2 * p
    BY <1>4, <2>1, Power2Step
  <2> QED BY <1>9, <2>1, <2>2, <2>3
<1>11. ASSUME NEW k \in 0..(m - 1) PROVE Bit(v, k) = bits[k]
  <2>0. k \in Nat /\ h \in Nat
    BY <1>8
  <2>1. Bit(h * Power2[j] + l, k) = IF k < j THEN Bit(l, k) ELSE Bit(h, k - j)
    BY <1>8, <2>0, BitOfPair
  <2>2. CASE k < j
    <3>1. k \in 0..(j - 1)
      BY <2>0, <2>2
    <3> QED BY <1>8, <1>9, <2>1, <2>2, <3>1
  <2>3. CASE k = j
    <3>1. Bit(h, 0) = h
      <4>1. h \div 1 = h /\ h % 2 = h
        BY <1>8
      <4> QED BY <4>1, Power2Step DEF Bit
    <3>2. k - j = 0 /\ ~(k < j)
      BY <2>3
    <3> QED BY <1>7, <1>9, <2>1, <2>3, <3>1, <3>2
  <2>4. k < j \/ k = j
    BY <1>4
  <2> QED BY <2>2, <2>3, <2>4
<1>12. Good(m)
  BY <1>4, <1>7, <1>10, <1>11
<1> QED BY <1>2, <1>12

\* Sums of bits are added bit by bit.
LEMMA BelowLinear ==
    ASSUME NEW n \in Nat, NEW a, NEW b, NEW c, NEW d,
           \A k \in 0..(n - 1) : /\ a[k] \in {0, 1} /\ b[k] \in {0, 1} /\ c[k] \in {0, 1} /\ d[k] \in {0, 1}
                                 /\ c[k] + d[k] = a[k] + b[k]
    PROVE  Below(c, n) + Below(d, n) = Below(a, n) + Below(b, n)
<1> DEFINE Good(m) == Below(c, m) + Below(d, m) = Below(a, m) + Below(b, m)
           Bad == {m \in 0..n : ~Good(m)}
<1> SUFFICES ASSUME Bad # {} PROVE FALSE
  OBVIOUS
<1>1. PICK m \in Bad : \A y \in Bad : m <= y
  <2>1. Bad \subseteq Nat
    OBVIOUS
  <2> HIDE DEF Bad
  <2> QED BY <2>1, LeastNat
<1>2. m \in 0..n /\ ~Good(m)
  OBVIOUS
<1>3. m # 0
  <2>1. ASSUME NEW bits PROVE Below(bits, 0) = 0
    BY BelowZero
  <2>2. Good(0)
    BY <2>1
  <2> QED BY <1>2, <2>2
<1>4. PICK j \in Nat : m = j + 1 /\ j \in 0..n /\ j \in 0..(n - 1) /\ ~(m <= j)
  <2>1. m - 1 \in Nat /\ m = (m - 1) + 1 /\ m - 1 \in 0..n /\ m - 1 \in 0..(n - 1) /\ ~(m <= m - 1)
    BY <1>2, <1>3
  <2> QED BY <2>1
<1>5. Good(j)
  <2> HIDE DEF Good
  <2> QED BY <1>1, <1>4
<1>6. \A k \in 0..j : k \in 0..(n - 1)
  BY <1>4
<1>7. /\ Below(a, j + 1) = Below(a, j) + a[j] * Power2[j] /\ Below(a, j) \in Nat
      /\ Below(b, j + 1) = Below(b, j) + b[j] * Power2[j] /\ Below(b, j) \in Nat
      /\ Below(c, j + 1) = Below(c, j) + c[j] * Power2[j] /\ Below(c, j) \in Nat
      /\ Below(d, j + 1) = Below(d, j) + d[j] * Power2[j] /\ Below(d, j) \in Nat
  <2>1. \A k \in 0..j : a[k] \in Nat /\ b[k] \in Nat /\ c[k] \in Nat /\ d[k] \in Nat
    BY <1>6
  <2> QED BY <2>1, BelowStep
<1>8. PICK p \in Nat : p = Power2[j]
  BY Power2Pos
<1>9. c[j] * p + d[j] * p = a[j] * p + b[j] * p
  <2>1. a[j] \in {0, 1} /\ b[j] \in {0, 1} /\ c[j] \in {0, 1} /\ d[j] \in {0, 1}
        /\ c[j] + d[j] = a[j] + b[j]
    BY <1>4
  <2> QED BY <2>1
<1>10. a[j] * p \in Nat /\ b[j] * p \in Nat /\ c[j] * p \in Nat /\ d[j] * p \in Nat
  <2>1. a[j] \in {0, 1} /\ b[j] \in {0, 1} /\ c[j] \in {0, 1} /\ d[j] \in {0, 1}
    BY <1>4
  <2> QED BY <2>1
<1>11. Below(a, m) = Below(a, j) + a[j] * p /\ Below(b, m) = Below(b, j) + b[j] * p
       /\ Below(c, m) = Below(c, j) + c[j] * p /\ Below(d, m) = Below(d, j) + d[j] * p
  BY <1>4, <1>7, <1>8
<1>12. Good(m)
  BY <1>5, <1>7, <1>9, <1>10, <1>11
<1> QED BY <1>2, <1>12


-----------------------------------------------------------------------------
(***************************************************************************)
(* The bitwise operators, by the table t of what they do to a pair of bits.*)
(***************************************************************************)
Agrees(t, w, r, a, b) == \A k \in 0..(w - 1) : Bit(r, k) = t[<<Bit(a, k), Bit(b, k)>>]

AndTable == [p \in {0, 1} \X {0, 1} |-> p[1] * p[2]]
OrTable == [p \in {0, 1} \X {0, 1} |-> p[1] + p[2] - p[1] * p[2]]
XorTable == [p \in {0, 1} \X {0, 1} |-> (p[1] + p[2]) % 2]
NotTable == [p \in {0, 1} \X {0, 1} |-> 1 - p[1]]

\* Two digits that agree make numbers that agree.
LEMMA PairAgrees ==
    ASSUME NEW t, NEW w \in Nat, NEW R, R = Power2[w],
           NEW h \in 0..(R - 1), NEW l \in 0..(R - 1),
           NEW ha \in 0..(R - 1), NEW la \in 0..(R - 1),
           NEW hb \in 0..(R - 1), NEW lb \in 0..(R - 1),
           Agrees(t, w, h, ha, hb), Agrees(t, w, l, la, lb)
    PROVE  Agrees(t, 2 * w, h * R + l, ha * R + la, hb * R + lb)
<1> SUFFICES ASSUME NEW k \in 0..(2 * w - 1)
             PROVE  Bit(h * R + l, k) = t[<<Bit(ha * R + la, k), Bit(hb * R + lb, k)>>]
  BY DEF Agrees
<1>1. k \in Nat /\ h \in Nat /\ ha \in Nat /\ hb \in Nat
  OBVIOUS
<1>2. Bit(h * Power2[w] + l, k) = IF k < w THEN Bit(l, k) ELSE Bit(h, k - w)
  BY <1>1, BitOfPair
<1>3. Bit(ha * Power2[w] + la, k) = IF k < w THEN Bit(la, k) ELSE Bit(ha, k - w)
  BY <1>1, BitOfPair
<1>4. Bit(hb * Power2[w] + lb, k) = IF k < w THEN Bit(lb, k) ELSE Bit(hb, k - w)
  BY <1>1, BitOfPair
<1>5. CASE k < w
  <2>1. Bit(l, k) = t[<<Bit(la, k), Bit(lb, k)>>]
    BY <1>1, <1>5 DEF Agrees
  <2> QED BY <1>2, <1>3, <1>4, <1>5, <2>1
<1>6. CASE ~(k < w)
  <2>1. k - w \in 0..(w - 1)
    BY <1>6
  <2>2. Bit(h, k - w) = t[<<Bit(ha, k - w), Bit(hb, k - w)>>]
    BY <2>1 DEF Agrees
  <2> QED BY <1>2, <1>3, <1>4, <1>6, <2>2
<1> QED BY <1>5, <1>6

\* A number is the sum of its bits.
LEMMA LimbBelow ==
    ASSUME NEW a \in 0..(Base - 1)
    PROVE  Below([k \in 0..(LimbBits - 1) |-> Bit(a, k)], LimbBits) = a
<1>1. LimbBits \in Nat /\ Base \in Nat \ {0} /\ Power2[LimbBits] = Base /\ a \in Nat
  BY BaseFacts, BasePowers
<1>2. PICK bits : bits = [k \in 0..(LimbBits - 1) |-> Bit(a, k)]
  OBVIOUS
<1>3. \A k \in 0..(LimbBits - 1) : bits[k] = Bit(a, k)
  BY <1>2
<1>4. Below(bits, LimbBits) = a % Power2[LimbBits]
  BY <1>1, <1>3, BelowBits
<1>5. a % Base = a
  BY <1>1, ModSmall, SMTT(40)
<1> QED BY <1>1, <1>2, <1>4, <1>5

LEMMA LimbOps ==
    ASSUME NEW a \in 0..(Base - 1), NEW b \in 0..(Base - 1)
    PROVE  /\ LimbAnd(a, b) \in 0..(Base - 1) /\ Agrees(AndTable, LimbBits, LimbAnd(a, b), a, b)
           /\ LimbXor(a, b) \in 0..(Base - 1) /\ Agrees(XorTable, LimbBits, LimbXor(a, b), a, b)
           /\ LimbOr(a, b) \in 0..(Base - 1) /\ Agrees(OrTable, LimbBits, LimbOr(a, b), a, b)
<1>0. LimbBits \in Nat /\ Base \in Nat \ {0} /\ Power2[LimbBits] = Base /\ a \in Nat /\ b \in Nat
  BY BaseFacts, BasePowers
<1>1. ASSUME NEW k \in 0..(LimbBits - 1) PROVE Bit(a, k) \in {0, 1} /\ Bit(b, k) \in {0, 1}
  <2>1. k \in Nat /\ a \in Int /\ b \in Int
    BY <1>0
  <2> QED BY <2>1, BitRange
<1>2. PICK A, B, N, X, O :
        /\ A = [k \in 0..(LimbBits - 1) |-> Bit(a, k)]
        /\ B = [k \in 0..(LimbBits - 1) |-> Bit(b, k)]
        /\ N = [k \in 0..(LimbBits - 1) |-> Bit(a, k) * Bit(b, k)]
        /\ X = [k \in 0..(LimbBits - 1) |-> (Bit(a, k) + Bit(b, k)) % 2]
        /\ O = [k \in 0..(LimbBits - 1) |-> Bit(a, k) + Bit(b, k) - Bit(a, k) * Bit(b, k)]
  OBVIOUS
<1>3. ASSUME NEW k \in 0..(LimbBits - 1)
      PROVE  /\ A[k] \in {0, 1} /\ B[k] \in {0, 1} /\ N[k] \in {0, 1} /\ X[k] \in {0, 1}
             /\ O[k] \in {0, 1} /\ N[k] + O[k] = A[k] + B[k]
             /\ N[k] = AndTable[<<Bit(a, k), Bit(b, k)>>]
             /\ X[k] = XorTable[<<Bit(a, k), Bit(b, k)>>]
             /\ O[k] = OrTable[<<Bit(a, k), Bit(b, k)>>]
  <2>1. PICK p, q : p = Bit(a, k) /\ q = Bit(b, k)
    OBVIOUS
  <2>2. A[k] = p /\ B[k] = q /\ N[k] = p * q /\ X[k] = (p + q) % 2 /\ O[k] = p + q - p * q
    BY <1>2, <2>1
  <2>3. p \in {0, 1} /\ q \in {0, 1}
    BY <1>1, <2>1
  <2>4. p * q \in {0, 1} /\ (p + q) % 2 \in {0, 1} /\ p + q - p * q \in {0, 1}
        /\ p * q + (p + q - p * q) = p + q
    BY <2>3
  <2>5. AndTable[<<p, q>>] = p * q /\ XorTable[<<p, q>>] = (p + q) % 2
        /\ OrTable[<<p, q>>] = p + q - p * q
    BY <2>3 DEF AndTable, XorTable, OrTable
  <2> QED BY <2>1, <2>2, <2>3, <2>4, <2>5
<1>4. Below(A, LimbBits) = a /\ Below(B, LimbBits) = b
  BY <1>2, LimbBelow
<1>5. LimbAnd(a, b) = Below(N, LimbBits) /\ LimbXor(a, b) = Below(X, LimbBits)
  BY <1>2, LimbOfBelow DEF LimbAnd, LimbXor
<1>6. Below(N, LimbBits) + Below(O, LimbBits) = Below(A, LimbBits) + Below(B, LimbBits)
  <2>1. \A k \in 0..(LimbBits - 1) :
           /\ A[k] \in {0, 1} /\ B[k] \in {0, 1} /\ N[k] \in {0, 1} /\ O[k] \in {0, 1}
           /\ N[k] + O[k] = A[k] + B[k]
    BY <1>3
  <2> QED BY <1>0, <2>1, BelowLinear
<1>7. /\ Below(N, LimbBits) \in 0..(Base - 1)
      /\ \A k \in 0..(LimbBits - 1) : Bit(Below(N, LimbBits), k) = N[k]
  BY <1>0, <1>3, BitOfBelow
<1>8. /\ Below(X, LimbBits) \in 0..(Base - 1)
      /\ \A k \in 0..(LimbBits - 1) : Bit(Below(X, LimbBits), k) = X[k]
  BY <1>0, <1>3, BitOfBelow
<1>9. /\ Below(O, LimbBits) \in 0..(Base - 1)
      /\ \A k \in 0..(LimbBits - 1) : Bit(Below(O, LimbBits), k) = O[k]
  BY <1>0, <1>3, BitOfBelow
<1>10. LimbOr(a, b) = Below(O, LimbBits)
  <2>1. LimbOr(a, b) = a + b - Below(N, LimbBits)
    BY <1>5 DEF LimbOr
  <2>2. Below(N, LimbBits) \in Nat /\ Below(O, LimbBits) \in Nat
    BY <1>0, <1>7, <1>9
  <2> QED BY <1>0, <1>4, <1>6, <2>1, <2>2
<1>11. Agrees(AndTable, LimbBits, LimbAnd(a, b), a, b)
  BY <1>3, <1>5, <1>7 DEF Agrees
<1>12. Agrees(XorTable, LimbBits, LimbXor(a, b), a, b)
  BY <1>3, <1>5, <1>8 DEF Agrees
<1>13. Agrees(OrTable, LimbBits, LimbOr(a, b), a, b)
  BY <1>3, <1>9, <1>10 DEF Agrees
<1> QED BY <1>5, <1>7, <1>8, <1>9, <1>10, <1>11, <1>12, <1>13

LEMMA LimbNotBits ==
    ASSUME NEW a \in 0..(Base - 1)
    PROVE  LimbNot(a) \in 0..(Base - 1) /\ Agrees(NotTable, LimbBits, LimbNot(a), a, a)
<1>0. LimbBits \in Nat /\ Base \in Nat \ {0} /\ Power2[LimbBits] = Base /\ a \in Nat
  BY BaseFacts, BasePowers
<1>1. LimbNot(a) \in 0..(Base - 1)
  BY <1>0 DEF LimbNot
<1>2. ASSUME NEW k \in 0..(LimbBits - 1) PROVE Bit(LimbNot(a), k) = 1 - Bit(a, k)
  <2>1. PICK j \in Nat : LimbBits = k + (j + 1)
    <3>1. LimbBits - (k + 1) \in Nat /\ LimbBits = k + ((LimbBits - (k + 1)) + 1)
      BY <1>0
    <3> QED BY <3>1
  <2>2. PICK p \in Nat \ {0}, e \in Nat \ {0} : p = Power2[k] /\ e = Power2[j]
    BY Power2Pos
  <2>3. Base = (2 * e) * p
    <3>1. Power2[j + 1] = 2 * e
      BY <2>2, Power2Step
    <3>2. k \in Nat /\ j + 1 \in Nat
      OBVIOUS
    <3>3. Power2[k + (j + 1)] = Power2[k] * Power2[j + 1]
      BY <3>2, Power2Sum
    <3>4. p * (2 * e) = (2 * e) * p
      OBVIOUS
    <3> QED BY <1>0, <2>1, <2>2, <3>1, <3>3, <3>4
  <2>4. PICK q \in Int, r \in Nat : r < p /\ a = q * p + r
    <3>1. a \div p \in Int /\ a % p \in Nat /\ a % p < p /\ a = (a \div p) * p + (a % p)
      <4>1. a \in Int
        BY <1>0
      <4> QED BY <4>1, DivMod
    <3> QED BY <3>1
  <2>5. PICK s \in Int, t \in Nat : s = (2 * e - 1) - q /\ t = (p - 1) - r
    BY <2>4
  <2>6. PICK v : v = (Base - 1) - a
    OBVIOUS
  <2>7. v = s * p + t /\ t < p
    <3>1. ((2 * e) * p - 1) - (q * p + r) = ((2 * e - 1) - q) * p + ((p - 1) - r)
      BY <2>4
    <3> QED BY <2>3, <2>4, <2>5, <2>6, <3>1
  <2>8. v \div p = s
    BY <2>7, DivModOf
  <2>9. a \div p = q
    BY <2>4, DivModOf
  <2>10. s % 2 = 1 - (q % 2)
    BY <2>5
  <2>11. LimbNot(a) = v
    BY <1>0, <2>6 DEF LimbNot
  <2> QED BY <2>2, <2>8, <2>9, <2>10, <2>11 DEF Bit
<1>3. ASSUME NEW k \in 0..(LimbBits - 1) PROVE NotTable[<<Bit(a, k), Bit(a, k)>>] = 1 - Bit(a, k)
  <2>1. k \in Nat /\ a \in Int
    BY <1>0
  <2>2. Bit(a, k) \in {0, 1}
    BY <2>1, BitRange
  <2> QED BY <2>2 DEF NotTable
<1> QED BY <1>1, <1>2, <1>3 DEF Agrees


LEMMA Agrees128 ==
    ASSUME NEW t, NEW r \in Uint128, NEW a \in Uint128, NEW b \in Uint128,
           Agrees(t, LimbBits, UPPER(r), UPPER(a), UPPER(b)),
           Agrees(t, LimbBits, LOWER(r), LOWER(a), LOWER(b))
    PROVE  Agrees(t, 2 * LimbBits, Value128(r), Value128(a), Value128(b))
<1>1. LimbBits \in Nat /\ Base = Power2[LimbBits]
  BY BaseFacts, BasePowers
<1>2. PICK R : R = Base
  OBVIOUS
<1>3. PICK h, l, ha, la, hb, lb :
        /\ h = UPPER(r) /\ l = LOWER(r) /\ ha = UPPER(a) /\ la = LOWER(a)
        /\ hb = UPPER(b) /\ lb = LOWER(b)
  OBVIOUS
<1>4. /\ h \in 0..(R - 1) /\ l \in 0..(R - 1) /\ ha \in 0..(R - 1) /\ la \in 0..(R - 1)
      /\ hb \in 0..(R - 1) /\ lb \in 0..(R - 1)
  BY <1>2, <1>3, Parts128
<1>5. Value128(r) = h * R + l /\ Value128(a) = ha * R + la /\ Value128(b) = hb * R + lb
  BY <1>2, <1>3, Parts128
<1>6. R = Power2[LimbBits]
  BY <1>1, <1>2
<1>7. Agrees(t, LimbBits, h, ha, hb) /\ Agrees(t, LimbBits, l, la, lb)
  BY <1>3
<1>8. Agrees(t, 2 * LimbBits, h * R + l, ha * R + la, hb * R + lb)
  BY <1>1, <1>4, <1>6, <1>7, PairAgrees
<1> QED BY <1>5, <1>8

LEMMA Agrees256 ==
    ASSUME NEW t, NEW r \in Uint256, NEW a \in Uint256, NEW b \in Uint256,
           Agrees(t, 2 * LimbBits, Value128(UPPER(r)), Value128(UPPER(a)), Value128(UPPER(b))),
           Agrees(t, 2 * LimbBits, Value128(LOWER(r)), Value128(LOWER(a)), Value128(LOWER(b)))
    PROVE  Agrees(t, 4 * LimbBits, Value256(r), Value256(a), Value256(b))
<1>1. LimbBits \in Nat /\ Square = Power2[2 * LimbBits]
  BY BaseFacts, BasePowers
<1>2. PICK R, w : R = Square /\ w = 2 * LimbBits
  OBVIOUS
<1>3. PICK h, l, ha, la, hb, lb :
        /\ h = Value128(UPPER(r)) /\ l = Value128(LOWER(r)) /\ ha = Value128(UPPER(a))
        /\ la = Value128(LOWER(a)) /\ hb = Value128(UPPER(b)) /\ lb = Value128(LOWER(b))
  OBVIOUS
<1>4. /\ h \in 0..(R - 1) /\ l \in 0..(R - 1) /\ ha \in 0..(R - 1) /\ la \in 0..(R - 1)
      /\ hb \in 0..(R - 1) /\ lb \in 0..(R - 1)
  <2>1. /\ UPPER(r) \in Uint128 /\ LOWER(r) \in Uint128 /\ UPPER(a) \in Uint128
        /\ LOWER(a) \in Uint128 /\ UPPER(b) \in Uint128 /\ LOWER(b) \in Uint128
    BY Parts256
  <2> QED BY <1>2, <1>3, <2>1, Parts128
<1>5. Value256(r) = h * R + l /\ Value256(a) = ha * R + la /\ Value256(b) = hb * R + lb
  BY <1>2, <1>3, Parts256
<1>6. R = Power2[w] /\ w \in Nat /\ 2 * w = 4 * LimbBits
  BY <1>1, <1>2
<1>7. Agrees(t, w, h, ha, hb) /\ Agrees(t, w, l, la, lb)
  BY <1>2, <1>3
<1>8. Agrees(t, 2 * w, h * R + l, ha * R + la, hb * R + lb)
  BY <1>4, <1>6, <1>7, PairAgrees
<1> QED BY <1>5, <1>6, <1>8

\* For numbers of four limbs.
LEMMA Wise128 ==
    ASSUME NEW a \in Uint128, NEW b \in Uint128
    PROVE  /\ /\ and128(a, b) \in Uint128
              /\ Agrees(AndTable, 2 * LimbBits, Value128(and128(a, b)), Value128(a), Value128(b))
           /\ /\ or128(a, b) \in Uint128
              /\ Agrees(OrTable, 2 * LimbBits, Value128(or128(a, b)), Value128(a), Value128(b))
           /\ /\ xor128(a, b) \in Uint128
              /\ Agrees(XorTable, 2 * LimbBits, Value128(xor128(a, b)), Value128(a), Value128(b))
           /\ /\ not128(a) \in Uint128
              /\ Agrees(NotTable, 2 * LimbBits, Value128(not128(a)), Value128(a), Value128(a))
           /\ Value128(or128(a, b)) + Value128(and128(a, b)) = Value128(a) + Value128(b)
<1> PICK ha, la, hb, lb :
      ha = UPPER(a) /\ la = LOWER(a) /\ hb = UPPER(b) /\ lb = LOWER(b)
  OBVIOUS
<1>1. /\ ha \in 0..(Base - 1) /\ la \in 0..(Base - 1) /\ hb \in 0..(Base - 1) /\ lb \in 0..(Base - 1)
      /\ Value128(a) = ha * Base + la /\ Value128(b) = hb * Base + lb
  BY Parts128
<1>2. PICK n, r : n = and128(a, b) /\ r = or128(a, b)
  OBVIOUS
<1>3. /\ n \in Uint128 /\ UPPER(n) = LimbAnd(ha, hb) /\ LOWER(n) = LimbAnd(la, lb)
      /\ Value128(n) = LimbAnd(ha, hb) * Base + LimbAnd(la, lb)
  <2>1. LimbAnd(ha, hb) \in 0..(Base - 1) /\ LimbAnd(la, lb) \in 0..(Base - 1)
    BY <1>1, LimbOps
  <2>2. n = <<LimbAnd(ha, hb), LimbAnd(la, lb)>>
    BY <1>2 DEF and128
  <2> QED BY <2>1, <2>2, Make128
<1>4. Agrees(AndTable, 2 * LimbBits, Value128(n), Value128(a), Value128(b))
  BY <1>1, <1>3, LimbOps, Agrees128
<1>5. /\ r \in Uint128 /\ UPPER(r) = LimbOr(ha, hb) /\ LOWER(r) = LimbOr(la, lb)
      /\ Value128(r) = LimbOr(ha, hb) * Base + LimbOr(la, lb)
  <2>1. LimbOr(ha, hb) \in 0..(Base - 1) /\ LimbOr(la, lb) \in 0..(Base - 1)
    BY <1>1, LimbOps
  <2>2. r = <<LimbOr(ha, hb), LimbOr(la, lb)>>
    BY <1>2 DEF or128
  <2> QED BY <2>1, <2>2, Make128
<1>6. Agrees(OrTable, 2 * LimbBits, Value128(r), Value128(a), Value128(b))
  BY <1>1, <1>5, LimbOps, Agrees128
<1>7. PICK x : x = xor128(a, b)
  OBVIOUS
<1>8. x \in Uint128 /\ UPPER(x) = LimbXor(ha, hb) /\ LOWER(x) = LimbXor(la, lb)
  BY <1>1, <1>7, LimbOps, Make128 DEF xor128
<1>9. Agrees(XorTable, 2 * LimbBits, Value128(x), Value128(a), Value128(b))
  BY <1>1, <1>8, LimbOps, Agrees128
<1>10. PICK z : z = not128(a)
  OBVIOUS
<1>11. z \in Uint128 /\ UPPER(z) = LimbNot(ha) /\ LOWER(z) = LimbNot(la)
  BY <1>1, <1>10, LimbNotBits, Make128 DEF not128
<1>12. Agrees(NotTable, 2 * LimbBits, Value128(z), Value128(a), Value128(a))
  BY <1>1, <1>11, LimbNotBits, Agrees128
<1>13. Value128(r) + Value128(n) = Value128(a) + Value128(b)
  <2>1. PICK p \in Nat, q \in Nat : p = LimbAnd(ha, hb) /\ q = LimbAnd(la, lb)
    BY <1>1, LimbOps, BaseFacts
  <2>2. LimbOr(ha, hb) = ha + hb - p /\ LimbOr(la, lb) = la + lb - q
    BY <2>1 DEF LimbOr
  <2>3. ((ha + hb - p) * Base + (la + lb - q)) + (p * Base + q) = (ha * Base + la) + (hb * Base + lb)
    BY <1>1, BaseFacts
  <2> QED BY <1>1, <1>3, <1>5, <2>1, <2>2, <2>3
<1> QED BY <1>2, <1>3, <1>4, <1>5, <1>6, <1>7, <1>8, <1>9, <1>10, <1>11, <1>12, <1>13

LEMMA Wise256 ==
    ASSUME NEW a \in Uint256, NEW b \in Uint256
    PROVE  /\ /\ and256(a, b) \in Uint256
              /\ Agrees(AndTable, 4 * LimbBits, Value256(and256(a, b)), Value256(a), Value256(b))
           /\ /\ or256(a, b) \in Uint256
              /\ Agrees(OrTable, 4 * LimbBits, Value256(or256(a, b)), Value256(a), Value256(b))
           /\ /\ xor256(a, b) \in Uint256
              /\ Agrees(XorTable, 4 * LimbBits, Value256(xor256(a, b)), Value256(a), Value256(b))
           /\ /\ not256(a) \in Uint256
              /\ Agrees(NotTable, 4 * LimbBits, Value256(not256(a)), Value256(a), Value256(a))
           /\ Value256(or256(a, b)) + Value256(and256(a, b)) = Value256(a) + Value256(b)
<1> PICK ha, la, hb, lb :
      ha = UPPER(a) /\ la = LOWER(a) /\ hb = UPPER(b) /\ lb = LOWER(b)
  OBVIOUS
<1>1. /\ ha \in Uint128 /\ la \in Uint128 /\ hb \in Uint128 /\ lb \in Uint128
      /\ Value256(a) = Value128(ha) * Square + Value128(la)
      /\ Value256(b) = Value128(hb) * Square + Value128(lb)
  BY Parts256
<1>2. PICK n, r, x, z : n = and256(a, b) /\ r = or256(a, b) /\ x = xor256(a, b) /\ z = not256(a)
  OBVIOUS
<1>3. /\ n \in Uint256 /\ UPPER(n) = and128(ha, hb) /\ LOWER(n) = and128(la, lb)
      /\ Value256(n) = Value128(and128(ha, hb)) * Square + Value128(and128(la, lb))
  <2>1. and128(ha, hb) \in Uint128 /\ and128(la, lb) \in Uint128
    BY <1>1, Wise128
  <2>2. n = <<and128(ha, hb), and128(la, lb)>>
    BY <1>2 DEF and256
  <2> QED BY <2>1, <2>2, Make256
<1>4. Agrees(AndTable, 4 * LimbBits, Value256(n), Value256(a), Value256(b))
  BY <1>1, <1>3, Wise128, Agrees256
<1>5. /\ r \in Uint256 /\ UPPER(r) = or128(ha, hb) /\ LOWER(r) = or128(la, lb)
      /\ Value256(r) = Value128(or128(ha, hb)) * Square + Value128(or128(la, lb))
  <2>1. or128(ha, hb) \in Uint128 /\ or128(la, lb) \in Uint128
    BY <1>1, Wise128
  <2>2. r = <<or128(ha, hb), or128(la, lb)>>
    BY <1>2 DEF or256
  <2> QED BY <2>1, <2>2, Make256
<1>6. Agrees(OrTable, 4 * LimbBits, Value256(r), Value256(a), Value256(b))
  BY <1>1, <1>5, Wise128, Agrees256
<1>8. x \in Uint256 /\ UPPER(x) = xor128(ha, hb) /\ LOWER(x) = xor128(la, lb)
  BY <1>1, <1>2, Wise128, Make256 DEF xor256
<1>9. Agrees(XorTable, 4 * LimbBits, Value256(x), Value256(a), Value256(b))
  BY <1>1, <1>8, Wise128, Agrees256
<1>11. z \in Uint256 /\ UPPER(z) = not128(ha) /\ LOWER(z) = not128(la)
  BY <1>1, <1>2, Wise128, Make256 DEF not256
<1>12. Agrees(NotTable, 4 * LimbBits, Value256(z), Value256(a), Value256(a))
  BY <1>1, <1>11, Wise128, Agrees256
<1>13. Value256(r) + Value256(n) = Value256(a) + Value256(b)
  <2>1. PICK A \in Nat, B \in Nat, C \in Nat, D \in Nat, E \in Nat, F \in Nat, G \in Nat, H \in Nat :
          /\ A = Value128(ha) /\ B = Value128(la) /\ C = Value128(hb) /\ D = Value128(lb)
          /\ E = Value128(or128(ha, hb)) /\ F = Value128(or128(la, lb))
          /\ G = Value128(and128(ha, hb)) /\ H = Value128(and128(la, lb))
    <3>1. \A v \in Uint128 : Value128(v) \in Nat
      BY Parts128, BaseFacts
    <3>2. or128(ha, hb) \in Uint128 /\ or128(la, lb) \in Uint128
          /\ and128(ha, hb) \in Uint128 /\ and128(la, lb) \in Uint128
      BY <1>1, Wise128
    <3> QED BY <1>1, <3>1, <3>2
  <2>2. E + G = A + C /\ F + H = B + D
    BY <1>1, <2>1, Wise128
  <2>3. PICK R \in Nat : R = Square
    BY BaseFacts
  <2>4. E = A + C - G /\ F = B + D - H
    BY <2>2
  <2>5. ((A + C - G) * R + (B + D - H)) + (G * R + H) = (A * R + B) + (C * R + D)
    OBVIOUS
  <2>6. (E * R + F) + (G * R + H) = (A * R + B) + (C * R + D)
    BY <2>4, <2>5
  <2> QED BY <1>1, <1>3, <1>5, <2>1, <2>3, <2>6
<1> QED BY <1>2, <1>3, <1>4, <1>5, <1>6, <1>8, <1>9, <1>11, <1>12, <1>13

\* The bits of a number name it: without bits it is zero.
LEMMA NoBits ==
    ASSUME NEW n \in Uint256, \A k \in 0..(4 * LimbBits - 1) : Bit(Value256(n), k) = 0
    PROVE  Value256(n) = 0
<1>1. HasBits(Value256(n), bits256(n)) /\ bits256(n) <= 4 * LimbBits
  BY Bits256
<1>2. PICK v, b : v = Value256(n) /\ b = bits256(n)
  OBVIOUS
<1>3. v \in Nat
  BY <1>2, Parts256, BaseFacts
<1>4. b \in Nat /\ v < Power2[b] /\ (b # 0 => b - 1 \in Nat /\ Power2[b - 1] <= v)
      /\ b <= 4 * LimbBits
  BY <1>1, <1>2 DEF HasBits
<1>5. CASE b = 0
  BY <1>2, <1>3, <1>4, <1>5, Power2Step
<1>6. CASE b # 0
  <2>1. PICK j \in Nat : j = b - 1 /\ b = j + 1 /\ j \in 0..(4 * LimbBits - 1)
    BY <1>4, <1>6, BaseFacts
  <2>2. PICK p \in Nat \ {0} : p = Power2[j]
    BY Power2Pos
  <2>3. p <= v /\ v < 2 * p
    BY <1>4, <1>6, <2>1, <2>2, Power2Step
  <2>4. PICK o \in Int, r \in Nat : o = 1 /\ r = v - p
    BY <1>3, <2>3
  <2>5. v = o * p + r /\ r < p
    BY <1>3, <2>3, <2>4
  <2>6. v \div p = o
    BY <2>5, DivModOf
  <2>7. Bit(v, j) = 1
    <3>1. o % 2 = 1
      BY <2>4
    <3> QED BY <2>2, <2>6, <3>1 DEF Bit
  <2>8. Bit(v, j) = 0
    BY <1>2, <2>1
  <2> QED BY <2>7, <2>8
<1> QED BY <1>5, <1>6

\* Numbers without common bits are added by or256.
LEMMA OrIsSum ==
    ASSUME NEW a \in Uint256, NEW b \in Uint256,
           \A k \in 0..(4 * LimbBits - 1) : Bit(Value256(a), k) * Bit(Value256(b), k) = 0
    PROVE  or256(a, b) \in Uint256 /\ Value256(or256(a, b)) = Value256(a) + Value256(b)
<1>1. PICK n : n = and256(a, b)
  OBVIOUS
<1>2. n \in Uint256 /\ Agrees(AndTable, 4 * LimbBits, Value256(n), Value256(a), Value256(b))
      /\ or256(a, b) \in Uint256 /\ Value256(or256(a, b)) + Value256(n) = Value256(a) + Value256(b)
  BY <1>1, Wise256
<1>3. ASSUME NEW k \in 0..(4 * LimbBits - 1) PROVE Bit(Value256(n), k) = 0
  <2>1. PICK p \in {0, 1}, q \in {0, 1} : p = Bit(Value256(a), k) /\ q = Bit(Value256(b), k)
    <3>1. k \in Nat /\ Value256(a) \in Int /\ Value256(b) \in Int
      BY Parts256, BaseFacts
    <3> QED BY <3>1, BitRange
  <2>2. Bit(Value256(n), k) = AndTable[<<p, q>>]
    BY <1>2, <2>1 DEF Agrees
  <2>3. AndTable[<<p, q>>] = p * q
    BY DEF AndTable
  <2> QED BY <2>1, <2>2, <2>3
<1>4. Value256(n) = 0
  BY <1>2, <1>3, NoBits
<1>5. Value256(or256(a, b)) \in Nat
  BY <1>2, Parts256, BaseFacts
<1> QED BY <1>2, <1>4, <1>5


-----------------------------------------------------------------------------
(***************************************************************************)
(* Bytes.                                                                  *)
(***************************************************************************)
LEMMA ByteFacts ==
    /\ ByteBits \in Nat \ {0} /\ LimbBytes \in Nat \ {0} /\ LimbBytes * ByteBits = LimbBits
    /\ ByteBase \in Nat \ {0} /\ ByteBase >= 2 /\ ByteBase = Power2[ByteBits]
    /\ Bytes = 0..(ByteBase - 1)
<1>1. ByteBits \in Nat \ {0} /\ LimbBits \in Nat /\ LimbBits >= 4 /\ LimbBits % ByteBits = 0
  BY Uint256Assumption
<1>2. LimbBits = (LimbBits \div ByteBits) * ByteBits + (LimbBits % ByteBits)
      /\ LimbBits \div ByteBits \in Nat
  BY <1>1, DivMod
<1>3. PICK m \in Nat : m = LimbBytes
  BY <1>2 DEF LimbBytes
<1>4. m * ByteBits = LimbBits
  BY <1>1, <1>2, <1>3 DEF LimbBytes
<1>5. m # 0
  BY <1>1, <1>4
<1>6. ByteBase = Power2[ByteBits] /\ ByteBase \in Nat \ {0}
  BY <1>1, Power2Pos DEF ByteBase
<1>7. 2 * Power2[0] <= Power2[ByteBits]
  <2>1. 0 \in Nat /\ ByteBits \in Nat /\ 0 < ByteBits
    BY <1>1
  <2> QED BY <2>1, Power2Mono
<1> QED BY <1>1, <1>3, <1>4, <1>5, <1>6, <1>7, Power2Step DEF Bytes

\* Digit i of v in base ByteBase, 0 the lowest; the weight of it.
Weight(i) == Power2[i * ByteBits]
Digit(v, i) == (v \div Weight(i)) % ByteBase

LEMMA WeightFacts ==
    ASSUME NEW i \in Nat, NEW j \in Nat
    PROVE  /\ Weight(i) \in Nat \ {0} /\ Weight(0) = 1
           /\ Weight(i + j) = Weight(i) * Weight(j)
           /\ Weight(i + 1) = Weight(i) * ByteBase
<1>1. ByteBits \in Nat
  BY ByteFacts
<1>2. i * ByteBits \in Nat /\ j * ByteBits \in Nat /\ 0 * ByteBits = 0
      /\ (i + j) * ByteBits = i * ByteBits + j * ByteBits
      /\ (i + 1) * ByteBits = i * ByteBits + ByteBits
  BY <1>1
<1>3. Power2[i * ByteBits + j * ByteBits] = Power2[i * ByteBits] * Power2[j * ByteBits]
  BY <1>2, Power2Sum
<1>4. Power2[i * ByteBits + ByteBits] = Power2[i * ByteBits] * Power2[ByteBits]
  BY <1>1, <1>2, Power2Sum
<1> QED BY <1>2, <1>3, <1>4, Power2Pos, Power2Step, ByteFacts DEF Weight

LEMMA WeightNat ==
    ASSUME NEW i \in Nat
    PROVE  Weight(i) \in Nat \ {0} /\ Weight(0) = 1 /\ Weight(i + 1) = Weight(i) * ByteBase
<1>1. 0 \in Nat
  OBVIOUS
<1> QED BY <1>1, WeightFacts

LEMMA LimbWeights ==
    Weight(LimbBytes) = Base /\ Weight(2 * LimbBytes) = Square /\ Weight(4 * LimbBytes) = Modulus
<1>1. LimbBytes \in Nat /\ 2 * LimbBytes \in Nat
  BY ByteFacts
<1>2. Weight(LimbBytes) = Base
  BY ByteFacts, BasePowers DEF Weight
<1>3. Weight(LimbBytes + LimbBytes) = Base * Base
  BY <1>1, <1>2, WeightFacts
<1>4. Weight(2 * LimbBytes) = Square
  <2>1. LimbBytes + LimbBytes = 2 * LimbBytes
    BY <1>1
  <2> QED BY <1>3, <2>1 DEF Square
<1>5. Weight(2 * LimbBytes + 2 * LimbBytes) = Square * Square
  BY <1>1, <1>4, WeightFacts
<1>6. 2 * LimbBytes + 2 * LimbBytes = 4 * LimbBytes
  BY <1>1
<1> QED BY <1>2, <1>4, <1>5, <1>6, BaseFacts

\* The digits of a number of two parts.
LEMMA DigitOfPair ==
    ASSUME NEW w \in Nat, NEW h \in Nat, NEW l \in 0..(Weight(w) - 1), NEW i \in Nat
    PROVE  Digit(h * Weight(w) + l, i) = IF i < w THEN Digit(l, i) ELSE Digit(h, i - w)
<1>0. Weight(w) \in Nat \ {0} /\ Weight(i) \in Nat \ {0} /\ l \in Nat /\ ByteBase \in Nat \ {0}
  <2>1. Weight(w) \in Nat \ {0}
    BY WeightNat
  <2>2. Weight(i) \in Nat \ {0}
    BY WeightNat
  <2> QED BY <2>1, <2>2, ByteFacts
<1>1. CASE i < w
  <2>1. PICK j \in Nat : w = i + (j + 1)
    <3>1. w - (i + 1) \in Nat /\ w = i + ((w - (i + 1)) + 1)
      BY <1>1
    <3> QED BY <3>1
  <2>2. PICK p \in Nat \ {0}, e \in Nat \ {0}, b \in Nat \ {0} :
           p = Weight(i) /\ e = Weight(j) /\ b = ByteBase
    BY WeightFacts, ByteFacts
  <2>3. Weight(w) = p * (e * b)
    <3>1. Weight(j + 1) = e * b
      BY <2>2, WeightFacts
    <3>2. Weight(i + (j + 1)) = Weight(i) * Weight(j + 1)
      <4>1. j + 1 \in Nat
        OBVIOUS
      <4> QED BY <4>1, WeightFacts
    <3> QED BY <2>1, <2>2, <3>1, <3>2
  <2>4. PICK f \in Nat : f = h * e
    OBVIOUS
  <2>5. h * Weight(w) = (f * b) * p
    <3>1. h * (p * (e * b)) = ((h * e) * b) * p
      OBVIOUS
    <3> QED BY <2>3, <2>4, <3>1
  <2>6. PICK g \in Int : g = f * b
    OBVIOUS
  <2>7. (g * p + l) \div p = g + (l \div p)
    <3>1. l \in Int
      BY <1>0
    <3> QED BY <3>1, ModPlus
  <2>8. PICK q \in Int : q = l \div p
    <3>1. l \in Int
      BY <1>0
    <3>2. l \div p \in Int
      BY <3>1, DivMod
    <3> QED BY <3>2
  <2>9. (f * b + q) % b = q % b
    <3>1. f \in Int
      OBVIOUS
    <3> QED BY <3>1, ModPlus
  <2>11. Digit(h * Weight(w) + l, i) = (g + q) % b
    <3>1. h * Weight(w) + l = g * p + l
      BY <2>5, <2>6
    <3> QED BY <2>2, <2>7, <2>8, <3>1 DEF Digit
  <2>12. Digit(l, i) = q % b
    BY <2>2, <2>8 DEF Digit
  <2> QED BY <1>1, <2>6, <2>9, <2>11, <2>12
<1>2. CASE i >= w
  <2>1. PICK j \in Nat : j = i - w /\ i = w + j
    BY <1>2
  <2>2. PICK p \in Nat \ {0}, e \in Nat \ {0} : p = Weight(w) /\ e = Weight(j)
    BY WeightFacts
  <2>3. Weight(i) = p * e
    BY <2>1, <2>2, WeightFacts
  <2>4. PICK v : v = h * p + l
    OBVIOUS
  <2>5. v \in Int
    BY <1>0, <2>4
  <2>6. (v \div p) \div e = v \div (p * e)
    BY <2>5, DivTimes, Zenon
  <2>7. v \div p = h
    <3>1. l \in Nat /\ l < p /\ h \in Int
      BY <1>0, <2>2
    <3> QED BY <2>4, <3>1, DivModOf
  <2>8. Digit(v, i) = Digit(h, j)
    BY <2>2, <2>3, <2>6, <2>7 DEF Digit
  <2> QED BY <1>2, <2>1, <2>2, <2>4, <2>8
<1> QED BY <1>1, <1>2

LEMMA JoinedRange ==
    ASSUME NEW buffer, NEW from \in Nat, NEW n \in Nat, \A i \in 1..n : buffer[from + i] \in Bytes
    PROVE  Joined(buffer, from, n) \in 0..(Weight(n) - 1)
<1> DEFINE Good(m) == Joined(buffer, from, m) \in 0..(Weight(m) - 1)
           Bad == {m \in 0..n : ~Good(m)}
<1> SUFFICES ASSUME Bad # {} PROVE FALSE
  OBVIOUS
<1>1. PICK m \in Bad : \A y \in Bad : m <= y
  <2>1. Bad \subseteq Nat
    OBVIOUS
  <2> HIDE DEF Bad
  <2> QED BY <2>1, LeastNat
<1>2. m \in 0..n /\ ~Good(m)
  OBVIOUS
<1>3. m # 0
  <2>0. Joined(buffer, from, 0) = 0 /\ Weight(0) = 1
    BY JoinedStep, WeightNat
  <2>1. Good(0)
    BY <2>0
  <2> QED BY <1>2, <2>1
<1>4. PICK j \in Nat : m = j + 1 /\ j \in 0..n /\ m \in 1..n /\ ~(m <= j)
  <2>1. m - 1 \in Nat /\ m = (m - 1) + 1 /\ m - 1 \in 0..n /\ m \in 1..n /\ ~(m <= m - 1)
    BY <1>2, <1>3
  <2> QED BY <2>1
<1>5. Good(j)
  <2> HIDE DEF Good
  <2> QED BY <1>1, <1>4
<1>6. PICK h, l, R, S : h = Joined(buffer, from, j) /\ l = buffer[from + m] /\ R = ByteBase /\ S = Weight(j)
  OBVIOUS
<1>7. Joined(buffer, from, m) = h * R + l
  BY <1>4, <1>6, JoinedStep
<1>8. h \in 0..(S - 1) /\ l \in 0..(R - 1) /\ R \in Nat \ {0} /\ S \in Nat \ {0}
  BY <1>4, <1>5, <1>6, ByteFacts, WeightFacts
<1>9. h * R + l \in 0..(S * R - 1)
  BY <1>8, PairRange
<1>10. Weight(m) = S * R
  BY <1>4, <1>6, WeightFacts
<1> QED BY <1>2, <1>7, <1>9, <1>10

\* The bytes of a stretch of a buffer, and what joining two stretches gives.
Spelt(buffer, from, n) == \A i \in 1..n : buffer[from + i] \in Bytes
SplitAt(buffer, from, k, n) ==
    Joined(buffer, from, k + n) = Joined(buffer, from, k) * Weight(n) + Joined(buffer, from + k, n)

LEMMA JoinedSplit ==
    ASSUME NEW buffer, NEW from \in Nat, NEW k \in Nat, NEW n \in Nat, Spelt(buffer, from, k + n)
    PROVE  SplitAt(buffer, from, k, n)
<1> DEFINE Good(m) == Joined(buffer, from, k + m)
                        = Joined(buffer, from, k) * Weight(m) + Joined(buffer, from + k, m)
           Bad == {m \in 0..n : ~Good(m)}
<1> SUFFICES ASSUME Bad # {} PROVE FALSE
  BY DEF SplitAt
<1> \A i \in 1..(k + n) : buffer[from + i] \in Bytes
  BY DEF Spelt
<1>1. PICK m \in Bad : \A y \in Bad : m <= y
  <2>1. Bad \subseteq Nat
    OBVIOUS
  <2> HIDE DEF Bad
  <2> QED BY <2>1, LeastNat
<1>2. m \in 0..n /\ ~Good(m)
  OBVIOUS
<1>10. ASSUME NEW i \in 0..n PROVE Joined(buffer, from + k, i) \in Nat
  <2>1. \A c \in 1..i : buffer[(from + k) + c] \in Bytes
    <3> SUFFICES ASSUME NEW c \in 1..i PROVE buffer[(from + k) + c] \in Bytes
      OBVIOUS
    <3>1. k + c \in 1..(k + n) /\ from + (k + c) = (from + k) + c
      OBVIOUS
    <3>2. buffer[from + (k + c)] \in Bytes
      BY <3>1
    <3> QED BY <3>1, <3>2
  <2>2. Joined(buffer, from + k, i) \in 0..(Weight(i) - 1)
    <3>1. from + k \in Nat /\ i \in Nat
      OBVIOUS
    <3> QED BY <2>1, <3>1, JoinedRange
  <2> QED BY <2>2, WeightFacts
<1>11. Joined(buffer, from, k) \in Nat
  <2>1. \A c \in 1..k : buffer[from + c] \in Bytes
    OBVIOUS
  <2>2. Joined(buffer, from, k) \in 0..(Weight(k) - 1)
    BY <2>1, JoinedRange
  <2> QED BY <2>2, WeightFacts
<1>3. m # 0
  <2>1. Joined(buffer, from + k, 0) = 0 /\ Weight(0) = 1 /\ k + 0 = k
    BY JoinedStep, WeightFacts
  <2>2. Good(0)
    BY <1>11, <2>1
  <2> QED BY <1>2, <2>2
<1>4. PICK j \in Nat : m = j + 1 /\ j \in 0..n /\ ~(m <= j) /\ k + m = (k + j) + 1
  <2>1. m - 1 \in Nat /\ m = (m - 1) + 1 /\ m - 1 \in 0..n /\ ~(m <= m - 1)
        /\ k + m = (k + (m - 1)) + 1
    BY <1>2, <1>3
  <2> QED BY <2>1
<1>5. Good(j)
  <2> HIDE DEF Good
  <2> QED BY <1>1, <1>4
<1>6. Joined(buffer, from, k + m) = Joined(buffer, from, k + j) * ByteBase + buffer[from + (k + m)]
  <2>1. k + j \in Nat
    OBVIOUS
  <2> QED BY <1>4, <2>1, JoinedStep
<1>7. Joined(buffer, from + k, m) = Joined(buffer, from + k, j) * ByteBase + buffer[(from + k) + m]
  BY <1>4, JoinedStep
<1>8. from + (k + m) = (from + k) + m /\ from + (k + m) = from + (k + m)
  BY <1>4
<1>9. Weight(m) = Weight(j) * ByteBase
  BY <1>4, WeightFacts
<1>12. PICK A \in Nat, W \in Nat, B \in Nat, J \in Nat, c \in Nat :
          /\ A = Joined(buffer, from, k) /\ W = Weight(j) /\ B = ByteBase
          /\ J = Joined(buffer, from + k, j) /\ c = buffer[(from + k) + m]
  <2>1. buffer[(from + k) + m] \in Nat
    <3>1. k + m \in 1..(k + n)
      BY <1>2, <1>3
    <3>2. buffer[from + (k + m)] \in Bytes
      BY <3>1
    <3> QED BY <1>8, <3>2, ByteFacts
  <2> QED BY <1>4, <1>10, <1>11, <2>1, WeightFacts, ByteFacts
<1>13. Joined(buffer, from, k + j) = A * W + J
  BY <1>5, <1>12
<1>14. (A * W + J) * B + c = A * (W * B) + (J * B + c)
  OBVIOUS
<1>15. Good(m)
  <2>1. Joined(buffer, from, k + m) = (A * W + J) * B + c
    BY <1>6, <1>8, <1>12, <1>13
  <2>2. Joined(buffer, from + k, m) = J * B + c
    BY <1>7, <1>12
  <2> QED BY <1>9, <1>12, <1>14, <2>1, <2>2
<1> QED BY <1>2, <1>15


-----------------------------------------------------------------------------
(***************************************************************************)
(* Numbers read from buffers and written to them.                          *)
(***************************************************************************)
LEMMA ReadLimb ==
    ASSUME NEW buffer \in WordBuffers, NEW from \in 0..(3 * LimbBytes)
    PROVE  /\ readUint64BE(buffer, from) \in 0..(Base - 1)
           /\ readUint64BE(buffer, from) = Joined(buffer, from, LimbBytes)
<1>1. LimbBytes \in Nat
  BY ByteFacts
<1>2. \A i \in 1..LimbBytes : buffer[from + i] \in Bytes
  <2> SUFFICES ASSUME NEW i \in 1..LimbBytes PROVE buffer[from + i] \in Bytes
    OBVIOUS
  <2>1. from + i \in 1..(4 * LimbBytes)
    BY <1>1
  <2>2. buffer \in [1..(4 * LimbBytes) -> Bytes]
    BY DEF WordBuffers
  <2> QED BY <2>1, <2>2
<1>3. from \in Nat
  BY <1>1
<1>4. Joined(buffer, from, LimbBytes) \in 0..(Weight(LimbBytes) - 1)
  BY <1>1, <1>2, <1>3, JoinedRange
<1> QED BY <1>4, LimbWeights DEF readUint64BE

LEMMA ReadPair ==
    ASSUME NEW buffer \in WordBuffers, NEW from \in 0..(2 * LimbBytes)
    PROVE  /\ readu128BE(buffer, from) \in Uint128
           /\ Value128(readu128BE(buffer, from)) = Joined(buffer, from, 2 * LimbBytes)
<1>1. LimbBytes \in Nat /\ 2 * LimbBytes \in Nat /\ LimbBytes + LimbBytes = 2 * LimbBytes
  BY ByteFacts
<1>2. from \in Nat /\ from \in 0..(3 * LimbBytes) /\ from + LimbBytes \in 0..(3 * LimbBytes)
  BY <1>1
<1>3. PICK h, l : h = readUint64BE(buffer, from) /\ l = readUint64BE(buffer, from + LimbBytes)
  OBVIOUS
<1>4. h \in 0..(Base - 1) /\ l \in 0..(Base - 1) /\ h = Joined(buffer, from, LimbBytes)
      /\ l = Joined(buffer, from + LimbBytes, LimbBytes)
  BY <1>2, <1>3, ReadLimb
<1>5. \A i \in 1..(LimbBytes + LimbBytes) : buffer[from + i] \in Bytes
  <2> SUFFICES ASSUME NEW i \in 1..(LimbBytes + LimbBytes) PROVE buffer[from + i] \in Bytes
    OBVIOUS
  <2>1. from + i \in 1..(4 * LimbBytes)
    BY <1>1
  <2>2. buffer \in [1..(4 * LimbBytes) -> Bytes]
    BY DEF WordBuffers
  <2> QED BY <2>1, <2>2
<1>6. Joined(buffer, from, LimbBytes + LimbBytes)
        = Joined(buffer, from, LimbBytes) * Weight(LimbBytes) + Joined(buffer, from + LimbBytes, LimbBytes)
  <2>1. Spelt(buffer, from, LimbBytes + LimbBytes)
    BY <1>5 DEF Spelt
  <2>2. SplitAt(buffer, from, LimbBytes, LimbBytes)
    BY <1>1, <1>2, <2>1, JoinedSplit
  <2> QED BY <2>2 DEF SplitAt
<1>7. <<h, l>> \in Uint128 /\ Value128(<<h, l>>) = h * Base + l
  BY <1>4, Make128
<1>8. readu128BE(buffer, from) = <<h, l>>
  BY <1>3 DEF readu128BE
<1> QED BY <1>1, <1>4, <1>6, <1>7, <1>8, LimbWeights

\* A number is what its bytes spell.
LEMMA ReadWord ==
    ASSUME NEW buffer \in WordBuffers
    PROVE  readu256BE(buffer) \in Uint256 /\ Value256(readu256BE(buffer)) = BufferValue(buffer)
<1>1. LimbBytes \in Nat /\ 2 * LimbBytes \in Nat /\ 2 * LimbBytes + 2 * LimbBytes = 4 * LimbBytes
      /\ 0 \in 0..(2 * LimbBytes) /\ 2 * LimbBytes \in 0..(2 * LimbBytes) /\ 0 + 2 * LimbBytes = 2 * LimbBytes
  BY ByteFacts
<1>3. PICK h, l, w : h = readu128BE(buffer, 0) /\ l = readu128BE(buffer, 2 * LimbBytes)
                     /\ w = 2 * LimbBytes
  OBVIOUS
<1>4. h \in Uint128 /\ l \in Uint128 /\ Value128(h) = Joined(buffer, 0, w)
      /\ Value128(l) = Joined(buffer, w, w)
  BY <1>1, <1>3, ReadPair
<1>5. \A i \in 1..(w + w) : buffer[0 + i] \in Bytes
  <2> SUFFICES ASSUME NEW i \in 1..(w + w) PROVE buffer[0 + i] \in Bytes
    OBVIOUS
  <2>1. 0 + i \in 1..(4 * LimbBytes)
    BY <1>1, <1>3
  <2>2. buffer \in [1..(4 * LimbBytes) -> Bytes]
    BY DEF WordBuffers
  <2> QED BY <2>1, <2>2
<1>6. Joined(buffer, 0, w + w) = Joined(buffer, 0, w) * Weight(w) + Joined(buffer, 0 + w, w)
  <2>1. w \in Nat /\ 0 \in Nat
    BY <1>1, <1>3
  <2>2. Spelt(buffer, 0, w + w)
    BY <1>5 DEF Spelt
  <2>3. SplitAt(buffer, 0, w, w)
    BY <2>1, <2>2, JoinedSplit
  <2> QED BY <2>3 DEF SplitAt
<1>7. <<h, l>> \in Uint256 /\ Value256(<<h, l>>) = Value128(h) * Square + Value128(l)
  BY <1>4, Make256
<1>8. readu256BE(buffer) = <<h, l>>
  BY <1>3 DEF readu256BE
<1>9. BufferValue(buffer) = Joined(buffer, 0, w + w)
  BY <1>1, <1>3 DEF BufferValue
<1>10. Weight(w) = Square /\ 0 + w = w
  BY <1>1, <1>3, LimbWeights
<1> QED BY <1>4, <1>6, <1>7, <1>8, <1>9, <1>10

LEMMA DigitRange ==
    ASSUME NEW v \in Int, NEW i \in Nat
    PROVE  Digit(v, i) \in Bytes
<1>1. PICK q \in Int : q = v \div Weight(i)
  <2>1. v \div Weight(i) \in Int
    BY WeightNat, DivMod
  <2> QED BY <2>1
<1>2. q % ByteBase \in Nat /\ q % ByteBase < ByteBase
  BY ByteFacts, DivMod
<1> QED BY <1>1, <1>2, ByteFacts DEF Digit

LEMMA ByteAtDigit ==
    ASSUME NEW n \in Uint256, NEW i \in 0..(4 * LimbBytes - 1)
    PROVE  ByteAt(n, i) = Digit(Value256(n), i)
<1>0. LimbBytes \in Nat \ {0} /\ i \in Nat
  BY ByteFacts
<1>1. PICK x, y, h, l : x = UPPER(n) /\ y = LOWER(n) /\ h = Value128(x) /\ l = Value128(y)
  OBVIOUS
<1>2. x \in Uint128 /\ y \in Uint128 /\ h \in 0..(Square - 1) /\ l \in 0..(Square - 1)
      /\ Value256(n) = h * Square + l
  BY <1>1, Parts256, Parts128
<1>3. PICK a, b, c, d : a = UPPER(x) /\ b = LOWER(x) /\ c = UPPER(y) /\ d = LOWER(y)
  OBVIOUS
<1>4. /\ a \in 0..(Base - 1) /\ b \in 0..(Base - 1) /\ c \in 0..(Base - 1) /\ d \in 0..(Base - 1)
      /\ h = a * Base + b /\ l = c * Base + d
  BY <1>1, <1>2, <1>3, Parts128
<1>5. PICK w, m : w = 2 * LimbBytes /\ m = LimbBytes
  OBVIOUS
<1>6. w \in Nat /\ m \in Nat \ {0} /\ Weight(w) = Square /\ Weight(m) = Base /\ w = m + m
      /\ i < 4 * m
  BY <1>0, <1>5, LimbWeights
<1>7. Digit(Value256(n), i) = IF i < w THEN Digit(l, i) ELSE Digit(h, i - w)
  <2>1. h \in Nat /\ l \in 0..(Weight(w) - 1)
    BY <1>2, <1>6
  <2>2. Digit(h * Weight(w) + l, i) = IF i < w THEN Digit(l, i) ELSE Digit(h, i - w)
    BY <1>0, <1>6, <2>1, DigitOfPair
  <2> QED BY <1>2, <1>6, <2>2
<1>8. ASSUME NEW k \in Nat
      PROVE  /\ Digit(l, k) = IF k < m THEN Digit(d, k) ELSE Digit(c, k - m)
             /\ Digit(h, k) = IF k < m THEN Digit(b, k) ELSE Digit(a, k - m)
  <2>1. a \in Nat /\ c \in Nat /\ b \in 0..(Weight(m) - 1) /\ d \in 0..(Weight(m) - 1) /\ m \in Nat
    BY <1>4, <1>6
  <2>2. Digit(c * Weight(m) + d, k) = IF k < m THEN Digit(d, k) ELSE Digit(c, k - m)
    BY <2>1, DigitOfPair
  <2>3. Digit(a * Weight(m) + b, k) = IF k < m THEN Digit(b, k) ELSE Digit(a, k - m)
    BY <2>1, DigitOfPair
  <2> QED BY <1>4, <1>6, <2>2, <2>3
<1>9. ASSUME NEW q \in Int, NEW r \in Nat, r < m, i = q * m + r
      PROVE  ByteAt(n, i) = Digit(u256_index(n, q), r)
  <2>1. i \div m = q /\ i % m = r
    BY <1>6, <1>9, DivModOf
  <2> QED BY <1>5, <2>1 DEF ByteAt, Shr, Digit, Weight
<1>10. u256_index(n, 0) = d /\ u256_index(n, 1) = c /\ u256_index(n, 2) = b /\ u256_index(n, 3) = a
  BY <1>1, <1>3 DEF u256_index
<1>11. CASE i < m
  <2>1. i = 0 * m + i
    BY <1>0, <1>6
  <2>2. ByteAt(n, i) = Digit(d, i)
    BY <1>0, <1>9, <1>10, <1>11, <2>1
  <2> QED BY <1>0, <1>6, <1>7, <1>8, <1>11, <2>2
<1>12. CASE i >= m /\ i < w
  <2>1. PICK r \in Nat : r = i - m /\ r < m
    BY <1>0, <1>6, <1>12
  <2>3. i = 1 * m + r
    BY <1>0, <1>6, <2>1
  <2>2. ByteAt(n, i) = Digit(c, r)
    BY <1>9, <1>10, <2>1, <2>3
  <2>4. Digit(Value256(n), i) = Digit(l, i)
    BY <1>7, <1>12
  <2>5. ~(i < m)
    BY <1>0, <1>6, <1>12
  <2>6. Digit(l, i) = Digit(c, r)
    BY <1>0, <1>8, <2>1, <2>5
  <2> QED BY <2>2, <2>4, <2>6
<1>13. CASE i >= w /\ i < w + m
  <2>1. PICK r \in Nat : r = i - w /\ r < m
    BY <1>0, <1>6, <1>13
  <2>3. i = 2 * m + r
    BY <1>0, <1>6, <2>1
  <2>2. ByteAt(n, i) = Digit(b, r)
    BY <1>9, <1>10, <2>1, <2>3
  <2>5. ~(i < w)
    BY <1>0, <1>6, <1>13
  <2>4. Digit(Value256(n), i) = Digit(h, r)
    BY <1>7, <2>1, <2>5
  <2>6. Digit(h, r) = Digit(b, r)
    BY <1>8, <2>1
  <2> QED BY <2>2, <2>4, <2>6
<1>14. CASE i >= w + m
  <2>1. PICK r \in Nat : r = (i - w) - m /\ r < m /\ i - w \in Nat /\ ~(i - w < m) /\ ~(i < w)
    BY <1>0, <1>6, <1>14
  <2>3. i = 3 * m + r
    BY <1>0, <1>6, <2>1
  <2>2. ByteAt(n, i) = Digit(a, r)
    BY <1>9, <1>10, <2>1, <2>3
  <2> QED BY <1>7, <1>8, <2>1, <2>2
<1> QED BY <1>0, <1>6, <1>11, <1>12, <1>13, <1>14

\* The highest k bytes of a number of n bytes, joined.
LEMMA JoinedDigits ==
    ASSUME NEW v \in Nat, NEW n \in Nat, v < Weight(n), NEW buffer,
           \A i \in 1..n : buffer[0 + i] = Digit(v, n - i)
    PROVE  Joined(buffer, 0, n) = v
<1> DEFINE Good(m) == Joined(buffer, 0, m) = v \div Weight(n - m)
           Bad == {m \in 0..n : ~Good(m)}
<1>1. Bad = {}
  <2> SUFFICES ASSUME Bad # {} PROVE FALSE
    OBVIOUS
  <2>1. PICK m \in Bad : \A y \in Bad : m <= y
    <3>1. Bad \subseteq Nat
      OBVIOUS
    <3> HIDE DEF Bad
    <3> QED BY <3>1, LeastNat
  <2>2. m \in 0..n /\ ~Good(m)
    OBVIOUS
  <2>3. m # 0
    <3>1. v \div Weight(n - 0) = 0
      <4>1. n - 0 = n /\ Weight(n) \in Nat \ {0}
        BY WeightNat
      <4> QED BY <4>1, ModSmall
    <3>2. Joined(buffer, 0, 0) = 0
      <4>1. 0 \in Nat
        OBVIOUS
      <4> QED BY <4>1, JoinedStep
    <3>3. Good(0)
      BY <3>1, <3>2
    <3> QED BY <2>2, <3>3
  <2>4. PICK j \in Nat : m = j + 1 /\ j \in 0..n /\ m \in 1..n /\ ~(m <= j)
    <3>1. m - 1 \in Nat /\ m = (m - 1) + 1 /\ m - 1 \in 0..n /\ m \in 1..n /\ ~(m <= m - 1)
      BY <2>2, <2>3
    <3> QED BY <3>1
  <2>5. Good(j)
    <3> HIDE DEF Good
    <3> QED BY <2>1, <2>4
  <2>6. Joined(buffer, 0, m) = Joined(buffer, 0, j) * ByteBase + buffer[0 + m]
    BY <2>4, JoinedStep
  <2>7. PICK k \in Nat : k = n - m /\ n - j = k + 1
    BY <2>4
  <2>8. buffer[0 + m] = Digit(v, k)
    BY <2>4, <2>7
  <2>9. PICK p \in Nat \ {0}, b \in Nat \ {0} : p = Weight(k) /\ b = ByteBase /\ Weight(k + 1) = p * b
    BY WeightNat, ByteFacts
  <2>10. (v \div p) \div b = v \div (p * b)
    <3>1. v \in Int
      OBVIOUS
    <3> QED BY <3>1, DivTimes, Zenon
  <2>11. PICK q \in Int : q = v \div p
    <3>1. v \div p \in Int
      BY DivMod
    <3> QED BY <3>1
  <2>12. q = (q \div b) * b + (q % b)
    BY DivMod
  <2>13. Joined(buffer, 0, j) = q \div b
    BY <2>5, <2>7, <2>9, <2>10, <2>11
  <2>14. Digit(v, k) = q % b
    BY <2>9, <2>11 DEF Digit
  <2>15. Joined(buffer, 0, m) = q
    BY <2>6, <2>8, <2>9, <2>12, <2>13, <2>14
  <2>16. Good(m)
    BY <2>7, <2>9, <2>11, <2>15
  <2> QED BY <2>2, <2>16
<1>2. Good(n)
  <2>1. n \in 0..n
    OBVIOUS
  <2> HIDE DEF Good
  <2> QED BY <1>1, <2>1
<1>3. v \div Weight(n - n) = v
  <2>1. n - n = 0 /\ v \div 1 = v
    OBVIOUS
  <2>2. Weight(0) = 1
    BY WeightNat
  <2> QED BY <2>1, <2>2
<1> QED BY <1>2, <1>3

LEMMA WriteWord ==
    ASSUME NEW n \in Uint256
    PROVE  u256_to_u8_32(n) \in WordBuffers /\ BufferValue(u256_to_u8_32(n)) = Value256(n)
<1>1. PICK c, v, buffer : c = 4 * LimbBytes /\ v = Value256(n) /\ buffer = u256_to_u8_32(n)
  OBVIOUS
<1>2. c \in Nat /\ v \in Nat /\ v < Weight(c)
  <2>1. v \in 0..(Modulus - 1)
    BY <1>1, Parts256
  <2>2. c \in Nat /\ Weight(c) = Modulus /\ Modulus \in Nat
    BY <1>1, ByteFacts, LimbWeights, BaseFacts
  <2> QED BY <2>1, <2>2
<1>3. buffer = [i \in 1..c |-> ByteAt(n, c - i)]
  BY <1>1 DEF u256_to_u8_32
<1>4. ASSUME NEW i \in 1..c PROVE buffer[i] = Digit(v, c - i) /\ Digit(v, c - i) \in Bytes
  <2>1. c - i \in 0..(4 * LimbBytes - 1) /\ c - i \in Nat /\ v \in Int
    BY <1>1, <1>2
  <2>2. ByteAt(n, c - i) = Digit(v, c - i)
    BY <1>1, <2>1, ByteAtDigit
  <2>3. Digit(v, c - i) \in Bytes
    BY <2>1, DigitRange
  <2> QED BY <1>3, <2>2, <2>3
<1>5. buffer \in [1..c -> Bytes]
  <2>1. \A i \in 1..c : ByteAt(n, c - i) \in Bytes
    BY <1>3, <1>4
  <2> QED BY <1>3, <2>1
<1>6. Joined(buffer, 0, c) = v
  <2>1. \A i \in 1..c : buffer[0 + i] = Digit(v, c - i)
    <3> SUFFICES ASSUME NEW i \in 1..c PROVE buffer[0 + i] = Digit(v, c - i)
      OBVIOUS
    <3>1. 0 + i = i
      OBVIOUS
    <3> QED BY <1>4, <3>1
  <2> QED BY <1>2, <2>1, JoinedDigits
<1> QED BY <1>1, <1>5, <1>6 DEF WordBuffers, BufferValue

-----------------------------------------------------------------------------
(***************************************************************************)
(* Products.                                                               *)
(***************************************************************************)
LEMMA HalfFacts ==
    Half \in Nat \ {0} /\ Half >= 4 /\ Half * Half = Base
<1>1. PICK k \in Nat : k = LimbBits \div 2 /\ LimbBits = k + k /\ k >= 2
  BY Uint256Assumption
<1>2. Half = Power2[k] /\ Base = Power2[k + k]
  BY <1>1 DEF Half, Base
<1>3. Power2[2] = 4
  <2>1. Power2[0 + 1] = 2 * Power2[0] /\ Power2[1 + 1] = 2 * Power2[1] /\ Power2[0] = 1
    BY Power2Step
  <2> QED BY <2>1
<1>4. Power2[k] >= 4 /\ Power2[k] \in Nat \ {0}
  BY <1>1, <1>3, Power2Mono, Power2Pos
<1>5. Power2[k + k] = Power2[k] * Power2[k]
  BY Power2Sum
<1> QED BY <1>2, <1>4, <1>5

\* The value of a sum that fits.
LEMMA AddSmall128 ==
    ASSUME NEW a \in Uint128, NEW b \in Uint128, Value128(a) + Value128(b) < Square
    PROVE  add128(a, b) \in Uint128 /\ Value128(add128(a, b)) = Value128(a) + Value128(b)
<1>1. PICK v, w : v = Value128(a) /\ w = Value128(b)
  OBVIOUS
<1>2. v \in Nat /\ w \in Nat /\ v + w < Square
  BY <1>1, Parts128, BaseFacts
<1>3. (v + w) % Square = v + w
  BY <1>2, ModSmall, BaseFacts
<1> QED BY <1>1, <1>3, Add128

LEMMA AddSmall256 ==
    ASSUME NEW a \in Uint256, NEW b \in Uint256, Value256(a) + Value256(b) < Modulus
    PROVE  add256(a, b) \in Uint256 /\ Value256(add256(a, b)) = Value256(a) + Value256(b)
<1>1. PICK v, w : v = Value256(a) /\ w = Value256(b)
  OBVIOUS
<1>2. v \in Nat /\ w \in Nat /\ v + w < Modulus
  BY <1>1, Parts256, BaseFacts
<1>3. (v + w) % Modulus = v + w
  BY <1>2, ModSmall, BaseFacts
<1> QED BY <1>1, <1>3, Add256

\* The sums of mul128: the lowest half limb, a column of whole limbs, one of
\* half limbs and what is above them.
LEMMA SumColumns ==
    ASSUME NEW low \in 0..(Half - 1), NEW second \in 0..(Base - 1), NEW third \in 0..(Base - 1),
           NEW first \in 0..(Base - 1)
    PROVE  LET outer == add128(<<(first * Half) % Base, 0>>, <<third \div Half, (third * Half) % Base>>)
               sum   == add128(<<0, low>>, add128(<<second, 0>>, outer))
               total == (first * Half) * Base + third * Half + second * Base + low
           IN  /\ sum \in Uint128
               /\ first < Half /\ total < Square => Value128(sum) = total
<1> DEFINE outer == add128(<<(first * Half) % Base, 0>>, <<third \div Half, (third * Half) % Base>>)
           total == (first * Half) * Base + third * Half + second * Base + low
<1>1. PICK H, B, S : H = Half /\ B = Base /\ S = Square
  OBVIOUS
<1>2. H \in Nat \ {0} /\ B \in Nat \ {0} /\ B = H * H /\ S = B * B /\ H <= B
  <2>1. H \in Nat \ {0} /\ B \in Nat \ {0} /\ B = H * H /\ S = B * B
    BY <1>1, HalfFacts, BaseFacts DEF Square
  <2> QED BY <2>1, TimesPos
<1>3. PICK t1, t0, f0 : t1 = third \div H /\ t0 = third % H /\ f0 = (first * H) % B
  OBVIOUS
<1>4. t1 \in Nat /\ t0 \in Nat /\ t0 < H /\ third = t1 * H + t0 /\ t1 <= third
  <2>1. third \in Nat
    BY BaseFacts
  <2>2. t1 \in Nat /\ t0 \in Nat /\ t0 < H /\ third = t1 * H + t0
    BY <1>2, <1>3, <2>1, DivMod
  <2>3. PICK p \in Nat : p = t1 * H
    BY <1>2, <2>2
  <2>4. t1 <= p
    BY <1>2, <2>2, <2>3
  <2>5. third = p + t0
    BY <2>2, <2>3
  <2>6. t1 <= third
    BY <2>1, <2>2, <2>4, <2>5
  <2> QED BY <2>2, <2>6
<1>5. t0 * H \in Nat /\ t0 * H < B
  BY <1>2, <1>4
<1>6. (third * H) % B = t0 * H
  <2>1. third * H = t1 * B + t0 * H
    BY <1>2, <1>4
  <2>2. PICK r \in Nat, n \in Int : r = t0 * H /\ n = third * H /\ r < B
    BY <1>2, <1>4, <1>5
  <2>3. n = t1 * B + r
    BY <2>1, <2>2
  <2>4. t1 \in Int /\ B \in Nat \ {0}
    BY <1>2, <1>4
  <2>6. r < B
    BY <2>2
  <2>5. n % B = r
    BY <2>3, <2>4, <2>6, DivModOf
  <2> QED BY <2>2, <2>5
<1>7. f0 \in 0..(B - 1)
  <2>1. first * H \in Int
    BY <1>2
  <2> QED BY <1>2, <1>3, <2>1, DivMod
<1>8. /\ <<f0, 0>> \in Uint128 /\ Value128(<<f0, 0>>) = f0 * B
      /\ <<t1, t0 * H>> \in Uint128 /\ Value128(<<t1, t0 * H>>) = t1 * B + t0 * H
      /\ <<second, 0>> \in Uint128 /\ Value128(<<second, 0>>) = second * B
      /\ <<0, low>> \in Uint128 /\ Value128(<<0, low>>) = low
  <2>1. 0 \in 0..(Base - 1) /\ low \in 0..(Base - 1) /\ t1 \in 0..(Base - 1) /\ t0 * H \in 0..(Base - 1)
        /\ f0 \in 0..(Base - 1)
    BY <1>1, <1>2, <1>4, <1>5, <1>7
  <2> QED BY <1>1, <1>2, <1>4, <1>5, <1>7, <2>1, Make128
<1>9. outer = add128(<<f0, 0>>, <<t1, t0 * H>>)
  BY <1>1, <1>3, <1>6
<1>10. outer \in Uint128 /\ add128(<<second, 0>>, outer) \in Uint128
       /\ add128(<<0, low>>, add128(<<second, 0>>, outer)) \in Uint128
  BY <1>8, <1>9, Add128
<1>11. ASSUME first < Half, total < Square
       PROVE  Value128(add128(<<0, low>>, add128(<<second, 0>>, outer))) = total
  <2>1. first * H \in Nat /\ first * H < B
    BY <1>1, <1>2, <1>11
  <2>2. f0 = first * H
    BY <1>2, <1>3, <2>1, ModSmall
  <2>3. PICK F, T, U : F = f0 * B /\ T = t1 * B + t0 * H /\ U = second * B
    OBVIOUS
  <2>4. F \in Nat /\ T \in Nat /\ U \in Nat
    BY <1>1, <1>2, <1>4, <1>5, <1>7, <2>3
  <2>5. T = third * H
    BY <1>2, <1>4, <2>3
  <2>6. total = ((F + T) + U) + low /\ ((F + T) + U) + low < Square
    BY <1>1, <1>11, <2>2, <2>3, <2>4, <2>5
  <2>7. low \in Nat
    BY HalfFacts
  <2>12. PICK a, b, c, o : a = <<f0, 0>> /\ b = <<t1, t0 * H>> /\ c = <<second, 0>> /\ o = outer
    OBVIOUS
  <2>13. /\ a \in Uint128 /\ b \in Uint128 /\ c \in Uint128 /\ o \in Uint128
         /\ Value128(a) = F /\ Value128(b) = T /\ Value128(c) = U
    BY <1>8, <1>10, <2>3, <2>12
  <2>14. F + T < Square /\ U + (F + T) < Square
    <3>1. ((F + T) + U) + low < Square
      BY <2>6
    <3> QED BY <2>4, <2>7, <3>1, BaseFacts
  <2>8. Value128(outer) = F + T
    <3>1. o = add128(a, b)
      BY <1>9, <2>12
    <3>2. Value128(o) = F + T
      BY <2>13, <2>14, <3>1, AddSmall128
    <3> QED BY <2>12, <3>2
  <2>9. Value128(add128(<<second, 0>>, outer)) = U + (F + T)
    <3>1. Value128(o) = F + T
      BY <2>8, <2>12
    <3>2. Value128(add128(c, o)) = U + (F + T)
      BY <2>13, <2>14, <3>1, AddSmall128
    <3> QED BY <2>12, <3>2
  <2>10. Value128(add128(<<0, low>>, add128(<<second, 0>>, outer))) = low + (U + (F + T))
    BY <1>8, <1>10, <2>4, <2>6, <2>7, <2>9, AddSmall128
  <2> QED BY <2>4, <2>6, <2>7, <2>10
<1> QED BY <1>10, <1>11

LEMMA Mul128 ==
    ASSUME NEW a \in Uint128, NEW b \in Uint128
    PROVE  mul128(a, b) \in Uint128
<1> DEFINE halves(n) == <<UPPER(n) \div Half, UPPER(n) % Half, LOWER(n) \div Half, LOWER(n) % Half>>
           top       == halves(a)
           bottom    == halves(b)
           lo(i, j)  == (top[4 - i] * bottom[j + 1]) % Half
           hi(i, j)  == (top[4 - i] * bottom[j + 1]) \div Half
           third     == (lo(0, 2) + hi(0, 3) + lo(1, 3)) % Base
           second    == (lo(0, 1) + hi(0, 2) + lo(1, 2) + hi(1, 3) + lo(2, 3)) % Base
           first     == (lo(0, 0) + hi(0, 1) + lo(1, 1) + hi(1, 2) + lo(2, 2) + hi(2, 3) + lo(3, 3))
                           % Base
           outer     == add128(<<(first * Half) % Base, 0>>, <<third \div Half, (third * Half) % Base>>)
<1>1. mul128(a, b) = add128(<<0, lo(0, 3)>>, add128(<<second, 0>>, outer))
  BY DEF mul128
<1>2. ASSUME NEW n \in Uint128
      PROVE  \E f \in [1..4 -> Nat] : halves(n) = f
  <2>1. UPPER(n) \in Nat /\ LOWER(n) \in Nat
    BY Parts128, BaseFacts
  <2>2. \A v \in Nat : v \div Half \in Nat /\ v % Half \in Nat
    BY HalfFacts, DivMod
  <2>3. PICK c, d, e, k : c = UPPER(n) \div Half /\ d = UPPER(n) % Half
                         /\ e = LOWER(n) \div Half /\ k = LOWER(n) % Half
    OBVIOUS
  <2>4. c \in Nat /\ d \in Nat /\ e \in Nat /\ k \in Nat
    BY <2>1, <2>2, <2>3
  <2>5. <<c, d, e, k>> \in [1..4 -> Nat]
    BY <2>4
  <2> QED BY <2>3, <2>5
<1>3. PICK f \in [1..4 -> Nat], g \in [1..4 -> Nat] : top = f /\ bottom = g
  BY <1>2
<1> HIDE DEF halves
<1>4. ASSUME NEW i \in 0..3, NEW j \in 0..3
      PROVE  lo(i, j) \in 0..(Half - 1) /\ hi(i, j) \in Nat
  <2>1. PICK p \in Nat : p = f[4 - i] * g[j + 1]
    BY TimesNat
  <2>2. p \div Half \in Nat /\ p % Half \in 0..(Half - 1)
    BY HalfFacts, DivMod
  <2> QED BY <1>3, <2>1, <2>2
<1> HIDE DEF lo, hi, top, bottom
<1>5. ASSUME NEW v \in Nat PROVE v % Base \in 0..(Base - 1)
  BY BaseFacts, DivMod
<1>6. lo(0, 3) \in 0..(Half - 1) /\ third \in 0..(Base - 1) /\ second \in 0..(Base - 1)
      /\ first \in 0..(Base - 1)
  <2>1. \A i, j \in 0..3 : lo(i, j) \in Nat /\ hi(i, j) \in Nat
    BY <1>4
  <2>2. 0 \in 0..3 /\ 1 \in 0..3 /\ 2 \in 0..3 /\ 3 \in 0..3
    OBVIOUS
  <2>3. lo(0, 2) + hi(0, 3) + lo(1, 3) \in Nat
        /\ lo(0, 1) + hi(0, 2) + lo(1, 2) + hi(1, 3) + lo(2, 3) \in Nat
        /\ lo(0, 0) + hi(0, 1) + lo(1, 1) + hi(1, 2) + lo(2, 2) + hi(2, 3) + lo(3, 3) \in Nat
    BY <2>1, <2>2
  <2> QED BY <1>4, <1>5, <2>2, <2>3
<1> HIDE DEF third, second, first
<1> QED BY <1>1, <1>6, SumColumns

\* Two numbers of half limbs, multiplied by columns.
Halved(H, a, b, h, l) == a * b = h * H + l
Multiplied(H, a1, a0, b1, b0, h11, l11, h10, l10, h01, l01, h00, l00) ==
    (h11 * H) * (H * H) + (l01 + h00 + l10) * H + (h01 + l11 + h10) * (H * H) + l00
      = (a1 * H + a0) * (b1 * H + b0)

LEMMA ProductColumns ==
    ASSUME NEW H \in Nat \ {0}, NEW a1 \in Nat, NEW a0 \in Nat, NEW b1 \in Nat, NEW b0 \in Nat,
           NEW h11 \in Nat, NEW l11 \in Nat, Halved(H, a1, b1, h11, l11),
           NEW h10 \in Nat, NEW l10 \in Nat, Halved(H, a1, b0, h10, l10),
           NEW h01 \in Nat, NEW l01 \in Nat, Halved(H, a0, b1, h01, l01),
           NEW h00 \in Nat, NEW l00 \in Nat, Halved(H, a0, b0, h00, l00)
    PROVE  Multiplied(H, a1, a0, b1, b0, h11, l11, h10, l10, h01, l01, h00, l00)
<1>1. (a1 * H + a0) * (b1 * H + b0) = ((a1 * b1) * H + (a1 * b0) + (a0 * b1)) * H + a0 * b0
  OBVIOUS
<1>2. ((h11 * H + l11) * H + (h10 * H + l10) + (h01 * H + l01)) * H + (h00 * H + l00)
        = (h11 * H) * (H * H) + (l01 + h00 + l10) * H + (h01 + l11 + h10) * (H * H) + l00
  OBVIOUS
<1> QED BY <1>1, <1>2, Zenon DEF Halved, Multiplied

LEMMA HalfProduct ==
    ASSUME NEW a \in 0..(Half - 1), NEW b \in 0..(Half - 1)
    PROVE  \E h \in 0..(Half - 1), l \in 0..(Half - 1) :
              /\ a * b = h * Half + l /\ (a * b) \div Half = h /\ (a * b) % Half = l
<1>1. PICK H \in Nat \ {0} : H = Half
  BY HalfFacts
<1>2. PICK p \in Nat : p = a * b
  BY TimesNat, <1>1
<1>3. p < H * H
  <2>1. a \in Nat /\ b \in Nat /\ a <= H /\ b < H
    BY <1>1
  <2>2. a * b <= H * b /\ H * b < H * H
    BY <2>1
  <2> QED BY <1>2, <2>1, <2>2
<1>4. p \div H \in Nat /\ p % H \in Nat /\ p % H < H /\ p = (p \div H) * H + (p % H)
  BY DivMod
<1>5. p \div H < H
  <2>1. (p \div H) \div 1 = p \div H /\ (p \div H) * H < H * H
    BY <1>3, <1>4
  <2> QED BY <1>4, <2>1
<1>6. p \div H \in 0..(H - 1) /\ p % H \in 0..(H - 1)
  BY <1>4, <1>5
<1> QED BY <1>1, <1>2, <1>4, <1>6

\* The product of two limbs.
LEMMA MulLimbs ==
    ASSUME NEW a \in 0..(Base - 1), NEW b \in 0..(Base - 1)
    PROVE  /\ mul128(<<0, a>>, <<0, b>>) \in Uint128
           /\ Value128(mul128(<<0, a>>, <<0, b>>)) = a * b
<1>1. PICK H \in Nat \ {0} : H = Half /\ H >= 4 /\ Base = H * H
  BY HalfFacts
<1>2. ASSUME NEW n \in 0..(Base - 1)
      PROVE  \E n1 \in 0..(Half - 1), n0 \in 0..(Half - 1) :
                n = n1 * Half + n0 /\ n \div Half = n1 /\ n % Half = n0
  <2>1. n \in Nat /\ n < H * H
    BY <1>1
  <2>2. n \div H \in Nat /\ n % H \in Nat /\ n % H < H /\ n = (n \div H) * H + (n % H)
    BY <2>1, DivMod
  <2>3. (n \div H) * H < H * H
    BY <2>1, <2>2
  <2>4. n \div H < H
    BY <2>2, <2>3
  <2>5. n \div H \in 0..(H - 1) /\ n % H \in 0..(H - 1)
    BY <2>2, <2>4
  <2> QED BY <1>1, <2>2, <2>5
<1>3. PICK a1 \in 0..(Half - 1), a0 \in 0..(Half - 1) :
          a = a1 * Half + a0 /\ a \div Half = a1 /\ a % Half = a0
  BY <1>2
<1>4. PICK b1 \in 0..(Half - 1), b0 \in 0..(Half - 1) :
          b = b1 * Half + b0 /\ b \div Half = b1 /\ b % Half = b0
  BY <1>2
<1>5. PICK h11 \in 0..(Half - 1), l11 \in 0..(Half - 1) :
          a1 * b1 = h11 * Half + l11 /\ (a1 * b1) \div Half = h11 /\ (a1 * b1) % Half = l11
  BY HalfProduct
<1>6. PICK h10 \in 0..(Half - 1), l10 \in 0..(Half - 1) :
          a1 * b0 = h10 * Half + l10 /\ (a1 * b0) \div Half = h10 /\ (a1 * b0) % Half = l10
  BY HalfProduct
<1>7. PICK h01 \in 0..(Half - 1), l01 \in 0..(Half - 1) :
          a0 * b1 = h01 * Half + l01 /\ (a0 * b1) \div Half = h01 /\ (a0 * b1) % Half = l01
  BY HalfProduct
<1>8. PICK h00 \in 0..(Half - 1), l00 \in 0..(Half - 1) :
          a0 * b0 = h00 * Half + l00 /\ (a0 * b0) \div Half = h00 /\ (a0 * b0) % Half = l00
  BY HalfProduct
<1>9. 0 \div Half = 0 /\ 0 % Half = 0
  BY HalfFacts, ModSmall
<1>10. PICK third, second : third = l01 + h00 + l10 /\ second = h01 + l11 + h10
  OBVIOUS
<1>11. third \in Nat /\ second \in Nat /\ third < Base /\ second < Base
  <2>1. 3 * H < H * H
    BY <1>1
  <2>2. third \in Nat /\ second \in Nat /\ third < 3 * H /\ second < 3 * H
    BY <1>1, <1>10
  <2> QED BY <1>1, <2>1, <2>2
<1>12. third % Base = third /\ second % Base = second /\ h11 % Base = h11 /\ h11 < Base
  <2>1. h11 \in Nat /\ h11 < Base
    BY <1>1, HalfFacts
  <2> QED BY <1>11, <2>1, ModSmall, BaseFacts
<1>13. mul128(<<0, a>>, <<0, b>>)
         = add128(<<0, l00>>, add128(<<second, 0>>,
                  add128(<<(h11 * Half) % Base, 0>>, <<third \div Half, (third * Half) % Base>>)))
  <2> DEFINE halves(n) == <<UPPER(n) \div Half, UPPER(n) % Half, LOWER(n) \div Half, LOWER(n) % Half>>
             top       == halves(<<0, a>>)
             bottom    == halves(<<0, b>>)
             lo(i, j)  == (top[4 - i] * bottom[j + 1]) % Half
             hi(i, j)  == (top[4 - i] * bottom[j + 1]) \div Half
             third_    == (lo(0, 2) + hi(0, 3) + lo(1, 3)) % Base
             second_   == (lo(0, 1) + hi(0, 2) + lo(1, 2) + hi(1, 3) + lo(2, 3)) % Base
             first_    == (lo(0, 0) + hi(0, 1) + lo(1, 1) + hi(1, 2) + lo(2, 2) + hi(2, 3) + lo(3, 3))
                             % Base
             outer_    == add128(<<(first_ * Half) % Base, 0>>,
                                 <<third_ \div Half, (third_ * Half) % Base>>)
  <2>1. mul128(<<0, a>>, <<0, b>>) = add128(<<0, lo(0, 3)>>, add128(<<second_, 0>>, outer_))
    BY DEF mul128
  <2>2. top = <<0, 0, a1, a0>> /\ bottom = <<0, 0, b1, b0>>
    <3>1. UPPER(<<0, a>>) = 0 /\ LOWER(<<0, a>>) = a /\ UPPER(<<0, b>>) = 0 /\ LOWER(<<0, b>>) = b
      BY DEF UPPER, LOWER
    <3> QED BY <1>3, <1>4, <1>9, <3>1
  <2> HIDE DEF top, bottom
  <2>3. /\ lo(0, 3) = l00 /\ hi(0, 3) = h00 /\ lo(0, 2) = l01 /\ hi(0, 2) = h01
        /\ lo(1, 3) = l10 /\ hi(1, 3) = h10 /\ lo(1, 2) = l11 /\ hi(1, 2) = h11
    BY <1>5, <1>6, <1>7, <1>8, <2>2
  <2>4. lo(0, 1) = 0 /\ lo(2, 3) = 0 /\ lo(0, 0) = 0 /\ hi(0, 1) = 0 /\ lo(1, 1) = 0 /\ lo(2, 2) = 0
        /\ hi(2, 3) = 0 /\ lo(3, 3) = 0
    BY <1>9, <2>2
  <2> HIDE DEF lo, hi
  <2>5. lo(0, 2) + hi(0, 3) + lo(1, 3) = third
    BY <1>10, <2>3
  <2>6. lo(0, 1) + hi(0, 2) + lo(1, 2) + hi(1, 3) + lo(2, 3) = second
    BY <1>1, <1>10, <2>3, <2>4
  <2>7. lo(0, 0) + hi(0, 1) + lo(1, 1) + hi(1, 2) + lo(2, 2) + hi(2, 3) + lo(3, 3) = h11
    BY <1>1, <2>3, <2>4
  <2>8. third_ = third /\ second_ = second /\ first_ = h11
    BY <1>12, <2>5, <2>6, <2>7
  <2> HIDE DEF third_, second_, first_
  <2> QED BY <2>1, <2>3, <2>8
<1>14. (h11 * Half) * Base + third * Half + second * Base + l00 = a * b
  <2>1. (h11 * H) * (H * H) + (l01 + h00 + l10) * H + (h01 + l11 + h10) * (H * H) + l00
          = (a1 * H + a0) * (b1 * H + b0)
    <3>1. /\ a1 \in Nat /\ a0 \in Nat /\ b1 \in Nat /\ b0 \in Nat /\ h11 \in Nat /\ l11 \in Nat
          /\ h10 \in Nat /\ l10 \in Nat /\ h01 \in Nat /\ l01 \in Nat /\ h00 \in Nat /\ l00 \in Nat
      BY <1>1
    <3>2. /\ Halved(H, a1, b1, h11, l11) /\ Halved(H, a1, b0, h10, l10)
          /\ Halved(H, a0, b1, h01, l01) /\ Halved(H, a0, b0, h00, l00)
      BY <1>1, <1>5, <1>6, <1>7, <1>8, Zenon DEF Halved
    <3>3. Multiplied(H, a1, a0, b1, b0, h11, l11, h10, l10, h01, l01, h00, l00)
      BY <3>1, <3>2, ProductColumns
    <3> QED BY <3>3, Zenon DEF Multiplied
  <2> QED BY <1>1, <1>3, <1>4, <1>10, <2>1, Zenon
<1>15. a * b < Square
  <2>1. a \in Nat /\ b \in Nat /\ a < Base /\ b < Base /\ Base \in Nat
    BY BaseFacts
  <2>2. a * b <= a * Base /\ a * Base < Base * Base
    BY <2>1
  <2> QED BY <2>1, <2>2 DEF Square
<1>16. l00 \in 0..(Half - 1) /\ second \in 0..(Base - 1) /\ third \in 0..(Base - 1)
       /\ h11 \in 0..(Base - 1) /\ h11 < Half
  BY <1>1, <1>11, <1>12, HalfFacts, BaseFacts
<1> QED BY <1>13, <1>14, <1>15, <1>16, SumColumns

\* What mul256 makes of the products of limbs, by their lower and upper halves.
Rows(lo, hi) ==
    LET third  == add128(lo[<<1, 3>>], add128(lo[<<0, 2>>], hi[<<0, 3>>]))
        second == add128(lo[<<2, 3>>], add128(hi[<<1, 3>>], add128(lo[<<1, 2>>], add128(lo[<<0, 1>>], hi[<<0, 2>>]))))
        row    == add128(hi[<<1, 2>>], add128(lo[<<1, 1>>], add128(lo[<<0, 0>>], hi[<<0, 1>>])))
        first  == add128(lo[<<3, 3>>], add128(hi[<<2, 3>>], add128(lo[<<2, 2>>], row)))
        outer  == add256(<<shiftl128(first, LimbBits), clear128>>,
                         <<<<UPPER(third), 0>>, shiftl128(third, LimbBits)>>)
    IN  add256(<<clear128, lo[<<0, 3>>]>>, add256(<<second, clear128>>, outer))

\* The limbs of a number, and the halves of the products of limbs.
LimbsAre(n, limbs) == limbs = <<UPPER(UPPER(n)), LOWER(UPPER(n)), UPPER(LOWER(n)), LOWER(LOWER(n))>>
HalvesAre(top, bottom, lo, hi) ==
    \A i, j \in 0..3 :
       /\ lo[<<i, j>>] = <<0, LOWER(mul128(<<0, top[4 - i]>>, <<0, bottom[j + 1]>>))>>
       /\ hi[<<i, j>>] = <<0, UPPER(mul128(<<0, top[4 - i]>>, <<0, bottom[j + 1]>>))>>

LEMMA Mul256Rows ==
    ASSUME NEW a, NEW b, NEW top, NEW bottom,
           LimbsAre(a, top), LimbsAre(b, bottom), NEW lo, NEW hi, HalvesAre(top, bottom, lo, hi)
    PROVE  mul256(a, b) = Rows(lo, hi)
<1> DEFINE limbs(n)  == <<UPPER(UPPER(n)), LOWER(UPPER(n)), UPPER(LOWER(n)), LOWER(LOWER(n))>>
           top_      == limbs(a)
           bottom_   == limbs(b)
           p(i, j)   == mul128(<<0, top_[4 - i]>>, <<0, bottom_[j + 1]>>)
           lo_(i, j) == <<0, LOWER(p(i, j))>>
           hi_(i, j) == <<0, UPPER(p(i, j))>>
           third     == add128(lo_(1, 3), add128(lo_(0, 2), hi_(0, 3)))
           second    == add128(lo_(2, 3), add128(hi_(1, 3), add128(lo_(1, 2), add128(lo_(0, 1), hi_(0, 2)))))
           row       == add128(hi_(1, 2), add128(lo_(1, 1), add128(lo_(0, 0), hi_(0, 1))))
           first     == add128(lo_(3, 3), add128(hi_(2, 3), add128(lo_(2, 2), row)))
           outer     == add256(<<shiftl128(first, LimbBits), clear128>>,
                               <<<<UPPER(third), 0>>, shiftl128(third, LimbBits)>>)
<1>1. mul256(a, b) = add256(<<clear128, lo_(0, 3)>>, add256(<<second, clear128>>, outer))
  BY DEF mul256
<1>2. top_ = top /\ bottom_ = bottom
  BY DEF LimbsAre
<1> HIDE DEF top_, bottom_
<1>3. \A i, j \in 0..3 : lo[<<i, j>>] = lo_(i, j) /\ hi[<<i, j>>] = hi_(i, j)
  BY <1>2, Zenon DEF HalvesAre
<1> HIDE DEF lo_, hi_
<1>4. 0 \in 0..3 /\ 1 \in 0..3 /\ 2 \in 0..3 /\ 3 \in 0..3
  OBVIOUS
<1>5. /\ lo[<<0, 0>>] = lo_(0, 0) /\ lo[<<0, 1>>] = lo_(0, 1) /\ lo[<<0, 2>>] = lo_(0, 2) /\ lo[<<0, 3>>] = lo_(0, 3)
      /\ lo[<<1, 1>>] = lo_(1, 1) /\ lo[<<1, 2>>] = lo_(1, 2) /\ lo[<<1, 3>>] = lo_(1, 3)
      /\ lo[<<2, 2>>] = lo_(2, 2) /\ lo[<<2, 3>>] = lo_(2, 3) /\ lo[<<3, 3>>] = lo_(3, 3)
      /\ hi[<<0, 1>>] = hi_(0, 1) /\ hi[<<0, 2>>] = hi_(0, 2) /\ hi[<<0, 3>>] = hi_(0, 3)
      /\ hi[<<1, 2>>] = hi_(1, 2) /\ hi[<<1, 3>>] = hi_(1, 3) /\ hi[<<2, 3>>] = hi_(2, 3)
  BY <1>3, <1>4
<1> QED BY <1>1, <1>5, Zenon DEF Rows

LEMMA RowsType ==
    ASSUME NEW lo \in [(0..3) \X (0..3) -> Uint128], NEW hi \in [(0..3) \X (0..3) -> Uint128]
    PROVE  Rows(lo, hi) \in Uint256
<1> DEFINE third  == add128(lo[<<1, 3>>], add128(lo[<<0, 2>>], hi[<<0, 3>>]))
           second == add128(lo[<<2, 3>>], add128(hi[<<1, 3>>], add128(lo[<<1, 2>>], add128(lo[<<0, 1>>], hi[<<0, 2>>]))))
           row    == add128(hi[<<1, 2>>], add128(lo[<<1, 1>>], add128(lo[<<0, 0>>], hi[<<0, 1>>])))
           first  == add128(lo[<<3, 3>>], add128(hi[<<2, 3>>], add128(lo[<<2, 2>>], row)))
<1>1. \A i, j \in 0..3 : lo[<<i, j>>] \in Uint128 /\ hi[<<i, j>>] \in Uint128
  OBVIOUS
<1>2. 0 \in 0..3 /\ 1 \in 0..3 /\ 2 \in 0..3 /\ 3 \in 0..3
  OBVIOUS
<1>3. \A m, n \in Uint128 : add128(m, n) \in Uint128
  BY Add128
<1>4. third \in Uint128
  BY <1>1, <1>2, <1>3
<1>5. second \in Uint128
  BY <1>1, <1>2, <1>3
<1>6. row \in Uint128
  BY <1>1, <1>2, <1>3
<1> HIDE DEF row
<1>7. first \in Uint128
  BY <1>1, <1>2, <1>3, <1>6
<1> HIDE DEF first, second, third
<1>8. shiftl128(first, LimbBits) \in Uint128 /\ shiftl128(third, LimbBits) \in Uint128
  BY <1>4, <1>7, Shiftl128, BaseFacts
<1>9. <<UPPER(third), 0>> \in Uint128
  BY <1>4, Parts128, Make128, BaseFacts
<1>10. add256(<<shiftl128(first, LimbBits), clear128>>, <<<<UPPER(third), 0>>, shiftl128(third, LimbBits)>>)
         \in Uint256
  BY <1>8, <1>9, Clear, Make256, Add256
<1>11. <<second, clear128>> \in Uint256 /\ <<clear128, lo[<<0, 3>>]>> \in Uint256
  BY <1>1, <1>2, <1>5, Clear, Make256
<1>12. add256(<<clear128, lo[<<0, 3>>]>>, add256(<<second, clear128>>,
          add256(<<shiftl128(first, LimbBits), clear128>>,
                 <<<<UPPER(third), 0>>, shiftl128(third, LimbBits)>>))) \in Uint256
  BY <1>10, <1>11, Add256
<1> QED BY <1>12, Zenon DEF Rows, first, second, third, row

LEMMA Mul256 ==
    ASSUME NEW a \in Uint256, NEW b \in Uint256
    PROVE  mul256(a, b) \in Uint256
<1>1. PICK top, bottom :
          /\ top = <<UPPER(UPPER(a)), LOWER(UPPER(a)), UPPER(LOWER(a)), LOWER(LOWER(a))>>
          /\ bottom = <<UPPER(UPPER(b)), LOWER(UPPER(b)), UPPER(LOWER(b)), LOWER(LOWER(b))>>
  OBVIOUS
<1>2. \A i \in 1..4 : top[i] \in 0..(Base - 1) /\ bottom[i] \in 0..(Base - 1)
  <2>1. /\ UPPER(a) \in Uint128 /\ LOWER(a) \in Uint128 /\ UPPER(b) \in Uint128 /\ LOWER(b) \in Uint128
    BY Parts256
  <2>2. \A n \in Uint128 : UPPER(n) \in 0..(Base - 1) /\ LOWER(n) \in 0..(Base - 1)
    BY Parts128
  <2> QED BY <1>1, <2>1, <2>2
<1> DEFINE lo == [p \in (0..3) \X (0..3) |-> <<0, LOWER(mul128(<<0, top[4 - p[1]]>>, <<0, bottom[p[2] + 1]>>))>>]
           hi == [p \in (0..3) \X (0..3) |-> <<0, UPPER(mul128(<<0, top[4 - p[1]]>>, <<0, bottom[p[2] + 1]>>))>>]
<1>3. \A i, j \in 0..3 :
         /\ lo[<<i, j>>] = <<0, LOWER(mul128(<<0, top[4 - i]>>, <<0, bottom[j + 1]>>))>>
         /\ hi[<<i, j>>] = <<0, UPPER(mul128(<<0, top[4 - i]>>, <<0, bottom[j + 1]>>))>>
  OBVIOUS
<1>4. ASSUME NEW i \in 0..3, NEW j \in 0..3
      PROVE  /\ <<0, LOWER(mul128(<<0, top[4 - i]>>, <<0, bottom[j + 1]>>))>> \in Uint128
             /\ <<0, UPPER(mul128(<<0, top[4 - i]>>, <<0, bottom[j + 1]>>))>> \in Uint128
  <2>1. PICK u, v : u = top[4 - i] /\ v = bottom[j + 1]
    OBVIOUS
  <2>2. u \in 0..(Base - 1) /\ v \in 0..(Base - 1)
    BY <1>2, <2>1
  <2>3. mul128(<<0, u>>, <<0, v>>) \in Uint128
    BY <2>2, MulLimbs
  <2>4. <<0, LOWER(mul128(<<0, u>>, <<0, v>>))>> \in Uint128
        /\ <<0, UPPER(mul128(<<0, u>>, <<0, v>>))>> \in Uint128
    BY <2>3, Parts128, OneLimb
  <2> QED BY <2>1, <2>4
<1>5. lo \in [(0..3) \X (0..3) -> Uint128] /\ hi \in [(0..3) \X (0..3) -> Uint128]
  <2> SUFFICES ASSUME NEW p \in (0..3) \X (0..3) PROVE lo[p] \in Uint128 /\ hi[p] \in Uint128
    OBVIOUS
  <2>1. PICK i \in 0..3, j \in 0..3 : p = <<i, j>>
    OBVIOUS
  <2> HIDE DEF lo, hi
  <2> QED BY <1>3, <1>4, <2>1
<1> HIDE DEF lo, hi
<1>6. mul256(a, b) = Rows(lo, hi)
  <2>1. LimbsAre(a, top) /\ LimbsAre(b, bottom)
    BY <1>1 DEF LimbsAre
  <2>2. HalvesAre(top, bottom, lo, hi)
    BY <1>3 DEF HalvesAre
  <2> QED BY <2>1, <2>2, Mul256Rows
<1> QED BY <1>5, <1>6, RowsType

\* The product of two numbers of one limb.
LEMMA MulSmall ==
    ASSUME NEW a \in 0..(Base - 1), NEW b \in 0..(Base - 1), NEW c, NEW d,
           c = <<clear128, <<0, a>>>>, d = <<clear128, <<0, b>>>>
    PROVE  mul256(c, d) \in Uint256 /\ Value256(mul256(c, d)) = a * b
<1>1. PICK top, bottom : top = <<0, 0, 0, a>> /\ bottom = <<0, 0, 0, b>>
  OBVIOUS
<1>2. /\ top = <<UPPER(UPPER(c)), LOWER(UPPER(c)), UPPER(LOWER(c)), LOWER(LOWER(c))>>
      /\ bottom = <<UPPER(UPPER(d)), LOWER(UPPER(d)), UPPER(LOWER(d)), LOWER(LOWER(d))>>
  BY <1>1 DEF UPPER, LOWER, clear128
<1> DEFINE lo == [p \in (0..3) \X (0..3) |-> <<0, LOWER(mul128(<<0, top[4 - p[1]]>>, <<0, bottom[p[2] + 1]>>))>>]
           hi == [p \in (0..3) \X (0..3) |-> <<0, UPPER(mul128(<<0, top[4 - p[1]]>>, <<0, bottom[p[2] + 1]>>))>>]
<1>3. \A i, j \in 0..3 :
         /\ lo[<<i, j>>] = <<0, LOWER(mul128(<<0, top[4 - i]>>, <<0, bottom[j + 1]>>))>>
         /\ hi[<<i, j>>] = <<0, UPPER(mul128(<<0, top[4 - i]>>, <<0, bottom[j + 1]>>))>>
  OBVIOUS
<1> HIDE DEF lo, hi
<1>4. mul256(c, d) = Rows(lo, hi)
  <2>1. LimbsAre(c, top) /\ LimbsAre(d, bottom)
    BY <1>2 DEF LimbsAre
  <2>2. HalvesAre(top, bottom, lo, hi)
    BY <1>3 DEF HalvesAre
  <2> QED BY <2>1, <2>2, Mul256Rows
<1>5. PICK p : p = mul128(<<0, a>>, <<0, b>>)
  OBVIOUS
<1>6. p \in Uint128 /\ Value128(p) = a * b
  BY <1>5, MulLimbs
<1>7. ASSUME NEW m \in 0..(Base - 1)
      PROVE  mul128(<<0, 0>>, <<0, m>>) = clear128 /\ mul128(<<0, m>>, <<0, 0>>) = clear128
  <2>1. PICK u, v : u = mul128(<<0, 0>>, <<0, m>>) /\ v = mul128(<<0, m>>, <<0, 0>>)
    OBVIOUS
  <2>2. 0 \in 0..(Base - 1) /\ 0 * m = 0 /\ m * 0 = 0
    BY BaseFacts
  <2>3. u \in Uint128 /\ v \in Uint128 /\ Value128(u) = 0 /\ Value128(v) = 0
    BY <2>1, <2>2, MulLimbs
  <2>4. u = clear128 /\ v = clear128
    BY <2>3, Clear, Compare128
  <2> QED BY <2>1, <2>4
<1>8. PICK h, l : h = UPPER(p) /\ l = LOWER(p)
  OBVIOUS
<1>9. h \in 0..(Base - 1) /\ l \in 0..(Base - 1) /\ a * b = h * Base + l
  BY <1>6, <1>8, Parts128
<1>12. 0 \in 0..3 /\ 1 \in 0..3 /\ 2 \in 0..3 /\ 3 \in 0..3
  OBVIOUS
<1>10. lo[<<0, 3>>] = <<0, l>> /\ hi[<<0, 3>>] = <<0, h>>
  <2>1. top[4 - 0] = a /\ bottom[3 + 1] = b
    BY <1>1
  <2>2. /\ lo[<<0, 3>>] = <<0, LOWER(mul128(<<0, top[4 - 0]>>, <<0, bottom[3 + 1]>>))>>
        /\ hi[<<0, 3>>] = <<0, UPPER(mul128(<<0, top[4 - 0]>>, <<0, bottom[3 + 1]>>))>>
    BY <1>3, <1>12, Zenon
  <2> QED BY <1>5, <1>8, <2>1, <2>2, Zenon
<1>11. ASSUME NEW i \in 0..3, NEW j \in 0..3, i # 0 \/ j # 3
       PROVE  lo[<<i, j>>] = clear128 /\ hi[<<i, j>>] = clear128
  <2>1. PICK u, v : u = top[4 - i] /\ v = bottom[j + 1]
    OBVIOUS
  <2>2. 0 \in 0..(Base - 1)
    BY BaseFacts
  <2>3. u \in 0..(Base - 1) /\ v \in 0..(Base - 1) /\ (u = 0 \/ v = 0)
    BY <1>1, <1>11, <2>1, <2>2
  <2>4. mul128(<<0, u>>, <<0, v>>) = clear128
    BY <1>7, <2>3
  <2>5. LOWER(clear128) = 0 /\ UPPER(clear128) = 0 /\ clear128 = <<0, 0>>
    BY DEF UPPER, LOWER, clear128
  <2> QED BY <1>3, <2>1, <2>4, <2>5, ZenonT(40)
<1>13. ASSUME NEW n \in Uint128
       PROVE  add128(clear128, n) = n /\ add128(n, clear128) = n
  <2>1. Value128(n) < Square /\ Value128(n) \in Nat
    BY Parts128, BaseFacts
  <2>2. Value128(clear128) + Value128(n) = Value128(n) /\ Value128(n) + Value128(clear128) = Value128(n)
    BY <2>1, Clear
  <2>3. PICK u, v : u = add128(clear128, n) /\ v = add128(n, clear128)
    OBVIOUS
  <2>4. u \in Uint128 /\ v \in Uint128 /\ Value128(u) = Value128(n) /\ Value128(v) = Value128(n)
    BY <2>1, <2>2, <2>3, Clear, AddSmall128
  <2>5. u = n /\ v = n
    BY <2>4, Compare128
  <2> QED BY <2>3, <2>5
<1> DEFINE third  == add128(lo[<<1, 3>>], add128(lo[<<0, 2>>], hi[<<0, 3>>]))
           second == add128(lo[<<2, 3>>], add128(hi[<<1, 3>>], add128(lo[<<1, 2>>], add128(lo[<<0, 1>>], hi[<<0, 2>>]))))
           row    == add128(hi[<<1, 2>>], add128(lo[<<1, 1>>], add128(lo[<<0, 0>>], hi[<<0, 1>>])))
           first  == add128(lo[<<3, 3>>], add128(hi[<<2, 3>>], add128(lo[<<2, 2>>], row)))
<1>14. <<0, h>> \in Uint128 /\ <<0, l>> \in Uint128 /\ <<h, 0>> \in Uint128 /\ clear128 \in Uint128
  BY <1>9, Make128, Clear, BaseFacts
<1>15. third = <<0, h>> /\ second = clear128 /\ row = clear128 /\ first = clear128
  <2>1. /\ lo[<<1, 3>>] = clear128 /\ lo[<<0, 2>>] = clear128 /\ lo[<<2, 3>>] = clear128
        /\ hi[<<1, 3>>] = clear128 /\ lo[<<1, 2>>] = clear128 /\ lo[<<0, 1>>] = clear128
        /\ hi[<<0, 2>>] = clear128 /\ hi[<<1, 2>>] = clear128 /\ lo[<<1, 1>>] = clear128
        /\ lo[<<0, 0>>] = clear128 /\ hi[<<0, 1>>] = clear128 /\ lo[<<3, 3>>] = clear128
        /\ hi[<<2, 3>>] = clear128 /\ lo[<<2, 2>>] = clear128
    BY <1>11, <1>12
  <2> QED BY <1>10, <1>13, <1>14, <2>1
<1> HIDE DEF first, second, third, row
<1>16. Rows(lo, hi) = add256(<<clear128, lo[<<0, 3>>]>>, add256(<<second, clear128>>,
          add256(<<shiftl128(first, LimbBits), clear128>>,
                 <<<<UPPER(third), 0>>, shiftl128(third, LimbBits)>>)))
  BY Zenon DEF Rows, first, second, third, row
<1>17. shiftl128(first, LimbBits) = clear128 /\ shiftl128(third, LimbBits) = <<h, 0>> /\ UPPER(third) = 0
  <2>1. ~(LimbBits >= 2 * LimbBits)
    BY BaseFacts
  <2>2. \A n : shiftl128(n, LimbBits) = <<LOWER(n), 0>>
    BY <2>1, BaseFacts DEF shiftl128
  <2> QED BY <1>15, <2>2 DEF UPPER, LOWER, clear128
<1>18. <<UPPER(third), 0>> = clear128
  BY <1>17 DEF clear128
<1>19. PICK e, f, g : e = <<clear128, clear128>> /\ f = <<clear128, <<h, 0>>>> /\ g = <<clear128, <<0, l>>>>
  OBVIOUS
<1>20. mul256(c, d) = add256(g, add256(e, add256(e, f)))
  BY <1>4, <1>10, <1>15, <1>16, <1>17, <1>18, <1>19
<1>21. /\ e \in Uint256 /\ f \in Uint256 /\ g \in Uint256 /\ Value256(e) = 0
       /\ Value256(f) = h * Base /\ Value256(g) = l
  <2>1. Value128(<<h, 0>>) = h * Base /\ Value128(<<0, l>>) = l
    BY <1>9, Make128, BaseFacts
  <2>2. PICK u, w : u = <<h, 0>> /\ w = <<0, l>>
    OBVIOUS
  <2>3. PICK z : z = Value128(u)
    OBVIOUS
  <2>4. z \in Nat /\ l \in Nat
    BY <1>9, <1>14, <2>2, <2>3, Parts128, BaseFacts
  <2>5. u \in Uint128 /\ w \in Uint128 /\ Value128(w) = l /\ Value128(u) = z
    BY <1>14, <2>1, <2>2, <2>3
  <2>6. /\ e \in Uint256 /\ f \in Uint256 /\ g \in Uint256 /\ Value256(e) = 0 * Square + 0
        /\ Value256(f) = 0 * Square + z /\ Value256(g) = 0 * Square + l
    BY <1>19, <2>2, <2>5, Make256, Clear
  <2>7. 0 * Square + 0 = 0 /\ 0 * Square + z = z /\ 0 * Square + l = l
    BY <2>4, BaseFacts
  <2> QED BY <2>1, <2>2, <2>3, <2>6, <2>7
<1>22. PICK z : z = h * Base
  OBVIOUS
<1>23. z \in Nat /\ l \in Nat /\ l + z < Modulus /\ a * b = l + z
  <2>1. z \in Nat /\ l \in Nat /\ Square <= Modulus
    BY <1>9, <1>22, BaseFacts
  <2>2. h * Base + l \in 0..(Square - 1)
    <3>1. Value128(p) \in 0..(Square - 1)
      BY <1>6, Parts128
    <3> QED BY <1>6, <1>9, <3>1
  <2> QED BY <1>9, <1>22, <2>1, <2>2, BaseFacts
<1>24. add256(e, f) \in Uint256 /\ Value256(add256(e, f)) = z
  <2>1. 0 + z = z /\ z < Modulus
    BY <1>23, BaseFacts
  <2> QED BY <1>21, <1>22, <2>1, AddSmall256
<1>25. add256(e, add256(e, f)) \in Uint256 /\ Value256(add256(e, add256(e, f))) = z
  <2>1. 0 + z = z /\ z < Modulus
    BY <1>23, BaseFacts
  <2> QED BY <1>21, <1>24, <2>1, AddSmall256
<1>26. Value256(add256(g, add256(e, add256(e, f)))) = l + z
       /\ add256(g, add256(e, add256(e, f))) \in Uint256
  BY <1>21, <1>23, <1>25, AddSmall256
<1> QED BY <1>20, <1>23, <1>26
=============================================================================
