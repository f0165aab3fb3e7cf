----------------------------- MODULE CmapProofs -----------------------------
(***************************************************************************)
(* The hash map is the function its user has in mind, for every set of     *)
(* keys and values, every hash, number of tags, load factor and sequence   *)
(* of calls: proofs of the properties of Cmap.                             *)
(***************************************************************************)
EXTENDS Cmap, FiniteSetTheorems, WellFoundedInduction, TLAPS

-----------------------------------------------------------------------------
(***************************************************************************)
(* Numbers.                                                                *)
(***************************************************************************)

\* A set of natural numbers has a least member.
LEMMA NatMin ==
    ASSUME NEW T, T \subseteq Nat, T # {}
    PROVE  \E x \in T : \A y \in T : x <= y
<1>1. IsWellFoundedOn(OpToRel(<, Nat), Nat)
  BY NatLessThanWellFounded
<1>2. PICK x \in T : \A y \in T : ~(<<y, x>> \in OpToRel(<, Nat))
  BY <1>1, WFMin
<1>3. ASSUME NEW y \in T PROVE x <= y
  <2>1. ~(<<y, x>> \in OpToRel(<, Nat))
    BY <1>2
  <2>2. ~(y < x)
    BY <2>1 DEF OpToRel
  <2> QED BY <2>2
<1> QED BY <1>3

LEMMA MinFacts ==
    ASSUME NEW T, T \subseteq Nat, T # {}
    PROVE  Min(T) \in T /\ \A y \in T : Min(T) <= y
<1>1. \E x \in T : \A y \in T : x <= y
  BY NatMin
<1> QED BY <1>1 DEF Min

LEMMA MulMono ==
    ASSUME NEW a \in Int, NEW b \in Int, NEW c \in Nat, a <= b
    PROVE  a * c <= b * c
  OBVIOUS

\* Division of natural numbers.
LEMMA DivBelow ==
    ASSUME NEW a \in Nat, NEW b \in Nat \ {0}, NEW c \in Nat, a < c * b
    PROVE  a \div b \in Nat /\ a \div b < c
<1> PICK q, r : q = a \div b /\ r = a % b
  OBVIOUS
<1>1. q \in Int /\ r \in Nat /\ a = b * q + r
  OBVIOUS
<1>2. CASE q >= c
  <2>1. c * b <= q * b
    BY <1>1, <1>2, MulMono
  <2> QED BY <1>1, <2>1
<1>3. CASE q < 0
  <2>1. q <= -1 /\ q * b <= (-1) * b
    BY <1>1, <1>3, MulMono
  <2>2. r < b
    OBVIOUS
  <2> QED BY <1>1, <2>1, <2>2
<1> QED BY <1>1, <1>2, <1>3

LEMMA DivAbove ==
    ASSUME NEW a \in Nat, NEW b \in Nat \ {0}, NEW c \in Nat, c * b <= a
    PROVE  a \div b \in Nat /\ a \div b >= c
<1> PICK q, r : q = a \div b /\ r = a % b
  OBVIOUS
<1>1. q \in Int /\ r \in Nat /\ r < b /\ a = b * q + r
  OBVIOUS
<1>2. CASE q < c
  <2>1. (q + 1) * b <= c * b
    BY <1>1, <1>2, MulMono
  <2>2. (q + 1) * b = b * q + b
    BY <1>1
  <2> QED BY <1>1, <2>1, <2>2
<1> QED BY <1>1, <1>2

LEMMA ModFacts ==
    ASSUME NEW n \in Nat \ {0}, NEW x \in Nat, x < n + n
    PROVE  x % n = IF x < n THEN x ELSE x - n
<1> PICK q, r : q = x \div n /\ r = x % n
  OBVIOUS
<1>1. q \in Int /\ r \in Nat /\ r < n /\ x = n * q + r
  OBVIOUS
<1>2. x < 2 * n /\ 0 * n <= x
  OBVIOUS
<1>3. q \in Nat /\ q < 2
  BY <1>2, DivBelow
<1>4. q = 0 \/ q = 1
  BY <1>3
<1>5. CASE q = 0
  <2>1. x = r
    BY <1>1, <1>5
  <2> QED BY <1>1, <2>1
<1>6. CASE q = 1
  <2>1. x = n + r
    BY <1>1, <1>6
  <2> QED BY <1>1, <2>1
<1> QED BY <1>4, <1>5, <1>6


\* Half again as many entries and four have room in the table made for them.
LEMMA Sizes ==
    ASSUME NEW n \in Nat
    PROVE  /\ Scaled(n) \in Nat /\ Scaled(n) <= n
           /\ Unscaled(n) \in Nat /\ Unscaled(n) >= n
<1>0. LoadPercent \in Nat \ {0} /\ LoadPercent <= 100
  BY CmapAssumption
<1>1. n * LoadPercent \in Nat /\ n * LoadPercent <= n * 100
  <2>1. LoadPercent * n <= 100 * n /\ LoadPercent * n \in Nat
    BY <1>0, MulMono
  <2> QED BY <1>0, <2>1
<1>2. Scaled(n) \in Nat /\ Scaled(n) <= n
  BY <1>1 DEF Scaled
<1>3. n * 100 \in Nat
  OBVIOUS
<1> QED BY <1>0, <1>1, <1>2, <1>3, DivAbove DEF Unscaled

-----------------------------------------------------------------------------
(***************************************************************************)
(* Probing.                                                                *)
(***************************************************************************)

Home(n, k) == fastrange(Hash[k], n)
Step(n, h, i) == (h + i) % n
Entries == [first : Keys, second : Values]

\* x is on the way from h to b, going round the end of the table.
Between(h, x, b) == IF h <= b THEN h <= x /\ x <= b ELSE h <= x \/ x <= b

\* A table of n buckets in which every entry is found: it has its tag, no other
\* entry has its key, and from its home to its bucket there is no free one.
Formed(n, tab, hx) ==
    /\ tab \in [0..(n - 1) -> Entries]
    /\ hx \in [0..(n - 1) -> 0..Tags]
    /\ \A b \in 0..(n - 1) : hx[b] # 0 => hx[b] = Tag(tab[b].first)
    /\ \A b, c \in 0..(n - 1) :
          hx[b] # 0 /\ hx[c] # 0 /\ tab[b].first = tab[c].first => b = c
    /\ \A b, x \in 0..(n - 1) :
          hx[b] # 0 /\ Between(Home(n, tab[b].first), x, b) => hx[x] # 0

LEMMA HomeFacts ==
    ASSUME NEW n \in Nat \ {0}, NEW k \in Keys
    PROVE  Home(n, k) \in 0..(n - 1) /\ Tag(k) \in 1..Tags
<1>1. Hash[k] \in 0..(HashRange - 1) /\ HashRange \in Nat \ {0} /\ Tags \in Nat \ {0}
  BY CmapAssumption
<1> PICK h, r : h = Hash[k] /\ r = HashRange
  OBVIOUS
<1>2. h \in Nat /\ r \in Nat \ {0} /\ h <= r - 1
  BY <1>1
<1>3. h * n \in Nat /\ h * n <= (r - 1) * n
  BY <1>2, MulMono
<1>4. (r - 1) * n = n * r - n
  BY <1>2
<1>5. h * n < n * r
  <2>1. n * r \in Int
    BY <1>2
  <2> QED BY <1>3, <1>4, <2>1
<1>6. (h * n) \div r \in Nat /\ (h * n) \div r < n
  BY <1>2, <1>3, <1>5, DivBelow
<1>7. Home(n, k) \in 0..(n - 1)
  BY <1>6 DEF Home, fastrange
<1>8. Tag(k) \in 1..Tags
  BY <1>1 DEF Tag
<1> QED BY <1>7, <1>8

LEMMA StepFacts ==
    ASSUME NEW n \in Nat \ {0}, NEW h \in 0..(n - 1), NEW i \in 0..(n - 1)
    PROVE  /\ Step(n, h, i) \in 0..(n - 1)
           /\ Step(n, h, i) = IF h + i < n THEN h + i ELSE h + i - n
<1> PICK x : x = h + i
  OBVIOUS
<1>1. x \in Nat /\ x < n + n
  OBVIOUS
<1>2. x % n = IF x < n THEN x ELSE x - n
  BY <1>1, ModFacts
<1>3. Step(n, h, i) = IF x < n THEN x ELSE x - n
  BY <1>2 DEF Step
<1> QED BY <1>1, <1>3

\* Every bucket is reached, and the buckets on the way to it are those reached
\* before.
LEMMA StepOnto ==
    ASSUME NEW n \in Nat \ {0}, NEW h \in 0..(n - 1), NEW b \in 0..(n - 1)
    PROVE  \E i \in 0..(n - 1) : Step(n, h, i) = b
<1> DEFINE i == IF h <= b THEN b - h ELSE b - h + n
<1>1. i \in 0..(n - 1) /\ (IF h + i < n THEN h + i ELSE h + i - n) = b
  OBVIOUS
<1> HIDE DEF i
<1>2. Step(n, h, i) = b
  BY <1>1, StepFacts
<1> QED BY <1>1, <1>2

LEMMA StepOrder ==
    ASSUME NEW n \in Nat \ {0}, NEW h \in 0..(n - 1), NEW i \in 0..(n - 1), NEW j \in 0..(n - 1)
    PROVE  Between(h, Step(n, h, i), Step(n, h, j)) <=> i <= j
<1> PICK x, y : x = Step(n, h, i) /\ y = Step(n, h, j)
  OBVIOUS
<1>1. /\ x = IF h + i < n THEN h + i ELSE h + i - n
      /\ y = IF h + j < n THEN h + j ELSE h + j - n
  BY StepFacts
<1>2. Between(h, x, y) <=> i <= j
  BY <1>1 DEF Between
<1> QED BY <1>2

\* Where probing for k may end.
Stopper(tab, hx, k, b) == hx[b] = 0 \/ (hx[b] = Tag(k) /\ tab[b].first = k)

LEMMA ProbeDef ==
    ASSUME NEW n \in Nat \ {0}, NEW tab, NEW hx, Buckets(hx) = n, NEW k \in Keys
    PROVE  LET ends == {i \in 0..(n - 1) : Stopper(tab, hx, k, Step(n, Home(n, k), i))}
           IN  /\ ends = {} => bucket_(tab, hx, k) = -1
               /\ ends # {} => bucket_(tab, hx, k) = Step(n, Home(n, k), Min(ends))
<1> DEFINE ends == {i \in 0..(n - 1) : Stopper(tab, hx, k, Step(n, Home(n, k), i))}
<1>1. bucket_(tab, hx, k) = IF ends = {} THEN -1 ELSE Step(n, Home(n, k), Min(ends))
  BY Zenon DEF bucket_, Stopper, Step, Home
<1> QED BY <1>1

\* A probe that ends does so at the first stopper.
LEMMA ProbeEnd ==
    ASSUME NEW n \in Nat \ {0}, NEW tab, NEW hx, Buckets(hx) = n, NEW k \in Keys,
           bucket_(tab, hx, k) # -1
    PROVE  LET b == bucket_(tab, hx, k)
           IN  /\ b \in 0..(n - 1) /\ Stopper(tab, hx, k, b)
               /\ \A x \in 0..(n - 1) :
                     Between(Home(n, k), x, b) /\ x # b => ~Stopper(tab, hx, k, x)
<1> PICK h : h = Home(n, k)
  OBVIOUS
<1>0. h \in 0..(n - 1)
  BY HomeFacts
<1> DEFINE ends == {i \in 0..(n - 1) : Stopper(tab, hx, k, Step(n, h, i))}
<1>1. ends # {} /\ bucket_(tab, hx, k) = Step(n, h, Min(ends))
  BY ProbeDef
<1>2. Min(ends) \in ends /\ \A y \in ends : Min(ends) <= y
  <2>1. ends \subseteq Nat
    OBVIOUS
  <2> HIDE DEF ends
  <2> QED BY <1>1, <2>1, MinFacts
<1> PICK m : m = Min(ends)
  OBVIOUS
<1>3. m \in 0..(n - 1) /\ Stopper(tab, hx, k, Step(n, h, m))
  BY <1>2
<1>4. ASSUME NEW x \in 0..(n - 1), Between(h, x, Step(n, h, m)), x # Step(n, h, m)
      PROVE  ~Stopper(tab, hx, k, x)
  <2>1. PICK i \in 0..(n - 1) : Step(n, h, i) = x
    BY <1>0, StepOnto
  <2>2. i <= m
    BY <1>0, <1>3, <1>4, <2>1, StepOrder
  <2>3. i # m
    BY <1>4, <2>1
  <2>4. i \notin ends
    <3> HIDE DEF ends
    <3> QED BY <1>2, <1>3, <2>2, <2>3
  <2> QED BY <2>1, <2>4
<1>5. Step(n, h, m) \in 0..(n - 1)
  BY <1>0, <1>3, StepFacts
<1> HIDE DEF ends
<1> QED BY <1>1, <1>3, <1>4, <1>5

\* A probe ends if there is anything to end it.
LEMMA ProbeEnds ==
    ASSUME NEW n \in Nat \ {0}, NEW tab, NEW hx, Buckets(hx) = n, NEW k \in Keys,
           NEW b \in 0..(n - 1), Stopper(tab, hx, k, b)
    PROVE  bucket_(tab, hx, k) # -1
<1>0. Home(n, k) \in 0..(n - 1)
  BY HomeFacts
<1>1. PICK i \in 0..(n - 1) : Step(n, Home(n, k), i) = b
  BY <1>0, StepOnto
<1> DEFINE ends == {j \in 0..(n - 1) : Stopper(tab, hx, k, Step(n, Home(n, k), j))}
<1>2. i \in ends
  BY <1>1
<1>3. bucket_(tab, hx, k) = Step(n, Home(n, k), Min(ends))
  BY <1>2, ProbeDef
<1>4. Min(ends) \in ends
  <2>1. ends \subseteq Nat /\ ends # {}
    BY <1>2
  <2> HIDE DEF ends
  <2> QED BY <2>1, MinFacts
<1>5. bucket_(tab, hx, k) \in 0..(n - 1)
  <2>1. Min(ends) \in 0..(n - 1)
    BY <1>4
  <2> HIDE DEF ends
  <2> QED BY <1>0, <1>3, <2>1, StepFacts
<1> QED BY <1>5


-----------------------------------------------------------------------------
(***************************************************************************)
(* Tables.                                                                 *)
(***************************************************************************)

LEMMA FormedTypes ==
    ASSUME NEW n \in Nat, NEW tab, NEW hx, Formed(n, tab, hx)
    PROVE  /\ DOMAIN tab = 0..(n - 1) /\ DOMAIN hx = 0..(n - 1)
           /\ Buckets(hx) = n
           /\ \A b \in 0..(n - 1) : tab[b].first \in Keys /\ tab[b].second \in Values
                                    /\ tab[b] \in Entries /\ hx[b] \in 0..Tags
<1>1. DOMAIN tab = 0..(n - 1) /\ DOMAIN hx = 0..(n - 1)
  BY DEF Formed
<1>2. Cardinality(0..(n - 1)) = n
  <2>1. 0 \in Int /\ n - 1 \in Int
    OBVIOUS
  <2>2. Cardinality(0..(n - 1)) = IF 0 > n - 1 THEN 0 ELSE (n - 1) - 0 + 1
    BY <2>1, FS_Interval
  <2> QED BY <2>2
<1>3. \A b \in 0..(n - 1) : tab[b].first \in Keys /\ tab[b].second \in Values
                            /\ tab[b] \in Entries /\ hx[b] \in 0..Tags
  BY DEF Formed, Entries
<1> QED BY <1>1, <1>2, <1>3 DEF Buckets

\* An entry of the table is found.
LEMMA EntryFound ==
    ASSUME NEW n \in Nat, NEW tab, NEW hx, Formed(n, tab, hx),
           NEW b \in 0..(n - 1), hx[b] # 0
    PROVE  bucket_(tab, hx, tab[b].first) = b
<1> PICK k : k = tab[b].first
  OBVIOUS
<1>1. n \in Nat \ {0} /\ k \in Keys /\ Buckets(hx) = n
  BY FormedTypes
<1>2. Stopper(tab, hx, k, b)
  BY DEF Formed, Stopper
<1>3. bucket_(tab, hx, k) # -1
  BY <1>1, <1>2, ProbeEnds
<1> PICK c : c = bucket_(tab, hx, k)
  OBVIOUS
<1>4. /\ c \in 0..(n - 1) /\ Stopper(tab, hx, k, c)
      /\ \A x \in 0..(n - 1) : Between(Home(n, k), x, c) /\ x # c => ~Stopper(tab, hx, k, x)
  BY <1>1, <1>3, ProbeEnd
<1>5. Home(n, k) \in 0..(n - 1)
  BY <1>1, HomeFacts
<1>6. ~Between(Home(n, k), b, c) \/ b = c
  BY <1>2, <1>4
<1>7. b # c => Between(Home(n, k), c, b)
  BY <1>4, <1>5, <1>6 DEF Between
<1>8. b # c => hx[c] # 0
  BY <1>4, <1>7 DEF Formed
<1>9. b = c
  BY <1>4, <1>8 DEF Formed, Stopper
<1> QED BY <1>9

\* What a table says of its user's map.
Holds(n, tab, hx, mp) ==
    /\ mp \in [Keys -> Values \cup {Absent}]
    /\ \A b \in 0..(n - 1) : hx[b] # 0 => mp[tab[b].first] = tab[b].second
    /\ \A k \in Keys : mp[k] # Absent => \E b \in 0..(n - 1) : hx[b] # 0 /\ tab[b].first = k

\* The buckets that have an entry.
Taken(n, hx) == {b \in 0..(n - 1) : hx[b] # 0}

LEMMA TakenFacts ==
    ASSUME NEW n \in Nat, NEW hx
    PROVE  /\ IsFiniteSet(Taken(n, hx)) /\ Cardinality(Taken(n, hx)) \in Nat
           /\ Cardinality(Taken(n, hx)) <= n
           /\ Cardinality(Taken(n, hx)) < n => \E b \in 0..(n - 1) : hx[b] = 0
           /\ Cardinality(Taken(n, hx)) = n => \A b \in 0..(n - 1) : hx[b] # 0
<1>1. IsFiniteSet(0..(n - 1)) /\ Cardinality(0..(n - 1)) = n
  <2>1. 0 \in Int /\ n - 1 \in Int
    OBVIOUS
  <2>2. /\ IsFiniteSet(0..(n - 1))
        /\ Cardinality(0..(n - 1)) = IF 0 > n - 1 THEN 0 ELSE (n - 1) - 0 + 1
    BY <2>1, FS_Interval
  <2> QED BY <2>2
<1>2. Taken(n, hx) \subseteq 0..(n - 1)
  BY DEF Taken
<1>3. /\ IsFiniteSet(Taken(n, hx)) /\ Cardinality(Taken(n, hx)) <= n
      /\ Cardinality(Taken(n, hx)) = n => Taken(n, hx) = 0..(n - 1)
  BY <1>1, <1>2, FS_Subset
<1>4. Cardinality(Taken(n, hx)) \in Nat
  BY <1>3, FS_CardinalityType
<1>5. (\A b \in 0..(n - 1) : hx[b] # 0) => Taken(n, hx) = 0..(n - 1)
  BY DEF Taken
<1>6. Cardinality(Taken(n, hx)) < n => \E b \in 0..(n - 1) : hx[b] = 0
  BY <1>1, <1>4, <1>5
<1>7. Cardinality(Taken(n, hx)) = n => \A b \in 0..(n - 1) : hx[b] # 0
  BY <1>3 DEF Taken
<1> QED BY <1>3, <1>4, <1>6, <1>7

\* k is entered where probing for it ends.
PutTab(tab, hx, k, v) == [tab EXCEPT ![bucket_(tab, hx, k)] = [first |-> k, second |-> v]]
PutHx(tab, hx, k) == [hx EXCEPT ![bucket_(tab, hx, k)] = Tag(k)]

LEMMA Put ==
    ASSUME NEW n \in Nat \ {0}, NEW tab, NEW hx, NEW mp, NEW k \in Keys, NEW v \in Values,
           Formed(n, tab, hx), Holds(n, tab, hx, mp), bucket_(tab, hx, k) # -1
    PROVE  /\ bucket_(tab, hx, k) \in 0..(n - 1)
           /\ hx[bucket_(tab, hx, k)] # 0 =>
                 tab[bucket_(tab, hx, k)].first = k /\ PutHx(tab, hx, k) = hx
           /\ Formed(n, PutTab(tab, hx, k, v), PutHx(tab, hx, k))
           /\ Taken(n, PutHx(tab, hx, k)) = Taken(n, hx) \cup {bucket_(tab, hx, k)}
           /\ Holds(n, PutTab(tab, hx, k, v), PutHx(tab, hx, k), [mp EXCEPT ![k] = v])
           /\ hx[bucket_(tab, hx, k)] = 0 <=> mp[k] = Absent
<1> PICK b, tb, hb : /\ b = bucket_(tab, hx, k)
                     /\ tb = PutTab(tab, hx, k, v) /\ hb = PutHx(tab, hx, k)
  OBVIOUS
<1>e. /\ tb = [tab EXCEPT ![b] = [first |-> k, second |-> v]]
      /\ hb = [hx EXCEPT ![b] = Tag(k)]
  BY DEF PutTab, PutHx
<1>0. /\ Buckets(hx) = n /\ DOMAIN hx = 0..(n - 1) /\ DOMAIN tab = 0..(n - 1)
      /\ \A x \in 0..(n - 1) : tab[x].first \in Keys /\ tab[x].second \in Values
  BY FormedTypes
<1>1. /\ b \in 0..(n - 1) /\ Stopper(tab, hx, k, b)
      /\ \A x \in 0..(n - 1) : Between(Home(n, k), x, b) /\ x # b => ~Stopper(tab, hx, k, x)
  BY <1>0, ProbeEnd
<1>2. Home(n, k) \in 0..(n - 1) /\ Tag(k) \in 1..Tags /\ Tag(k) # 0
  BY HomeFacts
<1>3. hx[b] # 0 => hx[b] = Tag(k) /\ tab[b].first = k /\ hb = hx
  <2>1. hx[b] # 0 => hx[b] = Tag(k) /\ tab[b].first = k
    BY <1>1 DEF Stopper
  <2>2. hx = [x \in 0..(n - 1) |-> hx[x]]
    BY DEF Formed
  <2>3. hx[b] # 0 => hb = hx
    BY <1>0, <1>e, <2>1, <2>2
  <2> QED BY <2>1, <2>3
\* The tables, bucket by bucket.
<1>4. /\ \A x \in 0..(n - 1) : hb[x] = IF x = b THEN Tag(k) ELSE hx[x]
      /\ \A x \in 0..(n - 1) : tb[x] = IF x = b THEN [first |-> k, second |-> v] ELSE tab[x]
      /\ tb[b].first = k /\ tb[b].second = v
  BY <1>0, <1>1, <1>e
\* No entry elsewhere has k.
<1>5. ASSUME NEW c \in 0..(n - 1), hx[c] # 0, tab[c].first = k
      PROVE  c = b
  BY <1>5, EntryFound
<1>6. Formed(n, tb, hb)
  <2>1. tb \in [0..(n - 1) -> Entries] /\ hb \in [0..(n - 1) -> 0..Tags]
    <3>1. [first |-> k, second |-> v] \in Entries
      BY DEF Entries
    <3>2. tab \in [0..(n - 1) -> Entries] /\ hx \in [0..(n - 1) -> 0..Tags]
      BY DEF Formed
    <3>3. Tag(k) \in 0..Tags
      BY <1>2
    <3> QED BY <1>e, <3>1, <3>2, <3>3
  <2>2. ASSUME NEW c \in 0..(n - 1), hb[c] # 0
        PROVE  hb[c] = Tag(tb[c].first)
    BY <1>4, <2>2 DEF Formed
  <2>3. ASSUME NEW c \in 0..(n - 1), NEW d \in 0..(n - 1), hb[c] # 0, hb[d] # 0,
               tb[c].first = tb[d].first
        PROVE  c = d
    BY <1>4, <1>5, <2>3, SMTT(40) DEF Formed
  <2>4. ASSUME NEW c \in 0..(n - 1), NEW x \in 0..(n - 1), hb[c] # 0,
               Between(Home(n, tb[c].first), x, c)
        PROVE  hb[x] # 0
    <3>1. CASE x = b
      BY <1>2, <1>4, <3>1
    <3>2. CASE x # b /\ c = b
      BY <1>1, <1>4, <2>4, <3>2 DEF Stopper
    <3>3. CASE x # b /\ c # b
      BY <1>4, <2>4, <3>3 DEF Formed
    <3> QED BY <3>1, <3>2, <3>3
  <2> QED BY <2>1, <2>2, <2>3, <2>4 DEF Formed
<1>7. Taken(n, hb) = Taken(n, hx) \cup {b}
  BY <1>1, <1>2, <1>4 DEF Taken
<1>8. /\ Holds(n, tb, hb, [mp EXCEPT ![k] = v])
      /\ hx[b] = 0 <=> mp[k] = Absent
  <2> PICK nm : nm = [mp EXCEPT ![k] = v]
    OBVIOUS
  <2>1. /\ mp \in [Keys -> Values \cup {Absent}] /\ nm \in [Keys -> Values \cup {Absent}]
        /\ \A q \in Keys : nm[q] = IF q = k THEN v ELSE mp[q]
    BY DEF Holds
  <2>2. ASSUME NEW c \in 0..(n - 1), hb[c] # 0
        PROVE  nm[tb[c].first] = tb[c].second
    <3>1. CASE c = b
      BY <1>4, <2>1, <3>1
    <3>2. CASE c # b
      <4>1. hx[c] # 0 /\ tb[c] = tab[c]
        BY <1>4, <2>2, <3>2
      <4>2. tab[c].first # k /\ tab[c].first \in Keys
        BY <1>0, <1>5, <3>2, <4>1
      <4>3. mp[tab[c].first] = tab[c].second
        BY <4>1 DEF Holds
      <4> QED BY <2>1, <4>1, <4>2, <4>3
    <3> QED BY <3>1, <3>2
  <2>3. ASSUME NEW q \in Keys, nm[q] # Absent
        PROVE  \E c \in 0..(n - 1) : hb[c] # 0 /\ tb[c].first = q
    <3>1. CASE q = k
      BY <1>1, <1>2, <1>4, <3>1
    <3>2. CASE q # k
      <4>1. PICK c \in 0..(n - 1) : hx[c] # 0 /\ tab[c].first = q
        BY <2>1, <2>3, <3>2 DEF Holds
      <4>2. c # b
        BY <1>3, <3>2, <4>1
      <4> QED BY <1>4, <4>1, <4>2
    <3> QED BY <3>1, <3>2
  <2>4. Holds(n, tb, hb, nm)
    BY <2>1, <2>2, <2>3 DEF Holds
  <2>5. hx[b] = 0 <=> mp[k] = Absent
    <3>1. ASSUME hx[b] # 0 PROVE mp[k] # Absent
      <4>1. mp[k] = tab[b].second
        BY <1>1, <1>3, <3>1 DEF Holds
      <4> QED BY <1>0, <1>1, <4>1, CmapAssumption
    <3>2. ASSUME mp[k] # Absent PROVE hx[b] # 0
      <4>1. PICK c \in 0..(n - 1) : hx[c] # 0 /\ tab[c].first = k
        BY <3>2 DEF Holds
      <4> QED BY <1>5, <4>1
    <3> QED BY <3>1, <3>2
  <2> QED BY <2>4, <2>5
<1> QED BY <1>1, <1>3, <1>6, <1>7, <1>8


-----------------------------------------------------------------------------
(***************************************************************************)
(* Rehashing.                                                              *)
(***************************************************************************)

EmptyTable(n) == [hx  |-> [b \in 0..(n - 1) |-> 0], tab |-> [b \in 0..(n - 1) |-> NoEntry]]

\* One turn of the loop: the table m after entry e with tag h.
Moved(m, e, h) ==
    IF h = 0 THEN m
    ELSE [hx  |-> [m.hx EXCEPT ![bucket_(m.tab, m.hx, e.first)] = Tag(e.first)],
          tab |-> [m.tab EXCEPT ![bucket_(m.tab, m.hx, e.first)] = e]]
RehashTurn(n, i, u) == IF i = 0 THEN EmptyTable(n) ELSE Moved(u[i - 1], table[i - 1], hashx[i - 1])

LEMMA RehashDef ==
    ASSUME NEW n
    PROVE  Rehashed(n) = (CHOOSE u : u = [i \in 0..bucket_count |-> RehashTurn(n, i, u)])[bucket_count]
  BY Zenon DEF Rehashed, RehashTurn, Moved, EmptyTable

\* The recursion has a solution, by the least length for which it has none.
LEMMA RehashUnfolds ==
    ASSUME NEW n, bucket_count \in Nat
    PROVE  \E u : /\ \A i \in 0..bucket_count : u[i] = RehashTurn(n, i, u)
                  /\ Rehashed(n) = u[bucket_count]
<1> DEFINE Solves(c, u) == u = [i \in 0..c |-> RehashTurn(n, i, u)]
           Bad == {c \in 0..bucket_count : ~\E u : Solves(c, u)}
<1>1. Bad = {}
  <2> SUFFICES ASSUME Bad # {} PROVE FALSE
    OBVIOUS
  <2>1. Bad \subseteq Nat
    OBVIOUS
  <2> HIDE DEF Solves
  <2>2. PICK c \in Bad : \A y \in Bad : c <= y
    <3> HIDE DEF Bad
    <3> QED BY <2>1, NatMin
  <2>3. c \in 0..bucket_count /\ ~\E u : Solves(c, u)
    OBVIOUS
  <2>4. CASE c = 0
    <3> DEFINE u == [i \in 0..0 |-> EmptyTable(n)]
    <3>1. [i \in 0..0 |-> RehashTurn(n, i, u)] = u
      <4>1. \A i \in 0..0 : RehashTurn(n, i, u) = EmptyTable(n)
        <5> HIDE DEF u
        <5> QED BY DEF RehashTurn
      <4> QED BY <4>1
    <3>2. Solves(0, u)
      BY <3>1 DEF Solves
    <3> QED BY <2>3, <2>4, <3>2
  <2>5. CASE c # 0
    <3>1. c - 1 \in 0..bucket_count /\ c - 1 < c /\ c \in Nat
      BY <2>3, <2>5
    <3>2. c - 1 \notin Bad
      <4> HIDE DEF Bad
      <4> QED BY <2>2, <3>1
    <3>3. PICK w : Solves(c - 1, w)
      BY <3>1, <3>2
    <3> DEFINE u == [i \in 0..c |-> IF i = c THEN Moved(w[c - 1], table[c - 1], hashx[c - 1]) ELSE w[i]]
    <3>4. \A i \in 0..(c - 1) : w[i] = RehashTurn(n, i, w) /\ u[i] = w[i] /\ i \in 0..c
      <4>1. w = [i \in 0..(c - 1) |-> RehashTurn(n, i, w)]
        BY <3>3 DEF Solves
      <4> PICK g : g = w
        OBVIOUS
      <4>2. \A i \in 0..(c - 1) : g[i] = RehashTurn(n, i, g)
        BY <4>1, Zenon
      <4>3. \A i \in 0..(c - 1) : i \in 0..c /\ i # c
        BY <3>1
      <4> QED BY <4>2, <4>3
    <3>5. u[c] = Moved(w[c - 1], table[c - 1], hashx[c - 1])
      BY <3>1
    <3>6. u = [i \in 0..c |-> u[i]]
      OBVIOUS
    <3> HIDE DEF u
    <3>7. ASSUME NEW i \in 0..c
          PROVE  u[i] = RehashTurn(n, i, u)
      <4>1. CASE i = c
        <5>1. c - 1 \in 0..(c - 1) /\ c # 0
          BY <2>5, <3>1
        <5>2. u[c - 1] = w[c - 1]
          BY <3>4, <5>1
        <5> QED BY <3>5, <4>1, <5>1, <5>2 DEF RehashTurn
      <4>2. CASE i # c
        <5>1. i \in 0..(c - 1) /\ (i # 0 => i - 1 \in 0..(c - 1))
          BY <3>1, <4>2
        <5>2. u[i] = RehashTurn(n, i, w)
          BY <3>4, <5>1
        <5>3. i # 0 => u[i - 1] = w[i - 1]
          BY <3>4, <5>1
        <5> QED BY <5>2, <5>3 DEF RehashTurn
      <4> QED BY <4>1, <4>2
    <3>8. Solves(c, u)
      BY <3>6, <3>7 DEF Solves
    <3> QED BY <2>3, <3>8
  <2> QED BY <2>4, <2>5
<1>2. \E u : Solves(bucket_count, u)
  <2>1. bucket_count \in 0..bucket_count
    OBVIOUS
  <2> HIDE DEF Solves
  <2> QED BY <1>1, <2>1
<1> DEFINE U == CHOOSE u : Solves(bucket_count, u)
<1>3. Solves(bucket_count, U)
  <2> HIDE DEF Solves
  <2> QED BY <1>2, Zenon
<1>4. Rehashed(n) = U[bucket_count]
  BY RehashDef
<1>5. \A i \in 0..bucket_count : U[i] = RehashTurn(n, i, U)
  <2>1. U = [i \in 0..bucket_count |-> RehashTurn(n, i, U)]
    BY <1>3
  <2> HIDE DEF U
  <2> PICK g : g = U
    OBVIOUS
  <2>2. \A i \in 0..bucket_count : g[i] = RehashTurn(n, i, g)
    BY <2>1, Zenon
  <2> QED BY <2>2
<1> QED BY <1>4, <1>5

LEMMA EmptyFormed ==
    ASSUME NEW n \in Nat
    PROVE  LET m == EmptyTable(n)
           IN  /\ Formed(n, m.tab, m.hx) /\ Taken(n, m.hx) = {}
               /\ Holds(n, m.tab, m.hx, [k \in Keys |-> Absent])
<1> PICK tab, hx : tab = EmptyTable(n).tab /\ hx = EmptyTable(n).hx
  OBVIOUS
<1>1. /\ \A b \in 0..(n - 1) : hx[b] = 0
      /\ hx = [b \in 0..(n - 1) |-> 0] /\ tab = [b \in 0..(n - 1) |-> NoEntry]
  BY DEF EmptyTable
<1>2. NoEntry \in Entries
  BY CmapAssumption DEF NoEntry, Entries
<1>3. Tags \in Nat
  BY CmapAssumption
<1>4. Formed(n, tab, hx)
  BY <1>1, <1>2, <1>3 DEF Formed
<1>5. Taken(n, hx) = {} /\ Holds(n, tab, hx, [k \in Keys |-> Absent])
  BY <1>1 DEF Taken, Holds
<1> QED BY <1>4, <1>5


\* The entries of the old table below bucket i, as buckets and as a map.
Below(i) == {b \in 0..(i - 1) : hashx[b] # 0}
MapBelow(i) == [k \in Keys |-> IF \E b \in Below(i) : table[b].first = k THEN map[k] ELSE Absent]
Copied(n, i, m) ==
    /\ Formed(n, m.tab, m.hx) /\ Holds(n, m.tab, m.hx, MapBelow(i))
    /\ Cardinality(Taken(n, m.hx)) = Cardinality(Below(i))

\* One entry is moved.
LEMMA CopyTurn ==
    ASSUME bucket_count \in Nat, Formed(bucket_count, table, hashx),
           Holds(bucket_count, table, hashx, map),
           NEW n \in Nat \ {0}, Cardinality(Taken(bucket_count, hashx)) < n,
           NEW i \in 1..bucket_count, NEW m, Copied(n, i - 1, m)
    PROVE  Copied(n, i, Moved(m, table[i - 1], hashx[i - 1]))
<1> PICK c, e, h, bc : c = i - 1 /\ e = table[c] /\ h = hashx[c] /\ bc = bucket_count
  OBVIOUS
<1>0. c \in 0..(bc - 1) /\ i \in Nat /\ bc \in Nat
  OBVIOUS
<1>1. e \in Entries /\ e.first \in Keys /\ e.second \in Values
  BY <1>0, FormedTypes
<1>2. /\ IsFiniteSet(Below(c)) /\ IsFiniteSet(Below(i))
      /\ Cardinality(Below(c)) <= Cardinality(Taken(bc, hashx))
      /\ Cardinality(Below(c)) \in Nat /\ Cardinality(Taken(bc, hashx)) \in Nat
  <2>1. Below(c) \subseteq Taken(bc, hashx) /\ Below(i) \subseteq Taken(bc, hashx)
    BY <1>0 DEF Below, Taken
  <2>2. IsFiniteSet(Taken(bc, hashx))
    BY <1>0, TakenFacts
  <2> QED BY <2>1, <2>2, FS_Subset, FS_CardinalityType
<1>3. CASE h = 0
  <2>1. \A b \in 0..(i - 1) : b \in 0..(c - 1) \/ b = c
    BY <1>0
  <2>2. \A b \in 0..(c - 1) : b \in 0..(i - 1)
    BY <1>0
  <2>3. Below(i) = Below(c)
    BY <1>3, <2>1, <2>2 DEF Below
  <2>4. MapBelow(i) = MapBelow(c)
    BY <2>3 DEF MapBelow
  <2>5. Moved(m, e, h) = m
    BY <1>3 DEF Moved
  <2> QED BY <2>3, <2>4, <2>5 DEF Copied
<1>4. CASE h # 0
  <2> PICK k, v : k = e.first /\ v = e.second
    OBVIOUS
  <2>0. k \in Keys /\ v \in Values /\ e = [first |-> k, second |-> v]
    BY <1>1 DEF Entries
  <2>1. \A b \in 0..(i - 1) : b \in 0..(c - 1) \/ b = c
    BY <1>0
  <2>2. \A b \in 0..(c - 1) : b \in 0..(i - 1) /\ b \in 0..(bc - 1) /\ b # c
    BY <1>0
  <2>3. Below(i) = Below(c) \cup {c} /\ c \notin Below(c)
    <3>1. c \in 0..(i - 1)
      BY <1>0
    <3> QED BY <1>4, <2>1, <2>2, <3>1 DEF Below
  <2>4. Cardinality(Below(i)) = Cardinality(Below(c)) + 1
    BY <1>2, <2>3, FS_AddElement
  <2>5. ~\E b \in Below(c) : table[b].first = k
    <3> SUFFICES ASSUME NEW b \in Below(c), table[b].first = k PROVE FALSE
      OBVIOUS
    <3>1. b \in 0..(bc - 1) /\ b # c /\ hashx[b] # 0
      BY <2>2 DEF Below
    <3> QED BY <1>0, <1>4, <3>1 DEF Formed
  <2>6. map[k] = v
    BY <1>0, <1>4 DEF Holds
  <2>7. MapBelow(c)[k] = Absent
    BY <2>0, <2>5 DEF MapBelow
  <2>8. MapBelow(i) = [MapBelow(c) EXCEPT ![k] = v]
    <3>1. \A q \in Keys : (\E b \in Below(i) : table[b].first = q)
                            <=> (q = k \/ \E b \in Below(c) : table[b].first = q)
      BY <2>3
    <3>2. \A q \in Keys : MapBelow(i)[q] = IF q = k THEN v ELSE MapBelow(c)[q]
      BY <2>6, <3>1 DEF MapBelow
    <3>3. MapBelow(i) = [q \in Keys |-> MapBelow(i)[q]]
      BY DEF MapBelow
    <3>4. [MapBelow(c) EXCEPT ![k] = v] = [q \in Keys |-> IF q = k THEN v ELSE MapBelow(c)[q]]
      <4>1. DOMAIN MapBelow(c) = Keys
        BY DEF MapBelow
      <4> QED BY <4>1
    <3> QED BY <3>2, <3>3, <3>4
  <2>9. bucket_(m.tab, m.hx, k) # -1
    <3>1. Cardinality(Taken(n, m.hx)) < n
      <4>1. Copied(n, c, m) /\ Cardinality(Taken(bc, hashx)) < n
        OBVIOUS
      <4>2. Cardinality(Taken(n, m.hx)) = Cardinality(Below(c))
        BY <4>1 DEF Copied
      <4> QED BY <1>2, <4>1, <4>2
    <3>2. PICK b \in 0..(n - 1) : m.hx[b] = 0
      BY <3>1, TakenFacts
    <3>3. Stopper(m.tab, m.hx, k, b) /\ Buckets(m.hx) = n
      BY <3>2, FormedTypes DEF Stopper, Copied
    <3> QED BY <2>0, <3>3, ProbeEnds
  <2> PICK b, tb, hb, mp : /\ b = bucket_(m.tab, m.hx, k)
                           /\ tb = [m.tab EXCEPT ![b] = [first |-> k, second |-> v]]
                           /\ hb = [m.hx EXCEPT ![b] = Tag(k)]
                           /\ mp = MapBelow(c)
    OBVIOUS
  <2>10. /\ b \in 0..(n - 1) /\ Formed(n, tb, hb) /\ Taken(n, hb) = Taken(n, m.hx) \cup {b}
         /\ Holds(n, tb, hb, [mp EXCEPT ![k] = v])
         /\ m.hx[b] = 0 <=> mp[k] = Absent
    <3> PICK mt, mh : mt = m.tab /\ mh = m.hx
      OBVIOUS
    <3>1. Formed(n, mt, mh) /\ Holds(n, mt, mh, mp)
      BY DEF Copied
    <3>2. bucket_(mt, mh, k) # -1 /\ b = bucket_(mt, mh, k)
      BY <2>9
    <3>3. tb = PutTab(mt, mh, k, v) /\ hb = PutHx(mt, mh, k)
      BY DEF PutTab, PutHx
    <3>4. /\ bucket_(mt, mh, k) \in 0..(n - 1)
          /\ Formed(n, PutTab(mt, mh, k, v), PutHx(mt, mh, k))
          /\ Taken(n, PutHx(mt, mh, k)) = Taken(n, mh) \cup {bucket_(mt, mh, k)}
          /\ Holds(n, PutTab(mt, mh, k, v), PutHx(mt, mh, k), [mp EXCEPT ![k] = v])
          /\ mh[bucket_(mt, mh, k)] = 0 <=> mp[k] = Absent
      BY <2>0, <3>1, <3>2, Put
    <3> QED BY <3>2, <3>3, <3>4
  <2>11. m.hx[b] = 0
    BY <2>7, <2>10
  <2>12. Cardinality(Taken(n, hb)) = Cardinality(Taken(n, m.hx)) + 1
    <3>1. b \notin Taken(n, m.hx)
      BY <2>11 DEF Taken
    <3>2. IsFiniteSet(Taken(n, m.hx))
      BY TakenFacts
    <3> QED BY <2>10, <3>1, <3>2, FS_AddElement
  <2>13. Moved(m, e, h).hx = hb /\ Moved(m, e, h).tab = tb
    BY <1>4, <2>0 DEF Moved
  <2>14. Cardinality(Taken(n, hb)) = Cardinality(Below(i))
    BY <2>4, <2>12 DEF Copied
  <2>15. Holds(n, tb, hb, MapBelow(i))
    BY <2>8, <2>10
  <2> QED BY <2>10, <2>13, <2>14, <2>15 DEF Copied
<1> QED BY <1>3, <1>4

\* reserve moves every entry to the new table.
LEMMA RehashFacts ==
    ASSUME bucket_count \in Nat, Formed(bucket_count, table, hashx),
           Holds(bucket_count, table, hashx, map),
           NEW n \in Nat \ {0}, Cardinality(Taken(bucket_count, hashx)) < n
    PROVE  LET m == Rehashed(n)
           IN  /\ Formed(n, m.tab, m.hx) /\ Holds(n, m.tab, m.hx, map)
               /\ Cardinality(Taken(n, m.hx)) = Cardinality(Taken(bucket_count, hashx))
<1>1. PICK u : /\ \A i \in 0..bucket_count : u[i] = RehashTurn(n, i, u)
               /\ Rehashed(n) = u[bucket_count]
  BY RehashUnfolds
<1> DEFINE Bad == {i \in 0..bucket_count : ~Copied(n, i, u[i])}
<1>2. Bad = {}
  <2> SUFFICES ASSUME Bad # {} PROVE FALSE
    OBVIOUS
  <2>1. Bad \subseteq Nat
    OBVIOUS
  <2>2. PICK i \in Bad : \A y \in Bad : i <= y
    <3> HIDE DEF Bad
    <3> QED BY <2>1, NatMin
  <2>3. i \in 0..bucket_count /\ ~Copied(n, i, u[i])
    OBVIOUS
  <2>4. CASE i = 0
    <3>1. u[0] = EmptyTable(n)
      BY <1>1, <2>3, <2>4 DEF RehashTurn
    <3>2. Below(0) = {}
      BY DEF Below
    <3>3. MapBelow(0) = [k \in Keys |-> Absent]
      BY <3>2 DEF MapBelow
    <3> QED BY <2>3, <2>4, <3>1, <3>2, <3>3, EmptyFormed DEF Copied
  <2>5. CASE i # 0
    <3>1. i \in 1..bucket_count /\ i - 1 \in 0..bucket_count /\ ~(i <= i - 1)
      BY <2>3, <2>5
    <3>2. Copied(n, i - 1, u[i - 1])
      BY <2>2, <3>1
    <3>3. u[i] = Moved(u[i - 1], table[i - 1], hashx[i - 1])
      BY <1>1, <2>3, <2>5 DEF RehashTurn
    <3> HIDE DEF Bad
    <3> QED BY <2>3, <3>1, <3>2, <3>3, CopyTurn
  <2> QED BY <2>4, <2>5
<1>3. Copied(n, bucket_count, u[bucket_count])
  <2>1. bucket_count \in 0..bucket_count
    OBVIOUS
  <2> QED BY <1>2, <2>1
<1>4. Below(bucket_count) = Taken(bucket_count, hashx)
  BY DEF Below, Taken
<1>5. MapBelow(bucket_count) = map
  <2>1. map = [k \in Keys |-> map[k]]
    BY DEF Holds
  <2>2. ASSUME NEW k \in Keys
        PROVE  map[k] = IF \E b \in Below(bucket_count) : table[b].first = k THEN map[k] ELSE Absent
    BY <1>4 DEF Holds, Taken
  <2> QED BY <2>1, <2>2 DEF MapBelow
<1> QED BY <1>1, <1>3, <1>4, <1>5 DEF Copied


-----------------------------------------------------------------------------
(***************************************************************************)
(* Deletion.                                                               *)
(***************************************************************************)

\* The entry of j moves into the hole.
Hop(m, j) == [m EXCEPT !.tab[m.i] = m.tab[j], !.hx[m.i] = m.hx[j], !.i = j]

\* One turn of the loop at bucket j.
Hopped(n, m, j) ==
    IF m.done \/ m.hx[j] = 0 THEN [m EXCEPT !.done = TRUE]
    ELSE IF ((j < m.i) # (Home(n, m.tab[j].first) <= m.i)) # (Home(n, m.tab[j].first) > j)
    THEN Hop(m, j) ELSE m
ShiftStart(hole) == [hx |-> hashx, tab |-> table, i |-> hole, done |-> FALSE]
ShiftTurn(hole, d, a) ==
    IF d = 0 THEN ShiftStart(hole)
    ELSE Hopped(bucket_count, a[d - 1], Step(bucket_count, hole, d))

LEMMA ShiftDef ==
    ASSUME NEW hole, NEW a,
           a = (CHOOSE u : u = [d \in 0..bucket_count |-> ShiftTurn(hole, d, u)])[bucket_count]
    PROVE  /\ Shifted(hole).hx = [a.hx EXCEPT ![a.i] = 0]
           /\ Shifted(hole).tab = [a.tab EXCEPT ![a.i] = NoEntry]
<1>1. Shifted(hole) =
         [hx  |-> [(CHOOSE u : u = [d \in 0..bucket_count |-> ShiftTurn(hole, d, u)])[bucket_count].hx
                      EXCEPT ![(CHOOSE u : u = [d \in 0..bucket_count |-> ShiftTurn(hole, d, u)])[bucket_count].i] = 0],
          tab |-> [(CHOOSE u : u = [d \in 0..bucket_count |-> ShiftTurn(hole, d, u)])[bucket_count].tab
                      EXCEPT ![(CHOOSE u : u = [d \in 0..bucket_count |-> ShiftTurn(hole, d, u)])[bucket_count].i] = NoEntry]]
  BY Zenon DEF Shifted, ShiftTurn, ShiftStart, Hopped, Hop, Home, Step
<1>2. Shifted(hole) = [hx |-> [a.hx EXCEPT ![a.i] = 0], tab |-> [a.tab EXCEPT ![a.i] = NoEntry]]
  BY <1>1, Zenon
<1> QED BY <1>2

\* The recursion has a solution.
LEMMA ShiftUnfolds ==
    ASSUME NEW hole, bucket_count \in Nat
    PROVE  \E u : /\ \A d \in 0..bucket_count : u[d] = ShiftTurn(hole, d, u)
                  /\ Shifted(hole).hx = [u[bucket_count].hx EXCEPT ![u[bucket_count].i] = 0]
                  /\ Shifted(hole).tab = [u[bucket_count].tab EXCEPT ![u[bucket_count].i] = NoEntry]
<1> DEFINE Solves(c, u) == u = [d \in 0..c |-> ShiftTurn(hole, d, u)]
           Bad == {c \in 0..bucket_count : ~\E u : Solves(c, u)}
<1>1. Bad = {}
  <2> SUFFICES ASSUME Bad # {} PROVE FALSE
    OBVIOUS
  <2>1. Bad \subseteq Nat
    OBVIOUS
  <2> HIDE DEF Solves
  <2>2. PICK c \in Bad : \A y \in Bad : c <= y
    <3> HIDE DEF Bad
    <3> QED BY <2>1, NatMin
  <2>3. c \in 0..bucket_count /\ ~\E u : Solves(c, u)
    OBVIOUS
  <2>4. CASE c = 0
    <3> DEFINE u == [d \in 0..0 |-> ShiftStart(hole)]
    <3>1. [d \in 0..0 |-> ShiftTurn(hole, d, u)] = u
      <4>1. \A d \in 0..0 : ShiftTurn(hole, d, u) = ShiftStart(hole)
        <5> HIDE DEF u
        <5> QED BY DEF ShiftTurn
      <4> QED BY <4>1
    <3>2. Solves(0, u)
      BY <3>1 DEF Solves
    <3> QED BY <2>3, <2>4, <3>2
  <2>5. CASE c # 0
    <3>1. c - 1 \in 0..bucket_count /\ c - 1 < c /\ c \in Nat
      BY <2>3, <2>5
    <3>2. c - 1 \notin Bad
      <4> HIDE DEF Bad
      <4> QED BY <2>2, <3>1
    <3>3. PICK w : Solves(c - 1, w)
      BY <3>1, <3>2
    <3> DEFINE last == Hopped(bucket_count, w[c - 1], Step(bucket_count, hole, c))
               u == [d \in 0..c |-> IF d = c THEN last ELSE w[d]]
    <3>4. \A d \in 0..(c - 1) : w[d] = ShiftTurn(hole, d, w) /\ u[d] = w[d] /\ d \in 0..c
      <4>1. w = [d \in 0..(c - 1) |-> ShiftTurn(hole, d, w)]
        BY <3>3 DEF Solves
      <4> PICK g : g = w
        OBVIOUS
      <4>2. \A d \in 0..(c - 1) : g[d] = ShiftTurn(hole, d, g)
        BY <4>1, Zenon
      <4>3. \A d \in 0..(c - 1) : d \in 0..c /\ d # c
        BY <3>1
      <4> QED BY <4>2, <4>3
    <3>5. u[c] = last
      BY <3>1
    <3>6. u = [d \in 0..c |-> u[d]]
      OBVIOUS
    <3> HIDE DEF u
    <3>7. ASSUME NEW d \in 0..c
          PROVE  u[d] = ShiftTurn(hole, d, u)
      <4>1. CASE d = c
        <5>1. c - 1 \in 0..(c - 1) /\ c # 0
          BY <2>5, <3>1
        <5>2. u[c - 1] = w[c - 1]
          BY <3>4, <5>1
        <5> QED BY <3>5, <4>1, <5>1, <5>2 DEF ShiftTurn
      <4>2. CASE d # c
        <5>1. d \in 0..(c - 1) /\ (d # 0 => d - 1 \in 0..(c - 1))
          BY <3>1, <4>2
        <5>2. u[d] = ShiftTurn(hole, d, w)
          BY <3>4, <5>1
        <5>3. d # 0 => u[d - 1] = w[d - 1]
          BY <3>4, <5>1
        <5> QED BY <5>2, <5>3 DEF ShiftTurn
      <4> QED BY <4>1, <4>2
    <3>8. Solves(c, u)
      BY <3>6, <3>7 DEF Solves
    <3> QED BY <2>3, <3>8
  <2> QED BY <2>4, <2>5
<1>2. \E u : Solves(bucket_count, u)
  <2>1. bucket_count \in 0..bucket_count
    OBVIOUS
  <2> HIDE DEF Solves
  <2> QED BY <1>1, <2>1
<1> DEFINE U == CHOOSE u : Solves(bucket_count, u)
<1>3. Solves(bucket_count, U)
  <2> HIDE DEF Solves
  <2> QED BY <1>2, Zenon
<1>4. PICK a : a = U[bucket_count]
  OBVIOUS
<1>5. /\ Shifted(hole).hx = [a.hx EXCEPT ![a.i] = 0]
      /\ Shifted(hole).tab = [a.tab EXCEPT ![a.i] = NoEntry]
  BY <1>4, ShiftDef
<1>6. \A d \in 0..bucket_count : U[d] = ShiftTurn(hole, d, U)
  <2>1. U = [d \in 0..bucket_count |-> ShiftTurn(hole, d, U)]
    BY <1>3
  <2> HIDE DEF U
  <2> PICK g : g = U
    OBVIOUS
  <2>2. \A d \in 0..bucket_count : g[d] = ShiftTurn(hole, d, g)
    BY <2>1, Zenon
  <2> QED BY <2>2
<1> HIDE DEF U
<1> QED BY <1>4, <1>5, <1>6

\* Round the table: j comes after last, which was reached from hole.
After(n, last) == IF last + 1 = n THEN 0 ELSE last + 1

LEMMA BetweenAfter ==
    ASSUME NEW n \in Nat, NEW hole \in 0..(n - 1), NEW last \in 0..(n - 1), NEW j \in 0..(n - 1),
           j = After(n, last), j # hole, NEW x \in 0..(n - 1)
    PROVE  /\ Between(hole, x, j) <=> Between(hole, x, last) \/ x = j
           /\ ~Between(hole, j, last)
  BY DEF Between, After

LEMMA ThroughAfter ==
    ASSUME NEW n \in Nat, NEW hole \in 0..(n - 1), NEW last \in 0..(n - 1), NEW j \in 0..(n - 1),
           j = After(n, last), j # hole,
           NEW i \in 0..(n - 1), NEW b \in 0..(n - 1), NEW h \in 0..(n - 1),
           Between(hole, i, last), ~Between(hole, b, last), Between(h, i, b)
    PROVE  Between(h, j, b)
  BY DEF Between, After

LEMMA ThroughUnseen ==
    ASSUME NEW n \in Nat, NEW hole \in 0..(n - 1), NEW last \in 0..(n - 1), NEW j \in 0..(n - 1),
           j = After(n, last), j # hole,
           NEW z \in 0..(n - 1), NEW b \in 0..(n - 1), NEW h \in 0..(n - 1),
           Between(hole, b, last), ~Between(hole, z, j), Between(h, j, b)
    PROVE  Between(h, z, b)
  BY DEF Between, After

\* The condition of the code: the home k of the entry at j is not behind the
\* hole i.
LEMMA Outside ==
    ASSUME NEW i \in Int, NEW j \in Int, NEW k \in Int, i # j
    PROVE  (((j < i) # (k <= i)) # (k > j)) <=> Between(k, i, j)
  BY DEF Between

LEMMA BetweenFacts ==
    ASSUME NEW i \in Int, NEW j \in Int, NEW k \in Int, i # j, Between(k, i, j)
    PROVE  /\ ~Between(k, j, i)
           /\ \A x \in Int : Between(k, x, i) => Between(k, x, j)
  BY DEF Between

\* The table while entries are shifted: without what is left at the hole i it
\* is that of the map mp, and as long as the loop has not ended only entries
\* behind the buckets already seen may have the hole on their way.
States(n) == [hx : [0..(n - 1) -> 0..Tags], tab : [0..(n - 1) -> Entries],
           i : 0..(n - 1), done : BOOLEAN]
Way(n, m, x, b) == Between(Home(n, m.tab[b].first), x, b)
Stays(m, b) == m.hx[b] # 0 /\ b # m.i

Sound(n, m, mp) ==
    /\ m \in States(n)
    /\ \A x \in 0..(n - 1) : m.hx[x] = 0 <=> hashx[x] = 0
    /\ hashx[m.i] # 0
    /\ \A b \in 0..(n - 1) : Stays(m, b) =>
          /\ m.hx[b] = Tag(m.tab[b].first)
          /\ mp[m.tab[b].first] = m.tab[b].second
          /\ \A x \in 0..(n - 1) : Way(n, m, x, b) => hashx[x] # 0
    /\ \A b, c \in 0..(n - 1) :
          Stays(m, b) /\ Stays(m, c) /\ m.tab[b].first = m.tab[c].first => b = c
    /\ \A k \in Keys : mp[k] # Absent =>
          \E b \in 0..(n - 1) : Stays(m, b) /\ m.tab[b].first = k

Closed(n, m) == \A b \in 0..(n - 1) : Stays(m, b) => ~Way(n, m, m.i, b)

Seen(n, hole, last, m) ==
    /\ \A x \in 0..(n - 1) : Between(hole, x, last) => hashx[x] # 0
    /\ Between(hole, m.i, last)
    /\ \A b \in 0..(n - 1) :
          Stays(m, b) /\ Way(n, m, m.i, b) => ~Between(hole, b, last)

Shifting(n, hole, d, m, mp) ==
    /\ Sound(n, m, mp)
    /\ m.done => Closed(n, m)
    /\ ~m.done => d < n /\ Seen(n, hole, Step(n, hole, d), m)

\* What a move changes.
Moves(n, m, j, w) ==
    /\ w \in States(n) /\ w.i = j /\ w.done = m.done
    /\ \A x \in 0..(n - 1) : w.tab[x] = IF x = m.i THEN m.tab[j] ELSE m.tab[x]
    /\ \A x \in 0..(n - 1) : w.hx[x] = IF x = m.i THEN m.hx[j] ELSE m.hx[x]

LEMMA HopFields ==
    ASSUME NEW n \in Nat \ {0}, NEW m \in States(n), NEW j \in 0..(n - 1)
    PROVE  Moves(n, m, j, Hop(m, j))
<1> PICK w : w = Hop(m, j)
  OBVIOUS
<1>0. w = [m EXCEPT !.tab[m.i] = m.tab[j], !.hx[m.i] = m.hx[j], !.i = j]
  BY DEF Hop
<1>1. /\ m.tab \in [0..(n - 1) -> Entries] /\ m.hx \in [0..(n - 1) -> 0..Tags]
      /\ m.i \in 0..(n - 1) /\ m.done \in BOOLEAN
  BY DEF States
<1> PICK mt, mh, i, d : mt = m.tab /\ mh = m.hx /\ i = m.i /\ d = m.done
  OBVIOUS
<1>2. m = [hx |-> mh, tab |-> mt, i |-> i, done |-> d]
  BY DEF States
<1>3. w = [hx |-> [mh EXCEPT ![i] = mh[j]], tab |-> [mt EXCEPT ![i] = mt[j]], i |-> j, done |-> d]
  BY <1>0, <1>2
<1> PICK wt, wh : wt = [mt EXCEPT ![i] = mt[j]] /\ wh = [mh EXCEPT ![i] = mh[j]]
  OBVIOUS
<1>4. w.tab = wt /\ w.hx = wh /\ w.i = j /\ w.done = d
      /\ w = [hx |-> wh, tab |-> wt, i |-> j, done |-> d]
  BY <1>3
<1>5. /\ wt \in [0..(n - 1) -> Entries] /\ wh \in [0..(n - 1) -> 0..Tags]
      /\ \A x \in 0..(n - 1) : wt[x] = IF x = i THEN mt[j] ELSE mt[x]
      /\ \A x \in 0..(n - 1) : wh[x] = IF x = i THEN mh[j] ELSE mh[x]
  <2>1. mt \in [0..(n - 1) -> Entries] /\ mh \in [0..(n - 1) -> 0..Tags] /\ i \in 0..(n - 1)
    BY <1>1
  <2>2. mt[j] \in Entries /\ mh[j] \in 0..Tags
    BY <2>1
  <2> QED BY <2>1, <2>2
<1>6. w \in States(n)
  BY <1>1, <1>4, <1>5 DEF States
<1> QED BY <1>4, <1>5, <1>6 DEF Moves

\* An entry moves into the hole and leaves one behind it.
LEMMA HopMove ==
    ASSUME NEW n \in Nat \ {0}, NEW hole \in 0..(n - 1),
           NEW z \in 0..(n - 1), hashx[z] = 0,
           NEW mp, NEW m, Sound(n, m, mp),
           NEW last \in 0..(n - 1), NEW j \in 0..(n - 1),
           j = After(n, last), j # hole, hashx[j] # 0,
           Seen(n, hole, last, m), Way(n, m, m.i, j),
           NEW w, Moves(n, m, j, w)
    PROVE  Sound(n, w, mp) /\ Seen(n, hole, j, w)
<1> PICK i : i = m.i
  OBVIOUS
<1>0. /\ n \in Nat \ {0} /\ i \in 0..(n - 1)
      /\ \A x \in 0..(n - 1) : m.tab[x] \in Entries /\ m.tab[x].first \in Keys
  <2>1. m \in States(n)
    BY DEF Sound
  <2> QED BY <2>1 DEF States, Entries
<1>1. i # j /\ ~Between(hole, j, last)
  <2>1. Between(hole, i, last)
    BY DEF Seen
  <2> QED BY <1>0, <2>1, BetweenAfter
<1>2. w.i = j /\ w \in States(n)
  BY DEF Moves
<1>3. /\ \A x \in 0..(n - 1) : w.tab[x] = IF x = i THEN m.tab[j] ELSE m.tab[x]
      /\ \A x \in 0..(n - 1) : w.hx[x] = IF x = i THEN m.hx[j] ELSE m.hx[x]
  BY DEF Moves
<1>4. \A x \in 0..(n - 1) : m.hx[x] = 0 <=> hashx[x] = 0
  BY DEF Sound
<1>5. \A x \in 0..(n - 1) : w.hx[x] = 0 <=> hashx[x] = 0
  <2>1. m.hx[j] # 0 /\ hashx[i] # 0
    BY <1>4 DEF Sound
  <2> QED BY <1>3, <1>4, <2>1
\* What stays in w is what stayed in m, the entry of j at i.
<1>6. ASSUME NEW b \in 0..(n - 1), Stays(w, b)
      PROVE  \/ b = i /\ Stays(m, j) /\ w.tab[b] = m.tab[j] /\ w.hx[b] = m.hx[j]
             \/ b # i /\ b # j /\ Stays(m, b) /\ w.tab[b] = m.tab[b] /\ w.hx[b] = m.hx[b]
  BY <1>0, <1>1, <1>2, <1>3, <1>4, <1>6 DEF Stays
<1>7. Home(n, m.tab[j].first) \in 0..(n - 1) /\ Between(Home(n, m.tab[j].first), i, j)
  BY <1>0, HomeFacts DEF Way
<1>8. ASSUME NEW b \in 0..(n - 1), Stays(w, b)
      PROVE  /\ w.hx[b] = Tag(w.tab[b].first)
             /\ mp[w.tab[b].first] = w.tab[b].second
             /\ \A x \in 0..(n - 1) : Way(n, w, x, b) => hashx[x] # 0
  <2>1. CASE b = i
    <3>1. Stays(m, j) /\ w.tab[b] = m.tab[j] /\ w.hx[b] = m.hx[j]
      BY <1>6, <1>8, <2>1
    <3>2. ASSUME NEW x \in 0..(n - 1), Way(n, w, x, b)
          PROVE  hashx[x] # 0
      <4>1. Between(Home(n, m.tab[j].first), x, i)
        BY <2>1, <3>1, <3>2 DEF Way
      <4>2. Between(Home(n, m.tab[j].first), x, j)
        BY <1>0, <1>1, <1>7, <4>1, BetweenFacts
      <4> QED BY <3>1, <4>2 DEF Sound, Way
    <3> QED BY <3>1, <3>2 DEF Sound
  <2>2. CASE b # i
    <3>1. Stays(m, b) /\ w.tab[b] = m.tab[b] /\ w.hx[b] = m.hx[b]
      BY <1>6, <1>8, <2>2
    <3> QED BY <3>1 DEF Sound, Way
  <2> QED BY <2>1, <2>2
<1>9. ASSUME NEW b \in 0..(n - 1), NEW c \in 0..(n - 1), Stays(w, b), Stays(w, c),
             w.tab[b].first = w.tab[c].first
      PROVE  b = c
  <2>1. PICK q \in 0..(n - 1) : /\ Stays(m, q) /\ w.tab[b] = m.tab[q]
                                /\ (b = i /\ q = j) \/ (b # i /\ b # j /\ q = b)
    BY <1>6, <1>9
  <2>2. PICK r \in 0..(n - 1) : /\ Stays(m, r) /\ w.tab[c] = m.tab[r]
                                /\ (c = i /\ r = j) \/ (c # i /\ c # j /\ r = c)
    BY <1>6, <1>9
  <2>3. q = r
    BY <1>9, <2>1, <2>2 DEF Sound
  <2> QED BY <2>1, <2>2, <2>3
<1>10. ASSUME NEW k \in Keys, mp[k] # Absent
       PROVE  \E b \in 0..(n - 1) : Stays(w, b) /\ w.tab[b].first = k
  <2>1. PICK c \in 0..(n - 1) : Stays(m, c) /\ m.tab[c].first = k
    BY <1>10 DEF Sound
  <2>2. CASE c = j
    <3>1. Stays(w, i) /\ w.tab[i].first = k
      BY <1>0, <1>1, <1>2, <1>3, <2>1, <2>2 DEF Stays
    <3> QED BY <1>0, <3>1
  <2>3. CASE c # j
    <3>1. Stays(w, c) /\ w.tab[c].first = k
      BY <1>0, <1>1, <1>2, <1>3, <2>1, <2>3 DEF Stays
    <3> QED BY <3>1
  <2> QED BY <2>2, <2>3
<1>11. Sound(n, w, mp)
  BY <1>2, <1>5, <1>8, <1>9, <1>10 DEF Sound
<1>12. Seen(n, hole, j, w)
  <2>1. ASSUME NEW x \in 0..(n - 1), Between(hole, x, j)
        PROVE  hashx[x] # 0
    <3>1. Between(hole, x, last) \/ x = j
      BY <1>0, <2>1, BetweenAfter
    <3> QED BY <3>1 DEF Seen
  <2>2. Between(hole, w.i, j)
    BY <1>2 DEF Between
  <2>3. ASSUME NEW b \in 0..(n - 1), Stays(w, b), Way(n, w, w.i, b), Between(hole, b, j)
        PROVE  FALSE
    <3>1. b # j /\ Between(hole, b, last)
      <4>1. b # j
        BY <1>2, <2>3 DEF Stays
      <4> QED BY <1>0, <2>3, <4>1, BetweenAfter
    <3>2. CASE b = i
      <4>1. Between(Home(n, m.tab[j].first), j, i)
        BY <1>2, <1>6, <2>3, <3>2 DEF Way
      <4>2. i \in Int /\ j \in Int /\ Home(n, m.tab[j].first) \in Int
        BY <1>0, <1>7
      <4> QED BY <1>1, <1>7, <4>1, <4>2, BetweenFacts
    <3>3. CASE b # i
      <4>1. Stays(m, b) /\ w.tab[b] = m.tab[b]
        BY <1>6, <2>3, <3>3
      <4> PICK h : h = Home(n, m.tab[b].first)
        OBVIOUS
      <4>2. h \in 0..(n - 1) /\ Between(h, j, b)
        BY <1>0, <1>2, <2>3, <4>1, HomeFacts DEF Way
      <4>3. ~Between(hole, z, j)
        BY <2>1
      <4>4. Between(h, z, b)
        BY <1>0, <3>1, <4>2, <4>3, ThroughUnseen
      <4> QED BY <4>1, <4>4 DEF Sound, Way
    <3> QED BY <3>2, <3>3
  <2> QED BY <2>1, <2>2, <2>3 DEF Seen
<1> QED BY <1>11, <1>12


\* Reaching d + 1 buckets from the hole.
LEMMA StepAfter ==
    ASSUME NEW n \in Nat \ {0}, NEW hole \in 0..(n - 1), NEW d \in 0..(n - 1), d # 0
    PROVE  /\ d - 1 \in 0..(n - 1)
           /\ Step(n, hole, d) = After(n, Step(n, hole, d - 1)) /\ Step(n, hole, d) # hole
<1>1. d - 1 \in 0..(n - 1)
  OBVIOUS
<1> PICK x, y : x = Step(n, hole, d - 1) /\ y = Step(n, hole, d)
  OBVIOUS
<1>2. /\ x = IF hole + (d - 1) < n THEN hole + (d - 1) ELSE hole + (d - 1) - n
      /\ y = IF hole + d < n THEN hole + d ELSE hole + d - n
  BY <1>1, StepFacts
<1>3. y = After(n, x) /\ y # hole
  BY <1>2 DEF After
<1> QED BY <1>1, <1>3

\* The loop does not come round to the hole: there is a free bucket before.
LEMMA SeenEnds ==
    ASSUME NEW n \in Nat \ {0}, NEW hole \in 0..(n - 1), NEW z \in 0..(n - 1), hashx[z] = 0,
           NEW m, Seen(n, hole, Step(n, hole, n - 1), m)
    PROVE  FALSE
<1>1. n - 1 \in 0..(n - 1)
  OBVIOUS
<1>2. PICK i \in 0..(n - 1) : Step(n, hole, i) = z
  BY StepOnto
<1>3. Between(hole, z, Step(n, hole, n - 1))
  <2>1. i <= n - 1
    OBVIOUS
  <2> QED BY <1>1, <1>2, <2>1, StepOrder
<1> QED BY <1>3 DEF Seen

\* The loop stops: no entry has the hole on its way.
LEMMA HopStop ==
    ASSUME NEW n \in Nat \ {0}, NEW hole \in 0..(n - 1), NEW mp, NEW m, Sound(n, m, mp),
           NEW last \in 0..(n - 1), NEW j \in 0..(n - 1),
           j = After(n, last), j # hole, hashx[j] = 0, Seen(n, hole, last, m)
    PROVE  Closed(n, m)
<1>0. /\ m.i \in 0..(n - 1)
      /\ \A x \in 0..(n - 1) : m.tab[x] \in Entries /\ m.tab[x].first \in Keys
  <2>1. m \in States(n)
    BY DEF Sound
  <2> QED BY <2>1 DEF States, Entries
<1>1. ASSUME NEW b \in 0..(n - 1), Stays(m, b), Way(n, m, m.i, b)
      PROVE  FALSE
  <2> PICK h : h = Home(n, m.tab[b].first)
    OBVIOUS
  <2>1. h \in 0..(n - 1) /\ Between(h, m.i, b)
    BY <1>0, <1>1, HomeFacts DEF Way
  <2>2. Between(hole, m.i, last) /\ ~Between(hole, b, last)
    BY <1>1 DEF Seen
  <2>3. Between(h, j, b)
    BY <1>0, <2>1, <2>2, ThroughAfter
  <2>4. hashx[j] # 0
    BY <1>1, <2>3 DEF Sound, Way
  <2> QED BY <2>4
<1> QED BY <1>1 DEF Closed

\* The entry at j stays: the hole is not on its way.
LEMMA HopPass ==
    ASSUME NEW n \in Nat \ {0}, NEW hole \in 0..(n - 1), NEW mp, NEW m, Sound(n, m, mp),
           NEW last \in 0..(n - 1), NEW j \in 0..(n - 1),
           j = After(n, last), j # hole, hashx[j] # 0, Seen(n, hole, last, m), ~Way(n, m, m.i, j)
    PROVE  Seen(n, hole, j, m)
<1>0. m.i \in 0..(n - 1)
  <2>1. m \in States(n)
    BY DEF Sound
  <2> QED BY <2>1 DEF States
<1>1. ASSUME NEW x \in 0..(n - 1), Between(hole, x, j)
      PROVE  hashx[x] # 0
  <2>1. Between(hole, x, last) \/ x = j
    BY <1>1, BetweenAfter
  <2> QED BY <2>1 DEF Seen
<1>2. Between(hole, m.i, j)
  <2>1. Between(hole, m.i, last)
    BY DEF Seen
  <2> QED BY <1>0, <2>1, BetweenAfter
<1>3. ASSUME NEW b \in 0..(n - 1), Stays(m, b), Way(n, m, m.i, b), Between(hole, b, j)
      PROVE  FALSE
  <2>1. Between(hole, b, last) \/ b = j
    BY <1>3, BetweenAfter
  <2> QED BY <1>3, <2>1 DEF Seen
<1> QED BY <1>1, <1>2, <1>3 DEF Seen

\* One turn of the loop, whatever it does.
LEMMA HopTurn ==
    ASSUME NEW n \in Nat \ {0}, NEW hole \in 0..(n - 1), NEW z \in 0..(n - 1), hashx[z] = 0,
           NEW mp, NEW m, NEW d \in 1..n, Shifting(n, hole, d - 1, m, mp)
    PROVE  Shifting(n, hole, d, Hopped(n, m, Step(n, hole, d)), mp)
<1> PICK j, w : j = Step(n, hole, d) /\ w = Hopped(n, m, j)
  OBVIOUS
<1>0. /\ m \in States(n) /\ Sound(n, m, mp) /\ m.i \in 0..(n - 1) /\ m.done \in BOOLEAN
      /\ \A x \in 0..(n - 1) : m.tab[x] \in Entries /\ m.tab[x].first \in Keys
  <2>1. m \in States(n) /\ Sound(n, m, mp)
    BY DEF Shifting, Sound
  <2> QED BY <2>1 DEF States, Entries
<1>1. CASE m.done
  <2>1. w = m
    <3>1. w = [m EXCEPT !.done = TRUE]
      BY <1>1 DEF Hopped
    <3>2. m = [hx |-> m.hx, tab |-> m.tab, i |-> m.i, done |-> m.done]
      BY <1>0 DEF States
    <3>3. m.done = TRUE
      BY <1>0, <1>1
    <3>4. [m EXCEPT !.done = TRUE] = m
      BY <3>2, <3>3
    <3> QED BY <3>1, <3>4
  <2> QED BY <1>1, <2>1 DEF Shifting
<1>2. CASE ~m.done
  <2> PICK last : last = Step(n, hole, d - 1)
    OBVIOUS
  <2>1. Seen(n, hole, last, m)
    BY <1>2 DEF Shifting
  <2>2. d # n
    BY <2>1, SeenEnds
  <2>3. d \in 0..(n - 1) /\ d # 0 /\ d < n
    BY <2>2
  <2>4. last \in 0..(n - 1) /\ j \in 0..(n - 1) /\ j = After(n, last) /\ j # hole
    <3>1. d - 1 \in 0..(n - 1)
      BY <2>3
    <3>2. last \in 0..(n - 1) /\ j \in 0..(n - 1)
      BY <2>3, <3>1, StepFacts
    <3>3. j = After(n, last) /\ j # hole
      BY <2>3, StepAfter
    <3> QED BY <3>2, <3>3
  <2>5. m.hx[j] = 0 <=> hashx[j] = 0
    BY <1>0, <2>4 DEF Sound
  <2>6. m.i # j
    <3>1. Between(hole, m.i, last) /\ ~Between(hole, j, last)
      BY <2>1, <2>4, BetweenAfter DEF Seen
    <3> QED BY <3>1
  <2> PICK k : k = Home(n, m.tab[j].first)
    OBVIOUS
  <2>7. (((j < m.i) # (k <= m.i)) # (k > j)) <=> Way(n, m, m.i, j)
    <3>1. k \in 0..(n - 1)
      BY <1>0, <2>4, HomeFacts
    <3>2. k \in Int /\ j \in Int /\ m.i \in Int
      BY <1>0, <2>4, <3>1
    <3> PICK i : i = m.i
      OBVIOUS
    <3>3. (((j < i) # (k <= i)) # (k > j)) <=> Between(k, i, j)
      BY <2>6, <3>2, Outside
    <3> QED BY <3>3 DEF Way
  <2>8. CASE hashx[j] = 0
    <3>1. w = [m EXCEPT !.done = TRUE]
      BY <2>5, <2>8 DEF Hopped
    <3>2. /\ w.hx = m.hx /\ w.tab = m.tab /\ w.i = m.i /\ w.done = TRUE /\ w \in States(n)
      BY <1>0, <3>1 DEF States
    <3>3. Closed(n, m)
      BY <1>0, <2>1, <2>4, <2>8, HopStop
    <3>4. Closed(n, w)
      BY <3>2, <3>3 DEF Closed, Way, Stays
    <3>5. Sound(n, w, mp)
      BY <1>0, <3>2 DEF Sound, Way, Stays
    <3> QED BY <3>2, <3>4, <3>5 DEF Shifting
  <2>9. CASE hashx[j] # 0 /\ ~Way(n, m, m.i, j)
    <3>1. w = m
      BY <1>2, <2>5, <2>7, <2>9 DEF Hopped
    <3>2. Seen(n, hole, j, m)
      BY <1>0, <2>1, <2>4, <2>9, HopPass
    <3> QED BY <1>0, <1>2, <2>3, <3>1, <3>2 DEF Shifting
  <2>10. CASE hashx[j] # 0 /\ Way(n, m, m.i, j)
    <3>1. w = Hop(m, j)
      BY <1>2, <2>5, <2>7, <2>10 DEF Hopped
    <3>2. Moves(n, m, j, w)
      BY <1>0, <2>4, <3>1, HopFields
    <3>3. Sound(n, w, mp) /\ Seen(n, hole, j, w)
      BY <1>0, <2>1, <2>4, <2>10, <3>2, HopMove
    <3>4. ~w.done
      BY <1>2, <3>2 DEF Moves
    <3> QED BY <2>3, <3>3, <3>4 DEF Shifting
  <2> QED BY <2>8, <2>9, <2>10
<1> QED BY <1>1, <1>2

\* Before the loop.
LEMMA StartShifting ==
    ASSUME NEW n \in Nat \ {0}, Formed(n, table, hashx), Holds(n, table, hashx, map),
           NEW hole \in 0..(n - 1), hashx[hole] # 0
    PROVE  Shifting(n, hole, 0, ShiftStart(hole), [map EXCEPT ![table[hole].first] = Absent])
<1> PICK mp, m : mp = [map EXCEPT ![table[hole].first] = Absent] /\ m = ShiftStart(hole)
  OBVIOUS
<1>1. m.hx = hashx /\ m.tab = table /\ m.i = hole /\ m.done = FALSE /\ m \in States(n)
  <2>1. m = [hx |-> hashx, tab |-> table, i |-> hole, done |-> FALSE]
    BY DEF ShiftStart
  <2>2. hashx \in [0..(n - 1) -> 0..Tags] /\ table \in [0..(n - 1) -> Entries]
    BY DEF Formed
  <2> QED BY <2>1, <2>2 DEF States
<1>2. \A b \in 0..(n - 1) : table[b] \in Entries /\ table[b].first \in Keys
  BY FormedTypes
<1>3. \A k \in Keys : mp[k] = IF k = table[hole].first THEN Absent ELSE map[k]
  BY <1>2 DEF Holds
<1>4. ASSUME NEW b \in 0..(n - 1), Stays(m, b)
      PROVE  /\ m.hx[b] = Tag(m.tab[b].first)
             /\ mp[m.tab[b].first] = m.tab[b].second
             /\ \A x \in 0..(n - 1) : Way(n, m, x, b) => hashx[x] # 0
  <2>1. b # hole /\ hashx[b] # 0
    BY <1>1, <1>4 DEF Stays
  <2>2. table[b].first # table[hole].first
    BY <2>1 DEF Formed
  <2>3. hashx[b] = Tag(table[b].first)
    BY <2>1 DEF Formed
  <2>4. map[table[b].first] = table[b].second
    BY <2>1 DEF Holds
  <2>5. \A x \in 0..(n - 1) : Way(n, m, x, b) => hashx[x] # 0
    BY <1>1, <2>1 DEF Formed, Way
  <2> QED BY <1>1, <1>2, <1>3, <2>2, <2>3, <2>4, <2>5
<1>5. ASSUME NEW b \in 0..(n - 1), NEW c \in 0..(n - 1), Stays(m, b), Stays(m, c),
             m.tab[b].first = m.tab[c].first
      PROVE  b = c
  BY <1>1, <1>5 DEF Stays, Formed
<1>6. ASSUME NEW k \in Keys, mp[k] # Absent
      PROVE  \E b \in 0..(n - 1) : Stays(m, b) /\ m.tab[b].first = k
  <2>1. k # table[hole].first /\ map[k] # Absent
    BY <1>3, <1>6
  <2>2. PICK b \in 0..(n - 1) : hashx[b] # 0 /\ table[b].first = k
    BY <2>1 DEF Holds
  <2> QED BY <1>1, <2>1, <2>2 DEF Stays
<1>7. Sound(n, m, mp)
  BY <1>1, <1>4, <1>5, <1>6 DEF Sound
<1>8. Step(n, hole, 0) = hole
  <2>1. 0 \in 0..(n - 1)
    OBVIOUS
  <2> QED BY <2>1, StepFacts
<1>9. Seen(n, hole, hole, m)
  <2>1. \A x \in 0..(n - 1) : Between(hole, x, hole) => x = hole
    BY DEF Between
  <2>2. Between(hole, hole, hole)
    BY DEF Between
  <2> QED BY <1>1, <2>1, <2>2 DEF Seen, Stays
<1> QED BY <1>1, <1>7, <1>8, <1>9 DEF Shifting

\* After the loop: the hole is freed.
LEMMA ShiftEnd ==
    ASSUME NEW n \in Nat \ {0}, Formed(n, table, hashx),
           NEW mp \in [Keys -> Values \cup {Absent}], NEW m, Sound(n, m, mp), Closed(n, m)
    PROVE  LET hx  == [m.hx EXCEPT ![m.i] = 0]
               tab == [m.tab EXCEPT ![m.i] = NoEntry]
           IN  /\ Formed(n, tab, hx) /\ Holds(n, tab, hx, mp)
               /\ Cardinality(Taken(n, hx)) = Cardinality(Taken(n, hashx)) - 1
<1> PICK hx, tab, i : /\ hx = [m.hx EXCEPT ![m.i] = 0] /\ tab = [m.tab EXCEPT ![m.i] = NoEntry]
                      /\ i = m.i
  OBVIOUS
<1>0. /\ m.i \in 0..(n - 1) /\ m.hx \in [0..(n - 1) -> 0..Tags] /\ m.tab \in [0..(n - 1) -> Entries]
      /\ \A x \in 0..(n - 1) : m.tab[x] \in Entries /\ m.tab[x].first \in Keys
  <2>1. m \in States(n)
    BY DEF Sound
  <2> QED BY <2>1 DEF States, Entries
<1>1. /\ hx \in [0..(n - 1) -> 0..Tags] /\ tab \in [0..(n - 1) -> Entries]
      /\ \A x \in 0..(n - 1) : hx[x] = IF x = i THEN 0 ELSE m.hx[x]
      /\ \A x \in 0..(n - 1) : x # i => tab[x] = m.tab[x]
  <2>1. NoEntry \in Entries /\ 0 \in 0..Tags
    BY CmapAssumption DEF NoEntry, Entries
  <2> QED BY <1>0, <2>1
<1>2. \A b \in 0..(n - 1) : hx[b] # 0 <=> Stays(m, b)
  BY <1>1 DEF Stays
<1>3. \A b \in 0..(n - 1) : hx[b] # 0 => tab[b] = m.tab[b] /\ hx[b] = m.hx[b] /\ b # i
  BY <1>1
<1>4. \A x \in 0..(n - 1) : hx[x] # 0 <=> hashx[x] # 0 /\ x # i
  BY <1>1 DEF Sound
<1>5. Formed(n, tab, hx)
  <2>1. ASSUME NEW b \in 0..(n - 1), hx[b] # 0
        PROVE  hx[b] = Tag(tab[b].first)
    BY <1>2, <1>3, <2>1 DEF Sound
  <2>2. ASSUME NEW b \in 0..(n - 1), NEW c \in 0..(n - 1), hx[b] # 0, hx[c] # 0,
               tab[b].first = tab[c].first
        PROVE  b = c
    BY <1>2, <1>3, <2>2 DEF Sound
  <2>3. ASSUME NEW b \in 0..(n - 1), NEW x \in 0..(n - 1), hx[b] # 0,
               Between(Home(n, tab[b].first), x, b)
        PROVE  hx[x] # 0
    <3>1. Stays(m, b) /\ Way(n, m, x, b)
      BY <1>2, <1>3, <2>3 DEF Way
    <3>2. hashx[x] # 0
      BY <3>1 DEF Sound
    <3>3. x # i
      BY <3>1 DEF Closed
    <3> QED BY <1>4, <3>2, <3>3
  <2> QED BY <1>1, <2>1, <2>2, <2>3 DEF Formed
<1>6. Holds(n, tab, hx, mp)
  <2>1. ASSUME NEW b \in 0..(n - 1), hx[b] # 0
        PROVE  mp[tab[b].first] = tab[b].second
    BY <1>2, <1>3, <2>1 DEF Sound
  <2>2. ASSUME NEW k \in Keys, mp[k] # Absent
        PROVE  \E b \in 0..(n - 1) : hx[b] # 0 /\ tab[b].first = k
    <3>1. PICK b \in 0..(n - 1) : Stays(m, b) /\ m.tab[b].first = k
      BY <2>2 DEF Sound
    <3> QED BY <1>2, <1>3, <3>1
  <2> QED BY <2>1, <2>2 DEF Holds
<1>7. Cardinality(Taken(n, hx)) = Cardinality(Taken(n, hashx)) - 1
  <2>1. Taken(n, hx) = Taken(n, hashx) \ {i}
    BY <1>4 DEF Taken
  <2>2. i \in Taken(n, hashx)
    BY <1>0 DEF Sound, Taken
  <2>3. IsFiniteSet(Taken(n, hashx))
    BY TakenFacts
  <2> QED BY <2>1, <2>2, <2>3, FS_RemoveElement
<1> QED BY <1>5, <1>6, <1>7

\* erase takes out the entry at the hole and leaves a table of all the others.
LEMMA ShiftFacts ==
    ASSUME NEW n \in Nat \ {0}, n = bucket_count, Formed(n, table, hashx),
           Holds(n, table, hashx, map),
           NEW hole \in 0..(n - 1), hashx[hole] # 0,
           NEW z \in 0..(n - 1), hashx[z] = 0
    PROVE  LET m  == Shifted(hole)
               mp == [map EXCEPT ![table[hole].first] = Absent]
           IN  /\ Formed(n, m.tab, m.hx) /\ Holds(n, m.tab, m.hx, mp)
               /\ Cardinality(Taken(n, m.hx)) = Cardinality(Taken(n, hashx)) - 1
<1> PICK mp : mp = [map EXCEPT ![table[hole].first] = Absent]
  OBVIOUS
<1>1. PICK u : /\ \A d \in 0..n : u[d] = ShiftTurn(hole, d, u)
               /\ Shifted(hole).hx = [u[n].hx EXCEPT ![u[n].i] = 0]
               /\ Shifted(hole).tab = [u[n].tab EXCEPT ![u[n].i] = NoEntry]
  BY ShiftUnfolds
<1> DEFINE Bad == {d \in 0..n : ~Shifting(n, hole, d, u[d], mp)}
<1>2. Bad = {}
  <2> SUFFICES ASSUME Bad # {} PROVE FALSE
    OBVIOUS
  <2>1. Bad \subseteq Nat
    OBVIOUS
  <2>2. PICK d \in Bad : \A y \in Bad : d <= y
    <3> HIDE DEF Bad
    <3> QED BY <2>1, NatMin
  <2>3. d \in 0..n /\ ~Shifting(n, hole, d, u[d], mp)
    OBVIOUS
  <2>4. CASE d = 0
    <3>1. u[0] = ShiftStart(hole)
      BY <1>1, <2>3, <2>4 DEF ShiftTurn
    <3>2. Shifting(n, hole, 0, ShiftStart(hole), mp)
      BY StartShifting
    <3> QED BY <2>3, <2>4, <3>1, <3>2
  <2>5. CASE d # 0
    <3>1. d \in 1..n /\ d - 1 \in 0..n /\ ~(d <= d - 1)
      BY <2>3, <2>5
    <3>2. Shifting(n, hole, d - 1, u[d - 1], mp)
      BY <2>2, <3>1
    <3>3. u[d] = Hopped(n, u[d - 1], Step(n, hole, d))
      BY <1>1, <2>3, <2>5 DEF ShiftTurn
    <3> HIDE DEF Bad
    <3> QED BY <2>3, <3>1, <3>2, <3>3, HopTurn
  <2> QED BY <2>4, <2>5
<1>3. Shifting(n, hole, n, u[n], mp)
  <2>1. n \in 0..n
    OBVIOUS
  <2> QED BY <1>2, <2>1
<1> PICK m : m = u[n]
  OBVIOUS
<1>4. Sound(n, m, mp) /\ Closed(n, m)
  BY <1>3 DEF Shifting
<1>5. mp \in [Keys -> Values \cup {Absent}]
  BY DEF Holds
<1> PICK hx, tab : /\ hx = [m.hx EXCEPT ![m.i] = 0] /\ tab = [m.tab EXCEPT ![m.i] = NoEntry]
  OBVIOUS
<1>6. /\ Formed(n, tab, hx) /\ Holds(n, tab, hx, mp)
      /\ Cardinality(Taken(n, hx)) = Cardinality(Taken(n, hashx)) - 1
  BY <1>4, <1>5, ShiftEnd
<1>7. Shifted(hole).hx = hx /\ Shifted(hole).tab = tab
  BY <1>1
<1> QED BY <1>6, <1>7


-----------------------------------------------------------------------------
(***************************************************************************)
(* The operations.                                                         *)
(***************************************************************************)

\* The table of s entries that stands for the map mp.
Stands(tab, hx, s, mp) ==
    \E n \in Nat : Formed(n, tab, hx) /\ Holds(n, tab, hx, mp) /\ s = Cardinality(Taken(n, hx))

Room(hx, s) == Buckets(hx) > 0 => s < Buckets(hx)

LEMMA StandsFacts ==
    ASSUME NEW tab, NEW hx, NEW s, NEW mp, Stands(tab, hx, s, mp)
    PROVE  /\ Buckets(hx) \in Nat /\ s \in Nat /\ s <= Buckets(hx)
           /\ Formed(Buckets(hx), tab, hx) /\ Holds(Buckets(hx), tab, hx, mp)
           /\ s = Cardinality(Taken(Buckets(hx), hx))
<1>1. PICK n \in Nat : Formed(n, tab, hx) /\ Holds(n, tab, hx, mp) /\ s = Cardinality(Taken(n, hx))
  BY DEF Stands
<1>2. Buckets(hx) = n
  BY <1>1, FormedTypes
<1>3. Cardinality(Taken(n, hx)) \in Nat /\ Cardinality(Taken(n, hx)) <= n
  BY TakenFacts
<1> QED BY <1>1, <1>2, <1>3

\* reserve changes neither the entries nor, if memory is enough, leaves the
\* table full.
LEMMA ReserveFacts ==
    ASSUME Stands(table, hashx, size, map), NEW newcap \in Nat, NEW alloc \in BOOLEAN
    PROVE  LET m == reserve(newcap, alloc)
           IN  /\ Stands(m.tab, m.hx, size, map)
               /\ m.ok => (Room(hashx, size) => Room(m.hx, size))
               /\ m.ok /\ newcap # size => newcap <= Buckets(m.hx)
               /\ m.ok \in BOOLEAN
<1> PICK m, n, nb : /\ m = reserve(newcap, alloc) /\ n = Unscaled(newcap) + 2
                    /\ nb = IF n % 2 = 0 THEN n + 1 ELSE n
  OBVIOUS
<1>1. m = IF newcap # size /\ newcap <= bucket_count
          THEN [hx |-> hashx, tab |-> table, ok |-> TRUE]
          ELSE IF alloc THEN [hx |-> Rehashed(nb).hx, tab |-> Rehashed(nb).tab, ok |-> TRUE]
          ELSE [hx |-> hashx, tab |-> table, ok |-> FALSE]
  BY Zenon DEF reserve
<1>2. nb \in Nat \ {0} /\ nb >= newcap + 2
  <2>1. Unscaled(newcap) \in Nat /\ Unscaled(newcap) >= newcap
    BY Sizes
  <2> QED BY <2>1
<1>3. /\ bucket_count \in Nat /\ size \in Nat /\ size <= bucket_count
      /\ Formed(bucket_count, table, hashx) /\ Holds(bucket_count, table, hashx, map)
      /\ size = Cardinality(Taken(bucket_count, hashx))
  BY StandsFacts DEF bucket_count
<1>4. CASE newcap # size /\ newcap <= bucket_count
  <2>1. m.hx = hashx /\ m.tab = table /\ m.ok = TRUE
    BY <1>1, <1>4
  <2> QED BY <1>4, <2>1 DEF bucket_count
<1>5. CASE ~(newcap # size /\ newcap <= bucket_count) /\ alloc
  <2>1. m.hx = Rehashed(nb).hx /\ m.tab = Rehashed(nb).tab /\ m.ok = TRUE
    BY <1>1, <1>5
  <2>2. newcap >= size /\ size < nb
    BY <1>2, <1>3, <1>5
  <2>3. /\ Formed(nb, Rehashed(nb).tab, Rehashed(nb).hx) /\ Holds(nb, Rehashed(nb).tab, Rehashed(nb).hx, map)
        /\ Cardinality(Taken(nb, Rehashed(nb).hx)) = Cardinality(Taken(bucket_count, hashx))
    BY <1>2, <1>3, <2>2, RehashFacts
  <2>4. Formed(nb, m.tab, m.hx) /\ Holds(nb, m.tab, m.hx, map) /\ size = Cardinality(Taken(nb, m.hx))
    BY <1>3, <2>1, <2>3
  <2>5. Stands(m.tab, m.hx, size, map)
    BY <1>2, <2>4 DEF Stands
  <2>6. Buckets(m.hx) = nb
    BY <1>2, <2>4, FormedTypes
  <2>7. newcap <= nb
    BY <1>2
  <2> QED BY <2>1, <2>2, <2>5, <2>6, <2>7 DEF Room
<1>6. CASE ~(newcap # size /\ newcap <= bucket_count) /\ ~alloc
  <2>1. m.hx = hashx /\ m.tab = table /\ m.ok = FALSE
    BY <1>1, <1>6
  <2> QED BY <2>1
<1> QED BY <1>4, <1>5, <1>6

LEMMA GrownFacts ==
    ASSUME Stands(table, hashx, size, map), NEW alloc \in BOOLEAN
    PROVE  LET m == Grown(alloc)
           IN  /\ Stands(m.tab, m.hx, size, map) /\ m.ok \in BOOLEAN
               /\ m.ok => size + 2 <= Buckets(m.hx)
<1> PICK m, cap : m = Grown(alloc) /\ cap = (size * 3) \div 2 + 4
  OBVIOUS
<1>1. bucket_count \in Nat /\ size \in Nat
  BY StandsFacts DEF bucket_count
<1>2. CASE size + 2 > Scaled(bucket_count)
  <2>1. cap \in Nat /\ cap # size /\ cap >= size + 4
    <3>1. (size * 3) \div 2 >= size /\ (size * 3) \div 2 \in Nat
      BY <1>1
    <3> QED BY <1>1, <3>1
  <2>2. m = reserve(cap, alloc)
    BY <1>2, Zenon DEF Grown
  <2>3. /\ Stands(m.tab, m.hx, size, map) /\ m.ok \in BOOLEAN
        /\ m.ok => cap <= Buckets(m.hx)
    BY <2>1, <2>2, ReserveFacts
  <2>4. Buckets(m.hx) \in Nat
    BY <2>3, StandsFacts
  <2> QED BY <1>1, <2>1, <2>3, <2>4
<1>3. CASE ~(size + 2 > Scaled(bucket_count))
  <2>1. m.hx = hashx /\ m.tab = table /\ m.ok = TRUE
    BY <1>3 DEF Grown
  <2>2. Scaled(bucket_count) \in Nat /\ Scaled(bucket_count) <= bucket_count
    BY <1>1, Sizes
  <2>3. size + 2 <= bucket_count
    BY <1>1, <1>3, <2>2
  <2> QED BY <2>1, <2>3 DEF bucket_count
<1> QED BY <1>2, <1>3

\* A table with a free bucket ends every probe.
LEMMA RoomEnds ==
    ASSUME NEW tab, NEW hx, NEW s, NEW mp, Stands(tab, hx, s, mp), s < Buckets(hx), NEW k \in Keys
    PROVE  bucket_(tab, hx, k) # -1
<1> PICK n : n = Buckets(hx)
  OBVIOUS
<1>1. n \in Nat /\ s \in Nat /\ s = Cardinality(Taken(n, hx)) /\ s < n
  BY StandsFacts
<1>2. PICK b \in 0..(n - 1) : hx[b] = 0
  BY <1>1, TakenFacts
<1>3. n \in Nat \ {0} /\ Buckets(hx) = n /\ Stopper(tab, hx, k, b)
  BY <1>1, <1>2 DEF Stopper
<1> QED BY <1>3, ProbeEnds

\* An insertion that ends.
LEMMA EnteredFacts ==
    ASSUME NEW m, Stands(m.tab, m.hx, size, map), NEW k \in Keys, NEW v \in Values,
           NEW assign \in BOOLEAN, Buckets(m.hx) > 0, Entered(m, k, v, assign),
           IF assign THEN Map!insert_or_assign(k, v) ELSE Map!insert(k, v)
    PROVE  /\ Stands(table', hashx', size', map')
           /\ size' <= size + 1 /\ Buckets(hashx') = Buckets(m.hx)
<1> PICK n, tab, hx : n = Buckets(m.hx) /\ tab = m.tab /\ hx = m.hx
  OBVIOUS
<1> PICK b : b = bucket_(tab, hx, k)
  OBVIOUS
<1>1. /\ n \in Nat \ {0} /\ Formed(n, tab, hx) /\ Holds(n, tab, hx, map)
      /\ size = Cardinality(Taken(n, hx)) /\ size \in Nat
  BY StandsFacts
<1>2. /\ b # -1 /\ hashx' = PutHx(tab, hx, k)
      /\ table' = IF hx[b] = 0 \/ assign THEN PutTab(tab, hx, k, v) ELSE tab
      /\ size' = IF hx[b] = 0 THEN size + 1 ELSE size
  <2>1. /\ bucket_(tab, hx, k) >= 0
        /\ hashx' = [hx EXCEPT ![bucket_(tab, hx, k)] = Tag(k)]
        /\ table' = IF hx[bucket_(tab, hx, k)] = 0 \/ assign
                    THEN [tab EXCEPT ![bucket_(tab, hx, k)] = [first |-> k, second |-> v]] ELSE tab
        /\ size' = IF hx[bucket_(tab, hx, k)] = 0 THEN size + 1 ELSE size
    BY Zenon DEF Entered
  <2> QED BY <2>1 DEF PutHx, PutTab
<1>3. /\ b \in 0..(n - 1)
      /\ hx[b] # 0 => tab[b].first = k /\ PutHx(tab, hx, k) = hx
      /\ Formed(n, PutTab(tab, hx, k, v), PutHx(tab, hx, k))
      /\ Taken(n, PutHx(tab, hx, k)) = Taken(n, hx) \cup {b}
      /\ Holds(n, PutTab(tab, hx, k, v), PutHx(tab, hx, k), [map EXCEPT ![k] = v])
      /\ hx[b] = 0 <=> map[k] = Absent
  BY <1>1, <1>2, Put
<1>4. map' = IF assign \/ map[k] = Absent THEN [map EXCEPT ![k] = v] ELSE map
  BY DEF Map!insert, Map!insert_or_assign
<1>5. /\ IsFiniteSet(Taken(n, hx))
      /\ hx[b] = 0 => b \notin Taken(n, hx)
      /\ hx[b] # 0 => Taken(n, hx) \cup {b} = Taken(n, hx)
  BY <1>1, <1>3, TakenFacts DEF Taken
<1>6. size' = Cardinality(Taken(n, hashx'))
  <2>1. hashx' = PutHx(tab, hx, k) /\ Taken(n, hashx') = Taken(n, hx) \cup {b}
    BY <1>2, <1>3
  <2>2. CASE hx[b] = 0
    <3>1. Cardinality(Taken(n, hx) \cup {b}) = Cardinality(Taken(n, hx)) + 1
      BY <1>5, <2>2, FS_AddElement
    <3> QED BY <1>1, <1>2, <2>1, <2>2, <3>1
  <2>3. CASE hx[b] # 0
    BY <1>1, <1>2, <1>5, <2>1, <2>3
  <2> QED BY <2>2, <2>3
<1>7. Formed(n, table', hashx') /\ Holds(n, table', hashx', map')
  <2>1. CASE hx[b] = 0 \/ assign
    BY <1>2, <1>3, <1>4, <2>1
  <2>2. CASE ~(hx[b] = 0 \/ assign)
    BY <1>1, <1>2, <1>3, <1>4, <2>2
  <2> QED BY <2>1, <2>2
<1>8. Buckets(hashx') = n
  BY <1>1, <1>7, FormedTypes
<1> QED BY <1>1, <1>2, <1>6, <1>7, <1>8 DEF Stands


-----------------------------------------------------------------------------
(***************************************************************************)
(* The invariant.                                                          *)
(***************************************************************************)

CInv ==
    /\ Stands(table, hashx, size, map)
    /\ status \in {"ok", "PANIC", "HUNG"} /\ nomem \in BOOLEAN
    /\ ~nomem => status = "ok" /\ Room(hashx, size)

LEMMA InitCInv ==
    ASSUME Init
    PROVE  CInv
<1>1. table = EmptyTable(0).tab /\ hashx = EmptyTable(0).hx
  <2>1. 0..(0 - 1) = {}
    OBVIOUS
  <2> QED BY <2>1 DEF Init, EmptyTable
<1>2. Formed(0, table, hashx) /\ Holds(0, table, hashx, map) /\ Taken(0, hashx) = {}
  BY <1>1, EmptyFormed DEF Init, Map!Init
<1>3. size = Cardinality(Taken(0, hashx))
  BY <1>2, FS_EmptySet DEF Init
<1>4. Buckets(hashx) = 0
  BY <1>2, FormedTypes
<1> QED BY <1>2, <1>3, <1>4 DEF Init, CInv, Stands, Room

LEMMA InsertKeeps ==
    ASSUME CInv, NEW k \in Keys, NEW v \in Values, NEW alloc \in BOOLEAN, NEW assign \in BOOLEAN,
           insert_entry_(k, v, alloc, assign)
    PROVE  CInv'
<1> PICK m : m = Grown(alloc)
  OBVIOUS
<1>1. /\ status = "ok" /\ nomem' = (nomem \/ ~m.ok)
      /\ \/ Buckets(m.hx) = 0 /\ Stops("PANIC")
         \/ Buckets(m.hx) > 0 /\ bucket_(m.tab, m.hx, k) = -1 /\ Stops("HUNG")
         \/ /\ Buckets(m.hx) > 0 /\ Entered(m, k, v, assign)
            /\ IF assign THEN Map!insert_or_assign(k, v) ELSE Map!insert(k, v)
            /\ UNCHANGED status
  BY Zenon DEF insert_entry_
<1>2. /\ Stands(table, hashx, size, map) /\ nomem \in BOOLEAN
      /\ ~nomem => status = "ok" /\ Room(hashx, size)
  BY DEF CInv
<1>3. /\ Stands(m.tab, m.hx, size, map) /\ m.ok \in BOOLEAN
      /\ m.ok => size + 2 <= Buckets(m.hx)
  BY <1>2, GrownFacts
<1>4. Buckets(m.hx) \in Nat /\ size \in Nat
  BY <1>3, StandsFacts
<1>5. CASE Stops("PANIC") \/ Stops("HUNG")
  <2>1. UNCHANGED <<table, hashx, size, map>> /\ status' \in {"PANIC", "HUNG"}
    BY <1>5 DEF Stops, self
  <2>2. ASSUME m.ok PROVE FALSE
    <3>1. Buckets(m.hx) > 0 /\ size < Buckets(m.hx)
      BY <1>3, <1>4, <2>2
    <3>2. bucket_(m.tab, m.hx, k) # -1
      BY <1>3, <3>1, RoomEnds
    <3>3. status' = "ok"
      BY <1>1, <3>1, <3>2
    <3> QED BY <2>1, <3>3
  <2>3. nomem' = TRUE
    BY <1>1, <1>2, <2>2
  <2>4. Stands(table', hashx', size', map')
    BY <1>2, <2>1
  <2> QED BY <2>1, <2>3, <2>4 DEF CInv
<1>6. CASE /\ Buckets(m.hx) > 0 /\ Entered(m, k, v, assign)
           /\ IF assign THEN Map!insert_or_assign(k, v) ELSE Map!insert(k, v)
           /\ UNCHANGED status
  <2>1. /\ Stands(table', hashx', size', map')
        /\ size' <= size + 1 /\ Buckets(hashx') = Buckets(m.hx)
    BY <1>3, <1>6, EnteredFacts
  <2>2. size' \in Nat
    BY <2>1, StandsFacts
  <2>3. m.ok => Room(hashx', size')
    BY <1>3, <1>4, <2>1, <2>2 DEF Room
  <2>4. nomem' \in BOOLEAN /\ (~nomem' => m.ok) /\ status' = "ok"
    BY <1>1, <1>2, <1>3, <1>6
  <2> QED BY <2>1, <2>3, <2>4 DEF CInv
<1> QED BY <1>1, <1>5, <1>6

LEMMA LookupKeeps ==
    ASSUME CInv, NEW k \in Keys, lookup(k)
    PROVE  CInv'
<1>1. /\ UNCHANGED <<table, hashx, size, map, nomem>> /\ status' = "HUNG"
      /\ size > 0 /\ bucket_(table, hashx, k) = -1
  BY DEF lookup, Stops, self
<1>2. /\ Stands(table, hashx, size, map) /\ nomem \in BOOLEAN
      /\ ~nomem => Room(hashx, size)
  BY DEF CInv
<1>3. nomem
  <2>1. Buckets(hashx) \in Nat /\ size \in Nat /\ size <= Buckets(hashx)
    BY <1>2, StandsFacts
  <2>2. ~(size < Buckets(hashx))
    BY <1>1, <1>2, RoomEnds
  <2> QED BY <1>1, <1>2, <2>1, <2>2 DEF Room
<1>4. Stands(table', hashx', size', map')
  BY <1>1, <1>2
<1> QED BY <1>1, <1>2, <1>3, <1>4 DEF CInv

\* What find returns.
LEMMA FindFacts ==
    ASSUME CInv, NEW k \in Keys
    PROVE  /\ find(k) = -1 => map[k] = Absent
           /\ find(k) # -1 => /\ find(k) \in 0..(bucket_count - 1) /\ hashx[find(k)] # 0
                              /\ table[find(k)].first = k /\ table[find(k)].second = map[k]
                              /\ map[k] # Absent
<1> PICK n : n = bucket_count
  OBVIOUS
<1>0. /\ n \in Nat /\ n = Buckets(hashx) /\ Formed(n, table, hashx) /\ Holds(n, table, hashx, map)
      /\ size \in Nat /\ size <= n /\ size = Cardinality(Taken(n, hashx))
  BY StandsFacts DEF CInv, bucket_count
<1> PICK b : b = bucket_(table, hashx, k)
  OBVIOUS
<1>1. find(k) = IF size > 0 /\ b >= 0 /\ hashx[b] # 0 THEN b ELSE -1
  BY DEF find
<1>2. CASE find(k) # -1
  <2>1. size > 0 /\ b >= 0 /\ hashx[b] # 0 /\ find(k) = b
    BY <1>1, <1>2
  <2>2. n \in Nat \ {0} /\ b # -1
    BY <1>0, <2>1
  <2>3. b \in 0..(n - 1) /\ Stopper(table, hashx, k, b)
    BY <1>0, <2>2, ProbeEnd
  <2>4. table[b].first = k
    BY <2>1, <2>3 DEF Stopper
  <2>5. map[k] = table[b].second
    BY <1>0, <2>1, <2>3, <2>4 DEF Holds
  <2>6. map[k] # Absent
    BY <1>0, <2>3, <2>5, FormedTypes, CmapAssumption, SMTT(40)
  <2> QED BY <2>1, <2>3, <2>4, <2>5, <2>6
<1>3. CASE find(k) = -1
  <2> SUFFICES ASSUME map[k] # Absent PROVE FALSE
    BY <1>3
  <2>1. PICK c \in 0..(n - 1) : hashx[c] # 0 /\ table[c].first = k
    BY <1>0 DEF Holds
  <2>2. b = c
    BY <1>0, <2>1, EntryFound
  <2>3. size > 0
    <3>1. Taken(n, hashx) # {} /\ IsFiniteSet(Taken(n, hashx))
      BY <1>0, <2>1, TakenFacts DEF Taken
    <3>2. Cardinality(Taken(n, hashx)) # 0
      BY <3>1, FS_EmptySet
    <3> QED BY <1>0, <3>2
  <2> QED BY <1>1, <1>3, <2>1, <2>2, <2>3
<1> QED BY <1>2, <1>3

LEMMA EraseKeeps ==
    ASSUME CInv, NEW k \in Keys, erase(k)
    PROVE  CInv'
<1> PICK n, b : n = bucket_count /\ b = find(k)
  OBVIOUS
<1>0. /\ n \in Nat /\ n = Buckets(hashx) /\ Formed(n, table, hashx) /\ Holds(n, table, hashx, map)
      /\ size \in Nat /\ size <= n /\ size = Cardinality(Taken(n, hashx))
      /\ Stands(table, hashx, size, map) /\ nomem \in BOOLEAN
      /\ ~nomem => status = "ok" /\ Room(hashx, size)
  BY StandsFacts DEF CInv, bucket_count
<1>1. /\ status = "ok" /\ b >= 0 /\ UNCHANGED nomem
      /\ \/ size = n /\ Stops("HUNG")
         \/ /\ size < n /\ table' = Shifted(b).tab /\ hashx' = Shifted(b).hx
            /\ size' = size - 1 /\ Map!erase(k) /\ UNCHANGED status
  BY Zenon DEF erase
<1>2. b \in 0..(n - 1) /\ hashx[b] # 0 /\ table[b].first = k
  <2>1. b # -1
    BY <1>1
  <2> QED BY <2>1, FindFacts
<1>3. CASE size = n /\ Stops("HUNG")
  <2>1. UNCHANGED <<table, hashx, size, map, nomem>> /\ status' = "HUNG"
    BY <1>1, <1>3 DEF Stops, self
  <2>2. nomem
    BY <1>0, <1>2, <1>3 DEF Room
  <2>3. Stands(table', hashx', size', map')
    BY <1>0, <2>1
  <2> QED BY <1>0, <2>1, <2>2, <2>3 DEF CInv
<1>4. CASE /\ size < n /\ table' = Shifted(b).tab /\ hashx' = Shifted(b).hx
           /\ size' = size - 1 /\ Map!erase(k) /\ UNCHANGED status
  <2>1. PICK z \in 0..(n - 1) : hashx[z] = 0
    BY <1>0, <1>4, TakenFacts
  <2>2. map' = [map EXCEPT ![table[b].first] = Absent]
    BY <1>2, <1>4 DEF Map!erase
  <2>3. n \in Nat \ {0}
    BY <1>0, <1>4
  <2>4. /\ Formed(n, Shifted(b).tab, Shifted(b).hx)
        /\ Holds(n, Shifted(b).tab, Shifted(b).hx, [map EXCEPT ![table[b].first] = Absent])
        /\ Cardinality(Taken(n, Shifted(b).hx)) = Cardinality(Taken(n, hashx)) - 1
    BY <1>0, <1>2, <2>1, <2>3, ShiftFacts
  <2>5. Formed(n, table', hashx') /\ Holds(n, table', hashx', map') /\ size' = Cardinality(Taken(n, hashx'))
    BY <1>0, <1>4, <2>2, <2>4
  <2>6. Stands(table', hashx', size', map') /\ Buckets(hashx') = n
    BY <1>0, <2>5, FormedTypes DEF Stands
  <2>7. Room(hashx', size')
    BY <1>0, <1>4, <2>6 DEF Room
  <2> QED BY <1>0, <1>1, <1>4, <2>6, <2>7 DEF CInv
<1> QED BY <1>1, <1>3, <1>4

LEMMA ClearKeeps ==
    ASSUME CInv, clear
    PROVE  CInv'
<1> PICK n : n = bucket_count
  OBVIOUS
<1>0. n \in Nat /\ n = Buckets(hashx) /\ Formed(n, table, hashx)
  BY StandsFacts DEF CInv, bucket_count
<1>1. table' = EmptyTable(n).tab /\ hashx' = EmptyTable(n).hx
  <2>1. DOMAIN table = 0..(n - 1) /\ DOMAIN hashx = 0..(n - 1)
    BY <1>0, FormedTypes
  <2> QED BY <2>1 DEF clear, EmptyTable
<1>2. Formed(n, table', hashx') /\ Taken(n, hashx') = {} /\ Holds(n, table', hashx', map')
  BY <1>0, <1>1, EmptyFormed DEF clear, Map!clear
<1>3. size' = Cardinality(Taken(n, hashx')) /\ size' = 0
  BY <1>2, FS_EmptySet DEF clear
<1>4. Stands(table', hashx', size', map') /\ Buckets(hashx') = n
  BY <1>0, <1>2, <1>3, FormedTypes DEF Stands
<1>5. Room(hashx', size')
  BY <1>3, <1>4 DEF Room
<1>6. UNCHANGED <<status, nomem>>
  BY DEF clear
<1> QED BY <1>4, <1>5, <1>6 DEF CInv

LEMMA ResizeKeeps ==
    ASSUME CInv, NEW newcap \in Capacities \cup {size}, NEW alloc \in BOOLEAN, resize(newcap, alloc)
    PROVE  CInv'
<1> PICK m : m = reserve(newcap, alloc)
  OBVIOUS
<1>1. /\ Stands(table, hashx, size, map) /\ nomem \in BOOLEAN
      /\ status \in {"ok", "PANIC", "HUNG"}
      /\ ~nomem => status = "ok" /\ Room(hashx, size)
  BY DEF CInv
<1>2. newcap \in Nat
  BY <1>1, StandsFacts, CmapAssumption
<1>3. /\ Stands(m.tab, m.hx, size, map) /\ m.ok \in BOOLEAN
      /\ m.ok => (Room(hashx, size) => Room(m.hx, size))
  BY <1>1, <1>2, ReserveFacts
<1>4. /\ table' = m.tab /\ hashx' = m.hx /\ nomem' = (nomem \/ ~m.ok)
      /\ UNCHANGED <<size, status, map>>
  BY Zenon DEF resize
<1>5. Stands(table', hashx', size', map') /\ (m.ok => (Room(hashx, size) => Room(hashx', size')))
  BY <1>3, <1>4
<1> QED BY <1>1, <1>3, <1>4, <1>5 DEF CInv

LEMMA StepKeeps ==
    ASSUME CInv, [Next]_vars
    PROVE  CInv'
<1>1. ASSUME NEW k \in Keys, NEW v \in Values, NEW alloc \in BOOLEAN,
             insert(k, v, alloc) \/ insert_or_assign(k, v, alloc)
      PROVE  CInv'
  BY <1>1, InsertKeeps DEF insert, insert_or_assign
<1>2. ASSUME NEW k \in Keys, erase(k) \/ lookup(k)
      PROVE  CInv'
  BY <1>2, EraseKeeps, LookupKeeps
<1>3. ASSUME clear PROVE CInv'
  BY <1>3, ClearKeeps
<1>4. ASSUME NEW newcap \in Capacities \cup {size}, NEW alloc \in BOOLEAN, resize(newcap, alloc)
      PROVE  CInv'
  BY <1>4, ResizeKeeps
<1>5. CASE UNCHANGED vars
  <2>1. UNCHANGED <<table, hashx, size, status, nomem, map>>
    BY <1>5 DEF vars
  <2>2. Stands(table', hashx', size', map') /\ (Room(hashx, size) => Room(hashx', size'))
    BY <2>1 DEF CInv
  <2> QED BY <2>1, <2>2 DEF CInv
<1> QED BY <1>1, <1>2, <1>3, <1>4, <1>5 DEF Next

LEMMA CInvHolds == Spec => []CInv
  BY InitCInv, StepKeeps, PTL DEF Spec

-----------------------------------------------------------------------------
(***************************************************************************)
(* Theorems.                                                               *)
(***************************************************************************)

\* The table and its tags have the type of the code's arrays, and size is the
\* number of entries: the counter agrees with the tags whatever the order of
\* insertions, shifting deletions, rehashings and failed allocations.
THEOREM MapTypeCorrect == Spec => []TypeOK
<1>1. ASSUME CInv PROVE TypeOK
  <2>1. /\ bucket_count \in Nat /\ Formed(bucket_count, table, hashx)
        /\ size = Cardinality(Taken(bucket_count, hashx))
    BY <1>1, StandsFacts DEF CInv, bucket_count
  <2>2. DOMAIN table = 0..(bucket_count - 1) /\ DOMAIN hashx = 0..(bucket_count - 1)
    BY <2>1, FormedTypes
  <2>3. Occupied = Taken(bucket_count, hashx)
    BY <2>2 DEF Occupied, Taken
  <2>4. hashx \in [DOMAIN hashx -> 0..Tags] /\ table \in [DOMAIN table -> Entries]
    BY <2>1, <2>2 DEF Formed
  <2> QED BY <1>1, <2>1, <2>2, <2>3, <2>4 DEF TypeOK, CInv, Entries
<1> QED BY <1>1, CInvHolds, PTL

\* Probing for the key of an entry ends at that entry: no deletion leaves a free
\* bucket between an entry and its home.
THEOREM EntriesReachable == Spec => []Reachable
<1>1. ASSUME CInv PROVE Reachable
  <2>1. /\ bucket_count \in Nat /\ Formed(bucket_count, table, hashx)
        /\ Holds(bucket_count, table, hashx, map)
    BY <1>1, StandsFacts DEF CInv, bucket_count
  <2>2. ASSUME NEW b \in Occupied PROVE find(table[b].first) = b
    <3>1. b \in 0..(bucket_count - 1) /\ hashx[b] # 0
      BY <2>1, FormedTypes DEF Occupied
    <3>2. table[b].first \in Keys /\ table[b].second \in Values
      BY <2>1, <3>1, FormedTypes
    <3>3. map[table[b].first] # Absent
      BY <2>1, <3>1, <3>2, CmapAssumption DEF Holds
    <3>4. /\ find(table[b].first) \in 0..(bucket_count - 1) /\ hashx[find(table[b].first)] # 0
          /\ table[find(table[b].first)].first = table[b].first
      BY <1>1, <3>2, <3>3, FindFacts
    <3> QED BY <2>1, <3>1, <3>4 DEF Formed
  <2> QED BY <2>2 DEF Reachable
<1> QED BY <1>1, CInvHolds, PTL

\* As long as no allocation has failed a bucket is free, and no insertion,
\* lookup or deletion goes round the table for ever.
THEOREM ProbesAlwaysEnd == Spec => []ProbesEnd
<1>1. ASSUME CInv PROVE ProbesEnd
  BY <1>1 DEF CInv, Room, ProbesEnd, bucket_count
<1> QED BY <1>1, CInvHolds, PTL

\* The hash table implements the map: a lookup gives what was put in last, with
\* and without memory, for every hash function and every load factor.
THEOREM MapImplemented == Spec => []IsMap
<1>1. ASSUME CInv PROVE IsMap
  BY <1>1, FindFacts DEF IsMap, Value
<1> QED BY <1>1, CInvHolds, PTL
=============================================================================
