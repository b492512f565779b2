------------------------------ MODULE OrderFacts ------------------------------
(***************************************************************************)
(* What the other proofs cite of data: induction and least elements,       *)
(* stated for sets; ranks in strict total orders, given as sets of pairs;  *)
(* sums over finite sets; loops; sorting.                                  *)
(***************************************************************************)
EXTENDS Integers, Sequences, FiniteSetTheorems, WellFoundedInduction, TLAPS

\* A set of naturals that holds 0 and is closed under successor holds all.
LEMMA NatInductionOnSets ==
  ASSUME NEW T \in SUBSET Nat, 0 \in T, \A n \in T : n + 1 \in T
  PROVE  T = Nat
<1> DEFINE S == Nat \ T
<1>1. SUFFICES ASSUME S # {} PROVE FALSE
  OBVIOUS
<1>2. PICK x \in S : \A y \in S : ~(<<y, x>> \in OpToRel(<, Nat))
  BY <1>1, WFMin, NatLessThanWellFounded
<1>3. \A y \in S : ~(y < x)
  BY <1>2 DEF OpToRel
<1>4. x # 0 /\ x - 1 \in Nat /\ x - 1 < x
  OBVIOUS
<1>5. x - 1 \in T
  BY <1>3, <1>4
<1> QED
  BY <1>4, <1>5

\* A non-empty set of naturals has a least element.
LEMMA LeastNatural ==
  ASSUME NEW S \in SUBSET Nat, S # {}
  PROVE  \E x \in S : \A y \in S : x <= y
<1> DEFINE T == {n \in Nat : \A y \in S : n <= y}
<1>1. SUFFICES ASSUME \A x \in S : \E y \in S : ~(x <= y) PROVE FALSE
  OBVIOUS
<1>2. 0 \in T
  OBVIOUS
<1>3. ASSUME NEW n \in T PROVE n + 1 \in T
  BY <1>1
<1>4. T = Nat
  <2> HIDE DEF T
  <2> QED BY <1>2, <1>3, NatInductionOnSets DEF T
<1>5. PICK y \in S : TRUE
  OBVIOUS
<1>6. y + 1 \in T
  <2> y + 1 \in Nat
    BY <1>5
  <2> HIDE DEF T
  <2> QED BY <1>4
<1> QED
  BY <1>5, <1>6

\* A non-empty set of naturals with a bound has a greatest element.
LEMMA GreatestNatural ==
  ASSUME NEW S \in SUBSET Nat, S # {}, NEW n \in Nat, \A x \in S : x <= n
  PROVE  \E x \in S : \A y \in S : x >= y
<1> DEFINE T == {n - x : x \in S}
<1>1. T \in SUBSET Nat /\ T # {}
  <2>1. \A x \in S : n - x \in Nat
    OBVIOUS
  <2>2. T \in SUBSET Nat
    BY <2>1
  <2> QED
    BY <2>2
<1>2. PICK m \in T : \A y \in T : m <= y
  <2> HIDE DEF T
  <2> QED BY <1>1, LeastNatural
<1>3. PICK x \in S : m = n - x
  BY <1>2
<1>4. ASSUME NEW y \in S PROVE x >= y
  <2>1. n - y \in T
    OBVIOUS
  <2>2. m <= n - y
    <3> HIDE DEF T
    <3> QED BY <1>2, <2>1
  <2>3. x \in Nat /\ y \in Nat /\ n \in Nat
    OBVIOUS
  <2> HIDE DEF T
  <2> QED
    BY <1>3, <2>2, <2>3
<1> QED
  BY <1>3, <1>4

-----------------------------------------------------------------------------
(* Ranks.                                                                  *)

\* R is a strict total order of the elements of S.
Orders(R, S) ==
  /\ \A a \in S : <<a, a>> \notin R
  /\ \A a, b, c \in S : <<a, b>> \in R /\ <<b, c>> \in R => <<a, c>> \in R
  /\ \A a, b \in S : a # b => <<a, b>> \in R \/ <<b, a>> \in R

\* How many elements come before c.
Rank(R, S, c) == Cardinality({d \in S : <<d, c>> \in R})

\* s lists the elements of S once each, in the order R.
InOrder(s, S, R) ==
  /\ Len(s) = Cardinality(S) /\ s \in Seq(S)
  /\ \A c \in S : \E i \in DOMAIN s : s[i] = c
  /\ \A i, j \in DOMAIN s : i < j => <<s[i], s[j]>> \in R
  /\ \A i \in DOMAIN s : Rank(R, S, s[i]) = i - 1

\* An element that comes earlier has the smaller rank.
LEMMA RankRises ==
  ASSUME NEW S, IsFiniteSet(S), NEW R, Orders(R, S)
  PROVE  /\ \A c \in S : Rank(R, S, c) \in 0 .. Cardinality(S) - 1
         /\ \A a, c \in S : <<a, c>> \in R => Rank(R, S, a) < Rank(R, S, c)
<1> DEFINE Before(c) == {d \in S : <<d, c>> \in R}
<1>1. ASSUME NEW c \in S
      PROVE  /\ IsFiniteSet(Before(c)) /\ Cardinality(Before(c)) \in Nat
             /\ Cardinality(Before(c)) <= Cardinality(S) - 1
  <2>1. Before(c) \in SUBSET (S \ {c})
    BY DEF Orders
  <2>2. IsFiniteSet(S \ {c}) /\ Cardinality(S \ {c}) = Cardinality(S) - 1
    BY FS_RemoveElement
  <2> HIDE DEF Before
  <2>3. IsFiniteSet(Before(c)) /\ Cardinality(Before(c)) <= Cardinality(S \ {c})
    BY <2>1, <2>2, FS_Subset
  <2>4. Cardinality(Before(c)) \in Nat /\ Cardinality(S) \in Nat
    BY <2>3, FS_CardinalityType
  <2> QED
    BY <2>2, <2>3, <2>4
<1>2. ASSUME NEW a \in S, NEW c \in S, <<a, c>> \in R
      PROVE  Cardinality(Before(a)) < Cardinality(Before(c))
  <2>1. Before(a) \in SUBSET Before(c) /\ a \in Before(c) /\ a \notin Before(a)
    BY <1>2 DEF Orders
  <2> HIDE DEF Before
  <2>2. Before(a) # Before(c)
    BY <2>1
  <2>3. IsFiniteSet(Before(c)) /\ Cardinality(Before(a)) <= Cardinality(Before(c))
    BY <1>1, <2>1, FS_Subset
  <2>4. Cardinality(Before(a)) # Cardinality(Before(c))
    BY <2>1, <2>2, <2>3, FS_Subset
  <2> QED
    BY <1>1, <2>3, <2>4
<1>3. Cardinality(S) \in Nat
  BY FS_CardinalityType
<1>4. \A c \in S : Rank(R, S, c) = Cardinality(Before(c))
  BY DEF Rank
<1> HIDE DEF Before
<1> QED
  BY <1>1, <1>2, <1>3, <1>4

\* Every rank is taken.
LEMMA RanksTaken ==
  ASSUME NEW S, IsFiniteSet(S), NEW R, Orders(R, S)
  PROVE  \A i \in 1 .. Cardinality(S) : \E c \in S : Rank(R, S, c) = i - 1
<1> DEFINE n == Cardinality(S)
           f == [c \in S |-> Rank(R, S, c)]
<1>1. n \in Nat
  BY FS_CardinalityType
<1>2. f \in [S -> 0 .. n - 1]
  BY RankRises
<1>3. \A a, b \in S : f[a] = f[b] => a = b
  <2> SUFFICES ASSUME NEW a \in S, NEW b \in S, a # b PROVE f[a] # f[b]
    OBVIOUS
  <2>1. <<a, b>> \in R \/ <<b, a>> \in R
    BY DEF Orders
  <2>2. f[a] < f[b] \/ f[b] < f[a]
    BY <2>1, RankRises
  <2>3. f[a] \in Int /\ f[b] \in Int
    BY <1>1, <1>2
  <2> QED
    BY <2>2, <2>3
<1>4. f \in Injection(S, 0 .. n - 1)
  BY <1>2, <1>3 DEF Injection, IsInjective
<1>5. IsFiniteSet(0 .. n - 1) /\ Cardinality(0 .. n - 1) = n
  <2>1. 0 \in Int /\ n - 1 \in Int
    BY <1>1
  <2> QED
    BY <1>1, <2>1, FS_Interval
<1> HIDE DEF f
<1>6. f \in Surjection(S, 0 .. n - 1)
  BY <1>4, <1>5, FS_Injection
<1>7. \A i \in 1 .. n : \E c \in S : f[c] = i - 1
  BY <1>1, <1>6 DEF Surjection
<1> QED
  BY <1>7 DEF f

\* A sequence whose i-th element has rank i - 1 is in order.
LEMMA RanksOrder ==
  ASSUME NEW S, IsFiniteSet(S), NEW R, Orders(R, S),
         NEW s, s = [i \in 1 .. Cardinality(S) |-> s[i]],
         \A i \in 1 .. Cardinality(S) : s[i] \in S /\ Rank(R, S, s[i]) = i - 1
  PROVE  InOrder(s, S, R)
<1> DEFINE n == Cardinality(S)
<1>1. n \in Nat
  BY FS_CardinalityType
<1>2. s \in [1 .. n -> S]
  OBVIOUS
<1>3. s \in Seq(S) /\ Len(s) = n /\ DOMAIN s = 1 .. n
  BY <1>1, <1>2
<1>4. ASSUME NEW c \in S PROVE \E i \in 1 .. n : s[i] = c
  <2> DEFINE i == Rank(R, S, c) + 1
  <2>1. i \in 1 .. n /\ Rank(R, S, c) = i - 1
    BY <1>1, RankRises
  <2> HIDE DEF i
  <2>2. s[i] \in S /\ Rank(R, S, s[i]) = Rank(R, S, c)
    BY <2>1
  <2>3. s[i] = c
    <3>1. Rank(R, S, c) \in Int
      BY <1>1, RankRises
    <3>2. <<s[i], c>> \notin R /\ <<c, s[i]>> \notin R
      BY <2>2, <3>1, RankRises
    <3> QED
      BY <2>2, <3>2 DEF Orders
  <2> QED
    BY <2>1, <2>3
<1>5. ASSUME NEW i \in 1 .. n, NEW j \in 1 .. n, i < j
      PROVE  <<s[i], s[j]>> \in R
  <2>1. s[i] \in S /\ s[j] \in S /\ Rank(R, S, s[i]) = i - 1 /\ Rank(R, S, s[j]) = j - 1
    OBVIOUS
  <2>2. s[i] # s[j]
    BY <1>1, <1>5, <2>1
  <2>3. <<s[j], s[i]>> \notin R
    <3>1. ASSUME <<s[j], s[i]>> \in R PROVE FALSE
      <4>1. Rank(R, S, s[j]) < Rank(R, S, s[i])
        BY <2>1, <3>1, RankRises
      <4> QED
        BY <1>1, <1>5, <2>1, <4>1
    <3> QED
      BY <3>1
  <2> QED
    BY <2>1, <2>2, <2>3 DEF Orders
<1> QED
  BY <1>3, <1>4, <1>5 DEF InOrder

-----------------------------------------------------------------------------
(* Ratios, compared by cross-multiplication.                               *)

LEMMA ProductsRise ==
  ASSUME NEW a \in Int, NEW b \in Int, NEW k \in Nat \ {0}
  PROVE  /\ a > b <=> k * a > k * b
         /\ a >= b <=> k * a >= k * b
<1> DEFINE T == {m \in Nat : m > 0 => (a > b => m * a > m * b) /\ (a = b => m * a = m * b)
                                     /\ (a < b => m * a < m * b)}
<1>1. 0 \in T
  OBVIOUS
<1>2. ASSUME NEW m \in T PROVE m + 1 \in T
  <2>1. (m + 1) * a = m * a + a /\ (m + 1) * b = m * b + b
    OBVIOUS
  <2>2. m * a \in Int /\ m * b \in Int
    OBVIOUS
  <2>3. CASE m = 0
    BY <2>1, <2>3
  <2>4. CASE m # 0
    BY <2>1, <2>2, <2>4
  <2> QED
    BY <2>3, <2>4
<1>3. T = Nat
  <2> HIDE DEF T
  <2> QED
    BY <1>1, <1>2, NatInductionOnSets DEF T
<1>4. k \in T
  BY <1>3
<1> QED
  BY <1>4

\* a/x against c/z by way of b/y.
LEMMA RatiosCompose ==
  ASSUME NEW a \in Nat, NEW b \in Nat, NEW c \in Nat,
         NEW x \in Nat \ {0}, NEW y \in Nat \ {0}, NEW z \in Nat \ {0}
  PROVE  /\ a * y > b * x /\ b * z >= c * y => a * z > c * x
         /\ a * y >= b * x /\ b * z > c * y => a * z > c * x
         /\ a * y >= b * x /\ b * z >= c * y => a * z >= c * x
<1> DEFINE p == a * y
           q == b * x
           r == b * z
           s == c * y
           u == a * z
           v == c * x
<1>1. /\ p \in Int /\ q \in Int /\ r \in Int /\ s \in Int /\ u \in Int /\ v \in Int
  OBVIOUS
<1>2. /\ z * p = y * u /\ z * q = x * r /\ x * s = y * v
  OBVIOUS
<1> HIDE DEF p, q, r, s, u, v
<1>3. /\ z * p \in Int /\ z * q \in Int /\ x * r \in Int /\ x * s \in Int
      /\ y * u \in Int /\ y * v \in Int
  BY <1>1
<1>4. /\ (p > q <=> z * p > z * q) /\ (p >= q <=> z * p >= z * q)
  BY <1>1, ProductsRise
<1>5. /\ (r > s <=> x * r > x * s) /\ (r >= s <=> x * r >= x * s)
  BY <1>1, ProductsRise
<1>6. /\ (u > v <=> y * u > y * v) /\ (u >= v <=> y * u >= y * v)
  BY <1>1, ProductsRise
<1>7. /\ p > q /\ r >= s => u > v
      /\ p >= q /\ r > s => u > v
      /\ p >= q /\ r >= s => u >= v
  BY <1>2, <1>3, <1>4, <1>5, <1>6
<1> QED
  BY <1>7 DEF p, q, r, s, u, v

-----------------------------------------------------------------------------
(* Sums over finite sets.                                                  *)

\* What MapThenSumSet makes of f on the set s, given what it makes of the
\* smaller ones.
OneMore(g, f, s) ==
  IF s = {} THEN 0 ELSE f[CHOOSE x \in s : TRUE] + g[s \ {CHOOSE x \in s : TRUE}]

\* g gives the sum of f over each subset of S.
Sums(g, f, S) == g = [s \in SUBSET S |-> OneMore(g, f, s)]

\* The sum of f over S.
Total(f, S) == (CHOOSE g : Sums(g, f, S))[S]

LEMMA Smaller ==
  ASSUME NEW s, IsFiniteSet(s), s # {}
  PROVE  LET x == CHOOSE x \in s : TRUE
         IN  /\ x \in s /\ IsFiniteSet(s \ {x}) /\ Cardinality(s) \in Nat
             /\ Cardinality(s \ {x}) \in Nat /\ Cardinality(s \ {x}) + 1 = Cardinality(s)
<1> DEFINE x == CHOOSE x \in s : TRUE
<1>1. x \in s
  OBVIOUS
<1> HIDE DEF x
<1>2. IsFiniteSet(s \ {x}) /\ Cardinality(s \ {x}) = Cardinality(s) - 1
  BY <1>1, FS_RemoveElement
<1>3. Cardinality(s) \in Nat /\ Cardinality(s \ {x}) \in Nat
  BY <1>2, FS_CardinalityType
<1> QED
  BY <1>1, <1>2, <1>3 DEF x

LEMMA SumsExist ==
  ASSUME NEW S, IsFiniteSet(S), NEW f
  PROVE  \E g : Sums(g, f, S)
<1> DEFINE Partly(h, n) == /\ h = [s \in SUBSET S |-> h[s]]
                           /\ \A s \in SUBSET S : Cardinality(s) <= n => h[s] = OneMore(h, f, s)
           T == {n \in Nat : \E h : Partly(h, n)}
<1>1. \A s \in SUBSET S : IsFiniteSet(s) /\ Cardinality(s) \in Nat
  BY FS_Subset, FS_CardinalityType
<1>2. 0 \in T
  <2> DEFINE h == [s \in SUBSET S |-> 0]
  <2>1. \A s \in SUBSET S : Cardinality(s) <= 0 => s = {}
    BY <1>1, FS_EmptySet
  <2>2. Partly(h, 0)
    BY <2>1 DEF OneMore
  <2>3. \E l : Partly(l, 0)
    BY <2>2
  <2> HIDE DEF Partly
  <2> QED
    BY <2>3
<1>3. ASSUME NEW n \in T PROVE n + 1 \in T
  <2>1. PICK h : Partly(h, n)
    OBVIOUS
  <2> DEFINE k == [s \in SUBSET S |-> IF Cardinality(s) <= n THEN h[s] ELSE OneMore(h, f, s)]
  <2>2. ASSUME NEW s \in SUBSET S, Cardinality(s) <= n + 1 PROVE k[s] = OneMore(k, f, s)
    <3>1. CASE s = {}
      <4>1. h[s] = OneMore(h, f, s) \/ ~ (Cardinality(s) <= n)
        BY <2>1
      <4> QED
        BY <3>1, <4>1 DEF OneMore
    <3>2. CASE s # {}
      <4> DEFINE x == CHOOSE x \in s : TRUE
                 r == s \ {x}
      <4>1. /\ r \in SUBSET S /\ Cardinality(r) \in Nat /\ Cardinality(s) \in Nat
            /\ Cardinality(r) + 1 = Cardinality(s)
        BY <1>1, <3>2, Smaller
      <4> HIDE DEF r
      <4>2. Cardinality(r) <= n
        BY <2>2, <4>1
      <4>3. k[r] = h[r]
        BY <4>1, <4>2
      <4>4. k[s] = OneMore(h, f, s)
        BY <2>1
      <4>5. OneMore(h, f, s) = f[x] + h[r] /\ OneMore(k, f, s) = f[x] + k[r]
        <5> HIDE DEF k
        <5> QED
          BY <3>2 DEF OneMore, r
      <4> QED
        BY <4>3, <4>4, <4>5
    <3> QED
      BY <3>1, <3>2
  <2>3. k = [s \in SUBSET S |-> k[s]]
    OBVIOUS
  <2> HIDE DEF k
  <2>4. Partly(k, n + 1)
    BY <2>2, <2>3
  <2>5. \E l : Partly(l, n + 1)
    BY <2>4
  <2> HIDE DEF Partly
  <2> QED
    BY <2>5
<1>4. T = Nat
  <2> HIDE DEF T
  <2> QED
    BY <1>2, <1>3, NatInductionOnSets DEF T
<1>5. Cardinality(S) \in Nat
  BY FS_CardinalityType
<1>6. PICK h : Partly(h, Cardinality(S))
  BY <1>4, <1>5
<1>7. \A s \in SUBSET S : Cardinality(s) <= Cardinality(S)
  BY FS_Subset
<1>8. Sums(h, f, S)
  BY <1>6, <1>7 DEF Sums
<1> QED
  BY <1>8

\* The sum over s depends on nothing but the values of f on s.
LEMMA SumsAgree ==
  ASSUME NEW S, NEW f, NEW g, Sums(g, f, S), NEW T, NEW e, NEW h, Sums(h, e, T),
         NEW s, s \subseteq S, s \subseteq T, IsFiniteSet(s), \A x \in s : f[x] = e[x]
  PROVE  g[s] = h[s]
<1> DEFINE N == {n \in Nat : \A r \in SUBSET s : Cardinality(r) = n => g[r] = h[r]}
<1>1. \A r \in SUBSET s : IsFiniteSet(r) /\ Cardinality(r) \in Nat
  BY FS_Subset, FS_CardinalityType
<1>2. ASSUME NEW r \in SUBSET s PROVE g[r] = OneMore(g, f, r) /\ h[r] = OneMore(h, e, r)
  <2>1. r \in SUBSET S /\ r \in SUBSET T
    OBVIOUS
  <2> QED
    BY <2>1 DEF Sums
<1>3. 0 \in N
  <2>1. \A r \in SUBSET s : Cardinality(r) = 0 => r = {}
    BY <1>1, FS_EmptySet
  <2> QED
    BY <1>2, <2>1 DEF OneMore
<1>4. ASSUME NEW n \in N PROVE n + 1 \in N
  <2> SUFFICES ASSUME NEW r \in SUBSET s, Cardinality(r) = n + 1 PROVE g[r] = h[r]
    OBVIOUS
  <2>0. n \in Nat
    OBVIOUS
  <2>1. r # {}
    <3>1. Cardinality({}) = 0 /\ n + 1 # 0
      BY <2>0, FS_EmptySet
    <3> HIDE DEF N
    <3> QED
      BY <3>1
  <2> DEFINE x == CHOOSE x \in r : TRUE
             q == r \ {x}
  <2>2. /\ x \in r /\ q \in SUBSET s /\ Cardinality(q) \in Nat /\ Cardinality(q) + 1 = Cardinality(r)
    BY <1>1, <2>1, Smaller
  <2>3. g[r] = f[x] + g[q] /\ h[r] = e[x] + h[q]
    BY <1>2, <2>1 DEF OneMore
  <2> HIDE DEF q, x
  <2>4. Cardinality(q) = n
    BY <2>2
  <2>5. g[q] = h[q] /\ f[x] = e[x]
    BY <2>2, <2>4
  <2> QED
    BY <2>3, <2>5
<1>5. N = Nat
  <2> HIDE DEF N
  <2> QED
    BY <1>3, <1>4, NatInductionOnSets DEF N
<1> QED
  BY <1>1, <1>5

\* One element more, whichever it is.
LEMMA SumsAdd ==
  ASSUME NEW S, IsFiniteSet(S), NEW f, \A x \in S : f[x] \in Int, NEW g, Sums(g, f, S)
  PROVE  /\ g[{}] = 0
         /\ \A s \in SUBSET S : g[s] \in Int /\ \A x \in S \ s : g[s \cup {x}] = f[x] + g[s]
<1> DEFINE N == {n \in Nat : \A s \in SUBSET S : Cardinality(s) = n =>
                   g[s] \in Int /\ \A x \in S \ s : g[s \cup {x}] = f[x] + g[s]}
<1>1. \A s \in SUBSET S : IsFiniteSet(s) /\ Cardinality(s) \in Nat
  BY FS_Subset, FS_CardinalityType
<1>2. \A s \in SUBSET S : g[s] = OneMore(g, f, s)
  BY DEF Sums
<1>3. g[{}] = 0
  BY <1>2 DEF OneMore
<1>4. 0 \in N
  <2>1. \A s \in SUBSET S : Cardinality(s) = 0 => s = {}
    BY <1>1, FS_EmptySet
  <2>2. ASSUME NEW x \in S PROVE g[{} \cup {x}] = f[x] + g[{}]
    <3>1. {x} # {} /\ (CHOOSE y \in {x} : TRUE) = x /\ {x} \ {x} = {} /\ {} \cup {x} = {x}
      OBVIOUS
    <3> QED
      BY <1>2, <3>1 DEF OneMore
  <2>3. ASSUME NEW s \in SUBSET S, Cardinality(s) = 0
        PROVE  g[s] \in Int /\ \A x \in S \ s : g[s \cup {x}] = f[x] + g[s]
    <3>1. s = {}
      BY <2>1, <2>3
    <3>2. g[{}] \in Int
      BY <1>3
    <3>3. \A x \in S \ {} : g[{} \cup {x}] = f[x] + g[{}]
      BY <2>2
    <3> HIDE DEF N
    <3> QED
      BY <3>1, <3>2, <3>3
  <2> QED
    BY <2>3
<1>5. ASSUME NEW n \in N PROVE n + 1 \in N
  <2> SUFFICES ASSUME NEW s \in SUBSET S, Cardinality(s) = n + 1
               PROVE  g[s] \in Int /\ \A x \in S \ s : g[s \cup {x}] = f[x] + g[s]
    OBVIOUS
  <2>0. n \in Nat
    OBVIOUS
  <2>1. s # {}
    <3>1. Cardinality({}) = 0 /\ n + 1 # 0
      BY <2>0, FS_EmptySet
    <3> HIDE DEF N
    <3> QED
      BY <3>1
  <2>2. ASSUME NEW y \in s
        PROVE  /\ s \ {y} \in SUBSET S /\ y \in S \ (s \ {y}) /\ g[s \ {y}] \in Int
               /\ \A x \in S \ (s \ {y}) : g[(s \ {y}) \cup {x}] = f[x] + g[s \ {y}]
    <3>1. Cardinality(s \ {y}) = Cardinality(s) - 1
      BY <1>1, FS_RemoveElement
    <3>2. Cardinality(s \ {y}) = n
      BY <3>1
    <3> QED
      BY <3>2
  <2>3. ASSUME NEW y \in s PROVE g[s] = f[y] + g[s \ {y}]
    <3>1. (s \ {y}) \cup {y} = s
      OBVIOUS
    <3> QED
      BY <2>2, <3>1
  <2>4. g[s] \in Int
    <3>1. PICK y : y \in s
      BY <2>1
    <3>2. g[s] = f[y] + g[s \ {y}] /\ g[s \ {y}] \in Int /\ f[y] \in Int
      BY <2>2, <2>3, <3>1
    <3> QED
      BY <3>2
  <2>5. ASSUME NEW x \in S \ s PROVE g[s \cup {x}] = f[x] + g[s]
    <3> DEFINE u == s \cup {x}
               y == CHOOSE y \in u : TRUE
    <3>1. u # {} /\ y \in u /\ u \in SUBSET S
      OBVIOUS
    <3>2. g[u] = f[y] + g[u \ {y}]
      BY <1>2, <3>1 DEF OneMore
    <3> HIDE DEF y
    <3>3. CASE y = x
      <4>1. u \ {x} = s
        OBVIOUS
      <4> QED
        BY <3>2, <3>3, <4>1
    <3>4. CASE y \in s
      <4>1. u \ {y} = (s \ {y}) \cup {x} /\ x \in S \ (s \ {y})
        BY <3>4
      <4>2. /\ g[(s \ {y}) \cup {x}] = f[x] + g[s \ {y}] /\ g[s] = f[y] + g[s \ {y}]
            /\ g[s \ {y}] \in Int /\ f[x] \in Int /\ f[y] \in Int
        BY <2>2, <2>3, <3>4, <4>1
      <4> HIDE DEF u
      <4>3. g[u] = f[y] + (f[x] + g[s \ {y}])
        BY <3>2, <4>1, <4>2
      <4>4. g[u] = f[x] + g[s]
        BY <4>2, <4>3
      <4> QED
        BY <4>4 DEF u
    <3> QED
      BY <3>1, <3>3, <3>4
  <2> QED
    BY <2>4, <2>5
<1>6. N = Nat
  <2> HIDE DEF N
  <2> QED
    BY <1>4, <1>5, NatInductionOnSets DEF N
<1> QED
  BY <1>1, <1>3, <1>6

\* A family of subsets that holds one of them and can always be continued
\* holds the whole set.
LEMMA SubsetInduction ==
  ASSUME NEW S, IsFiniteSet(S), NEW T \in SUBSET SUBSET S, NEW A \in T,
         \A s \in T : \A x \in S \ s : s \cup {x} \in T
  PROVE  S \in T
<1> DEFINE N == {n \in Nat : \A s \in T : Cardinality(S \ s) = n => S \in T}
<1>1. \A s \in SUBSET S : IsFiniteSet(S \ s) /\ Cardinality(S \ s) \in Nat
  <2>1. \A s \in SUBSET S : S \ s \in SUBSET S
    OBVIOUS
  <2> QED
    BY <2>1, FS_Subset, FS_CardinalityType
<1>2. 0 \in N
  <2> SUFFICES ASSUME NEW s \in T, Cardinality(S \ s) = 0 PROVE S \in T
    OBVIOUS
  <2>1. S \ s = {}
    BY <1>1, FS_EmptySet
  <2>2. s = S
    BY <2>1
  <2> QED
    BY <2>2
<1>3. ASSUME NEW n \in N PROVE n + 1 \in N
  <2>1. n \in Nat
    OBVIOUS
  <2> SUFFICES ASSUME NEW s \in T, Cardinality(S \ s) = n + 1 PROVE S \in T
    OBVIOUS
  <2>2. S \ s # {}
    <3>1. Cardinality({}) = 0 /\ n + 1 # 0
      BY <2>1, FS_EmptySet
    <3> HIDE DEF N
    <3> QED
      BY <3>1
  <2>3. PICK x \in S \ s : TRUE
    BY <2>2
  <2> DEFINE u == s \cup {x}
  <2>4. u \in T /\ S \ u = (S \ s) \ {x}
    BY <2>3
  <2>5. Cardinality((S \ s) \ {x}) = Cardinality(S \ s) - 1
    <3> DEFINE r == S \ s
    <3>1. IsFiniteSet(r) /\ x \in r
      BY <1>1, <2>3
    <3> HIDE DEF r
    <3>2. Cardinality(r \ {x}) = Cardinality(r) - 1
      BY <3>1, FS_RemoveElement
    <3> QED
      BY <3>2 DEF r
  <2>6. Cardinality(S \ u) = n
    <3> HIDE DEF u, N
    <3>1. Cardinality(S \ u) = (n + 1) - 1
      BY <2>4, <2>5
    <3> QED
      BY <2>1, <3>1
  <2> HIDE DEF u
  <2> QED
    BY <2>4, <2>6
<1>4. N = Nat
  <2> HIDE DEF N
  <2> QED
    BY <1>2, <1>3, NatInductionOnSets DEF N
<1> QED
  BY <1>1, <1>4

LEMMA TotalIs ==
  ASSUME NEW S, IsFiniteSet(S), NEW f, NEW g, Sums(g, f, S)
  PROVE  g[S] = Total(f, S)
<1> DEFINE h == CHOOSE l : Sums(l, f, S)
<1>1. Sums(h, f, S)
  OBVIOUS
<1> HIDE DEF h
<1>2. g[S] = h[S]
  BY <1>1, SumsAgree
<1> QED
  BY <1>2 DEF Total, h

LEMMA TotalAgrees ==
  ASSUME NEW S, IsFiniteSet(S), NEW f, NEW e, \A x \in S : f[x] = e[x]
  PROVE  Total(f, S) = Total(e, S)
<1>1. PICK g : Sums(g, f, S)
  BY SumsExist
<1>2. PICK h : Sums(h, e, S)
  BY SumsExist
<1>3. g[S] = h[S]
  BY <1>1, <1>2, SumsAgree
<1> QED
  BY <1>1, <1>2, <1>3, TotalIs

LEMMA TotalAdd ==
  ASSUME NEW S, IsFiniteSet(S), NEW x, x \notin S, NEW f, \A y \in S \cup {x} : f[y] \in Int
  PROVE  Total(f, S) \in Int /\ Total(f, S \cup {x}) = f[x] + Total(f, S)
<1> DEFINE U == S \cup {x}
<1>1. IsFiniteSet(U) /\ S \in SUBSET U /\ x \in U \ S
  BY FS_AddElement
<1> HIDE DEF U
<1>2. PICK g : Sums(g, f, U)
  BY <1>1, SumsExist
<1>3. PICK h : Sums(h, f, S)
  BY SumsExist
<1>4. g[S] = h[S]
  BY <1>1, <1>2, <1>3, SumsAgree
<1>5. g[S] \in Int /\ g[S \cup {x}] = f[x] + g[S]
  <2>1. \A y \in U : f[y] \in Int
    BY DEF U
  <2> QED
    BY <1>1, <1>2, <2>1, SumsAdd
<1>6. g[U] = Total(f, U) /\ h[S] = Total(f, S)
  BY <1>1, <1>2, <1>3, TotalIs
<1> QED
  BY <1>4, <1>5, <1>6 DEF U

LEMMA TotalNothing == \A f : Total(f, {}) = 0
<1> SUFFICES ASSUME NEW f PROVE Total(f, {}) = 0
  OBVIOUS
<1>1. IsFiniteSet({})
  BY FS_EmptySet
<1>2. PICK g : Sums(g, f, {})
  BY <1>1, SumsExist
<1>3. g[{}] = 0
  BY <1>2 DEF Sums, OneMore
<1> QED
  BY <1>1, <1>2, <1>3, TotalIs

LEMMA TotalInt ==
  ASSUME NEW S, IsFiniteSet(S), NEW f, \A x \in S : f[x] \in Int
  PROVE  Total(f, S) \in Int
<1>1. PICK g : Sums(g, f, S)
  BY SumsExist
<1>2. g[S] \in Int
  BY <1>1, SumsAdd
<1> QED
  BY <1>1, <1>2, TotalIs

\* Sums of naturals grow with the set.
LEMMA TotalGrows ==
  ASSUME NEW S, IsFiniteSet(S), NEW A \in SUBSET S, NEW f, \A x \in S : f[x] \in Nat
  PROVE  Total(f, A) \in Nat /\ Total(f, S) \in Nat /\ Total(f, A) <= Total(f, S)
<1>1. ASSUME NEW B \in SUBSET S, NEW x \in S \ B
      PROVE  Total(f, B) \in Int /\ Total(f, B \cup {x}) = f[x] + Total(f, B) /\ f[x] \in Nat
  <2>1. IsFiniteSet(B) /\ x \notin B /\ \A y \in B \cup {x} : f[y] \in Int
    BY FS_Subset
  <2> QED
    BY <2>1, TotalAdd
<1>2. IsFiniteSet(A)
  BY FS_Subset
<1>3. Total(f, A) \in Nat
  <2> DEFINE T == {B \in SUBSET A : Total(f, B) \in Nat}
  <2>1. {} \in T
    BY TotalNothing
  <2>2. ASSUME NEW B \in T, NEW x \in A \ B PROVE B \cup {x} \in T
    <3>1. Total(f, B) \in Nat /\ Total(f, B \cup {x}) = f[x] + Total(f, B) /\ f[x] \in Nat
      BY <1>1
    <3>2. Total(f, B \cup {x}) \in Nat
      BY <3>1
    <3> QED
      BY <3>2
  <2>3. T \in SUBSET SUBSET A
    OBVIOUS
  <2> HIDE DEF T
  <2>4. A \in T
    BY <1>2, <2>1, <2>2, <2>3, SubsetInduction
  <2> QED
    BY <2>4 DEF T
<1>4. Total(f, S) \in Nat /\ Total(f, A) <= Total(f, S)
  <2> DEFINE T == {B \in SUBSET S : Total(f, B) \in Nat /\ Total(f, A) <= Total(f, B)}
  <2>1. A \in T
    BY <1>3
  <2>2. ASSUME NEW B \in T, NEW x \in S \ B PROVE B \cup {x} \in T
    <3>1. /\ Total(f, B) \in Nat /\ Total(f, B \cup {x}) = f[x] + Total(f, B) /\ f[x] \in Nat
          /\ Total(f, A) <= Total(f, B)
      BY <1>1
    <3>2. Total(f, B \cup {x}) \in Nat /\ Total(f, A) <= Total(f, B \cup {x})
      BY <1>3, <3>1
    <3> QED
      BY <3>2
  <2>3. T \in SUBSET SUBSET S
    OBVIOUS
  <2> HIDE DEF T
  <2>4. S \in T
    BY <2>1, <2>2, <2>3, SubsetInduction
  <2> QED
    BY <2>4 DEF T
<1> QED
  BY <1>3, <1>4

\* Sums of smaller numbers are smaller.
LEMMA TotalLess ==
  ASSUME NEW S, IsFiniteSet(S), NEW f, NEW e,
         \A x \in S : f[x] \in Int /\ e[x] \in Int /\ f[x] <= e[x]
  PROVE  Total(f, S) <= Total(e, S)
<1> DEFINE T == {B \in SUBSET S : Total(f, B) <= Total(e, B)}
<1>1. {} \in T
  BY TotalNothing
<1>2. ASSUME NEW B \in T, NEW x \in S \ B PROVE B \cup {x} \in T
  <2>1. IsFiniteSet(B) /\ x \notin B
    BY FS_Subset
  <2>2. \A y \in B \cup {x} : f[y] \in Int /\ e[y] \in Int
    OBVIOUS
  <2>3. /\ Total(f, B) \in Int /\ Total(f, B \cup {x}) = f[x] + Total(f, B)
        /\ Total(e, B) \in Int /\ Total(e, B \cup {x}) = e[x] + Total(e, B)
    BY <2>1, <2>2, TotalAdd
  <2>4. Total(f, B) <= Total(e, B) /\ f[x] \in Int /\ e[x] \in Int /\ f[x] <= e[x]
    OBVIOUS
  <2>5. Total(f, B \cup {x}) <= Total(e, B \cup {x})
    BY <2>3, <2>4
  <2> QED
    BY <2>5
<1>3. T \in SUBSET SUBSET S
  OBVIOUS
<1> HIDE DEF T
<1>4. S \in T
  BY <1>1, <1>2, <1>3, SubsetInduction
<1> QED
  BY <1>4 DEF T

\* At most so much for each element.
LEMMA TotalAtMost ==
  ASSUME NEW S, IsFiniteSet(S), NEW f, NEW m \in Nat, \A x \in S : f[x] \in Int /\ f[x] <= m
  PROVE  Total(f, S) <= m * Cardinality(S)
<1> DEFINE T == {B \in SUBSET S : Total(f, B) <= m * Cardinality(B)}
<1>1. {} \in T
  <2>1. Total(f, {}) = 0 /\ Cardinality({}) = 0
    BY TotalNothing, FS_EmptySet
  <2>2. Total(f, {}) <= m * Cardinality({})
    BY <2>1
  <2> QED
    BY <2>2
<1>2. ASSUME NEW B \in T, NEW x \in S \ B PROVE B \cup {x} \in T
  <2>1. IsFiniteSet(B) /\ x \notin B
    BY FS_Subset
  <2>2. \A y \in B \cup {x} : f[y] \in Int
    OBVIOUS
  <2>3. Total(f, B) \in Int /\ Total(f, B \cup {x}) = f[x] + Total(f, B)
    BY <2>1, <2>2, TotalAdd
  <2> DEFINE n == Cardinality(B)
             k == Cardinality(B \cup {x})
  <2>4. n \in Nat /\ k = n + 1
    BY <2>1, FS_AddElement, FS_CardinalityType
  <2>5. Total(f, B) <= m * n /\ f[x] \in Int /\ f[x] <= m
    OBVIOUS
  <2> HIDE DEF n, k
  <2>6. m * k = m * n + m /\ m * n \in Int
    BY <2>4
  <2>7. Total(f, B \cup {x}) <= m * k
    BY <2>3, <2>5, <2>6
  <2> QED
    BY <2>7 DEF k
<1>3. T \in SUBSET SUBSET S
  OBVIOUS
<1> HIDE DEF T
<1>4. S \in T
  BY <1>1, <1>2, <1>3, SubsetInduction
<1> QED
  BY <1>4 DEF T

\* Elements that count 0 need not be counted.
LEMMA TotalOfPart ==
  ASSUME NEW S, IsFiniteSet(S), NEW A \in SUBSET S, NEW f,
         \A x \in A : f[x] \in Int, \A x \in S \ A : f[x] = 0
  PROVE  Total(f, S) = Total(f, A)
<1> DEFINE T == {B \in SUBSET S : A \subseteq B /\ Total(f, B) = Total(f, A)}
<1>1. A \in T
  OBVIOUS
<1>2. ASSUME NEW B \in T, NEW x \in S \ B PROVE B \cup {x} \in T
  <2>1. IsFiniteSet(B) /\ x \notin B /\ x \notin A /\ A \subseteq B
    BY FS_Subset
  <2>2. \A y \in B \cup {x} : f[y] \in Int
    OBVIOUS
  <2>3. Total(f, B) \in Int /\ Total(f, B \cup {x}) = f[x] + Total(f, B)
    BY <2>1, <2>2, TotalAdd
  <2>4. f[x] = 0 /\ Total(f, B) = Total(f, A)
    BY <2>1
  <2>5. Total(f, B \cup {x}) = Total(f, A)
    BY <2>3, <2>4
  <2> QED
    BY <2>1, <2>5
<1>3. T \in SUBSET SUBSET S
  OBVIOUS
<1> HIDE DEF T
<1>4. S \in T
  BY <1>1, <1>2, <1>3, SubsetInduction
<1> QED
  BY <1>4 DEF T

\* Sums of sums and multiples.
LEMMA TotalCombines ==
  ASSUME NEW S, IsFiniteSet(S), NEW f, NEW e, NEW m \in Int, NEW k,
         \A x \in S : f[x] \in Int /\ e[x] \in Int /\ k[x] = f[x] + m * e[x]
  PROVE  /\ Total(f, S) \in Int /\ Total(e, S) \in Int
         /\ Total(k, S) = Total(f, S) + m * Total(e, S)
<1> DEFINE T == {B \in SUBSET S : /\ Total(f, B) \in Int /\ Total(e, B) \in Int
                                  /\ Total(k, B) = Total(f, B) + m * Total(e, B)}
<1>1. {} \in T
  <2>1. Total(f, {}) = 0 /\ Total(e, {}) = 0 /\ Total(k, {}) = 0
    BY TotalNothing
  <2>2. 0 = 0 + m * 0
    OBVIOUS
  <2> QED
    BY <2>1, <2>2
<1>2. ASSUME NEW B \in T, NEW x \in S \ B PROVE B \cup {x} \in T
  <2>1. IsFiniteSet(B) /\ x \notin B
    BY FS_Subset
  <2>2. \A y \in B \cup {x} : f[y] \in Int /\ e[y] \in Int /\ k[y] \in Int
    OBVIOUS
  <2>3. /\ Total(f, B) \in Int /\ Total(f, B \cup {x}) = f[x] + Total(f, B)
        /\ Total(e, B) \in Int /\ Total(e, B \cup {x}) = e[x] + Total(e, B)
        /\ Total(k, B) \in Int /\ Total(k, B \cup {x}) = k[x] + Total(k, B)
    BY <2>1, <2>2, TotalAdd
  <2> DEFINE a == f[x]
             b == e[x]
             tf == Total(f, B)
             te == Total(e, B)
  <2>4. a \in Int /\ b \in Int /\ k[x] = a + m * b /\ Total(k, B) = tf + m * te
    OBVIOUS
  <2>5. tf \in Int /\ te \in Int
    BY <2>3
  <2> HIDE DEF a, b, tf, te
  <2>6. (a + m * b) + (tf + m * te) = (a + tf) + m * (b + te)
    BY <2>4, <2>5
  <2>7. a + tf \in Int /\ b + te \in Int
    BY <2>4, <2>5
  <2>8. /\ Total(f, B \cup {x}) = a + tf /\ Total(e, B \cup {x}) = b + te
        /\ Total(k, B \cup {x}) = (a + m * b) + (tf + m * te)
    BY <2>3, <2>4 DEF a, b, tf, te
  <2> QED
    BY <2>6, <2>7, <2>8
<1>3. T \in SUBSET SUBSET S
  OBVIOUS
<1> HIDE DEF T
<1>4. S \in T
  BY <1>1, <1>2, <1>3, SubsetInduction
<1> QED
  BY <1>4 DEF T

\* A sum is the sum of those of a part and of the rest.
LEMMA TotalSplit ==
  ASSUME NEW S, IsFiniteSet(S), NEW A \in SUBSET S, NEW f, \A x \in S : f[x] \in Int
  PROVE  /\ Total(f, A) \in Int /\ Total(f, S \ A) \in Int
         /\ Total(f, S) = Total(f, A) + Total(f, S \ A)
<1> DEFINE B == S \ A
           a == [x \in S |-> IF x \in A THEN f[x] ELSE 0]
           b == [x \in S |-> IF x \in A THEN 0 ELSE f[x]]
<1>1. IsFiniteSet(A) /\ IsFiniteSet(B) /\ B \in SUBSET S /\ S \ B = A
  BY FS_Subset
<1>2. /\ \A x \in A : a[x] = f[x] /\ a[x] \in Int
      /\ \A x \in S \ A : a[x] = 0
      /\ \A x \in B : b[x] = f[x] /\ b[x] \in Int
      /\ \A x \in S \ B : b[x] = 0
      /\ \A x \in S : a[x] \in Int /\ b[x] \in Int /\ f[x] = a[x] + b[x]
  OBVIOUS
<1> HIDE DEF a, b
<1>3. Total(a, S) = Total(a, A) /\ Total(b, S) = Total(b, B)
  <2>1. Total(a, S) = Total(a, A)
    BY <1>2, TotalOfPart
  <2> HIDE DEF B
  <2>2. Total(b, S) = Total(b, B)
    BY <1>1, <1>2, TotalOfPart
  <2> QED
    BY <2>1, <2>2
<1>4. Total(a, A) = Total(f, A) /\ Total(b, B) = Total(f, B)
  <2> HIDE DEF B
  <2> QED
    BY <1>1, <1>2, TotalAgrees
<1>5. /\ Total(a, S) \in Int /\ Total(b, S) \in Int
      /\ Total(f, S) = Total(a, S) + Total(b, S)
  <2>1. PICK one \in Int : one = 1
    OBVIOUS
  <2>2. \A n \in Int : one * n = n
    BY <2>1
  <2>3. \A x \in S : a[x] \in Int /\ b[x] \in Int /\ f[x] = a[x] + one * b[x]
    BY <1>2, <2>2
  <2>4. one \in Int
    BY <2>1
  <2>5. /\ Total(a, S) \in Int /\ Total(b, S) \in Int
        /\ Total(f, S) = Total(a, S) + one * Total(b, S)
    BY <2>3, <2>4, TotalCombines
  <2> QED
    BY <2>2, <2>5
<1> QED
  BY <1>3, <1>4, <1>5

\* A sum over the image of an injection is one over its arguments.
LEMMA TotalOfImage ==
  ASSUME NEW S, IsFiniteSet(S), NEW h, \A x, y \in S : h[x] = h[y] => x = y,
         NEW f, NEW e, \A x \in S : f[x] \in Int /\ e[h[x]] = f[x]
  PROVE  /\ IsFiniteSet({h[x] : x \in S})
         /\ Total(e, {h[x] : x \in S}) = Total(f, S)
<1> DEFINE I(s) == {h[x] : x \in s}
           T == {s \in SUBSET S : IsFiniteSet(I(s)) /\ Total(e, I(s)) = Total(f, s)}
<1>1. {} \in T
  <2>1. I({}) = {}
    OBVIOUS
  <2> HIDE DEF I
  <2> QED
    BY <2>1, TotalNothing, FS_EmptySet
<1>2. ASSUME NEW s \in T, NEW x \in S \ s PROVE s \cup {x} \in T
  <2>1. I(s \cup {x}) = I(s) \cup {h[x]} /\ h[x] \notin I(s)
    OBVIOUS
  <2>2. /\ \A y \in I(s) \cup {h[x]} : e[y] \in Int
        /\ \A y \in s \cup {x} : f[y] \in Int
        /\ e[h[x]] = f[x] /\ x \notin s
    OBVIOUS
  <2>3. s \in SUBSET S /\ IsFiniteSet(I(s)) /\ Total(e, I(s)) = Total(f, s)
    OBVIOUS
  <2> HIDE DEF I
  <2>4. IsFiniteSet(s)
    BY <2>3, FS_Subset
  <2>5. Total(e, I(s) \cup {h[x]}) = e[h[x]] + Total(e, I(s))
    BY <2>1, <2>2, <2>3, TotalAdd
  <2>6. Total(f, s \cup {x}) = f[x] + Total(f, s)
    BY <2>2, <2>4, TotalAdd
  <2>7. IsFiniteSet(I(s) \cup {h[x]})
    BY <2>3, FS_AddElement
  <2> QED
    BY <2>1, <2>2, <2>3, <2>5, <2>6, <2>7
<1>3. T \in SUBSET SUBSET S
  OBVIOUS
<1> HIDE DEF T
<1>4. S \in T
  BY <1>1, <1>2, <1>3, SubsetInduction
<1> QED
  BY <1>4 DEF T

\* Disjoint sets have as many elements together as one by one.
LEMMA UnionCounts ==
  ASSUME NEW S, IsFiniteSet(S), NEW A, DOMAIN A = S, \A x \in S : IsFiniteSet(A[x]),
         \A x, y \in S : x # y => A[x] \cap A[y] = {},
         NEW f, \A x \in S : f[x] = Cardinality(A[x]),
         NEW union, union = UNION {A[x] : x \in S}
  PROVE  IsFiniteSet(union) /\ Cardinality(union) = Total(f, S)
<1> DEFINE U(s) == UNION {A[x] : x \in s}
           T == {s \in SUBSET S : IsFiniteSet(U(s)) /\ Cardinality(U(s)) = Total(f, s)}
<1>1. {} \in T
  <2>1. U({}) = {}
    OBVIOUS
  <2> HIDE DEF U
  <2> QED
    BY <2>1, TotalNothing, FS_EmptySet
<1>2. ASSUME NEW s \in T, NEW x \in S \ s PROVE s \cup {x} \in T
  <2>1. U(s \cup {x}) = U(s) \cup A[x] /\ U(s) \cap A[x] = {}
    OBVIOUS
  <2>2. s \in SUBSET S /\ IsFiniteSet(U(s)) /\ Cardinality(U(s)) = Total(f, s)
    OBVIOUS
  <2> HIDE DEF U
  <2>3. IsFiniteSet(A[x]) /\ f[x] = Cardinality(A[x]) /\ x \notin s
    OBVIOUS
  <2>4. \A y \in s \cup {x} : f[y] \in Int
    BY <2>2, FS_CardinalityType
  <2>5. Total(f, s) \in Int /\ Total(f, s \cup {x}) = f[x] + Total(f, s)
    <3>1. IsFiniteSet(s)
      BY <2>2, FS_Subset
    <3> QED
      BY <2>3, <2>4, <3>1, TotalAdd
  <2>6. /\ IsFiniteSet(U(s) \cup A[x])
        /\ Cardinality(U(s) \cup A[x]) = Cardinality(U(s)) + Cardinality(A[x]) - Cardinality({})
    <3> DEFINE u == U(s)
               a == A[x]
    <3>1. IsFiniteSet(u) /\ IsFiniteSet(a) /\ u \cap a = {}
      BY <2>1, <2>2, <2>3
    <3> HIDE DEF u, a
    <3>2. /\ IsFiniteSet(u \cup a)
          /\ Cardinality(u \cup a) = Cardinality(u) + Cardinality(a) - Cardinality(u \cap a)
      BY <3>1, FS_Union, Zenon
    <3> QED
      BY <3>1, <3>2 DEF u, a
  <2>7. f[x] \in Int
    BY <2>4
  <2>8. Cardinality(U(s) \cup A[x]) = f[x] + Total(f, s)
    BY <2>2, <2>3, <2>5, <2>6, <2>7, FS_EmptySet
  <2> QED
    BY <2>1, <2>2, <2>5, <2>6, <2>8
<1>3. T \in SUBSET SUBSET S
  OBVIOUS
<1> HIDE DEF T
<1>4. S \in T
  BY <1>1, <1>2, <1>3, SubsetInduction
<1> QED
  BY <1>4 DEF T

-----------------------------------------------------------------------------
(* Loops.                                                                  *)

\* The states that a loop goes through: n turns, of which the i-th is step[i].
IsRun(g, n, start, step) ==
  g = [i \in 0 .. n |-> IF i = 0 THEN start ELSE step[i][g[i-1]]]

LEMMA RunsExist ==
  ASSUME NEW n \in Nat, NEW X, NEW start \in X,
         NEW step, \A i \in 1 .. n : step[i] \in [X -> X]
  PROVE  \E g : IsRun(g, n, start, step) /\ \A i \in 0 .. n : g[i] \in X
<1> DEFINE Run(g, m) == IsRun(g, m, start, step) /\ \A i \in 0 .. m : g[i] \in X
           T == {m \in Nat : m <= n => \E g : Run(g, m)}
<1>1. 0 \in T
  <2>1. Run([i \in 0 .. 0 |-> start], 0)
    BY DEF IsRun
  <2> HIDE DEF Run
  <2> QED
    BY <2>1
<1>2. ASSUME NEW m \in T PROVE m + 1 \in T
  <2> SUFFICES ASSUME m + 1 <= n PROVE \E g : Run(g, m + 1)
    OBVIOUS
  <2>1. m \in Nat /\ m <= n
    OBVIOUS
  <2>2. PICK g : Run(g, m)
    BY <2>1
  <2> DEFINE h == [i \in 0 .. m+1 |-> IF i = m+1 THEN step[m+1][g[m]] ELSE g[i]]
  <2>3. h = [i \in 0 .. m+1 |-> h[i]]
    OBVIOUS
  <2>4. ASSUME NEW i \in 0 .. m+1 PROVE h[i] = IF i = 0 THEN start ELSE step[i][h[i-1]]
    <3>1. g = [j \in 0 .. m |-> IF j = 0 THEN start ELSE step[j][g[j-1]]]
      BY <2>2 DEF IsRun
    <3> HIDE DEF T, Run
    <3>2. CASE i = m + 1
      <4>1. h[i] = step[i][g[m]] /\ i # 0 /\ i - 1 = m /\ m \in 0 .. m+1 /\ m # m + 1
        BY <2>1, <3>2
      <4>2. h[m] = g[m]
        BY <4>1
      <4> QED
        BY <4>1, <4>2
    <3>3. CASE i # m + 1
      <4>1. i \in 0 .. m /\ h[i] = g[i]
        BY <2>1, <3>3
      <4>2. i # 0 => i - 1 \in 0 .. m+1 /\ i - 1 # m + 1
        BY <2>1, <4>1
      <4>3. i # 0 => h[i-1] = g[i-1]
        BY <4>2
      <4>4. g[i] = IF i = 0 THEN start ELSE step[i][g[i-1]]
        BY <3>1, <4>1
      <4> QED
        BY <4>1, <4>3, <4>4
    <3> QED
      BY <3>2, <3>3
  <2>5. step[m+1][g[m]] \in X
    <3>1. m + 1 \in 1 .. n /\ g[m] \in X
      BY <2>1, <2>2
    <3>2. step[m+1] \in [X -> X]
      BY <3>1
    <3> QED
      BY <3>1, <3>2
  <2>6. \A i \in 0 .. m+1 : h[i] \in X
    BY <2>1, <2>2, <2>5
  <2> HIDE DEF h
  <2>7. Run(h, m+1)
    BY <2>3, <2>4, <2>6 DEF IsRun
  <2> HIDE DEF Run
  <2> QED
    BY <2>7
<1>3. T = Nat
  <2> HIDE DEF T
  <2> QED
    BY <1>1, <1>2, NatInductionOnSets DEF T
<1>4. \E g : Run(g, n)
  <2> HIDE DEF Run
  <2> QED
    BY <1>3
<1> QED
  BY <1>4

\* The same turns lead to the same state.
LEMMA RunsAgree ==
  ASSUME NEW n \in Nat, NEW m \in Nat, NEW start, NEW step,
         NEW g, IsRun(g, n, start, step), NEW h, IsRun(h, m, start, step)
  PROVE  \A k \in Nat : k <= n /\ k <= m => g[k] = h[k]
<1> DEFINE T == {k \in Nat : k <= n /\ k <= m => g[k] = h[k]}
<1>1. /\ \A k \in 0 .. n : g[k] = IF k = 0 THEN start ELSE step[k][g[k-1]]
      /\ \A k \in 0 .. m : h[k] = IF k = 0 THEN start ELSE step[k][h[k-1]]
  BY DEF IsRun
<1>2. 0 \in T
  BY <1>1
<1>3. ASSUME NEW k \in T PROVE k + 1 \in T
  <2> SUFFICES ASSUME k + 1 <= n, k + 1 <= m PROVE g[k + 1] = h[k + 1]
    OBVIOUS
  <2>1. /\ k + 1 \in 0 .. n /\ k + 1 \in 0 .. m /\ k + 1 # 0 /\ (k + 1) - 1 = k
        /\ g[k] = h[k]
    OBVIOUS
  <2> HIDE DEF T
  <2> QED
    BY <1>1, <2>1
<1>4. T = Nat
  <2> HIDE DEF T
  <2> QED
    BY <1>2, <1>3, NatInductionOnSets DEF T
<1> QED
  BY <1>4

\* What each turn keeps holds throughout.
LEMMA StaysIn ==
  ASSUME NEW n \in Nat, NEW X, NEW h, h[0] \in X, \A i \in 1 .. n : h[i-1] \in X => h[i] \in X
  PROVE  \A i \in 0 .. n : h[i] \in X
<1> DEFINE T == {m \in Nat : m <= n => h[m] \in X}
<1>1. 0 \in T
  OBVIOUS
<1>2. ASSUME NEW m \in T PROVE m + 1 \in T
  <2> SUFFICES ASSUME m + 1 <= n PROVE h[m + 1] \in X
    OBVIOUS
  <2>1. m + 1 \in 1 .. n /\ (m + 1) - 1 = m /\ h[m] \in X
    OBVIOUS
  <2> HIDE DEF T
  <2> QED
    BY <2>1
<1>3. T = Nat
  <2> HIDE DEF T
  <2> QED
    BY <1>1, <1>2, NatInductionOnSets DEF T
<1>4. \A i \in 0 .. n : i \in T /\ i <= n
  BY <1>3
<1> QED
  BY <1>4

-----------------------------------------------------------------------------
(* Sorting.                                                                *)

LEMMA SortsInOrder ==
  ASSUME NEW S, IsFiniteSet(S), NEW R, Orders(R, S), NEW before,
         \A c \in S : before[c] = {d \in S : <<d, c>> \in R},
         NEW s, s = [i \in 1 .. Cardinality(S) |->
                       CHOOSE c \in S : Cardinality(before[c]) = i - 1]
  PROVE  InOrder(s, S, R)
<1> DEFINE n == Cardinality(S)
<1>1. \A c \in S : Rank(R, S, c) = Cardinality(before[c])
  BY DEF Rank
<1>2. \A i \in 1 .. n : \E c \in S : Cardinality(before[c]) = i - 1
  BY <1>1, RanksTaken
<1>3. \A i \in 1 .. n : s[i] \in S /\ Cardinality(before[s[i]]) = i - 1
  BY <1>2
<1>4. s = [i \in 1 .. n |-> s[i]]
  OBVIOUS
<1> QED
  BY <1>1, <1>3, <1>4, RanksOrder

\* The greater ratio first; among equal ones the smaller id.
RatioOrder(S, num, den, id) ==
  {x \in S \X S :
     \/ num[x[1]] * den[x[2]] > num[x[2]] * den[x[1]]
     \/ num[x[1]] * den[x[2]] = num[x[2]] * den[x[1]] /\ id[x[1]] < id[x[2]]}

LEMMA RatioOrderIsOrder ==
  ASSUME NEW S, NEW num \in [S -> Nat], NEW den \in [S -> Nat \ {0}], NEW id \in [S -> Nat],
         \A c, d \in S : id[c] = id[d] => c = d
  PROVE  Orders(RatioOrder(S, num, den, id), S)
<1> DEFINE R == RatioOrder(S, num, den, id)
<1>1. \A c, d \in S : <<c, d>> \in R <=> \/ num[c] * den[d] > num[d] * den[c]
                                         \/ num[c] * den[d] = num[d] * den[c] /\ id[c] < id[d]
  BY DEF RatioOrder
<1> HIDE DEF R
<1>2. \A c \in S : num[c] \in Nat /\ den[c] \in Nat \ {0} /\ id[c] \in Nat
  OBVIOUS
<1>3. \A c, d \in S : num[c] * den[d] \in Int
  BY <1>2
<1>4. ASSUME NEW c \in S PROVE <<c, c>> \notin R
  BY <1>1, <1>2, <1>3
<1>5. ASSUME NEW c \in S, NEW d \in S, c # d PROVE <<c, d>> \in R \/ <<d, c>> \in R
  <2>1. id[c] < id[d] \/ id[d] < id[c]
    BY <1>2, <1>5
  <2>2. num[c] * den[d] \in Int /\ num[d] * den[c] \in Int
    BY <1>3
  <2> QED
    BY <1>1, <2>1, <2>2
<1>6. ASSUME NEW a \in S, NEW b \in S, NEW c \in S, <<a, b>> \in R, <<b, c>> \in R
      PROVE  <<a, c>> \in R
  <2> DEFINE p == num[a] * den[b]
             q == num[b] * den[a]
             r == num[b] * den[c]
             s == num[c] * den[b]
             u == num[a] * den[c]
             v == num[c] * den[a]
  <2>1. /\ p \in Int /\ q \in Int /\ r \in Int /\ s \in Int /\ u \in Int /\ v \in Int
    BY <1>3
  <2>2. /\ p > q \/ (p = q /\ id[a] < id[b])
        /\ r > s \/ (r = s /\ id[b] < id[c])
    BY <1>1, <1>6
  <2>3. /\ p > q /\ r >= s => u > v
        /\ p >= q /\ r > s => u > v
        /\ p >= q /\ r >= s => u >= v
    BY <1>2, RatiosCompose
  <2>4. <<a, c>> \in R <=> u > v \/ (u = v /\ id[a] < id[c])
    BY <1>1
  <2>5. id[a] \in Nat /\ id[b] \in Nat /\ id[c] \in Nat
    BY <1>2
  <2> HIDE DEF p, q, r, s, u, v
  <2>6. u > v \/ (u = v /\ id[a] < id[c])
    BY <2>1, <2>2, <2>3, <2>5
  <2> QED
    BY <2>4, <2>6
<1> QED
  BY <1>4, <1>5, <1>6 DEF Orders, R
=============================================================================
