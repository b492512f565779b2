-------------------------- MODULE PolicyPlansProofs --------------------------
(***************************************************************************)
(* The plans of the policies, for every batch and every capacity: they fit *)
(* the pool, and each is the best of those it competes with.               *)
(***************************************************************************)
EXTENDS PolicyPlans, OrderFacts, SequenceTheorems

-----------------------------------------------------------------------------
(* Batches and what they add up to.                                        *)

\* Claims that are told apart by their ids.
Distinct(S) == S \subseteq ClaimType /\ \A c, d \in S : c.id = d.id => c = d

LEMMA BatchFacts ==
  ASSUME NEW b \in Batches
  PROVE  /\ Distinct(ToSet(b)) /\ IsFiniteSet(ToSet(b)) /\ Cardinality(ToSet(b)) <= Len(b)
         /\ Cardinality(ToSet(b)) \in Nat /\ Len(b) \in Nat /\ DOMAIN b = 1 .. Len(b)
         /\ \A i \in 1 .. Len(b) : b[i] \in ToSet(b) /\ b[i] \in ClaimType
         /\ \A i, j \in 1 .. Len(b) : b[i] = b[j] => i = j
         /\ \A c \in ToSet(b) : \E i \in 1 .. Len(b) : b[i] = c
<1>1. b \in Seq(ClaimType) /\ \A i, j \in DOMAIN b : b[i].id = b[j].id => i = j
  BY BatchAssumption
<1>2. Len(b) \in Nat /\ DOMAIN b = 1 .. Len(b) /\ \A i \in 1 .. Len(b) : b[i] \in ClaimType
  BY <1>1
<1>3. Distinct(ToSet(b))
  BY <1>1, <1>2 DEF Distinct, ToSet
<1>4. IsFiniteSet(ToSet(b)) /\ Cardinality(ToSet(b)) <= Len(b)
  <2> DEFINE f == [i \in 1 .. Len(b) |-> b[i]]
  <2>1. f \in Surjection(1 .. Len(b), ToSet(b))
    BY <1>2 DEF Surjection, ToSet
  <2>2. IsFiniteSet(1 .. Len(b)) /\ Cardinality(1 .. Len(b)) = Len(b)
    <3>1. 1 \in Int /\ Len(b) \in Int
      BY <1>2
    <3> QED
      BY <1>2, <3>1, FS_Interval
  <2> HIDE DEF f
  <2>3. IsFiniteSet(ToSet(b)) /\ Cardinality(ToSet(b)) <= Cardinality(1 .. Len(b))
    BY <2>1, <2>2, FS_Surjection
  <2> QED
    BY <2>2, <2>3
<1>5. Cardinality(ToSet(b)) \in Nat
  BY <1>4, FS_CardinalityType
<1>6. /\ \A i \in 1 .. Len(b) : b[i] \in ToSet(b)
      /\ \A c \in ToSet(b) : \E i \in 1 .. Len(b) : b[i] = c
  BY <1>2 DEF ToSet
<1> QED
  BY <1>1, <1>2, <1>3, <1>4, <1>5, <1>6

ThresholdOf == [c \in ClaimType |-> c.threshold]
WorthOf     == [c \in ClaimType |-> c.worth]
CountOf     == [c \in ClaimType |-> c.count]

\* Thresholds, Worth and Counts are sums.
LEMMA ClaimTotals ==
  ASSUME NEW S \in SUBSET ClaimType, IsFiniteSet(S)
  PROVE  /\ Thresholds(S) = Total(ThresholdOf, S) /\ Worth(S) = Total(WorthOf, S)
         /\ Counts(S) = Total(CountOf, S)
<1>1. Thresholds(S) = Total(ThresholdOf, S)
  <2> DEFINE Is(g) == g = [s \in SUBSET S |->
                 IF s = {} THEN 0
                 ELSE (CHOOSE x \in s : TRUE).threshold + g[s \ {CHOOSE x \in s : TRUE}]]
             h == CHOOSE g : Is(g)
  <2>1. ASSUME NEW g PROVE Is(g) <=> Sums(g, ThresholdOf, S)
    <3>1. \A s \in SUBSET S : s # {} =>
            (CHOOSE x \in s : TRUE).threshold = ThresholdOf[CHOOSE x \in s : TRUE]
      BY DEF ThresholdOf
    <3> QED
      BY <3>1 DEF Sums, OneMore
  <2>2. Thresholds(S) = h[S]
    BY DEF Thresholds, MapThenSumSet, MapThenFoldSet
  <2> HIDE DEF Is
  <2>3. PICK g : Sums(g, ThresholdOf, S)
    BY SumsExist
  <2>4. \E l : Is(l)
    BY <2>1, <2>3
  <2>5. Is(h)
    BY <2>4
  <2> HIDE DEF h
  <2>6. Sums(h, ThresholdOf, S)
    BY <2>1, <2>5
  <2> QED
    BY <2>2, <2>6, TotalIs
<1>2. Worth(S) = Total(WorthOf, S)
  <2> DEFINE Is(g) == g = [s \in SUBSET S |->
                 IF s = {} THEN 0
                 ELSE (CHOOSE x \in s : TRUE).worth + g[s \ {CHOOSE x \in s : TRUE}]]
             h == CHOOSE g : Is(g)
  <2>1. ASSUME NEW g PROVE Is(g) <=> Sums(g, WorthOf, S)
    <3>1. \A s \in SUBSET S : s # {} =>
            (CHOOSE x \in s : TRUE).worth = WorthOf[CHOOSE x \in s : TRUE]
      BY DEF WorthOf
    <3> QED
      BY <3>1 DEF Sums, OneMore
  <2>2. Worth(S) = h[S]
    BY DEF Worth, MapThenSumSet, MapThenFoldSet
  <2> HIDE DEF Is
  <2>3. PICK g : Sums(g, WorthOf, S)
    BY SumsExist
  <2>4. \E l : Is(l)
    BY <2>1, <2>3
  <2>5. Is(h)
    BY <2>4
  <2> HIDE DEF h
  <2>6. Sums(h, WorthOf, S)
    BY <2>1, <2>5
  <2> QED
    BY <2>2, <2>6, TotalIs
<1>3. Counts(S) = Total(CountOf, S)
  <2> DEFINE Is(g) == g = [s \in SUBSET S |->
                 IF s = {} THEN 0
                 ELSE (CHOOSE x \in s : TRUE).count + g[s \ {CHOOSE x \in s : TRUE}]]
             h == CHOOSE g : Is(g)
  <2>1. ASSUME NEW g PROVE Is(g) <=> Sums(g, CountOf, S)
    <3>1. \A s \in SUBSET S : s # {} =>
            (CHOOSE x \in s : TRUE).count = CountOf[CHOOSE x \in s : TRUE]
      BY DEF CountOf
    <3> QED
      BY <3>1 DEF Sums, OneMore
  <2>2. Counts(S) = h[S]
    BY DEF Counts, MapThenSumSet, MapThenFoldSet
  <2> HIDE DEF Is
  <2>3. PICK g : Sums(g, CountOf, S)
    BY SumsExist
  <2>4. \E l : Is(l)
    BY <2>1, <2>3
  <2>5. Is(h)
    BY <2>4
  <2> HIDE DEF h
  <2>6. Sums(h, CountOf, S)
    BY <2>1, <2>5
  <2> QED
    BY <2>2, <2>6, TotalIs
<1> QED
  BY <1>1, <1>2, <1>3

LEMMA ClaimFields ==
  /\ \A c \in ClaimType : /\ ThresholdOf[c] = c.threshold /\ WorthOf[c] = c.worth /\ CountOf[c] = c.count
                          /\ c.threshold \in Nat /\ c.worth \in Nat /\ c.count \in Nat /\ c.reuse \in Nat
                          /\ c.value \in Nat /\ c.id \in Nat /\ c.footprint \in Nat
  BY DEF ThresholdOf, WorthOf, CountOf, ClaimType

LEMMA NoThresholds == Thresholds({}) = 0 /\ Worth({}) = 0
<1>1. IsFiniteSet({}) /\ {} \in SUBSET ClaimType
  BY FS_EmptySet
<1> QED
  BY <1>1, ClaimTotals, TotalNothing

LEMMA OneThresholdMore ==
  ASSUME NEW S \in SUBSET ClaimType, IsFiniteSet(S), NEW c \in ClaimType, c \notin S
  PROVE  Thresholds(S) \in Nat /\ Thresholds(S \cup {c}) = c.threshold + Thresholds(S)
<1>1. IsFiniteSet(S \cup {c}) /\ S \cup {c} \in SUBSET ClaimType
  BY FS_AddElement
<1>2. \A d \in S \cup {c} : ThresholdOf[d] \in Int
  BY ClaimFields
<1>3. Total(ThresholdOf, S \cup {c}) = ThresholdOf[c] + Total(ThresholdOf, S)
  BY <1>2, TotalAdd
<1>4. Total(ThresholdOf, S) \in Nat
  <2>1. \A d \in S : ThresholdOf[d] \in Nat
    BY ClaimFields
  <2>2. S \in SUBSET S
    OBVIOUS
  <2> QED
    BY <2>1, <2>2, TotalGrows
<1> QED
  BY <1>1, <1>3, <1>4, ClaimTotals, ClaimFields

-----------------------------------------------------------------------------
(* Decisions.                                                              *)

LEMMA MinOfTwo ==
  ASSUME NEW a \in Nat, NEW b \in Nat
  PROVE  Min({a, b}) = IF a <= b THEN a ELSE b
<1> DEFINE m == IF a <= b THEN a ELSE b
<1>1. m \in {a, b} /\ \A y \in {a, b} : m <= y
  OBVIOUS
<1>2. \A x \in {a, b} : (\A y \in {a, b} : x <= y) => x = m
  OBVIOUS
<1> HIDE DEF m
<1>3. Min({a, b}) = m
  BY <1>1, <1>2 DEF Min
<1> QED
  BY <1>3 DEF m

LEMMA MinOfThree ==
  ASSUME NEW a \in Nat, NEW b \in Nat, NEW c \in Nat
  PROVE  Min({a, b, c}) \in Nat /\ Min({a, b, c}) <= a
<1> DEFINE M == {x \in {a, b, c} : \A y \in {a, b, c} : x <= y}
<1>1. \E x \in {a, b, c} : \A y \in {a, b, c} : x <= y
  <2>1. {a, b, c} \in SUBSET Nat /\ {a, b, c} # {}
    OBVIOUS
  <2> QED
    BY <2>1, LeastNatural
<1>2. Min({a, b, c}) \in {a, b, c} /\ \A y \in {a, b, c} : Min({a, b, c}) <= y
  BY <1>1 DEF Min
<1> QED
  BY <1>2

LEMMA AcceptFacts ==
  ASSUME NEW c \in ClaimType, NEW n \in Nat, NEW r
  PROVE  /\ AcceptLeading(c, n, r).blocks = IF n <= c.count THEN n ELSE c.count
         /\ AcceptLeading(c, n, r).reason = r
         /\ AcceptLeading(c, n, r).kind \in Accepting <=> AcceptLeading(c, n, r).blocks > 0
<1> DEFINE m == IF n <= c.count THEN n ELSE c.count
           kind == CASE m = 0 -> "refuse"
                     [] m > 0 /\ m >= c.footprint -> "accept"
                     [] OTHER -> "partial_accept"
<1>1. c.count \in Nat /\ c.footprint \in Nat
  BY ClaimFields
<1>2. m \in Nat /\ Min({n, c.count}) = m
  BY <1>1, MinOfTwo
<1>3. AcceptLeading(c, n, r) = [kind |-> kind, blocks |-> m, reason |-> r]
  <2> HIDE DEF m
  <2> QED
    BY <1>2 DEF AcceptLeading
<1> HIDE DEF m
<1>4. kind \in {"accept", "partial_accept"} <=> m > 0
  <2>1. CASE m = 0
    BY <2>1
  <2>2. CASE m > 0 /\ m >= c.footprint
    BY <2>2
  <2>3. CASE m > 0 /\ ~ (m >= c.footprint)
    BY <2>3
  <2> QED
    BY <1>2, <2>1, <2>2, <2>3
<1> HIDE DEF kind
<1> QED
  BY <1>3, <1>4 DEF Accepting, m

\* What a plan grants, claim by claim.
BlocksOf(p, S) == [c \in S |-> p[c].blocks]

LEMMA BlocksTotal ==
  ASSUME NEW S, IsFiniteSet(S)
  PROVE  Blocks(S) = Total(BlocksOf(plan, S), S)
<1> DEFINE f == BlocksOf(plan, S)
           Is(g) == g = [s \in SUBSET S |->
               IF s = {} THEN 0
               ELSE plan[CHOOSE x \in s : TRUE].blocks + g[s \ {CHOOSE x \in s : TRUE}]]
           h == CHOOSE g : Is(g)
<1>1. ASSUME NEW g PROVE Is(g) <=> Sums(g, f, S)
  <2>1. \A s \in SUBSET S : s # {} =>
          plan[CHOOSE x \in s : TRUE].blocks = f[CHOOSE x \in s : TRUE]
    BY DEF BlocksOf
  <2> HIDE DEF f
  <2> QED
    BY <2>1 DEF Sums, OneMore
<1>2. Blocks(S) = h[S]
  BY DEF Blocks, MapThenSumSet, MapThenFoldSet
<1> HIDE DEF Is, f
<1>3. PICK g : Sums(g, f, S)
  BY SumsExist
<1>4. \E l : Is(l)
  BY <1>1, <1>3
<1>5. Is(h)
  BY <1>4
<1> HIDE DEF h
<1>6. Sums(h, f, S)
  BY <1>1, <1>5
<1>7. h[S] = Total(f, S)
  BY <1>6, TotalIs
<1> QED
  BY <1>2, <1>7 DEF f

\* A plan that grants no claim more than its prefix has, and all of them no
\* more than the pool has.
Fits(p, b, cap) ==
  /\ \A c \in ToSet(b) : p[c].blocks \in Nat /\ p[c].blocks <= c.count
  /\ Total(BlocksOf(p, ToSet(b)), ToSet(b)) <= cap

\* Nothing granted fits.
LEMMA NoneGranted ==
  ASSUME NEW b \in Batches, NEW cap \in Nat, NEW p, \A c \in ToSet(b) : p[c].blocks = 0
  PROVE  Fits(p, b, cap)
<1> DEFINE S == ToSet(b)
           f == BlocksOf(p, S)
<1>1. IsFiniteSet(S) /\ {} \in SUBSET S
  BY BatchFacts
<1>2. \A c \in S \ {} : f[c] = 0
  BY DEF BlocksOf
<1>3. \A c \in {} : f[c] \in Int
  OBVIOUS
<1>4. \A c \in S : c.count \in Nat
  BY BatchFacts, ClaimFields DEF Distinct
<1> HIDE DEF S, f
<1>5. Total(f, S) = Total(f, {})
  BY <1>1, <1>2, <1>3, TotalOfPart
<1>6. Total(f, S) = 0
  BY <1>5, TotalNothing
<1>7. Total(f, S) <= cap
  BY <1>6
<1> QED
  BY <1>4, <1>7 DEF Fits, S, f

LEMMA NativeFits ==
  ASSUME NEW b \in Batches, NEW cap \in Nat
  PROVE  Fits(Native(b), b, cap)
<1>1. \A c \in ToSet(b) : Native(b)[c].blocks = 0
  BY DEF Native, FallbackNative, Refuse
<1> QED
  BY <1>1, NoneGranted

\* A share for each.
LEMMA NaiveFits ==
  ASSUME NEW b \in Batches, NEW cap \in Nat
  PROVE  Fits(IF b = << >> THEN << >> ELSE NaiveFairShare(b, cap), b, cap)
<1>1. CASE b = << >>
  <2>1. ToSet(b) = {}
    BY <1>1, BatchFacts
  <2> QED
    BY <1>1, <2>1, NoneGranted
<1>2. CASE b # << >>
  <2> DEFINE p == NaiveFairShare(b, cap)
             S == ToSet(b)
             n == Len(b)
             share == Share(b, cap)
  <2>1. /\ n \in Nat \ {0} /\ IsFiniteSet(S) /\ Cardinality(S) <= n /\ Cardinality(S) \in Nat
    <3>1. n # 0
      BY <1>2, BatchAssumption
    <3> QED
      BY <3>1, BatchFacts
  <2>2. share \in Nat /\ share * n <= cap
    <3> HIDE DEF n
    <3>1. share = cap \div n
      BY DEF Share, n
    <3> QED
      BY <2>1, <3>1
  <2>3. ASSUME NEW c \in S
        PROVE  p[c].blocks \in Nat /\ p[c].blocks <= c.count /\ p[c].blocks <= share
    <3> DEFINE m == Min({share, c.footprint, c.count})
    <3>1. c \in ClaimType /\ c.footprint \in Nat /\ c.count \in Nat
      BY BatchFacts, ClaimFields DEF Distinct
    <3> HIDE DEF share
    <3>2. m \in Nat /\ m <= share
      BY <2>2, <3>1, MinOfThree
    <3>3. p[c] = AcceptLeading(c, m, "equal_share")
      BY DEF NaiveFairShare, share
    <3> HIDE DEF m, p
    <3>4. p[c].blocks = IF m <= c.count THEN m ELSE c.count
      BY <3>1, <3>2, <3>3, AcceptFacts
    <3> QED
      BY <2>2, <3>1, <3>2, <3>4
  <2> DEFINE f == BlocksOf(p, S)
  <2>4. \A c \in S : f[c] \in Int /\ f[c] <= share
    BY <2>3 DEF BlocksOf
  <2> HIDE DEF f, share, S, n
  <2>5. Total(f, S) <= share * Cardinality(S)
    BY <2>1, <2>2, <2>4, TotalAtMost
  <2>6. share * Cardinality(S) <= share * n
    BY <2>1, <2>2
  <2>7. Total(f, S) \in Int
    BY <2>1, <2>4, TotalInt
  <2>8. Total(f, S) <= cap
    <3>1. share * Cardinality(S) \in Int /\ share * n \in Int
      BY <2>1, <2>2
    <3> QED
      BY <2>2, <2>5, <2>6, <2>7, <3>1
  <2> QED
    BY <1>2, <2>3, <2>8 DEF Fits, f, S
<1> QED
  BY <1>1, <1>2

-----------------------------------------------------------------------------
(* value_density.                                                          *)

Viables(b) == {c \in ToSet(b) : Viable(c)}

LEMMA ViablesFacts ==
  ASSUME NEW b \in Batches
  PROVE  /\ Distinct(Viables(b)) /\ IsFiniteSet(Viables(b)) /\ Viables(b) \in SUBSET ToSet(b)
         /\ Viables(b) \in SUBSET ClaimType
<1>1. Distinct(ToSet(b)) /\ IsFiniteSet(ToSet(b)) /\ Viables(b) \in SUBSET ToSet(b)
  BY BatchFacts DEF Viables
<1> QED
  BY <1>1, FS_Subset DEF Distinct

DensityOrder(S) == {x \in S \X S : ByDensity(x[1], x[2])}

LEMMA DensityOrderIsOrder ==
  ASSUME NEW S, Distinct(S)
  PROVE  Orders(DensityOrder(S), S)
<1> DEFINE num == [c \in S |-> c.value]
           den == [c \in S |-> AtLeast1(c.threshold)]
           id  == [c \in S |-> c.id]
<1>1. \A c \in S : c.value \in Nat /\ AtLeast1(c.threshold) \in Nat \ {0} /\ c.id \in Nat
  BY ClaimFields DEF Distinct, AtLeast1
<1>2. num \in [S -> Nat] /\ den \in [S -> Nat \ {0}] /\ id \in [S -> Nat]
  BY <1>1
<1>3. \A c, d \in S : id[c] = id[d] => c = d
  BY DEF Distinct
<1>4. ASSUME NEW c \in S, NEW d \in S
      PROVE  <<c, d>> \in DensityOrder(S) <=> <<c, d>> \in RatioOrder(S, num, den, id)
  <2> DEFINE p == num[c] * den[d]
             q == num[d] * den[c]
  <2>1. p \in Int /\ q \in Int
    BY <1>1
  <2>2. Denser(c, d) <=> p > q
    BY DEF Denser
  <2>3. Denser(d, c) <=> q > p
    BY DEF Denser
  <2>4. <<c, d>> \in DensityOrder(S) <=> Denser(c, d) \/ (~ Denser(d, c) /\ id[c] < id[d])
    BY DEF DensityOrder, ByDensity
  <2>5. <<c, d>> \in RatioOrder(S, num, den, id) <=> p > q \/ (p = q /\ id[c] < id[d])
    BY DEF RatioOrder
  <2> HIDE DEF p, q, id
  <2> QED
    BY <2>1, <2>2, <2>3, <2>4, <2>5
<1>5. DensityOrder(S) \subseteq S \X S /\ RatioOrder(S, num, den, id) \subseteq S \X S
  BY DEF DensityOrder, RatioOrder
<1> HIDE DEF num, den, id
<1>6. Orders(RatioOrder(S, num, den, id), S)
  BY <1>2, <1>3, RatioOrderIsOrder
<1> QED
  BY <1>4, <1>6 DEF Orders

\* s lists the elements of S once each, in the order R.
Lists(s, S, R) ==
  /\ Len(s) \in Nat /\ DOMAIN s = 1 .. Len(s)
  /\ \A i \in 1 .. Len(s) : s[i] \in S
  /\ \A c \in S : \E i \in 1 .. Len(s) : s[i] = c
  /\ \A i, j \in 1 .. Len(s) : s[i] = s[j] => i = j
  /\ \A i, j \in 1 .. Len(s) : i < j <=> <<s[i], s[j]>> \in R

LEMMA InOrderLists ==
  ASSUME NEW S, NEW R, Orders(R, S), NEW s, InOrder(s, S, R)
  PROVE  Lists(s, S, R)
<1>1. s \in Seq(S) /\ \A i, j \in DOMAIN s : i < j => <<s[i], s[j]>> \in R
  BY DEF InOrder
<1>2. Len(s) \in Nat /\ DOMAIN s = 1 .. Len(s) /\ \A i \in 1 .. Len(s) : s[i] \in S
  BY <1>1
<1>3. \A c \in S : \E i \in 1 .. Len(s) : s[i] = c
  BY <1>2 DEF InOrder
<1>4. ASSUME NEW i \in 1 .. Len(s), NEW j \in 1 .. Len(s), <<s[i], s[j]>> \in R PROVE i < j
  <2>1. ~ (j < i)
    <3>1. ASSUME j < i PROVE FALSE
      <4>1. <<s[j], s[i]>> \in R /\ s[i] \in S /\ s[j] \in S
        BY <1>1, <1>2, <3>1
      <4>2. <<s[i], s[i]>> \in R
        BY <1>4, <4>1 DEF Orders
      <4> QED
        BY <4>1, <4>2 DEF Orders
    <3> QED
      BY <3>1
  <2>2. i # j
    <3>1. s[i] \in S
      BY <1>2
    <3> QED
      BY <1>4, <3>1 DEF Orders
  <2> QED
    BY <1>2, <2>1, <2>2
<1>5. ASSUME NEW i \in 1 .. Len(s), NEW j \in 1 .. Len(s), s[i] = s[j] PROVE i = j
  <2>1. s[i] \in S /\ <<s[i], s[j]>> \notin R /\ <<s[j], s[i]>> \notin R
    BY <1>2, <1>5 DEF Orders
  <2>2. ~ (i < j) /\ ~ (j < i)
    BY <1>1, <1>2, <2>1
  <2> QED
    BY <1>2, <2>2
<1>6. \A i, j \in 1 .. Len(s) : i < j => <<s[i], s[j]>> \in R
  BY <1>1, <1>2
<1> QED
  BY <1>2, <1>3, <1>4, <1>5, <1>6 DEF Lists

\* The viable claims by density.
Densest(b) ==
  [i \in 1 .. Cardinality(Viables(b)) |->
     CHOOSE c \in Viables(b) : Cardinality({d \in Viables(b) : ByDensity(d, c)}) = i - 1]

LEMMA DensestListed ==
  ASSUME NEW b \in Batches
  PROVE  Lists(Densest(b), Viables(b), DensityOrder(Viables(b)))
<1> DEFINE S == Viables(b)
           R == DensityOrder(S)
           n == Cardinality(S)
           s == Densest(b)
           before == [c \in S |-> {d \in S : ByDensity(d, c)}]
           t == [i \in 1 .. n |-> CHOOSE c \in S : Cardinality(before[c]) = i - 1]
<1>1. Orders(R, S) /\ IsFiniteSet(S)
  BY DensityOrderIsOrder, ViablesFacts
<1>2. ASSUME NEW c \in S PROVE before[c] = {d \in S : <<d, c>> \in R}
  BY DEF DensityOrder
<1>3. s = t
  <2>1. \A c \in S : before[c] = {d \in S : ByDensity(d, c)}
    OBVIOUS
  <2>2. \A i \in 1 .. n : (CHOOSE c \in S : Cardinality(before[c]) = i - 1)
                       = (CHOOSE c \in S : Cardinality({d \in S : ByDensity(d, c)}) = i - 1)
    BY <2>1
  <2> HIDE DEF before
  <2> QED
    BY <2>2 DEF Densest
<1> HIDE DEF S, R, before, s
<1>4. InOrder(s, S, R)
  BY <1>1, <1>2, <1>3, SortsInOrder
<1> QED
  BY <1>1, <1>4, InOrderLists DEF S, R, s

\* got[i] is what value_density has after the i densest claims.
Takes(got, b, cap) ==
  LET s == Densest(b)
  IN  /\ got[0] = [remaining |-> cap, taken |-> {}]
      /\ \A i \in 1 .. Len(s) : got[i] = Take(got[i-1], s[i])
      /\ \A i \in 0 .. Len(s) : got[i] \in [remaining : Nat, taken : SUBSET Viables(b)]
      /\ ValueDensity(b, cap) =
           [c \in ToSet(b) |->
              CASE ~ Viable(c)            -> TooSmall
                [] c \in got[Len(s)].taken -> AcceptLeading(c, c.threshold, "value_density")
                [] OTHER                  -> Refuse("budget_full")]

LEMMA DensityTakes ==
  ASSUME NEW b \in Batches, NEW cap \in Nat
  PROVE  \E got : Takes(got, b, cap)
<1> DEFINE s == Densest(b)
           n == Len(s)
           start == [remaining |-> cap, taken |-> {}]
           X == [remaining : Nat, taken : SUBSET Viables(b)]
           Is(g) == g = [i \in 0 .. n |-> IF i = 0 THEN start ELSE Take(g[i-1], s[i])]
           h == CHOOSE g : Is(g)
           step == [i \in 1 .. n |-> [x \in X |-> Take(x, s[i])]]
<1>1. n \in Nat /\ \A i \in 1 .. n : s[i] \in Viables(b) /\ s[i].threshold \in Nat
  BY DensestListed, ViablesFacts, ClaimFields DEF Lists
<1>2. Pass(Take, start, s).taken = h[n].taken
  BY DEF Pass
<1>3. ValueDensity(b, cap) =
        [c \in ToSet(b) |->
           CASE ~ Viable(c) -> TooSmall
             [] c \in h[n].taken -> AcceptLeading(c, c.threshold, "value_density")
             [] OTHER -> Refuse("budget_full")]
  BY <1>2 DEF ValueDensity, Sorted, Viables, Densest
<1> HIDE DEF s, n
<1>4. start \in X
  OBVIOUS
<1>5. step \in [1 .. n -> [X -> X]]
  <2> SUFFICES ASSUME NEW i \in 1 .. n, NEW x \in X PROVE Take(x, s[i]) \in X
    OBVIOUS
  <2>1. CASE s[i].threshold <= x.remaining
    <3>1. x.remaining - s[i].threshold \in Nat /\ x.taken \cup {s[i]} \in SUBSET Viables(b)
      BY <1>1, <2>1
    <3> QED
      BY <2>1, <3>1 DEF Take
  <2>2. CASE ~ (s[i].threshold <= x.remaining)
    BY <2>2 DEF Take
  <2> QED
    BY <2>1, <2>2
<1>6. \E g : IsRun(g, n, start, step) /\ \A i \in 0 .. n : g[i] \in X
  <2> HIDE DEF start, X, step
  <2> QED
    BY <1>1, <1>4, <1>5, RunsExist
<1>7. PICK g : IsRun(g, n, start, step) /\ \A i \in 0 .. n : g[i] \in X
  BY <1>6
<1>8. Is(g)
  <2>1. \A i \in 0 .. n : i # 0 => i - 1 \in 0 .. n /\ i \in 1 .. n
    BY <1>1
  <2>2. \A i \in 0 .. n : i # 0 => step[i][g[i-1]] = Take(g[i-1], s[i])
    BY <1>7, <2>1
  <2> HIDE DEF start, X, step
  <2> QED
    BY <1>7, <2>2 DEF IsRun
<1>9. Is(h)
  <2> HIDE DEF Is
  <2> QED
    BY <1>8
<1> HIDE DEF h
<1>10. h[0] = start /\ \A i \in 1 .. n : h[i] = Take(h[i-1], s[i])
  <2> HIDE DEF start
  <2>1. 0 \in 0 .. n /\ \A i \in 1 .. n : i \in 0 .. n /\ i # 0
    BY <1>1
  <2> QED
    BY <1>9, <2>1
<1>11. \A i \in 0 .. n : h[i] \in X
  <2>1. \A i \in 1 .. n : h[i-1] \in X => h[i] \in X
    <3> SUFFICES ASSUME NEW i \in 1 .. n, h[i-1] \in X PROVE h[i] \in X
      OBVIOUS
    <3>1. step[i][h[i-1]] \in X /\ step[i][h[i-1]] = Take(h[i-1], s[i])
      <4>1. step[i] \in [X -> X] /\ step[i] = [x \in X |-> Take(x, s[i])]
        BY <1>5
      <4> HIDE DEF X, step
      <4> QED
        BY <4>1
    <3> QED
      BY <1>10, <3>1
  <2>2. h[0] \in X
    BY <1>4, <1>10
  <2> HIDE DEF X
  <2> QED
    BY <1>1, <2>1, <2>2, StaysIn
<1>12. Takes(h, b, cap)
  BY <1>3, <1>10, <1>11 DEF Takes, s, n
<1> QED
  BY <1>12

\* A plan that grants some viable claims their thresholds.
LEMMA GrantedThresholdsFit ==
  ASSUME NEW b \in Batches, NEW cap \in Nat, NEW A \in SUBSET Viables(b), Thresholds(A) <= cap,
         NEW p, \A c \in ToSet(b) : p[c].blocks = IF c \in A THEN c.threshold ELSE 0
  PROVE  Fits(p, b, cap)
<1> DEFINE S == ToSet(b)
           f == BlocksOf(p, S)
<1>1. IsFiniteSet(S) /\ A \in SUBSET S /\ A \in SUBSET ClaimType /\ IsFiniteSet(A)
  <2>1. A \in SUBSET S /\ A \in SUBSET ClaimType /\ IsFiniteSet(S)
    BY BatchFacts, ViablesFacts
  <2> QED
    BY <2>1, FS_Subset
<1>2. \A c \in S : f[c] = IF c \in A THEN c.threshold ELSE 0
  BY DEF BlocksOf
<1>3. \A c \in A : f[c] = ThresholdOf[c] /\ f[c] \in Int
  BY <1>1, <1>2, ClaimFields
<1>4. \A c \in S \ A : f[c] = 0
  BY <1>2
<1>5. \A c \in S : p[c].blocks \in Nat /\ p[c].blocks <= c.count
  <2>1. \A c \in S : c.count \in Nat /\ c.threshold \in Nat
    BY BatchFacts, ClaimFields DEF Distinct
  <2>2. \A c \in A : c.threshold <= c.count
    BY DEF Viables, Viable
  <2> QED
    BY <2>1, <2>2
<1> HIDE DEF S, f
<1>6. Total(f, S) = Total(f, A)
  BY <1>1, <1>3, <1>4, TotalOfPart
<1>7. Total(f, A) = Total(ThresholdOf, A)
  BY <1>1, <1>3, TotalAgrees
<1>8. Total(f, S) <= cap
  BY <1>1, <1>6, <1>7, ClaimTotals
<1> QED
  BY <1>5, <1>8 DEF Fits, S, f

\* What is left and what was taken after i claims.
LEMMA TakesFacts ==
  ASSUME NEW b \in Batches, NEW cap \in Nat, NEW got, Takes(got, b, cap)
  PROVE  \A i \in 0 .. Len(Densest(b)) :
           /\ got[i].remaining \in Nat /\ got[i].taken \in SUBSET Viables(b)
           /\ got[i].remaining + Thresholds(got[i].taken) = cap
           /\ \A k \in 1 .. Len(Densest(b)) :
                Densest(b)[k] \in got[i].taken
                  <=> k <= i /\ Densest(b)[k].threshold <= got[k-1].remaining
<1> DEFINE s == Densest(b)
           n == Len(s)
           V == Viables(b)
           Sum(i) == got[i].remaining + Thresholds(got[i].taken) = cap
           Which(i) == \A k \in 1 .. n : s[k] \in got[i].taken
                                           <=> k <= i /\ s[k].threshold <= got[k-1].remaining
           T == {i \in Nat : i <= n => Sum(i) /\ Which(i)}
<1>1. /\ n \in Nat /\ \A i \in 1 .. n : s[i] \in V
      /\ \A i, j \in 1 .. n : s[i] = s[j] => i = j
  BY DensestListed DEF Lists
<1>2. /\ got[0] = [remaining |-> cap, taken |-> {}]
      /\ \A i \in 1 .. n : got[i] = Take(got[i-1], s[i])
      /\ \A i \in 0 .. n : got[i] \in [remaining : Nat, taken : SUBSET V]
  BY DEF Takes
<1>3. V \in SUBSET ClaimType /\ IsFiniteSet(V)
  BY ViablesFacts
<1> HIDE DEF s, n, V
<1>4. \A i \in 0 .. n : got[i].remaining \in Nat /\ got[i].taken \in SUBSET V
  BY <1>2
<1>5. 0 \in T
  <2>1. Sum(0)
    BY <1>2, NoThresholds
  <2>2. Which(0)
    <3>1. \A k \in 1 .. n : ~ (k <= 0)
      BY <1>1
    <3>2. got[0].taken = {}
      BY <1>2
    <3> QED
      BY <3>1, <3>2
  <2> QED
    BY <2>1, <2>2
<1>6. ASSUME NEW m \in T PROVE m + 1 \in T
  <2> SUFFICES ASSUME m + 1 <= n PROVE Sum(m + 1) /\ Which(m + 1)
    OBVIOUS
  <2> DEFINE i == m + 1
             c == s[i]
  <2>1. m \in Nat /\ m <= n /\ m \in 0 .. n /\ i \in 1 .. n /\ i - 1 = m /\ i \in 0 .. n
    BY <1>1
  <2>2. Sum(m) /\ Which(m)
    BY <2>1
  <2>3. got[i] = Take(got[m], c) /\ c \in V
    BY <1>1, <1>2, <2>1
  <2>4. got[m].remaining \in Nat /\ got[m].taken \in SUBSET V
    BY <1>4, <2>1
  <2>5. c \notin got[m].taken
    <3>1. ~ (i <= m)
      BY <2>1
    <3> HIDE DEF T, Sum, i
    <3> QED
      BY <2>1, <2>2, <3>1
  <2>6. c.threshold \in Nat
    BY <1>3, <2>3, ClaimFields
  <2>7. CASE c.threshold <= got[m].remaining
    <3>1. got[i] = [remaining |-> got[m].remaining - c.threshold, taken |-> got[m].taken \cup {c}]
      BY <2>3, <2>7 DEF Take
    <3>2. /\ Thresholds(got[m].taken) \in Nat
          /\ Thresholds(got[m].taken \cup {c}) = c.threshold + Thresholds(got[m].taken)
      <4>1. got[m].taken \in SUBSET ClaimType /\ IsFiniteSet(got[m].taken) /\ c \in ClaimType
        BY <1>3, <2>3, <2>4, FS_Subset
      <4> QED
        BY <2>5, <4>1, OneThresholdMore
    <3> HIDE DEF T, i, c, Which
    <3>3. got[i].remaining = got[m].remaining - c.threshold /\ got[i].taken = got[m].taken \cup {c}
      BY <3>1
    <3>4. Sum(i)
      BY <2>2, <2>4, <2>6, <3>2, <3>3
    <3>5. Which(i)
      <4> SUFFICES ASSUME NEW k \in 1 .. n
                   PROVE  s[k] \in got[i].taken
                            <=> k <= i /\ s[k].threshold <= got[k-1].remaining
        BY DEF Which
      <4>1. CASE k = i
        <5>1. k <= i /\ s[k] = c /\ k - 1 = m
          BY <2>1, <4>1 DEF c
        <5> QED
          BY <2>7, <3>3, <5>1
      <4>2. CASE k # i
        <5>1. s[k] # c
          BY <1>1, <2>1, <4>2 DEF c
        <5>2. k <= i <=> k <= m
          BY <2>1, <4>2 DEF i
        <5> QED
          BY <2>2, <3>3, <5>1, <5>2 DEF Which
      <4> QED
        BY <4>1, <4>2
    <3> QED
      BY <3>4, <3>5 DEF i
  <2>8. CASE ~ (c.threshold <= got[m].remaining)
    <3>1. got[i] = got[m]
      BY <2>3, <2>8 DEF Take
    <3> HIDE DEF T, i, c, Which
    <3>2. Sum(i)
      BY <2>2, <3>1
    <3>3. Which(i)
      <4> SUFFICES ASSUME NEW k \in 1 .. n
                   PROVE  s[k] \in got[i].taken
                            <=> k <= i /\ s[k].threshold <= got[k-1].remaining
        BY DEF Which
      <4>1. CASE k = i
        <5>1. s[k] = c /\ k - 1 = m
          BY <2>1, <4>1 DEF c
        <5> QED
          BY <2>5, <2>8, <3>1, <5>1
      <4>2. CASE k # i
        <5>1. k <= i <=> k <= m
          BY <2>1, <4>2 DEF i
        <5> QED
          BY <2>2, <3>1, <5>1 DEF Which
      <4> QED
        BY <4>1, <4>2
    <3> QED
      BY <3>2, <3>3 DEF i
  <2> QED
    BY <2>7, <2>8
<1>7. T = Nat
  <2> HIDE DEF T
  <2> QED
    BY <1>5, <1>6, NatInductionOnSets DEF T
<1>8. \A i \in 0 .. n : Sum(i) /\ Which(i)
  <2>1. \A i \in 0 .. n : i \in T /\ i <= n
    BY <1>7
  <2> HIDE DEF Sum, Which
  <2> QED
    BY <2>1
<1> QED
  BY <1>4, <1>8 DEF s, n, V

\* The decision on each claim.
LEMMA DensityDecides ==
  ASSUME NEW b \in Batches, NEW cap \in Nat, NEW got, Takes(got, b, cap), NEW c \in ToSet(b)
  PROVE  LET d == ValueDensity(b, cap)[c]
             taken == got[Len(Densest(b))].taken
         IN  /\ d.blocks = IF c \in taken THEN c.threshold ELSE 0
             /\ d.kind \in Accepting <=> c \in taken /\ c.threshold > 0
<1> DEFINE d == ValueDensity(b, cap)[c]
           taken == got[Len(Densest(b))].taken
<1>1. c \in ClaimType /\ c.threshold \in Nat /\ c.count \in Nat
  BY BatchFacts, ClaimFields DEF Distinct
<1>2. taken \in SUBSET Viables(b)
  <2>1. Len(Densest(b)) \in 0 .. Len(Densest(b))
    BY DensestListed DEF Lists
  <2> QED
    BY <2>1, TakesFacts
<1>3. d = CASE ~ Viable(c) -> TooSmall
            [] c \in taken -> AcceptLeading(c, c.threshold, "value_density")
            [] OTHER       -> Refuse("budget_full")
  BY DEF Takes
<1> HIDE DEF d, taken
<1>4. CASE c \in taken
  <2>1. Viable(c) /\ c.threshold <= c.count
    BY <1>2, <1>4 DEF Viables, Viable
  <2>2. d = AcceptLeading(c, c.threshold, "value_density")
    BY <1>3, <1>4, <2>1
  <2>3. d.blocks = c.threshold /\ (d.kind \in Accepting <=> d.blocks > 0)
    BY <1>1, <2>1, <2>2, AcceptFacts
  <2> QED
    BY <1>4, <2>3 DEF d, taken
<1>5. CASE c \notin taken
  <2>1. d.blocks = 0 /\ d.kind = "refuse"
    <3>1. d = TooSmall \/ d = Refuse("budget_full")
      BY <1>3, <1>5
    <3> QED
      BY <3>1 DEF TooSmall, Refuse
  <2> QED
    BY <1>5, <2>1 DEF d, taken, Accepting
<1> QED
  BY <1>4, <1>5

LEMMA DensityFits ==
  ASSUME NEW b \in Batches, NEW cap \in Nat
  PROVE  Fits(ValueDensity(b, cap), b, cap)
<1>1. PICK got : Takes(got, b, cap)
  BY DensityTakes
<1> DEFINE A == got[Len(Densest(b))].taken
           p == ValueDensity(b, cap)
<1>2. A \in SUBSET Viables(b) /\ Thresholds(A) <= cap
  <2> DEFINE n == Len(Densest(b))
  <2>1. n \in 0 .. n
    BY DensestListed DEF Lists
  <2>2. /\ got[n].remaining \in Nat /\ A \in SUBSET Viables(b)
        /\ got[n].remaining + Thresholds(A) = cap
    BY <1>1, <2>1, TakesFacts
  <2>3. Thresholds(A) \in Int
    <3>1. A \in SUBSET ClaimType /\ IsFiniteSet(A)
      BY <2>2, ViablesFacts, FS_Subset
    <3>2. \A c \in A : ThresholdOf[c] \in Int
      BY <3>1, ClaimFields
    <3> HIDE DEF A
    <3> QED
      BY <3>1, <3>2, ClaimTotals, TotalInt
  <2> HIDE DEF A
  <2> QED
    BY <2>2, <2>3
<1>3. \A c \in ToSet(b) : p[c].blocks = IF c \in A THEN c.threshold ELSE 0
  BY <1>1, DensityDecides
<1> HIDE DEF A, p
<1>4. Fits(p, b, cap)
  BY <1>2, <1>3, GrantedThresholdsFit
<1> QED
  BY <1>4 DEF p

\* A viable claim with a threshold is taken exactly if it fits beside those
\* taken before it.
LEMMA DensityTakesWhatFits ==
  ASSUME NEW b \in Batches, NEW cap \in Nat, NEW c \in ToSet(b), Viable(c), c.threshold > 0
  PROVE  LET p == ValueDensity(b, cap)
             taken == {d \in ToSet(b) : p[d].kind \in Accepting}
         IN  c \in taken <=> Thresholds({d \in taken : ByDensity(d, c)}) + c.threshold <= cap
<1> DEFINE p == ValueDensity(b, cap)
           taken == {d \in ToSet(b) : p[d].kind \in Accepting}
           s == Densest(b)
           n == Len(s)
           V == Viables(b)
<1>1. PICK got : Takes(got, b, cap)
  BY DensityTakes
<1>2. /\ n \in Nat /\ \A i \in 1 .. n : s[i] \in V
      /\ \A d \in V : \E i \in 1 .. n : s[i] = d
      /\ \A i, j \in 1 .. n : i < j <=> <<s[i], s[j]>> \in DensityOrder(V)
  BY DensestListed DEF Lists
<1>3. \A d, e \in V : <<d, e>> \in DensityOrder(V) <=> ByDensity(d, e)
  BY DEF DensityOrder
<1>4. /\ c \in V /\ V \in SUBSET ClaimType /\ IsFiniteSet(V) /\ V \in SUBSET ToSet(b)
      /\ c.threshold \in Nat
  BY ViablesFacts, ClaimFields DEF Viables
<1>5. \A i \in 0 .. n :
           /\ got[i].remaining \in Nat /\ got[i].taken \in SUBSET V
           /\ got[i].remaining + Thresholds(got[i].taken) = cap
           /\ \A k \in 1 .. n : s[k] \in got[i].taken
                                  <=> k <= i /\ s[k].threshold <= got[k-1].remaining
  BY <1>1, TakesFacts
<1>6. \A d \in ToSet(b) : d \in taken <=> d \in got[n].taken /\ d.threshold > 0
  BY <1>1, DensityDecides
<1>7. taken \in SUBSET ToSet(b)
  OBVIOUS
<1>8. PICK k \in 1 .. n : s[k] = c
  BY <1>2, <1>4
<1> HIDE DEF taken, p, s, n, V
<1> DEFINE m == k - 1
           A == got[m].taken
           B == {d \in taken : ByDensity(d, c)}
<1>9. m \in 0 .. n /\ m < k /\ n \in 0 .. n /\ k <= n /\ k \in Nat
  BY <1>2
<1>10. c \in taken <=> c.threshold <= got[m].remaining
  <2>1. c \in got[n].taken <=> k <= n /\ s[k].threshold <= got[k-1].remaining
    BY <1>5, <1>8, <1>9
  <2>2. c \in ToSet(b)
    OBVIOUS
  <2> QED
    BY <1>6, <1>8, <1>9, <2>1, <2>2
<1>11. \A i \in 1 .. n : s[i] \in A <=> s[i] \in got[n].taken /\ ByDensity(s[i], c)
  <2> SUFFICES ASSUME NEW i \in 1 .. n
               PROVE  s[i] \in A <=> s[i] \in got[n].taken /\ ByDensity(s[i], c)
    OBVIOUS
  <2>1. ByDensity(s[i], c) <=> i < k
    BY <1>2, <1>3, <1>8
  <2>2. i < k <=> i <= m
    BY <1>9
  <2>3. s[i] \in A <=> i <= m /\ s[i].threshold <= got[i-1].remaining
    BY <1>5, <1>9
  <2>4. s[i] \in got[n].taken <=> i <= n /\ s[i].threshold <= got[i-1].remaining
    BY <1>5, <1>9
  <2>5. i <= n
    BY <1>2
  <2> HIDE DEF m, A
  <2> QED
    BY <2>1, <2>2, <2>3, <2>4, <2>5
<1>12. A \in SUBSET V /\ got[n].taken \in SUBSET V /\ got[m].remaining \in Nat
       /\ got[m].remaining + Thresholds(A) = cap
  BY <1>5, <1>9
<1>13. B \in SUBSET A /\ \A d \in A \ B : d.threshold = 0
  <2>1. ASSUME NEW d \in B PROVE d \in A
    <3>1. d \in got[n].taken /\ ByDensity(d, c)
      BY <1>6, <1>7
    <3>2. PICK i \in 1 .. n : s[i] = d
      BY <1>2, <1>12, <3>1
    <3> HIDE DEF A
    <3> QED
      BY <1>11, <3>1, <3>2
  <2>2. ASSUME NEW d \in A, d \notin B PROVE d.threshold = 0
    <3>1. PICK i \in 1 .. n : s[i] = d
      BY <1>2, <1>12
    <3>2. d \in got[n].taken /\ ByDensity(d, c) /\ d \in ToSet(b)
      BY <1>4, <1>11, <1>12, <3>1
    <3>3. d \notin taken
      BY <2>2, <3>2
    <3>4. d.threshold \in Nat
      BY <1>4, <1>12, ClaimFields
    <3> QED
      BY <1>6, <3>2, <3>3, <3>4
  <2> QED
    BY <2>1, <2>2
<1>14. Thresholds(B) = Thresholds(A) /\ Thresholds(A) \in Int
  <2>1. A \in SUBSET ClaimType /\ IsFiniteSet(A) /\ B \in SUBSET ClaimType /\ IsFiniteSet(B)
    <3> HIDE DEF A, B
    <3> QED
      BY <1>4, <1>12, <1>13, FS_Subset
  <2> HIDE DEF A, B
  <2>2. \A d \in A : ThresholdOf[d] \in Int
    BY <2>1, ClaimFields
  <2>3. \A d \in B : ThresholdOf[d] \in Int
    BY <2>1, ClaimFields
  <2>4. \A d \in A \ B : ThresholdOf[d] = 0
    BY <1>13, <2>1, ClaimFields
  <2>5. Total(ThresholdOf, A) = Total(ThresholdOf, B)
    BY <1>13, <2>1, <2>3, <2>4, TotalOfPart
  <2> QED
    BY <2>1, <2>2, <2>5, ClaimTotals, TotalInt
<1> HIDE DEF A, B, m
<1>15. c \in taken <=> Thresholds(B) + c.threshold <= cap
  BY <1>4, <1>10, <1>12, <1>14
<1> QED
  BY <1>15 DEF B, taken, p

-----------------------------------------------------------------------------
(* complete_prefix_oracle.                                                 *)

\* q lists viable claims, all of them.
OfViables(q, b) ==
  /\ Len(q) \in Nat /\ DOMAIN q = 1 .. Len(q)
  /\ \A i \in 1 .. Len(q) : q[i] \in Viables(b)
  /\ \A c \in Viables(b) : \E i \in 1 .. Len(q) : q[i] = c

LEMMA CandidatesListed ==
  ASSUME NEW b \in Batches
  PROVE  OfViables(Candidates(b), b)
<1> DEFINE n == Len(b)
           V == Viables(b)
           turn(found, c) == IF Viable(c) THEN Append(found, c) ELSE found
           Is(g) == g = [i \in 0 .. n |-> IF i = 0 THEN << >> ELSE turn(g[i-1], b[i])]
           h == CHOOSE g : Is(g)
           X == Seq(V)
           step == [i \in 1 .. n |-> [x \in X |-> turn(x, b[i])]]
<1>1. n \in Nat /\ \A i \in 1 .. n : Viable(b[i]) => b[i] \in V
  BY BatchFacts DEF Viables
<1>2. Candidates(b) = h[n]
  BY DEF Candidates, Pass
<1>3. \A c \in V : Viable(c) /\ \E i \in 1 .. n : b[i] = c
  BY BatchFacts DEF Viables
<1> HIDE DEF n, V
<1>4. << >> \in X
  OBVIOUS
<1>5. ASSUME NEW i \in 1 .. n, NEW x \in X PROVE turn(x, b[i]) \in X
  BY <1>1
<1> HIDE DEF turn
<1>6. \A i \in 1 .. n : step[i] \in [X -> X]
  BY <1>5
<1>7. PICK g : IsRun(g, n, << >>, step) /\ \A i \in 0 .. n : g[i] \in X
  <2>1. \E g : IsRun(g, n, << >>, step) /\ \A i \in 0 .. n : g[i] \in X
    <3> HIDE DEF X, step
    <3> QED
      BY <1>1, <1>4, <1>6, RunsExist
  <2> QED
    BY <2>1
<1>8. Is(g)
  <2>1. \A i \in 0 .. n : i # 0 => i - 1 \in 0 .. n /\ i \in 1 .. n
    BY <1>1
  <2> HIDE DEF X
  <2>2. \A i \in 0 .. n : i # 0 => step[i][g[i-1]] = turn(g[i-1], b[i])
    BY <1>7, <2>1
  <2> HIDE DEF step
  <2> QED
    BY <1>7, <2>2 DEF IsRun
<1>9. Is(h)
  <2> HIDE DEF Is
  <2> QED
    BY <1>8
<1> HIDE DEF h
<1>10. h[0] = << >> /\ \A i \in 1 .. n : h[i] = turn(h[i-1], b[i])
  <2>1. 0 \in 0 .. n /\ \A i \in 1 .. n : i \in 0 .. n /\ i # 0
    BY <1>1
  <2> QED
    BY <1>9, <2>1
<1>11. \A i \in 0 .. n : h[i] \in X
  <2>1. \A i \in 1 .. n : h[i-1] \in X => h[i] \in X
    BY <1>5, <1>10
  <2> HIDE DEF X
  <2> QED
    BY <1>1, <1>4, <1>10, <2>1, StaysIn
<1> DEFINE Found(q, m) == \A k \in 1 .. n : k <= m /\ Viable(b[k]) =>
                            \E i \in 1 .. Len(q) : q[i] = b[k]
           T == {m \in Nat : m <= n => Found(h[m], m)}
<1>12. 0 \in T
  <2>1. \A k \in 1 .. n : ~ (k <= 0)
    BY <1>1
  <2> QED
    BY <2>1
<1>13. ASSUME NEW m \in T PROVE m + 1 \in T
  <2> SUFFICES ASSUME m + 1 <= n PROVE Found(h[m + 1], m + 1)
    OBVIOUS
  <2> DEFINE i == m + 1
             q == h[m]
             c == b[i]
  <2>1. /\ m \in Nat /\ i \in 1 .. n /\ i - 1 = m /\ m \in 0 .. n
        /\ Found(q, m)
    BY <1>1
  <2>2. q \in Seq(V) /\ h[i] = IF Viable(c) THEN Append(q, c) ELSE q
    BY <1>10, <1>11, <2>1 DEF turn
  <2>3. \A k \in 1 .. n : k <= i => k <= m \/ k = i
    BY <2>1
  <2> HIDE DEF T, i, q
  <2>4. Found(h[i], i)
    <3>1. CASE Viable(c)
      <4>1. c \in V /\ h[i] = Append(q, c)
        BY <1>1, <2>1, <2>2, <3>1
      <4>2. /\ Len(q) \in Nat /\ Len(h[i]) = Len(q) + 1
            /\ h[i][Len(q) + 1] = c /\ \A k \in 1 .. Len(q) : h[i][k] = q[k]
        BY <2>2, <4>1
      <4>3. Len(q) + 1 \in 1 .. Len(h[i]) /\ \A k \in 1 .. Len(q) : k \in 1 .. Len(h[i])
        BY <4>2
      <4> QED
        BY <2>1, <2>3, <4>2, <4>3
    <3>2. CASE ~ Viable(c)
      BY <2>1, <2>2, <2>3, <3>2
    <3> QED
      BY <3>1, <3>2
  <2> HIDE DEF Found
  <2> QED
    BY <2>4 DEF i
<1>14. T = Nat
  <2> HIDE DEF T
  <2> QED
    BY <1>12, <1>13, NatInductionOnSets DEF T
<1>15. Found(h[n], n) /\ h[n] \in Seq(V)
  <2>1. n \in T /\ n <= n /\ n \in 0 .. n
    BY <1>1, <1>14
  <2> HIDE DEF Found
  <2> QED
    BY <1>11, <2>1
<1>16. \A c \in V : \E i \in 1 .. Len(h[n]) : h[n][i] = c
  <2>1. \A k \in 1 .. n : k <= n
    BY <1>1
  <2> QED
    BY <1>3, <1>15, <2>1
<1>17. /\ Len(h[n]) \in Nat /\ DOMAIN h[n] = 1 .. Len(h[n])
       /\ \A i \in 1 .. Len(h[n]) : h[n][i] \in V
  BY <1>15
<1> QED
  BY <1>2, <1>16, <1>17 DEF OfViables, V

LEMMA TwoToFacts ==
  TwoTo[0] = 1 /\ \A n \in Nat : TwoTo[n] \in Nat \ {0} /\ TwoTo[n+1] = 2 * TwoTo[n]
<1> DEFINE double == [x \in Nat |-> 2 * x]
           step == [i \in Nat |-> double]
           run(n) == CHOOSE g : IsRun(g, n, 1, step) /\ \A i \in 0 .. n : g[i] \in Nat
           p == [n \in Nat |-> run(n)[n]]
           Is(g) == g = [n \in Nat |-> IF n = 0 THEN 1 ELSE 2 * g[n-1]]
<1>1. ASSUME NEW n \in Nat
      PROVE  IsRun(run(n), n, 1, step) /\ \A i \in 0 .. n : run(n)[i] \in Nat
  <2>1. 1 \in Nat /\ \A i \in 1 .. n : step[i] \in [Nat -> Nat]
    OBVIOUS
  <2> HIDE DEF step
  <2>2. \E g : IsRun(g, n, 1, step) /\ \A i \in 0 .. n : g[i] \in Nat
    BY <2>1, RunsExist
  <2> QED
    BY <2>2
<1> HIDE DEF run
<1>2. p[0] = 1
  <2>1. 0 \in 0 .. 0 /\ 0 \in Nat
    OBVIOUS
  <2>2. run(0)[0] = 1
    BY <1>1, <2>1 DEF IsRun
  <2> QED
    BY <2>2
<1>3. ASSUME NEW n \in Nat PROVE p[n] \in Nat /\ p[n+1] = 2 * p[n]
  <2>1. n + 1 \in Nat /\ n + 1 \in 0 .. n + 1 /\ n + 1 # 0 /\ (n + 1) - 1 = n /\ n \in 0 .. n
        /\ n <= n /\ n <= n + 1
    OBVIOUS
  <2>2. run(n)[n] = run(n+1)[n]
    <3> HIDE DEF step
    <3> QED
      BY <1>1, <2>1, RunsAgree
  <2>3. run(n+1)[n+1] = step[n+1][run(n+1)[n]]
    <3> HIDE DEF step
    <3>1. IsRun(run(n+1), n+1, 1, step)
      BY <1>1, <2>1
    <3> QED
      BY <2>1, <3>1 DEF IsRun
  <2>4. run(n)[n] \in Nat
    BY <1>1, <2>1
  <2>5. step[n+1][run(n+1)[n]] = 2 * run(n+1)[n]
    BY <2>1, <2>2, <2>4
  <2>6. p[n] = run(n)[n] /\ p[n+1] = run(n+1)[n+1]
    BY <2>1
  <2> QED
    BY <2>2, <2>3, <2>4, <2>5, <2>6
<1>4. Is(p)
  <2>1. p = [n \in Nat |-> p[n]]
    OBVIOUS
  <2> HIDE DEF p
  <2>2. ASSUME NEW n \in Nat PROVE p[n] = IF n = 0 THEN 1 ELSE 2 * p[n-1]
    <3>1. CASE n = 0
      BY <1>2, <3>1
    <3>2. CASE n # 0
      <4>1. n - 1 \in Nat /\ (n - 1) + 1 = n
        BY <3>2
      <4>2. p[(n - 1) + 1] = 2 * p[n-1]
        BY <1>3, <4>1
      <4> QED
        BY <3>2, <4>1, <4>2
    <3> QED
      BY <3>1, <3>2
  <2> QED
    BY <2>1, <2>2
<1>5. TwoTo = CHOOSE g : Is(g)
  BY DEF TwoTo
<1> HIDE DEF p
<1>6. Is(TwoTo)
  <2> HIDE DEF Is
  <2> QED
    BY <1>4, <1>5
<1>7. TwoTo[0] = 1 /\ \A n \in Nat : TwoTo[n+1] = 2 * TwoTo[n]
  <2>1. \A n \in Nat : TwoTo[n] = IF n = 0 THEN 1 ELSE 2 * TwoTo[n-1]
    BY <1>6
  <2>2. \A n \in Nat : n + 1 \in Nat /\ n + 1 # 0 /\ (n + 1) - 1 = n
    OBVIOUS
  <2> HIDE DEF Is
  <2> QED
    BY <2>1, <2>2
<1> DEFINE T == {n \in Nat : TwoTo[n] \in Nat \ {0}}
<1>8. 0 \in T
  BY <1>7
<1>9. \A n \in T : n + 1 \in T
  BY <1>7
<1>10. T = Nat
  <2> HIDE DEF T
  <2> QED
    BY <1>8, <1>9, NatInductionOnSets DEF T
<1> QED
  BY <1>7, <1>10

\* Every choice of bits is a mask.
LEMMA EveryMask ==
  ASSUME NEW n \in Nat, NEW J \in SUBSET Nat
  PROVE  \E m \in 0 .. TwoTo[n] - 1 : \A j \in 1 .. n : (m \div TwoTo[j-1]) % 2 = 1 <=> j \in J
<1> DEFINE Has(k, K) == \E m \in 0 .. TwoTo[k] - 1 :
                          \A j \in 1 .. k : (m \div TwoTo[j-1]) % 2 = 1 <=> j \in K
           T == {k \in Nat : \A K \in SUBSET Nat : Has(k, K)}
<1>1. 0 \in T
  <2>1. 0 \in 0 .. TwoTo[0] - 1 /\ 1 .. 0 = {}
    BY TwoToFacts
  <2> QED
    BY <2>1
<1>2. ASSUME NEW k \in T PROVE k + 1 \in T
  <2> SUFFICES ASSUME NEW K \in SUBSET Nat PROVE Has(k + 1, K)
    OBVIOUS
  <2> DEFINE L == {j \in Nat : j + 1 \in K}
             bit == IF 1 \in K THEN 1 ELSE 0
  <2>1. k \in Nat /\ Has(k, L)
    OBVIOUS
  <2>2. PICK m \in 0 .. TwoTo[k] - 1 : \A j \in 1 .. k : (m \div TwoTo[j-1]) % 2 = 1 <=> j \in L
    BY <2>1
  <2> DEFINE r == 2 * m + bit
  <2>3. TwoTo[k] \in Nat \ {0} /\ TwoTo[k+1] = 2 * TwoTo[k] /\ bit \in {0, 1}
    BY <2>1, TwoToFacts
  <2>4. m \in Nat /\ r \in 0 .. TwoTo[k+1] - 1
    <3> HIDE DEF bit
    <3> QED
      BY <2>2, <2>3
  <2>5. ASSUME NEW j \in 1 .. k + 1 PROVE (r \div TwoTo[j-1]) % 2 = 1 <=> j \in K
    <3>1. CASE j = 1
      <4>1. TwoTo[j-1] = 1
        BY <3>1, TwoToFacts
      <4>2. (r \div 1) % 2 = bit
        <5> HIDE DEF bit
        <5> QED
          BY <2>3, <2>4
      <4> HIDE DEF r
      <4> QED
        BY <3>1, <4>1, <4>2
    <3>2. CASE j # 1
      <4> DEFINE i == j - 1
                 u == TwoTo[i-1]
      <4>1. i \in 1 .. k /\ i \in Nat /\ i - 1 \in Nat /\ (i - 1) + 1 = i /\ i + 1 = j
        BY <2>1, <3>2
      <4> HIDE DEF i
      <4>2. u \in Nat \ {0} /\ TwoTo[i] = 2 * u
        <5>1. TwoTo[(i - 1) + 1] = 2 * TwoTo[i-1] /\ TwoTo[i-1] \in Nat \ {0}
          BY <4>1, TwoToFacts
        <5> QED
          BY <4>1, <5>1
      <4> HIDE DEF u
      <4>3. r \div (2 * u) = m \div u
        <5> HIDE DEF bit
        <5> QED
          BY <2>3, <2>4, <4>2
      <4>4. (m \div u) % 2 = 1 <=> i \in L
        BY <2>2, <4>1 DEF u
      <4>5. i \in L <=> j \in K
        BY <4>1
      <4>6. TwoTo[j-1] = 2 * u
        BY <4>2 DEF i
      <4> HIDE DEF r, L
      <4> QED
        BY <4>3, <4>4, <4>5, <4>6
    <3> QED
      BY <3>1, <3>2
  <2> HIDE DEF r
  <2> QED
    BY <2>4, <2>5
<1>3. T = Nat
  <2> HIDE DEF T, Has
  <2>1. \A k \in T : k + 1 \in T
    BY <1>2
  <2> QED
    BY <1>1, <2>1, NatInductionOnSets DEF T
<1>4. Has(n, J)
  <2> HIDE DEF Has
  <2> QED
    BY <1>3
<1> QED
  BY <1>4

LEMMA ChosenFacts ==
  ASSUME NEW b \in Batches, NEW q, OfViables(q, b), NEW mask
  PROVE  /\ Chosen(q, mask) \in SUBSET Viables(b) /\ Chosen(q, mask) \in SUBSET ClaimType
         /\ IsFiniteSet(Chosen(q, mask))
         /\ Thresholds(Chosen(q, mask)) \in Nat /\ Worth(Chosen(q, mask)) \in Nat
<1> DEFINE S == Chosen(q, mask)
<1>1. S \in SUBSET Viables(b)
  BY DEF Chosen, OfViables
<1> HIDE DEF S
<1>2. S \in SUBSET ClaimType /\ IsFiniteSet(S)
  <2>1. Viables(b) \in SUBSET ClaimType /\ IsFiniteSet(Viables(b))
    BY ViablesFacts
  <2> QED
    BY <1>1, <2>1, FS_Subset
<1>3. Total(ThresholdOf, S) \in Nat /\ Total(WorthOf, S) \in Nat
  <2>1. S \in SUBSET S /\ \A c \in S : ThresholdOf[c] \in Nat /\ WorthOf[c] \in Nat
    BY <1>2, ClaimFields
  <2> QED
    BY <1>2, <2>1, TotalGrows
<1> QED
  BY <1>1, <1>2, <1>3, ClaimTotals DEF S

\* best is the best of the masks up to m.
BestUpTo(best, q, cap, m) ==
  /\ best \in [worth : Int, mask : Nat]
  /\ m = 0 => best.worth = -1
  /\ m > 0 => /\ Thresholds(Chosen(q, best.mask)) <= cap
              /\ best.worth = Worth(Chosen(q, best.mask))
  /\ \A k \in Nat : k < m /\ Thresholds(Chosen(q, k)) <= cap => Worth(Chosen(q, k)) <= best.worth

LEMMA TryMaskKeepsBest ==
  ASSUME NEW b \in Batches, NEW q, OfViables(q, b), NEW cap \in Nat,
         NEW m \in Nat, NEW best, BestUpTo(best, q, cap, m)
  PROVE  BestUpTo(TryMask(q, cap, best, m), q, cap, m + 1)
<1> DEFINE S == Chosen(q, m)
           next == TryMask(q, cap, best, m)
<1>1. /\ Thresholds(S) \in Nat /\ Worth(S) \in Nat
      /\ Thresholds(Chosen(q, best.mask)) \in Nat /\ Worth(Chosen(q, best.mask)) \in Nat
      /\ \A k \in Nat : Worth(Chosen(q, k)) \in Nat
  BY ChosenFacts
<1>2. /\ best \in [worth : Int, mask : Nat] /\ best.worth \in Int
      /\ m = 0 => best.worth = -1
      /\ m > 0 => /\ Thresholds(Chosen(q, best.mask)) <= cap
                  /\ best.worth = Worth(Chosen(q, best.mask))
      /\ \A k \in Nat : k < m /\ Thresholds(Chosen(q, k)) <= cap
                          => Worth(Chosen(q, k)) <= best.worth
  BY DEF BestUpTo
<1>3. \A k \in Nat : k < m + 1 => k < m \/ k = m
  OBVIOUS
<1>4. CASE Thresholds(S) <= cap /\ Worth(S) > best.worth
  <2>1. next = [worth |-> Worth(S), mask |-> m]
    BY <1>4 DEF TryMask
  <2> HIDE DEF next
  <2>2. /\ next.worth = Worth(S) /\ next.mask = m /\ next \in [worth : Int, mask : Nat]
    BY <1>1, <2>1
  <2>3. \A k \in Nat : k < m + 1 /\ Thresholds(Chosen(q, k)) <= cap
                         => Worth(Chosen(q, k)) <= next.worth
    <3> SUFFICES ASSUME NEW k \in Nat, k < m + 1, Thresholds(Chosen(q, k)) <= cap
                 PROVE  Worth(Chosen(q, k)) <= Worth(S)
      BY <2>2
    <3>1. CASE k = m
      BY <1>1, <3>1
    <3>2. CASE k < m
      <4>1. Worth(Chosen(q, k)) <= best.worth /\ Worth(Chosen(q, k)) \in Nat
        BY <1>1, <1>2, <3>2
      <4> HIDE DEF S
      <4> QED
        BY <1>1, <1>2, <1>4, <4>1
    <3> QED
      BY <1>3, <3>1, <3>2
  <2>4. m + 1 # 0 /\ Thresholds(Chosen(q, next.mask)) <= cap
        /\ next.worth = Worth(Chosen(q, next.mask))
    BY <1>4, <2>2
  <2>5. BestUpTo(next, q, cap, m + 1)
    BY <2>2, <2>3, <2>4 DEF BestUpTo
  <2> QED
    BY <2>5 DEF next
<1>5. CASE ~ (Thresholds(S) <= cap /\ Worth(S) > best.worth)
  <2>1. next = best
    BY <1>5 DEF TryMask
  <2>2. m > 0
    <3> SUFFICES ASSUME m = 0 PROVE FALSE
      OBVIOUS
    <3>1. S = {}
      <4>1. \A i \in DOMAIN q : i - 1 \in Nat
        BY DEF OfViables
      <4>2. \A i \in DOMAIN q : (0 \div TwoTo[i-1]) % 2 # 1
        <5> SUFFICES ASSUME NEW i \in DOMAIN q PROVE (0 \div TwoTo[i-1]) % 2 # 1
          OBVIOUS
        <5> DEFINE u == TwoTo[i-1]
        <5>1. u \in Nat \ {0}
          BY <4>1, TwoToFacts
        <5> HIDE DEF u
        <5>2. (0 \div u) % 2 # 1
          BY <5>1
        <5> QED
          BY <5>2 DEF u
      <4> QED
        BY <4>2 DEF Chosen
    <3>2. Thresholds(S) = 0 /\ Worth(S) = 0
      BY <3>1, NoThresholds
    <3> HIDE DEF S
    <3> QED
      BY <1>2, <1>5, <3>2
  <2>3. \A k \in Nat : k < m + 1 /\ Thresholds(Chosen(q, k)) <= cap
                         => Worth(Chosen(q, k)) <= best.worth
    <3> SUFFICES ASSUME NEW k \in Nat, k < m + 1, Thresholds(Chosen(q, k)) <= cap
                 PROVE  Worth(Chosen(q, k)) <= best.worth
      OBVIOUS
    <3>1. CASE k = m
      BY <1>1, <1>2, <1>5, <3>1
    <3>2. CASE k < m
      BY <1>2, <3>2
    <3> QED
      BY <1>3, <3>1, <3>2
  <2>4. m + 1 # 0 /\ m + 1 > 0
    OBVIOUS
  <2>5. BestUpTo(best, q, cap, m + 1)
    BY <1>2, <2>2, <2>3, <2>4 DEF BestUpTo
  <2> QED
    BY <2>1, <2>5 DEF next
<1> QED
  BY <1>4, <1>5

LEMMA BestMaskIsBest ==
  ASSUME NEW b \in Batches, NEW q, OfViables(q, b), NEW cap \in Nat
  PROVE  LET mask == BestMask(q, cap)
         IN  /\ Thresholds(Chosen(q, mask)) <= cap
             /\ \A k \in Nat : k < TwoTo[Len(q)] /\ Thresholds(Chosen(q, k)) <= cap
                                 => Worth(Chosen(q, k)) <= Worth(Chosen(q, mask))
<1> DEFINE s == Masks(q)
           n == Len(s)
           start == [worth |-> -1, mask |-> 0]
           X == [worth : Int, mask : Nat]
           turn(best, mask) == TryMask(q, cap, best, mask)
           Is(g) == g = [i \in 0 .. n |-> IF i = 0 THEN start ELSE turn(g[i-1], s[i])]
           h == CHOOSE g : Is(g)
           step == [i \in 1 .. n |-> [x \in X |-> turn(x, s[i])]]
<1>1. n = TwoTo[Len(q)] /\ n \in Nat \ {0} /\ \A i \in 1 .. n : s[i] = i - 1
  <2>1. TwoTo[Len(q)] \in Nat \ {0}
    BY TwoToFacts DEF OfViables
  <2>2. s = [i \in 1 .. TwoTo[Len(q)] |-> i - 1]
    BY DEF Masks
  <2> HIDE DEF s
  <2>3. n = TwoTo[Len(q)]
    BY <2>1, <2>2
  <2> QED
    BY <2>1, <2>2, <2>3
<1>2. BestMask(q, cap) = h[n].mask
  BY DEF BestMask, Pass
<1> HIDE DEF s, n
<1>3. start \in X
  OBVIOUS
<1>4. ASSUME NEW i \in 1 .. n, NEW x \in X PROVE turn(x, s[i]) \in X
  <2>1. s[i] \in Nat /\ Worth(Chosen(q, s[i])) \in Nat
    BY <1>1, ChosenFacts
  <2> QED
    BY <2>1 DEF TryMask
<1> HIDE DEF turn
<1>5. \A i \in 1 .. n : step[i] \in [X -> X]
  BY <1>4
<1>6. PICK g : IsRun(g, n, start, step) /\ \A i \in 0 .. n : g[i] \in X
  <2>1. \E g : IsRun(g, n, start, step) /\ \A i \in 0 .. n : g[i] \in X
    <3> HIDE DEF X, step, start
    <3> QED
      BY <1>1, <1>3, <1>5, RunsExist
  <2> QED
    BY <2>1
<1>7. Is(g)
  <2>1. \A i \in 0 .. n : i # 0 => i - 1 \in 0 .. n /\ i \in 1 .. n
    BY <1>1
  <2> HIDE DEF X, start
  <2>2. \A i \in 0 .. n : i # 0 => step[i][g[i-1]] = turn(g[i-1], s[i])
    BY <1>6, <2>1
  <2> HIDE DEF step
  <2> QED
    BY <1>6, <2>2 DEF IsRun
<1>8. Is(h)
  <2> HIDE DEF Is
  <2> QED
    BY <1>7
<1> HIDE DEF h
<1>9. h[0] = start /\ \A i \in 1 .. n : h[i] = TryMask(q, cap, h[i-1], i - 1)
  <2>1. 0 \in 0 .. n /\ \A i \in 1 .. n : i \in 0 .. n /\ i # 0
    BY <1>1
  <2> HIDE DEF start
  <2> QED
    BY <1>1, <1>8, <2>1 DEF turn
<1> DEFINE T == {m \in Nat : m <= n => BestUpTo(h[m], q, cap, m)}
<1>10. 0 \in T
  <2>1. BestUpTo(start, q, cap, 0)
    BY DEF BestUpTo
  <2> QED
    BY <1>9, <2>1
<1>11. ASSUME NEW m \in T PROVE m + 1 \in T
  <2> SUFFICES ASSUME m + 1 <= n PROVE BestUpTo(h[m + 1], q, cap, m + 1)
    OBVIOUS
  <2>1. m \in Nat /\ m + 1 \in 1 .. n /\ (m + 1) - 1 = m /\ BestUpTo(h[m], q, cap, m)
    BY <1>1
  <2> HIDE DEF T
  <2>2. h[m + 1] = TryMask(q, cap, h[m], m)
    BY <1>9, <2>1
  <2> QED
    BY <2>1, <2>2, TryMaskKeepsBest
<1>12. T = Nat
  <2> HIDE DEF T
  <2>1. \A m \in T : m + 1 \in T
    BY <1>11
  <2>2. T \in SUBSET Nat
    BY DEF T
  <2> QED
    BY <1>10, <2>1, <2>2, NatInductionOnSets
<1>13. BestUpTo(h[n], q, cap, n)
  <2>1. n \in T /\ n <= n
    BY <1>1, <1>12
  <2> QED
    BY <2>1
<1>14. n > 0
  BY <1>1
<1> QED
  BY <1>1, <1>2, <1>13, <1>14 DEF BestUpTo

\* What the oracle selects fits, and no viable claims that fit are worth more.
LEMMA OracleSelects ==
  ASSUME NEW b \in Batches, NEW cap \in Nat
  PROVE  LET sel == Chosen(Candidates(b), BestMask(Candidates(b), cap))
         IN  /\ sel \in SUBSET Viables(b) /\ Thresholds(sel) <= cap
             /\ \A s \in SUBSET Viables(b) : Thresholds(s) <= cap => Worth(s) <= Worth(sel)
<1> DEFINE q == Candidates(b)
           sel == Chosen(q, BestMask(q, cap))
<1>1. OfViables(q, b)
  BY CandidatesListed
<1> HIDE DEF q
<1>2. sel \in SUBSET Viables(b) /\ Thresholds(sel) <= cap
  BY <1>1, ChosenFacts, BestMaskIsBest
<1>3. ASSUME NEW s \in SUBSET Viables(b), Thresholds(s) <= cap PROVE Worth(s) <= Worth(sel)
  <2> DEFINE J == {j \in 1 .. Len(q) : q[j] \in s}
  <2>1. Len(q) \in Nat /\ DOMAIN q = 1 .. Len(q) /\ J \in SUBSET Nat
    BY <1>1 DEF OfViables
  <2>2. PICK m \in 0 .. TwoTo[Len(q)] - 1 :
          \A j \in 1 .. Len(q) : (m \div TwoTo[j-1]) % 2 = 1 <=> j \in J
    <3> HIDE DEF J
    <3> QED
      BY <2>1, EveryMask
  <2>3. Chosen(q, m) = s
    <3>1. {j \in DOMAIN q : (m \div TwoTo[j-1]) % 2 = 1} = J
      BY <2>1, <2>2
    <3>2. Chosen(q, m) = {q[i] : i \in J}
      <4> HIDE DEF J
      <4> QED
        BY <3>1 DEF Chosen
    <3>3. {q[i] : i \in J} = s
      BY <1>1 DEF OfViables
    <3> QED
      BY <3>2, <3>3
  <2>4. m \in Nat /\ m < TwoTo[Len(q)]
    <3>1. TwoTo[Len(q)] \in Nat
      BY <2>1, TwoToFacts
    <3> QED
      BY <3>1
  <2> QED
    BY <1>1, <1>3, <2>3, <2>4, BestMaskIsBest
<1> QED
  BY <1>2, <1>3 DEF q

LEMMA OracleDecides ==
  ASSUME NEW b \in Batches, NEW cap \in Nat, NEW c \in ToSet(b)
  PROVE  LET d   == CompletePrefixOracle(b, cap)[c]
             sel == Chosen(Candidates(b), BestMask(Candidates(b), cap))
         IN  /\ d.blocks = IF c \in sel THEN c.threshold ELSE 0
             /\ d.reason = "oracle_complete_prefix" <=> c \in sel
<1> DEFINE d   == CompletePrefixOracle(b, cap)[c]
           sel == Chosen(Candidates(b), BestMask(Candidates(b), cap))
<1>1. c \in ClaimType /\ c.threshold \in Nat /\ c.count \in Nat
  BY BatchFacts, ClaimFields DEF Distinct
<1>2. sel \in SUBSET Viables(b)
  BY OracleSelects
<1>3. d = IF c \in sel THEN AcceptLeading(c, c.threshold, "oracle_complete_prefix")
                       ELSE Refuse("oracle_not_selected")
  BY DEF CompletePrefixOracle
<1> HIDE DEF d, sel
<1>4. CASE c \in sel
  <2>1. c.threshold <= c.count
    BY <1>2, <1>4 DEF Viables, Viable
  <2>2. d.blocks = c.threshold /\ d.reason = "oracle_complete_prefix"
    BY <1>1, <1>3, <1>4, <2>1, AcceptFacts
  <2> QED
    BY <1>4, <2>2 DEF d, sel
<1>5. CASE c \notin sel
  <2>1. d.blocks = 0 /\ d.reason = "oracle_not_selected"
    BY <1>3, <1>5 DEF Refuse
  <2> QED
    BY <1>5, <2>1 DEF d, sel
<1> QED
  BY <1>4, <1>5

LEMMA OracleFits ==
  ASSUME NEW b \in Batches, NEW cap \in Nat
  PROVE  Fits(CompletePrefixOracle(b, cap), b, cap)
<1> DEFINE A == Chosen(Candidates(b), BestMask(Candidates(b), cap))
           p == CompletePrefixOracle(b, cap)
<1>1. A \in SUBSET Viables(b) /\ Thresholds(A) <= cap
  BY OracleSelects
<1>2. \A c \in ToSet(b) : p[c].blocks = IF c \in A THEN c.threshold ELSE 0
  BY OracleDecides
<1> HIDE DEF A, p
<1>3. Fits(p, b, cap)
  BY <1>1, <1>2, GrantedThresholdsFit
<1> QED
  BY <1>3 DEF p

-----------------------------------------------------------------------------
(* abstract_block_oracle.                                                  *)

BlockOrder(S) == {x \in S \X S : ByBlockValue(x[1], x[2])}

LEMMA BlockOrderIsOrder ==
  ASSUME NEW S, Distinct(S)
  PROVE  Orders(BlockOrder(S), S)
<1> DEFINE num == [c \in S |-> c.reuse]
           den == [c \in S |-> AtLeast1(c.count)]
           id  == [c \in S |-> c.id]
<1>1. \A c \in S : c.reuse \in Nat /\ AtLeast1(c.count) \in Nat \ {0} /\ c.id \in Nat
  BY ClaimFields DEF Distinct, AtLeast1
<1>2. num \in [S -> Nat] /\ den \in [S -> Nat \ {0}] /\ id \in [S -> Nat]
  BY <1>1
<1>3. \A c, d \in S : id[c] = id[d] => c = d
  BY DEF Distinct
<1>4. BlockOrder(S) = RatioOrder(S, num, den, id)
  <2> SUFFICES ASSUME NEW c \in S, NEW d \in S
               PROVE  <<c, d>> \in BlockOrder(S) <=> <<c, d>> \in RatioOrder(S, num, den, id)
    BY DEF BlockOrder, RatioOrder
  <2> QED
    BY DEF BlockOrder, RatioOrder, ByBlockValue
<1> HIDE DEF num, den, id
<1> QED
  BY <1>2, <1>3, <1>4, RatioOrderIsOrder

\* The claims by their value per block.
Heaviest(b) ==
  [i \in 1 .. Cardinality(ToSet(b)) |->
     CHOOSE c \in ToSet(b) : Cardinality({d \in ToSet(b) : ByBlockValue(d, c)}) = i - 1]

LEMMA HeaviestListed ==
  ASSUME NEW b \in Batches
  PROVE  Lists(Heaviest(b), ToSet(b), BlockOrder(ToSet(b)))
<1> DEFINE S == ToSet(b)
           R == BlockOrder(S)
           n == Cardinality(S)
           s == Heaviest(b)
           before == [c \in S |-> {d \in S : ByBlockValue(d, c)}]
           t == [i \in 1 .. n |-> CHOOSE c \in S : Cardinality(before[c]) = i - 1]
<1>1. Orders(R, S) /\ IsFiniteSet(S)
  BY BlockOrderIsOrder, BatchFacts
<1>2. ASSUME NEW c \in S PROVE before[c] = {d \in S : <<d, c>> \in R}
  BY DEF BlockOrder
<1>3. s = t
  <2>1. \A c \in S : before[c] = {d \in S : ByBlockValue(d, c)}
    OBVIOUS
  <2>2. \A i \in 1 .. n : (CHOOSE c \in S : Cardinality(before[c]) = i - 1)
                     = (CHOOSE c \in S : Cardinality({d \in S : ByBlockValue(d, c)}) = i - 1)
    BY <2>1
  <2> HIDE DEF before
  <2> QED
    BY <2>2 DEF Heaviest
<1> HIDE DEF S, R, before, s
<1>4. InOrder(s, S, R)
  BY <1>1, <1>2, <1>3, SortsInOrder
<1> QED
  BY <1>1, <1>4, InOrderLists DEF S, R, s

\* The first i of them, and how many blocks they have.
First(b, i) == {Heaviest(b)[k] : k \in 1 .. i}
CountUpTo(b, i) == Counts(First(b, i))

LEMMA FirstFacts ==
  ASSUME NEW b \in Batches
  PROVE  /\ Len(Heaviest(b)) \in Nat
         /\ First(b, 0) = {} /\ First(b, Len(Heaviest(b))) = ToSet(b)
         /\ \A i \in 0 .. Len(Heaviest(b)) : First(b, i) \in SUBSET ToSet(b)
         /\ \A i \in 1 .. Len(Heaviest(b)) :
              /\ Heaviest(b)[i] \in ToSet(b) /\ Heaviest(b)[i] \notin First(b, i-1)
              /\ First(b, i) = First(b, i-1) \cup {Heaviest(b)[i]}
              /\ First(b, i-1) = {d \in ToSet(b) : ByBlockValue(d, Heaviest(b)[i])}
<1> DEFINE s == Heaviest(b)
           n == Len(s)
           S == ToSet(b)
<1>1. /\ n \in Nat /\ \A i \in 1 .. n : s[i] \in S
      /\ \A c \in S : \E i \in 1 .. n : s[i] = c
      /\ \A i, j \in 1 .. n : s[i] = s[j] => i = j
      /\ \A i, j \in 1 .. n : i < j <=> <<s[i], s[j]>> \in BlockOrder(S)
  BY HeaviestListed DEF Lists
<1>2. \A c, d \in S : <<c, d>> \in BlockOrder(S) <=> ByBlockValue(c, d)
  BY DEF BlockOrder
<1>3. \A i : First(b, i) = {s[k] : k \in 1 .. i}
  BY DEF First
<1> HIDE DEF s, n, S
<1>4. First(b, 0) = {}
  BY <1>3
<1>5. First(b, n) = S
  <2>1. First(b, n) = {s[k] : k \in 1 .. n}
    BY <1>3
  <2>2. ASSUME NEW c \in First(b, n) PROVE c \in S
    BY <1>1, <2>1
  <2>3. ASSUME NEW c \in S PROVE c \in First(b, n)
    BY <1>1, <2>1
  <2> QED
    BY <2>2, <2>3
<1>6. \A i \in 0 .. n : First(b, i) \in SUBSET S
  <2> SUFFICES ASSUME NEW i \in 0 .. n, NEW k \in 1 .. i PROVE s[k] \in S
    BY <1>3
  <2>1. k \in 1 .. n
    BY <1>1
  <2> QED
    BY <1>1, <2>1
<1>7. ASSUME NEW i \in 1 .. n
      PROVE  /\ s[i] \notin First(b, i-1) /\ First(b, i) = First(b, i-1) \cup {s[i]}
             /\ First(b, i-1) = {d \in S : ByBlockValue(d, s[i])}
  <2>1. /\ i \in Nat /\ \A k \in 1 .. i-1 : k \in 1 .. n /\ k < i
        /\ \A k \in 1 .. n : k < i => k \in 1 .. i-1
        /\ \A k \in 1 .. i : k = i \/ k \in 1 .. i-1
        /\ \A k \in 1 .. i-1 : k \in 1 .. i
        /\ i \in 1 .. i
    BY <1>1
  <2>2. First(b, i-1) = {s[k] : k \in 1 .. i-1} /\ First(b, i) = {s[k] : k \in 1 .. i}
    BY <1>3
  <2>3. s[i] \notin First(b, i-1)
    <3>1. \A k \in 1 .. i-1 : s[k] # s[i]
      <4>1. \A k \in 1 .. i-1 : k # i
        BY <2>1
      <4> QED
        BY <1>1, <2>1, <4>1
    <3> QED
      BY <2>2, <3>1
  <2>4. First(b, i) = First(b, i-1) \cup {s[i]}
    <3>1. ASSUME NEW c \in First(b, i) PROVE c \in First(b, i-1) \cup {s[i]}
      BY <2>1, <2>2
    <3>2. ASSUME NEW c \in First(b, i-1) PROVE c \in First(b, i)
      BY <2>1, <2>2
    <3>3. s[i] \in First(b, i)
      BY <2>1, <2>2
    <3> QED
      BY <3>1, <3>2, <3>3
  <2>5. ASSUME NEW d \in S PROVE ByBlockValue(d, s[i]) <=> d \in First(b, i-1)
    <3>1. PICK k \in 1 .. n : s[k] = d
      BY <1>1
    <3>2. ByBlockValue(d, s[i]) <=> k < i
      BY <1>1, <1>2, <3>1
    <3>3. ASSUME d \in First(b, i-1) PROVE k < i
      <4>1. PICK l \in 1 .. i-1 : s[l] = d
        BY <2>2, <3>3
      <4>2. l = k
        BY <1>1, <2>1, <3>1, <4>1
      <4> QED
        BY <2>1, <4>2
    <3>4. ASSUME k < i PROVE d \in First(b, i-1)
      BY <2>1, <2>2, <3>1, <3>4
    <3> QED
      BY <3>2, <3>3, <3>4
  <2>6. First(b, i-1) \in SUBSET S
    <3>1. i - 1 \in 0 .. n
      BY <1>1
    <3> QED
      BY <1>6, <3>1
  <2> QED
    BY <2>3, <2>4, <2>5, <2>6
<1> QED
  BY <1>1, <1>4, <1>5, <1>6, <1>7 DEF s, n, S

LEMMA CountUpToFacts ==
  ASSUME NEW b \in Batches
  PROVE  /\ CountUpTo(b, 0) = 0
         /\ \A i \in 0 .. Len(Heaviest(b)) :
              CountUpTo(b, i) \in Nat /\ CountUpTo(b, i) <= Counts(ToSet(b))
         /\ \A i \in 1 .. Len(Heaviest(b)) :
              CountUpTo(b, i) = CountUpTo(b, i-1) + Heaviest(b)[i].count
<1> DEFINE s == Heaviest(b)
           n == Len(s)
           S == ToSet(b)
<1>1. S \in SUBSET ClaimType /\ IsFiniteSet(S)
  BY BatchFacts DEF Distinct
<1>2. \A c \in S : CountOf[c] \in Nat /\ CountOf[c] = c.count
  BY <1>1, ClaimFields
<1>3. ASSUME NEW A \in SUBSET S PROVE Counts(A) = Total(CountOf, A) /\ IsFiniteSet(A)
  <2>1. A \in SUBSET ClaimType /\ IsFiniteSet(A)
    BY <1>1, FS_Subset
  <2> QED
    BY <2>1, ClaimTotals
<1>4. /\ n \in Nat /\ First(b, 0) = {} /\ \A i \in 0 .. n : First(b, i) \in SUBSET S
      /\ \A i \in 1 .. n : /\ s[i] \in S /\ s[i] \notin First(b, i-1)
                           /\ First(b, i) = First(b, i-1) \cup {s[i]}
  BY FirstFacts
<1> HIDE DEF s, n, S
<1>5. CountUpTo(b, 0) = 0
  <2>1. {} \in SUBSET S
    OBVIOUS
  <2>2. Counts({}) = 0
    BY <1>3, <2>1, TotalNothing
  <2> QED
    BY <1>4, <2>2 DEF CountUpTo
<1>6. ASSUME NEW i \in 0 .. n PROVE CountUpTo(b, i) \in Nat /\ CountUpTo(b, i) <= Counts(S)
  <2> DEFINE A == First(b, i)
  <2>1. A \in SUBSET S
    BY <1>4
  <2> HIDE DEF A
  <2>2. Total(CountOf, A) \in Nat /\ Total(CountOf, A) <= Total(CountOf, S)
    BY <1>1, <1>2, <2>1, TotalGrows
  <2>3. Counts(A) = Total(CountOf, A) /\ Counts(S) = Total(CountOf, S)
    BY <1>3, <2>1
  <2> QED
    BY <2>2, <2>3 DEF CountUpTo, A
<1>7. ASSUME NEW i \in 1 .. n PROVE CountUpTo(b, i) = CountUpTo(b, i-1) + s[i].count
  <2> DEFINE A == First(b, i-1)
             c == s[i]
  <2>1. i - 1 \in 0 .. n
    BY <1>4
  <2>2. A \in SUBSET S /\ c \in S /\ c \notin A /\ First(b, i) = A \cup {c}
    BY <1>4, <2>1
  <2> HIDE DEF A, c
  <2>3. IsFiniteSet(A) /\ \A d \in A \cup {c} : CountOf[d] \in Int
    BY <1>2, <1>3, <2>2
  <2>4. Total(CountOf, A) \in Int /\ Total(CountOf, A \cup {c}) = CountOf[c] + Total(CountOf, A)
    BY <2>2, <2>3, TotalAdd
  <2>5. A \cup {c} \in SUBSET S
    BY <2>2
  <2>6. Counts(A \cup {c}) = c.count + Counts(A) /\ Counts(A) \in Int /\ c.count \in Int
    BY <1>2, <1>3, <2>2, <2>4, <2>5
  <2>7. Counts(A \cup {c}) = Counts(A) + c.count
    BY <2>6
  <2> QED
    BY <2>2, <2>7 DEF CountUpTo, A, c
<1> QED
  BY <1>5, <1>6, <1>7 DEF s, n, S

\* What the i-th of them is granted.
LEMMA AbstractGrants ==
  ASSUME NEW b \in Batches, NEW cap \in Nat, NEW i \in 1 .. Len(Heaviest(b))
  PROVE  LET c == Heaviest(b)[i]
             g == AbstractBlockOracle(b, cap)[c].blocks
         IN  /\ g \in Nat /\ g <= c.count /\ c.count \in Nat
             /\ CountUpTo(b, i) <= cap => g = c.count
             /\ CountUpTo(b, i-1) <= cap /\ CountUpTo(b, i) > cap => g = cap - CountUpTo(b, i-1)
             /\ CountUpTo(b, i-1) >= cap => g = 0
<1> DEFINE c == Heaviest(b)[i]
           u == CountUpTo(b, i-1)
           left == cap - u
           blocks == IF left > 0 THEN Min({c.count, left}) ELSE 0
           d == AbstractBlockOracle(b, cap)[c]
<1>1. c \in ToSet(b) /\ c \in ClaimType /\ c.count \in Nat
  BY FirstFacts, BatchFacts, ClaimFields DEF Distinct
<1>2. u \in Nat /\ CountUpTo(b, i) = u + c.count
  <2>1. i - 1 \in 0 .. Len(Heaviest(b))
    BY FirstFacts
  <2> QED
    BY <2>1, CountUpToFacts
<1>3. u = Counts({e \in ToSet(b) : ByBlockValue(e, c)})
  <2>1. First(b, i-1) = {e \in ToSet(b) : ByBlockValue(e, c)}
    BY FirstFacts
  <2> HIDE DEF c
  <2> QED
    BY <2>1 DEF CountUpTo
<1>4. d = IF blocks > 0 THEN AcceptLeading(c, blocks, "oracle_abstract_block_value")
                        ELSE Refuse("oracle_not_selected")
  BY <1>1, <1>3 DEF AbstractBlockOracle
<1> HIDE DEF c, u, d
<1>5. blocks = IF left > 0 THEN (IF c.count <= left THEN c.count ELSE left) ELSE 0
  <2>1. left > 0 => Min({c.count, left}) = IF c.count <= left THEN c.count ELSE left
    <3> SUFFICES ASSUME left > 0
                 PROVE  Min({c.count, left}) = IF c.count <= left THEN c.count ELSE left
      OBVIOUS
    <3>1. left \in Nat
      BY <1>2
    <3> HIDE DEF left
    <3> QED
      BY <1>1, <3>1, MinOfTwo
  <2> QED
    BY <2>1
<1> DEFINE v == IF left > 0 THEN (IF c.count <= left THEN c.count ELSE left) ELSE 0
<1>6. v \in Nat /\ v <= c.count
  BY <1>1, <1>2
<1>7. d.blocks = v
  <2>1. blocks = v
    BY <1>5
  <2> HIDE DEF blocks, v
  <2>2. CASE v > 0
    <3>1. d.blocks = IF v <= c.count THEN v ELSE c.count
      BY <1>1, <1>4, <1>6, <2>1, <2>2, AcceptFacts
    <3> QED
      BY <1>6, <3>1
  <2>3. CASE ~ (v > 0)
    <3>1. d.blocks = 0 /\ v = 0
      BY <1>4, <1>6, <2>1, <2>3 DEF Refuse
    <3> QED
      BY <3>1
  <2> QED
    BY <2>2, <2>3
<1>8. /\ u + c.count <= cap => v = c.count
      /\ u <= cap /\ u + c.count > cap => v = cap - u
      /\ u >= cap => v = 0
  BY <1>1, <1>2
<1> HIDE DEF v
<1> QED
  BY <1>1, <1>2, <1>6, <1>7, <1>8 DEF c, u, d

\* Together the first i of them get what they have, up to the pool.
LEMMA AbstractFillsUp ==
  ASSUME NEW b \in Batches, NEW cap \in Nat
  PROVE  LET g == BlocksOf(AbstractBlockOracle(b, cap), ToSet(b))
         IN  \A i \in 0 .. Len(Heaviest(b)) :
               Total(g, First(b, i)) = IF CountUpTo(b, i) <= cap THEN CountUpTo(b, i) ELSE cap
<1> DEFINE S == ToSet(b)
           s == Heaviest(b)
           n == Len(s)
           p == AbstractBlockOracle(b, cap)
           g == BlocksOf(p, S)
           full(i) == IF CountUpTo(b, i) <= cap THEN CountUpTo(b, i) ELSE cap
           T == {i \in Nat : i <= n => Total(g, First(b, i)) = full(i)}
<1>1. /\ n \in Nat /\ IsFiniteSet(S) /\ First(b, 0) = {}
      /\ \A i \in 0 .. n : First(b, i) \in SUBSET S
      /\ \A i \in 1 .. n : /\ s[i] \in S /\ s[i] \notin First(b, i-1)
                           /\ First(b, i) = First(b, i-1) \cup {s[i]}
  BY FirstFacts, BatchFacts
<1>2. /\ CountUpTo(b, 0) = 0 /\ \A i \in 0 .. n : CountUpTo(b, i) \in Nat
      /\ \A i \in 1 .. n : CountUpTo(b, i) = CountUpTo(b, i-1) + s[i].count
  BY CountUpToFacts
<1>3. \A i \in 1 .. n :
        /\ g[s[i]] \in Nat /\ g[s[i]] <= s[i].count /\ s[i].count \in Nat
        /\ CountUpTo(b, i) <= cap => g[s[i]] = s[i].count
        /\ CountUpTo(b, i-1) <= cap /\ CountUpTo(b, i) > cap => g[s[i]] = cap - CountUpTo(b, i-1)
        /\ CountUpTo(b, i-1) >= cap => g[s[i]] = 0
  <2>1. \A i \in 1 .. n : g[s[i]] = p[s[i]].blocks
    BY <1>1 DEF BlocksOf
  <2> HIDE DEF g
  <2> QED
    BY <2>1, AbstractGrants
<1>4. \A c \in S : g[c] \in Nat
  <2>1. \A c \in S : \E i \in 1 .. n : s[i] = c
    BY HeaviestListed DEF Lists
  <2> HIDE DEF g
  <2> QED
    BY <1>3, <2>1
<1> HIDE DEF S, s, n, p, g
<1>5. 0 \in T
  <2>1. Total(g, First(b, 0)) = 0
    BY <1>1, TotalNothing
  <2> QED
    BY <1>2, <2>1
<1>6. ASSUME NEW m \in T PROVE m + 1 \in T
  <2> SUFFICES ASSUME m + 1 <= n PROVE Total(g, First(b, m + 1)) = full(m + 1)
    OBVIOUS
  <2> DEFINE i == m + 1
             A == First(b, m)
             c == s[i]
             u == CountUpTo(b, m)
             v == CountUpTo(b, i)
  <2>1. m \in Nat /\ i \in 1 .. n /\ i - 1 = m /\ m \in 0 .. n /\ Total(g, A) = full(m)
    BY <1>1
  <2>2. A \in SUBSET S /\ c \in S /\ c \notin A /\ First(b, i) = A \cup {c} /\ IsFiniteSet(A)
    BY <1>1, <2>1, FS_Subset
  <2>3. u \in Nat /\ v \in Nat /\ v = u + c.count /\ c.count \in Nat
    BY <1>2, <1>3, <2>1
  <2>4. /\ g[c] \in Nat
        /\ v <= cap => g[c] = c.count
        /\ u <= cap /\ v > cap => g[c] = cap - u
        /\ u >= cap => g[c] = 0
    BY <1>3, <2>1
  <2> HIDE DEF T, i, A, c
  <2>5. Total(g, A \cup {c}) = g[c] + Total(g, A)
    BY <1>4, <2>2, TotalAdd
  <2> HIDE DEF u, v
  <2>6. full(m) = (IF u <= cap THEN u ELSE cap) /\ full(i) = IF v <= cap THEN v ELSE cap
    BY DEF u, v
  <2> HIDE DEF full
  <2>7. Total(g, A \cup {c}) = full(i)
    BY <2>1, <2>3, <2>4, <2>5, <2>6
  <2> QED
    BY <2>2, <2>7 DEF i
<1>7. T = Nat
  <2> HIDE DEF T
  <2>1. T \in SUBSET Nat
    BY DEF T
  <2>2. \A m \in T : m + 1 \in T
    BY <1>6
  <2> QED
    BY <1>5, <2>1, <2>2, NatInductionOnSets
<1>8. \A i \in 0 .. n : Total(g, First(b, i)) = full(i)
  <2>1. \A i \in 0 .. n : i \in Nat /\ i <= n
    BY <1>1
  <2> HIDE DEF full
  <2> QED
    BY <1>7, <2>1
<1> QED
  BY <1>8 DEF S, s, n, p, g

\* It fills the pool, or grants everything.
LEMMA AbstractFits ==
  ASSUME NEW b \in Batches, NEW cap \in Nat
  PROVE  LET p == AbstractBlockOracle(b, cap)
         IN  /\ Fits(p, b, cap)
             /\ Counts(ToSet(b)) \in Nat
             /\ Counts(ToSet(b)) > cap => Total(BlocksOf(p, ToSet(b)), ToSet(b)) = cap
             /\ Counts(ToSet(b)) <= cap => \A c \in ToSet(b) : p[c].blocks = c.count
<1> DEFINE S == ToSet(b)
           s == Heaviest(b)
           n == Len(s)
           p == AbstractBlockOracle(b, cap)
<1>1. n \in Nat /\ n \in 0 .. n /\ First(b, n) = S /\ \A c \in S : \E i \in 1 .. n : s[i] = c
  <2>1. n \in Nat /\ First(b, n) = S
    BY FirstFacts
  <2>2. \A c \in S : \E i \in 1 .. n : s[i] = c
    BY HeaviestListed DEF Lists
  <2> QED
    BY <2>1, <2>2
<1>2. CountUpTo(b, n) = Counts(S)
  BY <1>1 DEF CountUpTo
<1>3. \A i \in 0 .. n : CountUpTo(b, i) \in Nat /\ CountUpTo(b, i) <= Counts(S)
  BY CountUpToFacts
<1>4. Counts(S) \in Nat
  BY <1>1, <1>2, <1>3
<1>5. \A i \in 1 .. n : /\ p[s[i]].blocks \in Nat /\ p[s[i]].blocks <= s[i].count
                        /\ CountUpTo(b, i) <= cap => p[s[i]].blocks = s[i].count
  BY AbstractGrants
<1>6. Total(BlocksOf(p, S), S) = IF Counts(S) <= cap THEN Counts(S) ELSE cap
  BY <1>1, <1>2, AbstractFillsUp
<1> HIDE DEF S, s, n, p
<1>7. \A c \in S : p[c].blocks \in Nat /\ p[c].blocks <= c.count
  BY <1>1, <1>5
<1>8. Fits(p, b, cap)
  <2>1. Total(BlocksOf(p, S), S) <= cap
    BY <1>4, <1>6
  <2> QED
    BY <1>7, <2>1 DEF Fits, S
<1>9. Counts(S) <= cap => \A c \in S : p[c].blocks = c.count
  <2>1. \A i \in 1 .. n : Counts(S) <= cap => CountUpTo(b, i) <= cap
    <3>1. \A i \in 1 .. n : i \in 0 .. n
      BY <1>1
    <3> QED
      BY <1>3, <1>4, <3>1
  <2> QED
    BY <1>1, <1>5, <2>1
<1>10. Counts(S) > cap => Total(BlocksOf(p, S), S) = cap
  BY <1>4, <1>6
<1> QED
  BY <1>4, <1>8, <1>9, <1>10 DEF S, p

-----------------------------------------------------------------------------
(* The value of a plan.                                                    *)

\* k is a multiple of the denominators of the first m claims of b.
Multiple(k, b, m) ==
  /\ k \in Nat \ {0}
  /\ \A j \in 1 .. m : \E q \in Nat : k = q * AtLeast1(b[j].count)

\* A multiple of a multiple is a multiple.
LEMMA MultiplesGrow ==
  ASSUME NEW k \in Nat, NEW q \in Nat, NEW a \in Nat \ {0}, k = q * a, NEW d \in Nat \ {0}
  PROVE  \E r \in Nat : k * d = r * a
<1>1. q * d \in Nat /\ (q * d) * a = k * d
  BY Z3
<1> QED
  BY <1>1

LEMMA DenominatorIsMultiple ==
  ASSUME batch \in Batches
  PROVE  Multiple(OneDenominator, batch, Len(batch))
<1> DEFINE b == batch
           n == Len(b)
           turn(k, c) == k * AtLeast1(c.count)
           Is(g) == g = [i \in 0 .. n |-> IF i = 0 THEN 1 ELSE turn(g[i-1], b[i])]
           h == CHOOSE g : Is(g)
           X == Nat \ {0}
           step == [i \in 1 .. n |-> [x \in X |-> turn(x, b[i])]]
<1>1. n \in Nat /\ \A i \in 1 .. n : AtLeast1(b[i].count) \in Nat \ {0}
  <2>1. n \in Nat /\ \A i \in 1 .. n : b[i].count \in Nat
    BY BatchFacts, ClaimFields
  <2> QED
    BY <2>1 DEF AtLeast1
<1>2. OneDenominator = h[n]
  BY DEF OneDenominator, Pass
<1> HIDE DEF b, n
<1>3. 1 \in X
  OBVIOUS
<1>4. ASSUME NEW i \in 1 .. n, NEW x \in X PROVE turn(x, b[i]) \in X
  <2> DEFINE d == AtLeast1(b[i].count)
  <2>1. d \in Nat \ {0}
    BY <1>1
  <2> HIDE DEF d
  <2>2. x * d \in Nat /\ x * d # 0
    BY <2>1
  <2> QED
    BY <2>2 DEF d
<1> HIDE DEF turn
<1>5. \A i \in 1 .. n : step[i] \in [X -> X]
  BY <1>4
<1>6. PICK g : IsRun(g, n, 1, step) /\ \A i \in 0 .. n : g[i] \in X
  <2>1. \E g : IsRun(g, n, 1, step) /\ \A i \in 0 .. n : g[i] \in X
    <3> HIDE DEF X, step
    <3> QED
      BY <1>1, <1>3, <1>5, RunsExist
  <2> QED
    BY <2>1
<1>7. Is(g)
  <2>1. \A i \in 0 .. n : i # 0 => i - 1 \in 0 .. n /\ i \in 1 .. n
    BY <1>1
  <2> HIDE DEF X
  <2>2. \A i \in 0 .. n : i # 0 => step[i][g[i-1]] = turn(g[i-1], b[i])
    BY <1>6, <2>1
  <2> HIDE DEF step
  <2> QED
    BY <1>6, <2>2 DEF IsRun
<1>8. Is(h)
  <2> HIDE DEF Is
  <2> QED
    BY <1>7
<1> HIDE DEF h
<1>9. h[0] = 1 /\ \A i \in 1 .. n : h[i] = h[i-1] * AtLeast1(b[i].count)
  <2>1. 0 \in 0 .. n /\ \A i \in 1 .. n : i \in 0 .. n /\ i # 0
    BY <1>1
  <2> QED
    BY <1>8, <2>1 DEF turn
<1> DEFINE T == {m \in Nat : m <= n => Multiple(h[m], b, m)}
<1>10. 0 \in T
  <2>1. 1 .. 0 = {} /\ 1 \in Nat \ {0}
    OBVIOUS
  <2> QED
    BY <1>9, <2>1 DEF Multiple
<1>11. ASSUME NEW m \in T PROVE m + 1 \in T
  <2> SUFFICES ASSUME m + 1 <= n PROVE Multiple(h[m + 1], b, m + 1)
    OBVIOUS
  <2> DEFINE k == h[m]
             d == AtLeast1(b[m+1].count)
  <2>1. m \in Nat /\ m + 1 \in 1 .. n /\ (m + 1) - 1 = m /\ Multiple(k, b, m)
    BY <1>1
  <2>2. h[m+1] = k * d /\ d \in Nat \ {0} /\ k \in Nat \ {0}
    BY <1>1, <1>9, <2>1 DEF Multiple
  <2> HIDE DEF T, k
  <2>3. k * d \in Nat \ {0}
    <3> HIDE DEF d
    <3> QED
      BY <2>2
  <2>4. ASSUME NEW j \in 1 .. m + 1 PROVE \E q \in Nat : k * d = q * AtLeast1(b[j].count)
    <3>1. CASE j = m + 1
      BY <2>2, <3>1
    <3>2. CASE j # m + 1
      <4> DEFINE a == AtLeast1(b[j].count)
      <4>1. j \in 1 .. m /\ j \in 1 .. n
        BY <1>1, <2>1, <3>2
      <4>2. a \in Nat \ {0}
        BY <1>1, <4>1
      <4>3. PICK q \in Nat : k = q * a
        BY <2>1, <4>1 DEF Multiple
      <4> HIDE DEF a, d
      <4>4. \E r \in Nat : k * d = r * a
        BY <2>2, <4>2, <4>3, MultiplesGrow
      <4> QED
        BY <4>4 DEF a
    <3> QED
      BY <3>1, <3>2
  <2> HIDE DEF d
  <2> QED
    BY <2>2, <2>3, <2>4 DEF Multiple
<1>12. T = Nat
  <2> HIDE DEF T
  <2>1. T \in SUBSET Nat
    BY DEF T
  <2>2. \A m \in T : m + 1 \in T
    BY <1>11
  <2> QED
    BY <1>10, <2>1, <2>2, NatInductionOnSets
<1>13. Multiple(h[n], b, n)
  <2>1. n \in T /\ n <= n
    BY <1>1, <1>12
  <2> QED
    BY <2>1
<1> QED
  BY <1>2, <1>13 DEF b, n

\* What a block of each claim is worth, in units of one denominator.
Rates == [c \in Claims |-> c.reuse * (OneDenominator \div AtLeast1(c.count))]

LEMMA RatesFacts ==
  ASSUME batch \in Batches
  PROVE  /\ \A c \in Claims : Rates[c] \in Nat
         /\ \A c, d \in Claims : ByBlockValue(c, d) => Rates[c] >= Rates[d]
<1> DEFINE K == OneDenominator
           a(c) == AtLeast1(c.count)
<1>1. K \in Nat \ {0} /\ \A c \in Claims : \E q \in Nat : K = q * a(c)
  <2>1. Multiple(K, batch, Len(batch))
    BY DenominatorIsMultiple
  <2>2. \A c \in Claims : \E i \in 1 .. Len(batch) : batch[i] = c
    BY BatchFacts DEF Claims
  <2> HIDE DEF K
  <2> QED
    BY <2>1, <2>2 DEF Multiple
<1>2. \A c \in Claims : a(c) \in Nat \ {0} /\ c.reuse \in Nat
  <2>1. \A c \in Claims : c.count \in Nat /\ c.reuse \in Nat
    BY BatchFacts, ClaimFields DEF Claims, Distinct
  <2> QED
    BY <2>1 DEF AtLeast1
<1>3. \A c \in Claims : Rates[c] = c.reuse * (K \div a(c))
  BY DEF Rates
<1> HIDE DEF K, a
<1>4. ASSUME NEW c \in Claims
      PROVE  K \div a(c) \in Nat /\ K = (K \div a(c)) * a(c)
  <2> DEFINE n == a(c)
  <2>1. n \in Nat \ {0}
    BY <1>2
  <2>2. PICK q \in Nat : K = q * n
    BY <1>1
  <2> HIDE DEF n
  <2>3. K \div n = q
    BY <2>1, <2>2
  <2> QED
    BY <2>2, <2>3 DEF n
<1>5. \A c \in Claims : Rates[c] \in Nat
  BY <1>2, <1>3, <1>4
<1>6. ASSUME NEW c \in Claims, NEW d \in Claims, ByBlockValue(c, d)
      PROVE  Rates[c] >= Rates[d]
  <2> DEFINE p == K \div a(c)
             q == K \div a(d)
             x == a(c)
             y == a(d)
             v == c.reuse
             w == d.reuse
  <2>1. /\ p \in Nat /\ q \in Nat /\ x \in Nat \ {0} /\ y \in Nat \ {0} /\ v \in Nat /\ w \in Nat
        /\ K = p * x /\ K = q * y
    BY <1>2, <1>4
  <2>2. v * y >= w * x
    <3>1. v * y > w * x \/ v * y = w * x
      BY <1>6 DEF ByBlockValue, a
    <3> HIDE DEF x, y, v, w
    <3>2. v * y \in Int /\ w * x \in Int
      BY <2>1
    <3> QED
      BY <3>1, <3>2
  <2>3. Rates[c] = v * p /\ Rates[d] = w * q
    BY <1>3
  <2> HIDE DEF p, q, x, y, v, w
  <2>4. K * (v * y) >= K * (w * x)
    <3>1. v * y \in Int /\ w * x \in Int
      BY <2>1
    <3> QED
      BY <1>1, <2>2, <3>1, ProductsRise
  <2>5. K * (v * y) = (x * y) * (v * p)
    <3>1. K * (v * y) = (p * x) * (v * y)
      BY <2>1
    <3> QED
      BY <2>1, <3>1
  <2>6. K * (w * x) = (x * y) * (w * q)
    <3>1. K * (w * x) = (q * y) * (w * x)
      BY <2>1
    <3> QED
      BY <2>1, <3>1
  <2>7. (x * y) * (v * p) >= (x * y) * (w * q)
    BY <2>4, <2>5, <2>6
  <2>8. x * y \in Nat \ {0} /\ v * p \in Int /\ w * q \in Int
    BY <2>1
  <2>9. v * p >= w * q
    BY <2>7, <2>8, ProductsRise
  <2> QED
    BY <2>3, <2>9
<1> QED
  BY <1>5, <1>6

\* What the blocks x are worth at the rates r.
Valued(r, x, S) == [c \in S |-> r[c] * x[c]]

LEMMA ValueIsTotal ==
  ASSUME batch \in Batches, NEW p, \A c \in Claims : p[c].blocks \in Nat
  PROVE  AbstractValue(p) = Total(Valued(Rates, BlocksOf(p, Claims), Claims), Claims)
<1> DEFINE S == Claims
           f == [c \in S |-> c.reuse * p[c].blocks * (OneDenominator \div AtLeast1(c.count))]
           e == Valued(Rates, BlocksOf(p, S), S)
           Is(g) == g = [s \in SUBSET S |->
               IF s = {} THEN 0
               ELSE (LET c == CHOOSE x \in s : TRUE
                     IN  c.reuse * p[c].blocks * (OneDenominator \div AtLeast1(c.count)))
                      + g[s \ {CHOOSE x \in s : TRUE}]]
           h == CHOOSE g : Is(g)
<1>1. IsFiniteSet(S)
  BY BatchFacts DEF Claims
<1>2. ASSUME NEW g PROVE Is(g) <=> Sums(g, f, S)
  <2>1. \A s \in SUBSET S : s # {} =>
          f[CHOOSE x \in s : TRUE]
            = (LET c == CHOOSE x \in s : TRUE
               IN  c.reuse * p[c].blocks * (OneDenominator \div AtLeast1(c.count)))
    OBVIOUS
  <2> HIDE DEF f
  <2> QED
    BY <2>1 DEF Sums, OneMore
<1>3. AbstractValue(p) = h[S]
  BY DEF AbstractValue, MapThenSumSet, MapThenFoldSet
<1>4. \A c \in S : f[c] = e[c]
  <2> SUFFICES ASSUME NEW c \in S PROVE f[c] = e[c]
    OBVIOUS
  <2> DEFINE w == c.reuse
             k == p[c].blocks
             q == OneDenominator \div AtLeast1(c.count)
  <2>1. w \in Nat /\ k \in Nat
    BY BatchFacts, ClaimFields DEF Claims, Distinct
  <2>2. q \in Int
    <3> DEFINE n == AtLeast1(c.count)
    <3>1. OneDenominator \in Nat \ {0}
      BY DenominatorIsMultiple DEF Multiple
    <3>2. n \in Nat \ {0}
      <4>1. c.count \in Nat
        BY BatchFacts, ClaimFields DEF Claims, Distinct
      <4> QED
        BY <4>1 DEF AtLeast1
    <3> HIDE DEF n
    <3>3. OneDenominator \div n \in Int
      BY <3>1, <3>2
    <3> QED
      BY <3>3 DEF n
  <2>3. f[c] = w * k * q /\ e[c] = (w * q) * k
    BY DEF Valued, Rates, BlocksOf
  <2> HIDE DEF w, k, q, f, e
  <2>4. w * k * q = (w * q) * k
    BY <2>1, <2>2
  <2> QED
    BY <2>3, <2>4
<1> HIDE DEF Is, f, e, S
<1>5. PICK g : Sums(g, f, S)
  BY <1>1, SumsExist
<1>6. \E l : Is(l)
  BY <1>2, <1>5
<1>7. Is(h)
  BY <1>6
<1> HIDE DEF h
<1>8. Sums(h, f, S)
  BY <1>2, <1>7
<1>9. h[S] = Total(f, S) /\ Total(f, S) = Total(e, S)
  BY <1>1, <1>4, <1>8, TotalIs, TotalAgrees
<1> QED
  BY <1>3, <1>9 DEF e, S

\* More of what is worth more, or less of what is worth less, is worth more.
LEMMA Exchange ==
  ASSUME NEW r \in Nat, NEW m \in Nat, NEW g \in Nat, NEW x \in Nat,
         (r >= m /\ g >= x) \/ (r <= m /\ g <= x)
  PROVE  r * x + m * g <= r * g + m * x
<1>1. CASE r >= m /\ g >= x
  <2> DEFINE u == r - m
             v == g - x
  <2>1. u \in Nat /\ v \in Nat /\ r = m + u /\ g = x + v
    BY <1>1
  <2> HIDE DEF u, v
  <2>2. /\ r * x = m * x + u * x /\ m * g = m * x + m * v
        /\ r * g = m * x + u * x + m * v + u * v
    BY <2>1
  <2>3. m * x \in Int /\ u * x \in Int /\ m * v \in Int /\ u * v \in Nat
    BY <2>1
  <2> QED
    BY <2>2, <2>3
<1>2. CASE r <= m /\ g <= x
  <2> DEFINE u == m - r
             v == x - g
  <2>1. u \in Nat /\ v \in Nat /\ m = r + u /\ x = g + v
    BY <1>2
  <2> HIDE DEF u, v
  <2>2. /\ r * x = r * g + r * v /\ m * g = r * g + u * g
        /\ m * x = r * g + r * v + u * g + u * v
    BY <2>1
  <2>3. r * g \in Int /\ r * v \in Int /\ u * g \in Int /\ u * v \in Nat
    BY <2>1
  <2> QED
    BY <2>2, <2>3
<1> QED
  BY <1>1, <1>2

LEMMA CountUpToGrows ==
  ASSUME NEW b \in Batches, NEW i \in 0 .. Len(Heaviest(b)), NEW j \in 0 .. Len(Heaviest(b)), i <= j
  PROVE  CountUpTo(b, i) <= CountUpTo(b, j)
<1> DEFINE A == First(b, i)
           B == First(b, j)
<1>1. A \in SUBSET ToSet(b) /\ B \in SUBSET ToSet(b)
  BY FirstFacts
<1>2. A \in SUBSET B
  <2>1. \A k \in 1 .. i : k \in 1 .. j
    BY FirstFacts
  <2> QED
    BY <2>1 DEF First
<1>3. ToSet(b) \in SUBSET ClaimType /\ IsFiniteSet(ToSet(b))
  BY BatchFacts DEF Distinct
<1> HIDE DEF A, B
<1>4. /\ A \in SUBSET ClaimType /\ B \in SUBSET ClaimType /\ IsFiniteSet(A) /\ IsFiniteSet(B)
      /\ \A c \in B : CountOf[c] \in Nat
  BY <1>1, <1>3, FS_Subset, ClaimFields
<1>5. Counts(A) = Total(CountOf, A) /\ Counts(B) = Total(CountOf, B)
  BY <1>4, ClaimTotals
<1>6. Total(CountOf, A) <= Total(CountOf, B)
  BY <1>2, <1>4, TotalGrows
<1> QED
  BY <1>5, <1>6 DEF CountUpTo, A, B

\* Whatever fits is worth no more than what the abstract oracle grants, at
\* rates that follow its order.
LEMMA AbstractIsBest ==
  ASSUME NEW b \in Batches, NEW cap \in Nat, NEW p, Fits(p, b, cap),
         NEW r, \A c \in ToSet(b) : r[c] \in Nat,
         \A c, d \in ToSet(b) : ByBlockValue(c, d) => r[c] >= r[d]
  PROVE  LET S == ToSet(b)
         IN  Total(Valued(r, BlocksOf(p, S), S), S)
               <= Total(Valued(r, BlocksOf(AbstractBlockOracle(b, cap), S), S), S)
<1> DEFINE S == ToSet(b)
           G == AbstractBlockOracle(b, cap)
           x == BlocksOf(p, S)
           g == BlocksOf(G, S)
           low == Valued(r, x, S)
           high == Valued(r, g, S)
<1>1. IsFiniteSet(S) /\ \A c \in S : c.count \in Nat
  BY BatchFacts, ClaimFields DEF Distinct
<1>2. /\ \A c \in S : x[c] \in Nat /\ x[c] <= c.count
      /\ Total(x, S) <= cap
  BY DEF Fits, BlocksOf
<1>3. /\ \A c \in S : g[c] \in Nat /\ g[c] <= c.count /\ g[c] = G[c].blocks
      /\ Total(g, S) <= cap /\ Counts(S) \in Nat
      /\ Counts(S) > cap => Total(g, S) = cap
      /\ Counts(S) <= cap => \A c \in S : g[c] = c.count
  <2>1. \A c \in S : g[c] = G[c].blocks
    BY DEF BlocksOf
  <2>2. /\ Fits(G, b, cap) /\ Counts(S) \in Nat
        /\ Counts(S) > cap => Total(g, S) = cap
        /\ Counts(S) <= cap => \A c \in S : G[c].blocks = c.count
    BY AbstractFits
  <2> HIDE DEF g, G
  <2> QED
    BY <2>1, <2>2 DEF Fits, g
<1>4. \A c \in S : low[c] = r[c] * x[c] /\ high[c] = r[c] * g[c]
  BY DEF Valued
<1>5. \A c \in S : r[c] \in Nat
  OBVIOUS
<1>6. \A c, d \in S : ByBlockValue(c, d) => r[c] >= r[d]
  OBVIOUS
<1>7. \A c \in S : low[c] \in Int /\ high[c] \in Int
  <2> HIDE DEF S, x, g, low, high
  <2> QED
    BY <1>2, <1>3, <1>4, <1>5
<1>8. CASE Counts(S) <= cap
  <2>1. \A c \in S : low[c] <= high[c]
    <3> SUFFICES ASSUME NEW c \in S PROVE low[c] <= high[c]
      OBVIOUS
    <3> DEFINE u == r[c]
               v == x[c]
               w == g[c]
    <3>1. u \in Nat /\ v \in Nat /\ w \in Nat /\ v <= w
      <4> HIDE DEF x, g
      <4> QED
        BY <1>2, <1>3, <1>8
    <3>2. low[c] = u * v /\ high[c] = u * w
      BY <1>4
    <3> HIDE DEF u, v, w, low, high
    <3> QED
      BY <3>1, <3>2
  <2> HIDE DEF S, low, high
  <2>2. Total(low, S) <= Total(high, S)
    BY <1>1, <1>7, <2>1, TotalLess
  <2> QED
    BY <2>2 DEF S, low, high, x, g, G
<1>9. CASE Counts(S) > cap
  <2> DEFINE s == Heaviest(b)
             n == Len(s)
             over == {i \in 0 .. n : CountUpTo(b, i) > cap}
  <2>1. n \in Nat /\ CountUpTo(b, n) = Counts(S) /\ CountUpTo(b, 0) = 0
        /\ \A i \in 0 .. n : CountUpTo(b, i) \in Nat
    <3>1. n \in Nat /\ First(b, n) = S
      BY FirstFacts
    <3> QED
      BY <3>1, CountUpToFacts DEF CountUpTo
  <2>2. PICK k \in over : \A i \in over : k <= i
    <3>1. n \in over /\ over \in SUBSET Nat
      BY <1>9, <2>1
    <3> HIDE DEF over
    <3>2. over # {}
      BY <3>1
    <3> QED
      BY <3>1, <3>2, LeastNatural
  <2>3. /\ k \in 1 .. n /\ k \in 0 .. n /\ CountUpTo(b, k) > cap
        /\ \A i \in 0 .. n : i < k => CountUpTo(b, i) <= cap
    <3>1. k \in 0 .. n /\ CountUpTo(b, k) > cap
      BY <2>2
    <3>2. k # 0
      BY <2>1, <3>1
    <3>3. ASSUME NEW i \in 0 .. n, i < k PROVE CountUpTo(b, i) <= cap
      <4>1. i \notin over
        <5> HIDE DEF over
        <5> QED
          BY <2>1, <2>2, <3>1, <3>3
      <4> QED
        BY <2>1, <4>1
    <3> QED
      BY <2>1, <3>1, <3>2, <3>3
  <2>4. /\ \A i \in 1 .. n : s[i] \in S
        /\ \A c \in S : \E i \in 1 .. n : s[i] = c
        /\ \A i, j \in 1 .. n : i < j => ByBlockValue(s[i], s[j])
    <3>1. /\ \A i \in 1 .. n : s[i] \in S
          /\ \A c \in S : \E i \in 1 .. n : s[i] = c
          /\ \A i, j \in 1 .. n : i < j <=> <<s[i], s[j]>> \in BlockOrder(S)
      BY HeaviestListed DEF Lists
    <3>2. \A c, d \in S : <<c, d>> \in BlockOrder(S) => ByBlockValue(c, d)
      BY DEF BlockOrder
    <3> HIDE DEF s, n, S
    <3> QED
      BY <3>1, <3>2
  <2>5. \A i \in 1 .. n : /\ i < k => g[s[i]] = s[i].count
                          /\ i > k => g[s[i]] = 0
    <3> SUFFICES ASSUME NEW i \in 1 .. n
                 PROVE  /\ i < k => g[s[i]] = s[i].count
                        /\ i > k => g[s[i]] = 0
      OBVIOUS
    <3>1. /\ CountUpTo(b, i) <= cap => G[s[i]].blocks = s[i].count
          /\ CountUpTo(b, i-1) >= cap => G[s[i]].blocks = 0
      BY AbstractGrants
    <3>2. g[s[i]] = G[s[i]].blocks
      BY <1>3, <2>4
    <3>3. i \in 0 .. n /\ i - 1 \in 0 .. n
      BY <2>1
    <3>4. i < k => CountUpTo(b, i) <= cap
      BY <2>3, <3>3
    <3>5. i > k => CountUpTo(b, i-1) >= cap
      <4> SUFFICES ASSUME i > k PROVE CountUpTo(b, i-1) >= cap
        OBVIOUS
      <4>1. k <= i - 1
        BY <2>3
      <4>2. CountUpTo(b, k) <= CountUpTo(b, i-1)
        BY <2>3, <3>3, <4>1, CountUpToGrows
      <4> QED
        BY <2>1, <2>3, <3>3, <4>2
    <3> QED
      BY <3>1, <3>2, <3>4, <3>5
  <2> DEFINE m == r[s[k]]
             left == [c \in S |-> low[c] + m * g[c]]
             right == [c \in S |-> high[c] + m * x[c]]
  <2>6. m \in Nat
    BY <1>5, <2>3, <2>4
  <2>7. ASSUME NEW c \in S
        PROVE  /\ left[c] = low[c] + m * g[c] /\ right[c] = high[c] + m * x[c]
               /\ left[c] \in Int /\ right[c] \in Int /\ left[c] <= right[c]
    <3>1. PICK i \in 1 .. n : s[i] = c
      BY <2>4
    <3> DEFINE a == r[c]
               u == g[c]
               v == x[c]
    <3>2. a \in Nat /\ u \in Nat /\ v \in Nat
      BY <1>2, <1>3, <1>5
    <3>3. left[c] = a * v + m * u /\ right[c] = a * u + m * v
      BY <1>4
    <3>4. ASSUME i < k PROVE a * v + m * u <= a * u + m * v
      <4>1. a >= m /\ u >= v
        <5>1. ByBlockValue(s[i], s[k]) /\ s[k] \in S
          BY <2>3, <2>4, <3>4
        <5>2. a >= m
          BY <1>6, <3>1, <5>1
        <5>3. u = c.count /\ v <= c.count
          BY <1>2, <2>5, <3>1, <3>4
        <5> QED
          BY <1>1, <3>2, <5>2, <5>3
      <4> HIDE DEF a, u, v, m
      <4> QED
        BY <2>6, <3>2, <4>1, Exchange
    <3>5. ASSUME i > k PROVE a * v + m * u <= a * u + m * v
      <4>1. a <= m /\ u <= v
        <5>1. ByBlockValue(s[k], s[i]) /\ s[k] \in S
          BY <2>3, <2>4, <3>5
        <5>2. m >= a
          BY <1>6, <3>1, <5>1
        <5>3. u = 0
          BY <2>5, <3>1, <3>5
        <5> HIDE DEF a, u, v, m
        <5> QED
          BY <2>6, <3>2, <5>2, <5>3
      <4> HIDE DEF a, u, v, m
      <4> QED
        BY <2>6, <3>2, <4>1, Exchange
    <3>6. ASSUME i = k PROVE a * v + m * u <= a * u + m * v
      <4>1. a = m
        BY <3>1, <3>6
      <4> HIDE DEF a, u, v, m
      <4>2. a * v + m * u <= a * u + m * v
        BY <2>6, <3>2, <4>1, Exchange
      <4> QED
        BY <4>2
    <3>7. i < k \/ i > k \/ i = k
      BY <2>1, <2>3
    <3>8. a * v + m * u <= a * u + m * v
      <4> HIDE DEF a, u, v, m
      <4> QED
        BY <3>4, <3>5, <3>6, <3>7
    <3>9. a * v + m * u \in Int /\ a * u + m * v \in Int
      <4> HIDE DEF a, u, v, m
      <4> QED
        BY <2>6, <3>2
    <3> QED
      BY <3>3, <3>8, <3>9
  <2> HIDE DEF left, right, m, low, high, x, g, G, S, s, n, over
  <2>8. Total(left, S) <= Total(right, S)
    BY <1>1, <2>7, TotalLess
  <2>9. /\ Total(low, S) \in Int /\ Total(g, S) \in Int
        /\ Total(left, S) = Total(low, S) + m * Total(g, S)
    <3>1. \A c \in S : low[c] \in Int /\ g[c] \in Int /\ left[c] = low[c] + m * g[c]
      BY <1>3, <1>7, <2>7
    <3>2. m \in Int
      BY <2>6
    <3> QED
      BY <1>1, <3>1, <3>2, TotalCombines
  <2>10. /\ Total(high, S) \in Int /\ Total(x, S) \in Int
         /\ Total(right, S) = Total(high, S) + m * Total(x, S)
    <3>1. \A c \in S : high[c] \in Int /\ x[c] \in Int /\ right[c] = high[c] + m * x[c]
      BY <1>2, <1>7, <2>7
    <3>2. m \in Int
      BY <2>6
    <3> QED
      BY <1>1, <3>1, <3>2, TotalCombines
  <2>11. Total(g, S) = cap /\ Total(x, S) <= cap
    BY <1>2, <1>3, <1>9
  <2>12. Total(low, S) <= Total(high, S)
    <3> DEFINE tg == Total(g, S)
               tx == Total(x, S)
               tl == Total(low, S)
               th == Total(high, S)
    <3>1. tg \in Int /\ tx \in Int /\ tl \in Int /\ th \in Int /\ tx <= tg
          /\ tl + m * tg <= th + m * tx
      BY <2>8, <2>9, <2>10, <2>11
    <3> HIDE DEF tg, tx, tl, th
    <3>2. m * tx <= m * tg /\ m * tx \in Int /\ m * tg \in Int
      BY <2>6, <3>1
    <3>3. tl <= th
      BY <3>1, <3>2
    <3> QED
      BY <3>3 DEF tl, th
  <2> QED
    BY <2>12 DEF low, high, x, g, G, S
<1> QED
  <2>1. Counts(S) <= cap \/ Counts(S) > cap
    BY <1>3
  <2> QED
    BY <1>8, <1>9, <2>1

-----------------------------------------------------------------------------
(* The state.                                                              *)

\* The plan is the policy's answer to the batch.
Planned ==
  /\ batch \in Batches /\ capacity \in Capacities
  /\ plan # None =>
       \/ policy = "native" /\ plan = Native(batch)
       \/ policy = "no_refusal_all_claims"
       \/ /\ policy = "naive_fair_share"
          /\ plan = IF batch = << >> THEN << >> ELSE NaiveFairShare(batch, capacity)
       \/ policy = "value_density" /\ plan = ValueDensity(batch, capacity)
       \/ policy = "complete_prefix_oracle" /\ plan = CompletePrefixOracle(batch, capacity)
       \/ policy = "abstract_block_oracle" /\ plan = AbstractBlockOracle(batch, capacity)

\* A policy plans once, on the batch as submitted and the capacity as it is.
LEMMA AlwaysPlanned == Spec => []Planned
<1>1. Init => Planned
  BY DEF Init, Planned
<1>2. Planned /\ [Next]_vars => Planned'
  <2> SUFFICES ASSUME Planned, [Next]_vars PROVE Planned'
    OBVIOUS
  <2>1. CASE UNCHANGED vars
    BY <2>1 DEF Planned, vars
  <2>2. CASE Plan("native", Native(batch))
    BY <2>2 DEF Plan, Planned
  <2>3. CASE Plan("no_refusal_all_claims", NoRefusalAllClaims(batch))
    BY <2>3 DEF Plan, Planned
  <2>4. CASE Plan("naive_fair_share", IF batch = << >> THEN << >> ELSE NaiveFairShare(batch, capacity))
    BY <2>4 DEF Plan, Planned
  <2>5. CASE Plan("value_density", ValueDensity(batch, capacity))
    BY <2>5 DEF Plan, Planned
  <2>6. CASE Plan("complete_prefix_oracle", CompletePrefixOracle(batch, capacity))
    BY <2>6 DEF Plan, Planned
  <2>7. CASE Plan("abstract_block_oracle", AbstractBlockOracle(batch, capacity))
    BY <2>7 DEF Plan, Planned
  <2> QED
    BY <2>1, <2>2, <2>3, <2>4, <2>5, <2>6, <2>7 DEF Next
<1> QED
  BY <1>1, <1>2, PTL DEF Spec

LEMMA PlannedFits ==
  ASSUME Planned, plan # None, policy # "no_refusal_all_claims"
  PROVE  Fits(plan, batch, capacity)
<1>1. batch \in Batches /\ capacity \in Nat
  BY CapacityAssumption DEF Planned
<1>2. /\ Fits(Native(batch), batch, capacity)
      /\ Fits(IF batch = << >> THEN << >> ELSE NaiveFairShare(batch, capacity), batch, capacity)
      /\ Fits(ValueDensity(batch, capacity), batch, capacity)
      /\ Fits(CompletePrefixOracle(batch, capacity), batch, capacity)
      /\ Fits(AbstractBlockOracle(batch, capacity), batch, capacity)
  BY <1>1, NativeFits, NaiveFits, DensityFits, OracleFits, AbstractFits
<1> QED
  BY <1>2 DEF Planned

\* No policy but native and no_refusal_all_claims grants more blocks than
\* the runtime has: the share's division, what the loops leave, the mask's
\* sum and the blocks left over (plan_claims, all policies).
THEOREM PlansFit == Spec => []WithinCapacity
<1>1. Planned => WithinCapacity
  <2> SUFFICES ASSUME Planned, plan # None, policy # "no_refusal_all_claims"
               PROVE  Blocks(Claims) <= capacity
    BY DEF WithinCapacity
  <2>1. Total(BlocksOf(plan, Claims), Claims) <= capacity
    BY PlannedFits DEF Fits, Claims
  <2>2. IsFiniteSet(Claims)
    BY BatchFacts DEF Planned, Claims
  <2> QED
    BY <2>1, <2>2, BlocksTotal
<1> QED
  BY <1>1, AlwaysPlanned, PTL

\* value_density takes a viable claim exactly if it fits beside the denser
\* claims it took: the budget it leaves a claim never depends on the ones
\* behind it (value_density.py, plan_claims).
THEOREM DensestFirst == Spec => []DensestThatFit
<1>1. Planned => DensestThatFit
  <2> SUFFICES ASSUME Planned, plan # None, policy = "value_density",
                      NEW c \in Claims, Viable(c), c.threshold > 0
               PROVE  c \in Taken
                        <=> Thresholds({d \in Taken : ByDensity(d, c)}) + c.threshold <= capacity
    BY DEF DensestThatFit
  <2>1. batch \in Batches /\ capacity \in Nat /\ plan = ValueDensity(batch, capacity)
    BY CapacityAssumption DEF Planned
  <2>2. Taken = {d \in ToSet(batch) : ValueDensity(batch, capacity)[d].kind \in Accepting}
    BY <2>1 DEF Taken, Claims
  <2>3. c \in ToSet(batch)
    BY DEF Claims
  <2> QED
    BY <2>1, <2>2, <2>3, DensityTakesWhatFits
<1> QED
  BY <1>1, AlwaysPlanned, PTL

\* The masks of the complete prefix oracle find the best set of viable claims
\* that fits, of all there are (oracle.py, CompletePrefixOraclePolicy).
THEOREM OracleBest == Spec => []OracleIsOptimal
<1>1. Planned => OracleIsOptimal
  <2> DEFINE took == {c \in Claims : plan[c].reason = "oracle_complete_prefix"}
             fit == {c \in Claims : Viable(c)}
  <2> SUFFICES ASSUME Planned, plan # None, policy = "complete_prefix_oracle"
               PROVE  /\ Thresholds(took) <= capacity
                      /\ \A s \in SUBSET fit : Thresholds(s) <= capacity => Worth(s) <= Worth(took)
    BY DEF OracleIsOptimal
  <2> DEFINE sel == Chosen(Candidates(batch), BestMask(Candidates(batch), capacity))
  <2>1. batch \in Batches /\ capacity \in Nat /\ plan = CompletePrefixOracle(batch, capacity)
    BY CapacityAssumption DEF Planned
  <2>2. /\ sel \in SUBSET Viables(batch) /\ Thresholds(sel) <= capacity
        /\ \A s \in SUBSET Viables(batch) : Thresholds(s) <= capacity => Worth(s) <= Worth(sel)
    BY <2>1, OracleSelects
  <2>3. fit = Viables(batch)
    BY DEF Viables, Claims
  <2>4. took = sel
    <3>1. \A c \in Claims : plan[c].reason = "oracle_complete_prefix" <=> c \in sel
      BY <2>1, OracleDecides DEF Claims
    <3>2. sel \in SUBSET Claims
      BY <2>2 DEF Viables, Claims
    <3> HIDE DEF sel
    <3> QED
      BY <3>1, <3>2
  <2> HIDE DEF sel, took, fit
  <2> QED
    BY <2>2, <2>3, <2>4
<1> QED
  BY <1>1, AlwaysPlanned, PTL

\* Greed by value per block is optimal block for block: no plan that grants
\* within the pool and the prefixes is worth more (oracle.py,
\* AbstractBlockOraclePolicy).
THEOREM AbstractOracleBounds == Spec => []AbstractOracleIsBound
<1>1. Planned => AbstractOracleIsBound
  <2> DEFINE G == AbstractBlockOracle(batch, capacity)
  <2> SUFFICES ASSUME Planned, plan # None, policy # "no_refusal_all_claims"
               PROVE  AbstractValue(plan) <= AbstractValue(G)
    BY DEF AbstractOracleIsBound
  <2>1. batch \in Batches /\ capacity \in Nat
    BY CapacityAssumption DEF Planned
  <2>2. Fits(plan, batch, capacity) /\ Fits(G, batch, capacity)
    BY <2>1, PlannedFits, AbstractFits
  <2>3. \A c \in Claims : plan[c].blocks \in Nat /\ G[c].blocks \in Nat
    BY <2>2 DEF Fits, Claims
  <2>4. /\ AbstractValue(plan) = Total(Valued(Rates, BlocksOf(plan, Claims), Claims), Claims)
        /\ AbstractValue(G) = Total(Valued(Rates, BlocksOf(G, Claims), Claims), Claims)
    <3> HIDE DEF G
    <3> QED
      BY <2>1, <2>3, ValueIsTotal
  <2>5. /\ \A c \in Claims : Rates[c] \in Nat
        /\ \A c, d \in Claims : ByBlockValue(c, d) => Rates[c] >= Rates[d]
    BY <2>1, RatesFacts
  <2>6. Total(Valued(Rates, BlocksOf(plan, Claims), Claims), Claims)
          <= Total(Valued(Rates, BlocksOf(G, Claims), Claims), Claims)
    BY <2>1, <2>2, <2>5, AbstractIsBest DEF Claims
  <2> QED
    BY <2>4, <2>6
<1> QED
  BY <1>1, AlwaysPlanned, PTL
=============================================================================
