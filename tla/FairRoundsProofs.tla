--------------------------- MODULE FairRoundsProofs ---------------------------
(***************************************************************************)
(* The rounds of the complete-prefix fair share, for every batch and every *)
(* capacity: they are fair between tenants and in order within one, they   *)
(* do what Allocation allows, and they come to one pass over the claims.   *)
(***************************************************************************)
EXTENDS FairRounds, OrderFacts, SequenceTheorems

-----------------------------------------------------------------------------
(* The orders that the policy sorts by.                                    *)

LEMMA DenserFacts ==
  ASSUME NEW c \in ClaimType, NEW d \in ClaimType, NEW e \in ClaimType
  PROVE  /\ ~ Denser(c, c)
         /\ Denser(c, d) => ~ Denser(d, c)
         /\ Denser(c, d) /\ ~ Denser(e, d) => Denser(c, e)
         /\ ~ Denser(d, c) /\ Denser(d, e) => Denser(c, e)
         /\ ~ Denser(d, c) /\ ~ Denser(e, d) => ~ Denser(e, c)
<1> DEFINE x == AtLeast1(c.threshold)
           y == AtLeast1(d.threshold)
           z == AtLeast1(e.threshold)
<1>1. /\ c.value \in Nat /\ d.value \in Nat /\ e.value \in Nat
      /\ c.threshold \in Nat /\ d.threshold \in Nat /\ e.threshold \in Nat
  BY DEF ClaimType
<1>2. x \in Nat \ {0} /\ y \in Nat \ {0} /\ z \in Nat \ {0}
  BY <1>1 DEF AtLeast1
<1>3. /\ Denser(c, c) <=> c.value * x > c.value * x
      /\ Denser(c, d) <=> c.value * y > d.value * x
      /\ Denser(d, c) <=> d.value * x > c.value * y
      /\ Denser(d, e) <=> d.value * z > e.value * y
      /\ Denser(e, d) <=> e.value * y > d.value * z
      /\ Denser(c, e) <=> c.value * z > e.value * x
      /\ Denser(e, c) <=> e.value * x > c.value * z
  BY DEF Denser
<1> HIDE DEF x, y, z
<1>4. /\ c.value * x \in Int /\ c.value * y \in Int /\ d.value * x \in Int
      /\ d.value * z \in Int /\ e.value * y \in Int /\ c.value * z \in Int
      /\ e.value * x \in Int
  BY <1>1, <1>2
<1>5. /\ c.value * y > d.value * x /\ d.value * z >= e.value * y => c.value * z > e.value * x
      /\ c.value * y >= d.value * x /\ d.value * z > e.value * y => c.value * z > e.value * x
      /\ c.value * y >= d.value * x /\ d.value * z >= e.value * y => c.value * z >= e.value * x
  BY <1>1, <1>2, RatiosCompose
<1> QED
  BY <1>3, <1>4, <1>5

\* Claims that are told apart by their ids.
Distinct(S) == S \subseteq ClaimType /\ \A c, d \in S : c.id = d.id => c = d

TenantOrder(S) == {x \in S \X S : ByTenant(x[1], x[2])}

LEMMA TenantOrderIsOrder ==
  ASSUME NEW S, Distinct(S)
  PROVE  Orders(TenantOrder(S), S)
<1>1. \A c, d \in S : <<c, d>> \in TenantOrder(S) <=> ByTenant(c, d)
  BY DEF TenantOrder
<1>2. ASSUME NEW c \in S
      PROVE  c.created \in Nat /\ c.id \in Nat /\ c \in ClaimType
  BY DEF Distinct, ClaimType
<1>3. ASSUME NEW c \in S PROVE ~ ByTenant(c, c)
  BY <1>2, DenserFacts DEF ByTenant
<1>4. ASSUME NEW c \in S, NEW d \in S, c # d PROVE ByTenant(c, d) \/ ByTenant(d, c)
  <2>1. c.id # d.id
    BY <1>4 DEF Distinct
  <2> QED
    BY <1>2, <2>1 DEF ByTenant
<1>5. ASSUME NEW c \in S, NEW d \in S, NEW e \in S, ByTenant(c, d), ByTenant(d, e)
      PROVE  ByTenant(c, e)
  <2>1. /\ c \in ClaimType /\ d \in ClaimType /\ e \in ClaimType
        /\ c.created \in Nat /\ d.created \in Nat /\ e.created \in Nat
        /\ c.id \in Nat /\ d.id \in Nat /\ e.id \in Nat
    BY <1>2
  <2>2. ~ Denser(d, c) /\ ~ Denser(e, d)
    BY <1>5, <2>1, DenserFacts DEF ByTenant
  <2>3. CASE Denser(c, d) \/ Denser(d, e)
    BY <2>1, <2>2, <2>3, DenserFacts DEF ByTenant
  <2>4. CASE ~ Denser(c, d) /\ ~ Denser(d, e)
    <3>1. ~ Denser(e, c)
      BY <2>1, <2>2, DenserFacts
    <3>2. /\ c.created < d.created \/ (c.created = d.created /\ c.id < d.id)
          /\ d.created < e.created \/ (d.created = e.created /\ d.id < e.id)
      BY <1>5, <2>4 DEF ByTenant
    <3>3. c.created < e.created \/ (c.created = e.created /\ c.id < e.id)
      BY <2>1, <3>2
    <3> QED
      BY <3>1, <3>3 DEF ByTenant
  <2> QED
    BY <2>3, <2>4
<1> QED
  BY <1>1, <1>3, <1>4, <1>5 DEF Orders

-----------------------------------------------------------------------------
(* The queues.                                                             *)

\* The viable claims of a tenant.
Mine(b, t) == {c \in ToSet(b) : Viable(c) /\ TenantKey(c) = t}

LEMMA BatchFacts ==
  ASSUME NEW b \in Batches
  PROVE  /\ Distinct(ToSet(b)) /\ IsFiniteSet(ToSet(b)) /\ Keys(b) \subseteq Nat
         /\ IsFiniteSet(Keys(b))
<1>1. b \in Seq(ClaimType) /\ \A i, j \in DOMAIN b : b[i].id = b[j].id => i = j
  BY BatchAssumption
<1>2. Len(b) \in Nat /\ DOMAIN b = 1 .. Len(b) /\ \A i \in 1 .. Len(b) : b[i] \in ClaimType
  BY <1>1
<1>3. Distinct(ToSet(b))
  BY <1>1, <1>2 DEF Distinct, ToSet
<1>4. IsFiniteSet(ToSet(b))
  <2> DEFINE f == [i \in 1 .. Len(b) |-> b[i]]
  <2>1. f \in Surjection(1 .. Len(b), ToSet(b))
    BY <1>2 DEF Surjection, ToSet
  <2>2. IsFiniteSet(1 .. Len(b))
    <3>1. 1 \in Int /\ Len(b) \in Int
      BY <1>2
    <3> QED
      BY <3>1, FS_Interval
  <2> QED
    BY <2>1, <2>2, FS_Surjection
<1>5. Keys(b) \subseteq Nat
  BY <1>3 DEF Distinct, Keys, TenantKey, ClaimType
<1>6. IsFiniteSet(Keys(b))
  <2> DEFINE V == {d \in ToSet(b) : Viable(d)}
             f == [c \in V |-> TenantKey(c)]
  <2>1. f \in Surjection(V, Keys(b))
    BY DEF Surjection, Keys
  <2>2. IsFiniteSet(V)
    BY <1>4, FS_Subset
  <2> QED
    BY <2>1, <2>2, FS_Surjection
<1> QED
  BY <1>3, <1>4, <1>5, <1>6

\* A tenant's queue lists its claims in order.  The rank of a claim is the
\* turn in which it is decided.
LEMMA RankedInOrder ==
  ASSUME NEW b \in Batches, NEW t
  PROVE  /\ InOrder(Ranked(b, t), Mine(b, t), TenantOrder(Mine(b, t)))
         /\ IsFiniteSet(Mine(b, t))
         /\ \A c \in Mine(b, t) : Rank(TenantOrder(Mine(b, t)), Mine(b, t), c) = Turn(b, c)
<1> DEFINE S == Mine(b, t)
           R == TenantOrder(S)
           n == Cardinality(S)
           s == Ranked(b, t)
           earlier(c) == {d \in S : ByTenant(d, c)}
<1>1. Distinct(S) /\ IsFiniteSet(S)
  <2>1. Distinct(ToSet(b)) /\ IsFiniteSet(ToSet(b)) /\ S \in SUBSET ToSet(b)
    BY BatchFacts DEF Mine
  <2> QED
    BY <2>1, FS_Subset DEF Distinct
<1>2. \A c \in S : Rank(R, S, c) = Cardinality(earlier(c))
  <2> SUFFICES ASSUME NEW c \in S PROVE {d \in S : <<d, c>> \in R} = earlier(c)
    BY DEF Rank
  <2> QED
    BY DEF TenantOrder
<1>3. s = [i \in 1 .. n |-> CHOOSE c \in S : Cardinality(earlier(c)) = i - 1]
  BY DEF Ranked, Sorted, Mine
<1>4. \A c \in S : Cardinality(earlier(c)) = Turn(b, c)
  <2> SUFFICES ASSUME NEW c \in S
               PROVE  {d \in ToSet(b) : Viable(d) /\ TenantKey(d) = TenantKey(c) /\ ByTenant(d, c)}
                        = earlier(c)
    BY DEF Turn
  <2> QED
    BY DEF Mine
<1> HIDE DEF S, earlier, R
<1>5. Orders(R, S)
  BY <1>1, TenantOrderIsOrder DEF R
<1>6. \A i \in 1 .. n : \E c \in S : Cardinality(earlier(c)) = i - 1
  BY <1>1, <1>2, <1>5, RanksTaken
<1>7. \A i \in 1 .. n : s[i] \in S /\ Cardinality(earlier(s[i])) = i - 1
  BY <1>3, <1>6
<1>8. InOrder(s, S, R)
  <2>1. s = [i \in 1 .. n |-> s[i]]
    BY <1>3
  <2> HIDE DEF s
  <2> QED
    BY <1>1, <1>2, <1>5, <1>7, <2>1, RanksOrder
<1> QED
  BY <1>1, <1>2, <1>4, <1>8 DEF S, R

-----------------------------------------------------------------------------
(* The inductive invariant.                                                *)

\* Each element is less than those behind it.
Rises(s) == \A i, j \in DOMAIN s : i < j => s[i] < s[j]

Typed ==
  /\ batch \in Batches /\ capacity \in Nat /\ remaining \in 0 .. capacity
  /\ DOMAIN queues = Keys(batch)
  /\ turns \in Seq(Keys(batch)) /\ next \in Seq(Keys(batch))
  /\ progressed \in BOOLEAN /\ done \in BOOLEAN

\* The tenants take turns in the order of their names, and who has taken its
\* turn is before who has not; next is only filled by a grant.
TurnsOrdered ==
  /\ Rises(turns) /\ Rises(next)
  /\ \A i \in DOMAIN next, j \in DOMAIN turns : next[i] < turns[j]
  /\ next # << >> => progressed
  /\ done => turns = << >> /\ next = << >>

Accepted(c) == AcceptLeading(c, c.threshold, "complete_prefix_fair_round")

Planned ==
  /\ plan = [c \in DOMAIN plan |-> plan[c]]
  /\ DOMAIN plan \subseteq Claims
  /\ \A c \in Claims : ~ Viable(c) => c \in DOMAIN plan
  /\ \A c \in DOMAIN plan :
       plan[c] \in IF Viable(c) THEN {Accepted(c), Refuse("budget_full")} ELSE {TooSmall}

\* How many claims have left the tenant's queue.
Popped(t) == Len(Ranked(batch, t)) - Len(queues[t])

\* The queue is what is left of the tenant's claims.
Queued(t) ==
  /\ queues[t] \in Seq(Mine(batch, t)) /\ Popped(t) >= 0
  /\ \A i \in DOMAIN queues[t] : queues[t][i] = Ranked(batch, t)[Popped(t) + i]

\* Whatever left the queue was granted, nothing else is decided.
InRace(t) ==
  \A i \in DOMAIN Ranked(batch, t) :
    IF i <= Popped(t) THEN Ranked(batch, t)[i] \in Granted
                      ELSE Ranked(batch, t)[i] \notin DOMAIN plan

\* The claim that left the queue last and all behind it were refused.
Out(t) ==
  \A i \in DOMAIN Ranked(batch, t) :
    /\ Ranked(batch, t)[i] \in DOMAIN plan
    /\ Ranked(batch, t)[i] \in Granted <=> i < Popped(t)

\* Where a tenant stands after some rounds.
Standing(t, rounds) ==
  /\ Queued(t) /\ Popped(t) <= rounds + 1
  /\ t \in ToSet(turns) => InRace(t) /\ Popped(t) = rounds
  /\ t \in ToSet(next) => InRace(t) /\ Popped(t) = rounds + 1
  /\ t \notin ToSet(turns) \cup ToSet(next) => Out(t) \/ (InRace(t) /\ queues[t] = << >>)

RInv ==
  /\ Typed /\ TurnsOrdered /\ Planned
  /\ \E rounds \in Nat : \A t \in Keys(batch) : Standing(t, rounds)

-----------------------------------------------------------------------------
(* What the steps do to the parts of the invariant.                        *)

\* r lists the viable claims of tenant t in batch b.
IsLine(r, b, t) ==
  /\ r \in Seq(Mine(b, t)) /\ Len(r) \in Nat /\ DOMAIN r = 1 .. Len(r)
  /\ \A i, j \in DOMAIN r : r[i] = r[j] => i = j
  /\ \A c \in Mine(b, t) : \E i \in DOMAIN r : r[i] = c
  /\ \A i, j \in DOMAIN r : ByTenant(r[i], r[j]) => i < j
  /\ \A i \in DOMAIN r : r[i] \in Mine(b, t) /\ Turn(b, r[i]) = i - 1

LEMMA LineFacts ==
  ASSUME NEW b \in Batches, NEW t
  PROVE  IsLine(Ranked(b, t), b, t)
<1> DEFINE r == Ranked(b, t)
           S == Mine(b, t)
           R == TenantOrder(S)
<1>1. InOrder(r, S, R) /\ IsFiniteSet(S) /\ \A c \in S : Rank(R, S, c) = Turn(b, c)
  BY RankedInOrder
<1>2. Distinct(S)
  BY BatchFacts DEF Mine, Distinct
<1>3. Orders(R, S)
  BY <1>2, TenantOrderIsOrder
<1>4. \A c, d \in S : ByTenant(c, d) <=> <<c, d>> \in R
  BY DEF TenantOrder
<1> HIDE DEF r, S, R
<1>5. /\ r \in Seq(S) /\ Len(r) \in Nat /\ DOMAIN r = 1 .. Len(r)
      /\ \A i \in DOMAIN r : r[i] \in S
      /\ \A i, j \in DOMAIN r : i < j => <<r[i], r[j]>> \in R
  BY <1>1 DEF InOrder
<1>6. ASSUME NEW i \in DOMAIN r, NEW j \in DOMAIN r, ~(i < j)
      PROVE  <<r[i], r[j]>> \notin R
  <2>1. CASE i = j
    BY <1>3, <1>5, <2>1 DEF Orders
  <2>2. CASE j < i
    <3>1. <<r[j], r[i]>> \in R /\ r[i] \in S /\ r[j] \in S
      BY <1>5, <2>2
    <3>2. ASSUME <<r[i], r[j]>> \in R PROVE FALSE
      BY <1>3, <3>1, <3>2 DEF Orders
    <3> QED
      BY <3>2
  <2> QED
    BY <1>5, <1>6, <2>1, <2>2
<1>7. \A i, j \in DOMAIN r : r[i] = r[j] => i = j
  <2> SUFFICES ASSUME NEW i \in DOMAIN r, NEW j \in DOMAIN r, i < j PROVE r[i] # r[j]
    BY <1>5
  <2>1. ~ (j < i)
    BY <1>5
  <2>2. <<r[i], r[j]>> \in R /\ <<r[j], r[i]>> \notin R
    BY <1>5, <1>6, <2>1
  <2> QED
    BY <2>2
<1>8. \A i, j \in DOMAIN r : ByTenant(r[i], r[j]) => i < j
  BY <1>4, <1>5, <1>6
<1>9. \A i \in DOMAIN r : Turn(b, r[i]) = i - 1
  BY <1>1, <1>5 DEF InOrder
<1> QED
  BY <1>1, <1>5, <1>7, <1>8, <1>9 DEF IsLine, InOrder, r, S

\* The tenant at the head leaves the turns; it may go to the end of next.
LeavesTurns(t, rest, after) ==
  /\ t \in Keys(batch) /\ t \in ToSet(turns) /\ t \notin ToSet(next)
  /\ rest \in Seq(Keys(batch)) /\ ToSet(rest) = ToSet(turns) \ {t} /\ Rises(rest)
  /\ after \in Seq(Keys(batch)) /\ ToSet(after) = ToSet(next) \cup {t} /\ Rises(after)
  /\ \A i \in DOMAIN after, j \in DOMAIN rest : after[i] < rest[j]
  /\ \A i \in DOMAIN next, j \in DOMAIN rest : next[i] < rest[j]
  /\ after # << >>

LEMMA TurnLeaves ==
  ASSUME Typed, TurnsOrdered, turns # << >>
  PROVE  LeavesTurns(Head(turns), Tail(turns), Append(next, Head(turns)))
<1> DEFINE t     == Head(turns)
           rest  == Tail(turns)
           after == Append(next, t)
           m     == Len(turns)
           n     == Len(next)
<1>1. /\ m \in Nat /\ m > 0 /\ DOMAIN turns = 1 .. m /\ t = turns[1]
      /\ n \in Nat /\ DOMAIN next = 1 .. n
      /\ \A i \in 1 .. m : turns[i] \in Keys(batch)
      /\ \A i \in 1 .. n : next[i] \in Keys(batch)
  BY EmptySeq DEF Typed
<1>2. Keys(batch) \subseteq Nat
  BY BatchFacts DEF Typed
<1>3. /\ rest \in Seq(Keys(batch)) /\ DOMAIN rest = 1 .. m - 1
      /\ \A i \in 1 .. m - 1 : rest[i] = turns[i+1]
  BY <1>1, HeadTailProperties DEF Typed
<1>4. /\ after \in Seq(Keys(batch)) /\ DOMAIN after = 1 .. n + 1
      /\ after[n+1] = t /\ \A i \in 1 .. n : after[i] = next[i]
  BY <1>1, AppendProperties DEF Typed
<1> HIDE DEF t, rest, after, m, n
<1>5. /\ \A i, j \in 1 .. m : i < j => turns[i] < turns[j]
      /\ \A i, j \in 1 .. n : i < j => next[i] < next[j]
      /\ \A i \in 1 .. n, j \in 1 .. m : next[i] < turns[j]
  BY <1>1 DEF TurnsOrdered, Rises
<1>6. t \in Keys(batch) /\ t \in ToSet(turns)
  BY <1>1 DEF ToSet
<1>7. t \notin ToSet(next)
  <2> SUFFICES ASSUME NEW i \in 1 .. n PROVE next[i] # t
    BY <1>1 DEF ToSet
  <2>1. next[i] < turns[1] /\ next[i] \in Nat /\ t \in Nat
    BY <1>1, <1>2, <1>5, <1>6
  <2> QED
    BY <1>1, <2>1
<1>8. ToSet(rest) = ToSet(turns) \ {t}
  <2>1. \A i \in 1 .. m - 1 : rest[i] \in ToSet(turns) /\ rest[i] # t
    <3> SUFFICES ASSUME NEW i \in 1 .. m - 1 PROVE rest[i] \in ToSet(turns) /\ rest[i] # t
      OBVIOUS
    <3>1. i + 1 \in 1 .. m /\ 1 \in 1 .. m /\ 1 < i + 1 /\ rest[i] = turns[i+1]
      BY <1>1, <1>3
    <3>2. turns[1] < turns[i+1] /\ turns[1] \in Nat /\ turns[i+1] \in Nat
      BY <1>1, <1>2, <1>5, <3>1
    <3> QED
      BY <1>1, <3>1, <3>2 DEF ToSet
  <2>2. \A x \in ToSet(turns) : x # t => \E i \in 1 .. m - 1 : rest[i] = x
    <3> SUFFICES ASSUME NEW j \in 1 .. m, turns[j] # t
                 PROVE  \E i \in 1 .. m - 1 : rest[i] = turns[j]
      BY <1>1 DEF ToSet
    <3>1. j - 1 \in 1 .. m - 1 /\ rest[j-1] = turns[j]
      BY <1>1, <1>3
    <3> QED
      BY <3>1
  <2> QED
    BY <1>3, <2>1, <2>2 DEF ToSet
<1>9. ToSet(after) = ToSet(next) \cup {t}
  <2>1. \A i \in 1 .. n + 1 : after[i] \in ToSet(next) \cup {t}
    BY <1>1, <1>4 DEF ToSet
  <2>2. \A i \in 1 .. n : i \in 1 .. n + 1 /\ after[i] = next[i]
    BY <1>1, <1>4
  <2>3. n + 1 \in 1 .. n + 1
    BY <1>1
  <2> QED
    BY <1>1, <1>4, <2>1, <2>2, <2>3 DEF ToSet
<1>10. Rises(rest)
  <2> SUFFICES ASSUME NEW i \in 1 .. m - 1, NEW j \in 1 .. m - 1, i < j
               PROVE  rest[i] < rest[j]
    BY <1>3 DEF Rises
  <2>1. i + 1 \in 1 .. m /\ j + 1 \in 1 .. m /\ i + 1 < j + 1
    BY <1>1
  <2> QED
    BY <1>3, <1>5, <2>1
<1>11. Rises(after)
  <2> SUFFICES ASSUME NEW i \in 1 .. n + 1, NEW j \in 1 .. n + 1, i < j
               PROVE  after[i] < after[j]
    BY <1>4 DEF Rises
  <2>1. i \in 1 .. n /\ (j \in 1 .. n \/ j = n + 1) /\ 1 \in 1 .. m
    BY <1>1
  <2> QED
    BY <1>1, <1>4, <1>5, <2>1
<1>12. /\ \A i \in DOMAIN after, j \in DOMAIN rest : after[i] < rest[j]
       /\ \A i \in DOMAIN next, j \in DOMAIN rest : next[i] < rest[j]
  <2>1. \A j \in 1 .. m - 1 : j + 1 \in 1 .. m /\ 1 \in 1 .. m /\ 1 < j + 1
    BY <1>1
  <2>2. \A i \in 1 .. n + 1 : i \in 1 .. n \/ i = n + 1
    BY <1>1
  <2> QED
    BY <1>1, <1>3, <1>4, <1>5, <2>1, <2>2
<1>13. after # << >>
  BY <1>1, <1>4
<1> QED
  BY <1>3, <1>4, <1>6, <1>7, <1>8, <1>9, <1>10, <1>11, <1>12, <1>13
  DEF LeavesTurns, t, rest, after

\* The best claim left, and the queue without it.
LEMMA HeadFacts ==
  ASSUME batch \in Batches, NEW t, Queued(t), queues[t] # << >>
  PROVE  /\ Popped(t) \in Nat /\ Popped(t) + 1 \in DOMAIN Ranked(batch, t)
         /\ Head(queues[t]) = Ranked(batch, t)[Popped(t) + 1]
         /\ Tail(queues[t]) \in Seq(Mine(batch, t))
         /\ Len(Ranked(batch, t)) - Len(Tail(queues[t])) = Popped(t) + 1
         /\ \A i \in DOMAIN Tail(queues[t]) :
              Tail(queues[t])[i] = Ranked(batch, t)[(Popped(t) + 1) + i]
         /\ \A c \in ToSet(queues[t]) :
              \E i \in DOMAIN Ranked(batch, t) : i > Popped(t) /\ c = Ranked(batch, t)[i]
         /\ \A i \in DOMAIN Ranked(batch, t) :
              i > Popped(t) => Ranked(batch, t)[i] \in ToSet(queues[t])
         /\ ToSet(queues[t]) \subseteq Mine(batch, t)
<1> DEFINE r == Ranked(batch, t)
           k == Popped(t)
           q == queues[t]
           m == Len(q)
<1>1. IsLine(r, batch, t)
  BY LineFacts
<1>2. Len(r) \in Nat /\ DOMAIN r = 1 .. Len(r) /\ \A i \in DOMAIN r : r[i] \in Mine(batch, t)
  BY <1>1 DEF IsLine
<1>3. q \in Seq(Mine(batch, t)) /\ k >= 0 /\ k = Len(r) - m
      /\ \A i \in DOMAIN q : q[i] = r[k+i]
  BY DEF Queued, Popped
<1>4. m \in Nat /\ m > 0 /\ DOMAIN q = 1 .. m /\ \A i \in 1 .. m : q[i] \in Mine(batch, t)
  BY <1>3, EmptySeq
<1>5. /\ Head(q) = q[1] /\ Tail(q) \in Seq(Mine(batch, t)) /\ Len(Tail(q)) = m - 1
      /\ DOMAIN Tail(q) = 1 .. m - 1 /\ \A i \in 1 .. m - 1 : Tail(q)[i] = q[i+1]
  BY <1>3, <1>4, HeadTailProperties
<1> HIDE DEF r, k, q, m
<1>6. k \in Nat /\ k + 1 \in 1 .. Len(r)
  BY <1>2, <1>3, <1>4
<1>7. 1 \in 1 .. m /\ q[1] = r[k+1]
  BY <1>3, <1>4
<1>8. Len(r) - Len(Tail(q)) = k + 1
  BY <1>2, <1>3, <1>4, <1>5
<1>9. ASSUME NEW i \in 1 .. m - 1 PROVE Tail(q)[i] = r[(k+1)+i]
  <2>1. i + 1 \in 1 .. m /\ k + (i + 1) = (k + 1) + i
    BY <1>4, <1>6
  <2> QED
    BY <1>3, <1>4, <1>5, <2>1
<1>10. ASSUME NEW c \in ToSet(q) PROVE \E i \in DOMAIN r : i > k /\ c = r[i]
  <2>1. PICK j \in 1 .. m : c = q[j]
    BY <1>4 DEF ToSet
  <2>2. k + j \in 1 .. Len(r) /\ k + j > k
    BY <1>2, <1>3, <1>4, <1>6
  <2> QED
    BY <1>2, <1>3, <1>4, <2>1, <2>2
<1>11. ASSUME NEW i \in DOMAIN r, i > k PROVE r[i] \in ToSet(q)
  <2>1. i - k \in 1 .. m /\ k + (i - k) = i
    BY <1>2, <1>3, <1>4, <1>6, <1>11
  <2>2. q[i-k] = r[i]
    BY <1>3, <1>4, <2>1
  <2> QED
    BY <1>4, <2>1, <2>2 DEF ToSet
<1>12. ToSet(q) \subseteq Mine(batch, t)
  BY <1>4 DEF ToSet
<1> QED
  BY <1>2, <1>5, <1>6, <1>7, <1>8, <1>9, <1>10, <1>11, <1>12 DEF r, k, q

\* Deciding claims that have no decision yet.
LEMMA NewDecisions ==
  ASSUME Planned, NEW S \in SUBSET Claims, NEW v, plan' = Decided(S, v), batch' = batch,
         \A c \in S : Viable(c) /\ c \notin DOMAIN plan,
         \A c \in S : v \in {Accepted(c), Refuse("budget_full")}
  PROVE  /\ Planned' /\ DOMAIN plan' = DOMAIN plan \cup S
         /\ v.reason = "complete_prefix_fair_round" => Granted' = Granted \cup S
         /\ v.reason # "complete_prefix_fair_round" => Granted' = Granted
<1>1. /\ plan' = [c \in DOMAIN plan \cup S |-> IF c \in S THEN v ELSE plan[c]]
      /\ DOMAIN plan' = DOMAIN plan \cup S
  BY DEF Decided
<1>2. /\ \A c \in S : plan'[c] = v
      /\ \A c \in DOMAIN plan : plan'[c] = plan[c]
  BY <1>1
<1>3. plan' = [c \in DOMAIN plan' |-> plan'[c]]
  BY <1>1
<1>4. \A c \in DOMAIN plan' :
        plan'[c] \in IF Viable(c) THEN {Accepted(c), Refuse("budget_full")} ELSE {TooSmall}
  <2> SUFFICES ASSUME NEW c \in DOMAIN plan'
               PROVE  plan'[c] \in IF Viable(c) THEN {Accepted(c), Refuse("budget_full")}
                                                ELSE {TooSmall}
    OBVIOUS
  <2>1. CASE c \in S
    BY <1>2, <2>1
  <2>2. CASE c \in DOMAIN plan
    BY <1>2, <2>2 DEF Planned
  <2> QED
    BY <1>1, <2>1, <2>2
<1>5. Planned'
  <2>1. /\ DOMAIN plan' \subseteq Claims' /\ \A c \in Claims' : ~ Viable(c) => c \in DOMAIN plan'
    BY <1>1 DEF Planned, Claims
  <2>2. (plan = [c \in DOMAIN plan |-> plan[c]])'
    BY <1>3
  <2> HIDE DEF Accepted, Viable
  <2> QED
    BY <1>4, <2>1, <2>2 DEF Planned
<1>6. /\ v.reason = "complete_prefix_fair_round" => Granted' = Granted \cup S
      /\ v.reason # "complete_prefix_fair_round" => Granted' = Granted
  BY <1>1, <1>2 DEF Granted
<1> QED
  BY <1>1, <1>5, <1>6

LEMMA Reasons ==
  /\ \A c : Accepted(c).reason = "complete_prefix_fair_round"
  /\ Refuse("budget_full").reason = "budget_full"
  /\ TooSmall.reason = "below_minimum_viable_footprint"
BY DEF Accepted, AcceptLeading, Refuse, TooSmall

\* The step leaves the tenant where it stands.
Same(u) ==
  /\ batch' = batch /\ queues'[u] = queues[u]
  /\ \A c \in Mine(batch, u) : /\ c \in DOMAIN plan' <=> c \in DOMAIN plan
                               /\ c \in Granted' <=> c \in Granted
  /\ u \in ToSet(turns') <=> u \in ToSet(turns)
  /\ u \in ToSet(next') <=> u \in ToSet(next)

LEMMA SameStands ==
  ASSUME batch \in Batches, NEW u, NEW rounds, Standing(u, rounds), Same(u)
  PROVE  Standing(u, rounds)'
<1> DEFINE r == Ranked(batch, u)
<1>1. \A i \in DOMAIN r : r[i] \in Mine(batch, u)
  BY LineFacts DEF IsLine
<1>2. batch' = batch /\ queues'[u] = queues[u] /\ Ranked(batch', u) = r
  BY DEF Same
<1>3. Popped(u)' = Popped(u)
  BY <1>2 DEF Popped
<1>4. Queued(u)'
  BY <1>2, <1>3 DEF Queued, Standing
<1>5. \A i \in DOMAIN r : /\ r[i] \in DOMAIN plan' <=> r[i] \in DOMAIN plan
                          /\ r[i] \in Granted' <=> r[i] \in Granted
  BY <1>1 DEF Same
<1> HIDE DEF r
<1>6. InRace(u) => InRace(u)'
  <2>1. InRace(u) => \A i \in DOMAIN r : IF i <= Popped(u) THEN r[i] \in Granted
                                                            ELSE r[i] \notin DOMAIN plan
    BY DEF InRace, r
  <2>2. (\A i \in DOMAIN r : IF i <= Popped(u)' THEN r[i] \in Granted'
                                                 ELSE r[i] \notin DOMAIN plan') => InRace(u)'
    BY <1>2 DEF InRace
  <2> QED
    BY <1>3, <1>5, <2>1, <2>2
<1>7. Out(u) => Out(u)'
  <2>1. Out(u) => \A i \in DOMAIN r : /\ r[i] \in DOMAIN plan
                                      /\ r[i] \in Granted <=> i < Popped(u)
    BY DEF Out, r
  <2>2. (\A i \in DOMAIN r : /\ r[i] \in DOMAIN plan'
                             /\ r[i] \in Granted' <=> i < Popped(u)') => Out(u)'
    BY <1>2 DEF Out
  <2> QED
    BY <1>3, <1>5, <2>1, <2>2
<1> QED
  BY <1>2, <1>3, <1>4, <1>6, <1>7 DEF Standing, Same

\* A decision about claims of tenant t leaves the other tenants where they are.
LEMMA OthersStand ==
  ASSUME Typed, NEW t, NEW u, NEW rounds, Standing(u, rounds), u # t, batch' = batch,
         queues'[u] = queues[u],
         NEW S, S \subseteq Mine(batch, t), DOMAIN plan' = DOMAIN plan \cup S,
         Granted' \in {Granted, Granted \cup S},
         ToSet(turns') = ToSet(turns) \ {t}, ToSet(next') \in {ToSet(next), ToSet(next) \cup {t}}
  PROVE  Standing(u, rounds)'
<1>1. Mine(batch, u) \cap S = {}
  BY DEF Mine
<1>2. Same(u)
  BY <1>1 DEF Same
<1> QED
  BY <1>2, SameStands DEF Typed

\* One claim of the tenant leaves its queue.
LEMMA Pops ==
  ASSUME batch \in Batches, NEW t, t \in DOMAIN queues, Queued(t), queues[t] # << >>, batch' = batch,
         queues' = [queues EXCEPT ![t] = Tail(@)]
  PROVE  /\ Queued(t)' /\ Popped(t)' = Popped(t) + 1 /\ queues'[t] = Tail(queues[t])
         /\ DOMAIN queues' = DOMAIN queues
         /\ \A u \in DOMAIN queues : u # t => queues'[u] = queues[u]
<1>1. /\ queues'[t] = Tail(queues[t]) /\ DOMAIN queues' = DOMAIN queues
      /\ \A u \in DOMAIN queues : u # t => queues'[u] = queues[u]
  OBVIOUS
<1>2. Popped(t)' = Popped(t) + 1
  BY <1>1, HeadFacts DEF Popped
<1>3. Popped(t)' >= 0
  BY <1>2, HeadFacts
<1>4. /\ queues'[t] \in Seq(Mine(batch', t))
      /\ \A i \in DOMAIN queues'[t] : queues'[t][i] = Ranked(batch', t)[Popped(t)' + i]
  BY <1>1, <1>2, HeadFacts
<1> QED
  BY <1>1, <1>2, <1>3, <1>4 DEF Queued

\* The tenant at the head of the turns.
LEMMA TurnFacts ==
  ASSUME RInv, TakeTurn
  PROVE  \E t \in Keys(batch) :
           /\ t = Head(turns) /\ t \in DOMAIN queues /\ LeavesTurns(t, turns', Append(next, t))
           /\ Queued(t) /\ InRace(t) /\ t \in ToSet(turns) /\ turns # << >>
           /\ batch' = batch /\ capacity' = capacity /\ done' = done /\ ~ done
           /\ IF queues[t] = << >> THEN UNCHANGED <<remaining, queues, next, progressed, plan>>
                                   ELSE Grant(t) \/ ShutOut(t)
<1> DEFINE t == Head(turns)
<1>1. /\ turns # << >> /\ turns' = Tail(turns) /\ ~ done
      /\ batch' = batch /\ capacity' = capacity /\ done' = done
      /\ IF queues[t] = << >> THEN UNCHANGED <<remaining, queues, next, progressed, plan>>
                              ELSE Grant(t) \/ ShutOut(t)
  BY DEF TakeTurn
<1>2. LeavesTurns(t, turns', Append(next, t))
  BY <1>1, TurnLeaves DEF RInv
<1> HIDE DEF t
<1>3. t \in Keys(batch) /\ t \in ToSet(turns) /\ t \in DOMAIN queues
  BY <1>2 DEF LeavesTurns, RInv, Typed
<1>4. Queued(t) /\ InRace(t)
  BY <1>3 DEF RInv, Standing
<1> QED
  BY <1>1, <1>2, <1>3, <1>4 DEF t

\* What a turn keeps, whether or not the tenant takes part in the next round.
LEMMA TurnsStayOrdered ==
  ASSUME Typed, TurnsOrdered, NEW t, LeavesTurns(t, turns', Append(next, t)), ~ done',
         next' \in {next, Append(next, t)}, next' # next => progressed', progressed => progressed'
  PROVE  TurnsOrdered' /\ next' \in Seq(Keys(batch)) /\ turns' \in Seq(Keys(batch))
<1>1. CASE next' = next
  <2>1. next \in Seq(Keys(batch)) /\ Rises(next) /\ (next # << >> => progressed)
    BY DEF Typed, TurnsOrdered
  <2>2. /\ turns' \in Seq(Keys(batch)) /\ Rises(turns')
        /\ \A i \in DOMAIN next, j \in DOMAIN turns' : next[i] < turns'[j]
    BY DEF LeavesTurns
  <2>3. Rises(next)' /\ Rises(turns)'
    BY <1>1, <2>1, <2>2 DEF Rises
  <2> QED
    BY <1>1, <2>1, <2>2, <2>3 DEF TurnsOrdered
<1>2. CASE next' = Append(next, t)
  <2> DEFINE after == Append(next, t)
  <2>1. /\ after \in Seq(Keys(batch)) /\ Rises(after) /\ after # << >>
        /\ turns' \in Seq(Keys(batch)) /\ Rises(turns')
        /\ \A i \in DOMAIN after, j \in DOMAIN turns' : after[i] < turns'[j]
    BY DEF LeavesTurns
  <2>2. next' # << >> => progressed'
    BY <1>2 DEF TurnsOrdered
  <2> HIDE DEF after
  <2>3. next' = after
    BY <1>2 DEF after
  <2>4. Rises(next)' /\ Rises(turns)'
    BY <2>1, <2>3 DEF Rises
  <2> QED
    BY <2>1, <2>2, <2>3, <2>4 DEF TurnsOrdered
<1> QED
  BY <1>1, <1>2

LEMMA EmptyTurnKeeps ==
  ASSUME RInv, NEW t \in Keys(batch), LeavesTurns(t, turns', Append(next, t)), InRace(t), ~ done,
         UNCHANGED <<batch, capacity, done>>, queues[t] = << >>,
         UNCHANGED <<remaining, queues, next, progressed, plan>>
  PROVE  RInv'
<1>1. /\ batch' = batch /\ capacity' = capacity /\ done' = done /\ remaining' = remaining
      /\ queues' = queues /\ next' = next /\ progressed' = progressed /\ plan' = plan
      /\ Granted' = Granted
  BY DEF Granted
<1>2. Typed /\ TurnsOrdered /\ Planned
  BY DEF RInv
<1>3. TurnsOrdered' /\ turns' \in Seq(Keys(batch))
  BY <1>1, <1>2, TurnsStayOrdered
<1>4. Typed'
  BY <1>1, <1>2, <1>3 DEF Typed
<1>5. Planned'
  BY <1>1, <1>2 DEF Planned, Claims
<1>6. ToSet(turns') = ToSet(turns) \ {t} /\ t \notin ToSet(next') /\ t \in ToSet(turns)
  BY <1>1 DEF LeavesTurns
<1>7. ASSUME NEW rounds \in Nat, \A u \in Keys(batch) : Standing(u, rounds)
      PROVE  \A u \in Keys(batch) : Standing(u, rounds)'
  <2> SUFFICES ASSUME NEW u \in Keys(batch) PROVE Standing(u, rounds)'
    OBVIOUS
  <2>1. Standing(u, rounds)
    BY <1>7
  <2>2. CASE u # t
    <3>1. Same(u)
      BY <1>1, <1>6, <2>2 DEF Same
    <3> QED
      BY <1>2, <2>1, <3>1, SameStands DEF Typed
  <2>3. CASE u = t
    <3>1. Queued(t)' /\ Popped(t)' <= rounds + 1 /\ InRace(t)' /\ queues'[t] = << >>
      BY <1>1, <2>1, <2>3 DEF Standing, Queued, Popped, InRace
    <3>2. t \notin ToSet(turns') /\ t \notin ToSet(next')
      BY <1>6
    <3> QED
      BY <2>3, <3>1, <3>2 DEF Standing
  <2> QED
    BY <2>2, <2>3
<1>8. \E rounds \in Nat : \A u \in Keys(batch') : Standing(u, rounds)'
  BY <1>1, <1>7 DEF RInv
<1> QED
  BY <1>3, <1>4, <1>5, <1>8 DEF RInv

\* The claim at the head of a queue of a tenant that is in the race.
LEMMA BestClaim ==
  ASSUME RInv, NEW t \in Keys(batch), Queued(t), InRace(t), queues[t] # << >>
  PROVE  LET c == Head(queues[t])
         IN  /\ c \in Mine(batch, t) /\ c \in Claims /\ Viable(c) /\ c \in ClaimType
             /\ c \notin DOMAIN plan /\ c = Ranked(batch, t)[Popped(t) + 1]
             /\ Popped(t) \in Nat /\ Popped(t) + 1 \in DOMAIN Ranked(batch, t)
<1> DEFINE c == Head(queues[t])
<1>1. batch \in Batches
  BY DEF RInv, Typed
<1>2. /\ Popped(t) \in Nat /\ Popped(t) + 1 \in DOMAIN Ranked(batch, t)
      /\ c = Ranked(batch, t)[Popped(t) + 1]
  BY <1>1, HeadFacts
<1> HIDE DEF c
<1>3. c \in Mine(batch, t)
  BY <1>1, <1>2, LineFacts DEF IsLine
<1>4. c \notin DOMAIN plan
  <2>1. ~ (Popped(t) + 1 <= Popped(t))
    BY <1>2
  <2> QED
    BY <1>2, <2>1 DEF InRace
<1>5. c \in Claims /\ Viable(c) /\ c \in ClaimType
  BY <1>1, <1>3, BatchFacts DEF Mine, Claims, Distinct
<1> QED
  BY <1>2, <1>3, <1>4, <1>5 DEF c

LEMMA GrantKeeps ==
  ASSUME RInv, NEW t \in Keys(batch), LeavesTurns(t, turns', Append(next, t)), Queued(t), InRace(t),
         t \in DOMAIN queues, ~ done, UNCHANGED <<batch, capacity, done>>, queues[t] # << >>, Grant(t)
  PROVE  /\ RInv' /\ Granted' = Granted \cup {Head(queues[t])}
         /\ DOMAIN plan' = DOMAIN plan \cup {Head(queues[t])}
<1> DEFINE c == Head(queues[t])
           r == Ranked(batch, t)
           k == Popped(t)
<1>1. /\ c.threshold <= remaining /\ remaining' = remaining - c.threshold /\ progressed' = TRUE
      /\ queues' = [queues EXCEPT ![t] = Tail(@)]
      /\ plan' = Decided({c}, Accepted(c))
      /\ next' = IF queues'[t] = << >> THEN next ELSE Append(next, t)
      /\ batch' = batch /\ capacity' = capacity /\ done' = done
  BY DEF Grant, Accepted
<1>2. /\ Typed /\ TurnsOrdered /\ Planned /\ batch \in Batches
  BY DEF RInv, Typed
<1>3. /\ Queued(t)' /\ Popped(t)' = k + 1 /\ DOMAIN queues' = DOMAIN queues
      /\ \A u \in DOMAIN queues : u # t => queues'[u] = queues[u]
  BY <1>1, <1>2, Pops
<1>4. /\ c \in Mine(batch, t) /\ c \in Claims /\ Viable(c) /\ c \in ClaimType
      /\ c \notin DOMAIN plan /\ c = r[k+1] /\ k \in Nat /\ k + 1 \in DOMAIN r
  BY BestClaim
<1>5. /\ r' = r /\ IsLine(r, batch, t)
  BY <1>1, <1>2, LineFacts
<1> HIDE DEF c, r, k
<1>6. Planned' /\ DOMAIN plan' = DOMAIN plan \cup {c} /\ Granted' = Granted \cup {c}
  <2> DEFINE T == {c}
             v == Accepted(c)
  <2>1. T \in SUBSET Claims /\ \A d \in T : Viable(d) /\ d \notin DOMAIN plan
    BY <1>4
  <2>2. \A d \in T : v \in {Accepted(d), Refuse("budget_full")}
    OBVIOUS
  <2>3. v.reason = "complete_prefix_fair_round"
    BY Reasons
  <2>4. plan' = Decided(T, v)
    BY <1>1
  <2> HIDE DEF Accepted, T, v
  <2>5. Planned' /\ DOMAIN plan' = DOMAIN plan \cup T /\ Granted' = Granted \cup T
    BY <1>1, <1>2, <2>1, <2>2, <2>3, <2>4, NewDecisions
  <2> QED
    BY <2>5 DEF T
<1>7. remaining' \in 0 .. capacity
  <2>1. c.threshold \in Nat
    BY <1>4 DEF ClaimType
  <2> QED
    BY <1>1, <1>2, <2>1 DEF Typed
<1>8. TurnsOrdered' /\ next' \in Seq(Keys(batch)) /\ turns' \in Seq(Keys(batch))
  <2>1. next' \in {next, Append(next, t)}
    BY <1>1
  <2> QED
    BY <1>1, <1>2, <2>1, TurnsStayOrdered
<1>9. Typed'
  BY <1>1, <1>2, <1>3, <1>7, <1>8 DEF Typed
<1>10. /\ ToSet(turns') = ToSet(turns) \ {t} /\ t \in ToSet(turns) /\ t \notin ToSet(next)
       /\ ToSet(Append(next, t)) = ToSet(next) \cup {t}
  BY DEF LeavesTurns
<1>11. ToSet(next') = IF queues'[t] = << >> THEN ToSet(next) ELSE ToSet(next) \cup {t}
  BY <1>1, <1>10
<1>12. InRace(t)'
  <2>1. \A i \in DOMAIN r : IF i <= k THEN r[i] \in Granted ELSE r[i] \notin DOMAIN plan
    BY DEF InRace, r, k
  <2>2. ASSUME NEW i \in DOMAIN r
        PROVE  IF i <= k + 1 THEN r[i] \in Granted' ELSE r[i] \notin DOMAIN plan'
    <3>0. DOMAIN r = 1 .. Len(r) /\ Len(r) \in Nat
      BY <1>5 DEF IsLine
    <3>1. i \in Nat /\ (i <= k + 1 => i <= k \/ i = k + 1)
      BY <1>4, <3>0
    <3>2. CASE i <= k + 1
      BY <1>4, <1>6, <2>1, <3>1, <3>2
    <3>3. CASE ~ (i <= k + 1)
      <4>1. ~ (i <= k) /\ i # k + 1
        BY <1>4, <3>1, <3>3
      <4>2. r[i] # c
        BY <1>4, <1>5, <4>1 DEF IsLine
      <4> QED
        BY <1>6, <2>1, <3>3, <4>1, <4>2
    <3> QED
      BY <3>2, <3>3
  <2>3. (\A i \in DOMAIN r : IF i <= Popped(t)' THEN r[i] \in Granted'
                                                ELSE r[i] \notin DOMAIN plan') => InRace(t)'
    BY <1>1 DEF InRace, r
  <2> QED
    BY <1>3, <2>2, <2>3
<1>13. ASSUME NEW rounds \in Nat, \A u \in Keys(batch) : Standing(u, rounds)
       PROVE  \A u \in Keys(batch) : Standing(u, rounds)'
  <2> SUFFICES ASSUME NEW u \in Keys(batch) PROVE Standing(u, rounds)'
    OBVIOUS
  <2>1. Standing(u, rounds)
    BY <1>13
  <2>2. CASE u # t
    <3>1. queues'[u] = queues[u]
      BY <1>2, <1>3, <2>2 DEF Typed
    <3> DEFINE T == {c}
    <3>2. /\ T \subseteq Mine(batch, t) /\ Granted' \in {Granted, Granted \cup T}
          /\ DOMAIN plan' = DOMAIN plan \cup T
          /\ ToSet(next') \in {ToSet(next), ToSet(next) \cup {t}}
      BY <1>4, <1>6, <1>11
    <3> HIDE DEF T
    <3> QED
      BY <1>1, <1>2, <1>10, <2>1, <2>2, <3>1, <3>2, OthersStand
  <2>3. CASE u = t
    <3>1. Popped(t)' = rounds + 1
      BY <1>3, <1>10, <2>1, <2>3 DEF Standing, k
    <3>2. t \notin ToSet(turns')
      BY <1>10
    <3>3. Popped(t)' <= rounds + 1
      BY <3>1
    <3>4. t \notin ToSet(next') => queues'[t] = << >>
      BY <1>11
    <3> QED
      BY <1>3, <1>12, <2>3, <3>1, <3>2, <3>3, <3>4 DEF Standing
  <2> QED
    BY <2>2, <2>3
<1>14. \E rounds \in Nat : \A u \in Keys(batch') : Standing(u, rounds)'
  BY <1>1, <1>13 DEF RInv
<1> QED
  BY <1>6, <1>8, <1>9, <1>14 DEF RInv, c

LEMMA ShutOutKeeps ==
  ASSUME RInv, NEW t \in Keys(batch), LeavesTurns(t, turns', Append(next, t)), Queued(t), InRace(t),
         t \in DOMAIN queues, ~ done, UNCHANGED <<batch, capacity, done>>, queues[t] # << >>, ShutOut(t)
  PROVE  RInv' /\ Granted' = Granted /\ DOMAIN plan' = DOMAIN plan \cup ToSet(queues[t])
<1> DEFINE S == ToSet(queues[t])
           r == Ranked(batch, t)
           k == Popped(t)
<1>1. /\ remaining' = remaining /\ progressed' = progressed /\ next' = next
      /\ queues' = [queues EXCEPT ![t] = Tail(@)]
      /\ plan' = Decided(S, Refuse("budget_full"))
      /\ batch' = batch /\ capacity' = capacity /\ done' = done
  BY DEF ShutOut
<1>2. /\ Typed /\ TurnsOrdered /\ Planned /\ batch \in Batches
  BY DEF RInv, Typed
<1>3. /\ Queued(t)' /\ Popped(t)' = k + 1 /\ DOMAIN queues' = DOMAIN queues
      /\ \A u \in DOMAIN queues : u # t => queues'[u] = queues[u]
  BY <1>1, <1>2, Pops
<1>4. /\ S \subseteq Mine(batch, t) /\ k \in Nat
      /\ \A c \in S : \E i \in DOMAIN r : i > k /\ c = r[i]
      /\ \A i \in DOMAIN r : i > k => r[i] \in S
  BY <1>2, HeadFacts
<1>5. /\ r' = r /\ IsLine(r, batch, t)
  BY <1>1, <1>2, LineFacts
<1>6. \A i \in DOMAIN r : IF i <= k THEN r[i] \in Granted ELSE r[i] \notin DOMAIN plan
  BY DEF InRace
<1> HIDE DEF S, r, k
<1>7. \A i \in DOMAIN r : i \in Nat /\ (i > k <=> ~ (i <= k)) /\ (i < k + 1 <=> i <= k)
  BY <1>4, <1>5 DEF IsLine
<1>8. \A c \in S : Viable(c) /\ c \notin DOMAIN plan
  BY <1>4, <1>6, <1>7 DEF Mine
<1>9. Planned' /\ DOMAIN plan' = DOMAIN plan \cup S /\ Granted' = Granted
  <2>1. S \in SUBSET Claims
    BY <1>4 DEF Mine, Claims
  <2>2. Refuse("budget_full").reason # "complete_prefix_fair_round"
    BY Reasons
  <2> HIDE DEF Accepted
  <2> QED
    BY <1>1, <1>2, <1>8, <2>1, <2>2, NewDecisions
<1>10. TurnsOrdered' /\ next' \in Seq(Keys(batch)) /\ turns' \in Seq(Keys(batch))
  BY <1>1, <1>2, TurnsStayOrdered
<1>11. Typed'
  BY <1>1, <1>2, <1>3, <1>10 DEF Typed
<1>12. /\ ToSet(turns') = ToSet(turns) \ {t} /\ t \in ToSet(turns) /\ t \notin ToSet(next)
  BY DEF LeavesTurns
<1>13. Out(t)'
  <2>1. ASSUME NEW i \in DOMAIN r
        PROVE  r[i] \in DOMAIN plan' /\ (r[i] \in Granted' <=> i < k + 1)
    <3>1. Granted \subseteq DOMAIN plan
      BY DEF Granted
    <3>2. CASE i <= k
      BY <1>6, <1>7, <1>9, <3>1, <3>2
    <3>3. CASE ~ (i <= k)
      BY <1>4, <1>6, <1>7, <1>9, <3>1, <3>3
    <3> QED
      BY <3>2, <3>3
  <2>2. (\A i \in DOMAIN r : /\ r[i] \in DOMAIN plan'
                             /\ r[i] \in Granted' <=> i < Popped(t)') => Out(t)'
    BY <1>1 DEF Out, r
  <2> QED
    BY <1>3, <2>1, <2>2
<1>14. ASSUME NEW rounds \in Nat, \A u \in Keys(batch) : Standing(u, rounds)
       PROVE  \A u \in Keys(batch) : Standing(u, rounds)'
  <2> SUFFICES ASSUME NEW u \in Keys(batch) PROVE Standing(u, rounds)'
    OBVIOUS
  <2>1. Standing(u, rounds)
    BY <1>14
  <2>2. CASE u # t
    <3>1. queues'[u] = queues[u] /\ Granted' \in {Granted, Granted \cup S}
          /\ ToSet(next') \in {ToSet(next), ToSet(next) \cup {t}}
      BY <1>1, <1>2, <1>3, <1>9, <2>2 DEF Typed
    <3> QED
      BY <1>1, <1>2, <1>4, <1>9, <1>12, <2>1, <2>2, <3>1, OthersStand
  <2>3. CASE u = t
    <3>1. Popped(t)' = rounds + 1
      BY <1>3, <1>12, <2>1, <2>3 DEF Standing, k
    <3>2. t \notin ToSet(turns') /\ t \notin ToSet(next') /\ Popped(t)' <= rounds + 1
      BY <1>1, <1>12, <3>1
    <3> QED
      BY <1>3, <1>13, <2>3, <3>2 DEF Standing
  <2> QED
    BY <2>2, <2>3
<1>15. \E rounds \in Nat : \A u \in Keys(batch') : Standing(u, rounds)'
  BY <1>1, <1>14 DEF RInv
<1> QED
  BY <1>9, <1>10, <1>11, <1>15 DEF RInv, S

LEMMA TakeTurnKeeps ==
  ASSUME RInv, TakeTurn
  PROVE  RInv'
<1>1. PICK t \in Keys(batch) :
        /\ t = Head(turns) /\ t \in DOMAIN queues /\ LeavesTurns(t, turns', Append(next, t))
        /\ Queued(t) /\ InRace(t) /\ t \in ToSet(turns) /\ turns # << >>
        /\ batch' = batch /\ capacity' = capacity /\ done' = done /\ ~ done
        /\ IF queues[t] = << >> THEN UNCHANGED <<remaining, queues, next, progressed, plan>>
                                ELSE Grant(t) \/ ShutOut(t)
  BY TurnFacts
<1>2. CASE queues[t] = << >>
  BY <1>1, <1>2, EmptyTurnKeeps
<1>3. CASE queues[t] # << >> /\ Grant(t)
  BY <1>1, <1>3, GrantKeeps
<1>4. CASE queues[t] # << >> /\ ShutOut(t)
  BY <1>1, <1>4, ShutOutKeeps
<1> QED
  BY <1>1, <1>2, <1>3, <1>4

LEMMA EndRoundKeeps ==
  ASSUME RInv, EndRound
  PROVE  RInv'
<1>1. /\ ~ done /\ turns = << >> /\ turns' = next /\ next' = << >> /\ progressed' = FALSE
      /\ batch' = batch /\ capacity' = capacity /\ remaining' = remaining
      /\ queues' = queues /\ plan' = plan /\ done' = done /\ Granted' = Granted
  BY DEF EndRound, Granted
<1>2. Typed /\ TurnsOrdered /\ Planned
  BY DEF RInv
<1>3. ToSet(<< >>) = {} /\ << >> \in Seq(Keys(batch)) /\ DOMAIN << >> = {}
  BY DEF ToSet
<1>4. Typed'
  BY <1>1, <1>2, <1>3 DEF Typed
<1>5. TurnsOrdered'
  <2>1. Rises(turns') /\ Rises(next')
    BY <1>1, <1>2, <1>3 DEF TurnsOrdered, Rises
  <2>2. (\A i \in DOMAIN next, j \in DOMAIN turns : next[i] < turns[j])'
    BY <1>1, <1>3
  <2>3. Rises(turns)' /\ Rises(next)'
    BY <2>1 DEF Rises
  <2> QED
    BY <1>1, <2>2, <2>3 DEF TurnsOrdered
<1>6. Planned'
  BY <1>1, <1>2 DEF Planned, Claims
<1>7. ASSUME NEW rounds \in Nat, \A u \in Keys(batch) : Standing(u, rounds)
      PROVE  \A u \in Keys(batch) : Standing(u, rounds + 1)'
  <2> SUFFICES ASSUME NEW u \in Keys(batch) PROVE Standing(u, rounds + 1)'
    OBVIOUS
  <2>1. /\ Queued(u) /\ Popped(u) <= rounds + 1
        /\ u \in ToSet(next) => InRace(u) /\ Popped(u) = rounds + 1
        /\ u \notin ToSet(next) => Out(u) \/ (InRace(u) /\ queues[u] = << >>)
    BY <1>1, <1>3, <1>7 DEF Standing
  <2>2. Popped(u) \in Int
    <3>1. Len(Ranked(batch, u)) \in Nat
      BY <1>2, LineFacts DEF IsLine, Typed
    <3>2. Len(queues[u]) \in Nat
      BY <2>1 DEF Queued
    <3> QED
      BY <3>1, <3>2 DEF Popped
  <2>3. Popped(u)' = Popped(u) /\ Ranked(batch, u)' = Ranked(batch, u)
    BY <1>1 DEF Popped
  <2>4. Queued(u)' /\ (InRace(u) => InRace(u)') /\ (Out(u) => Out(u)')
    BY <1>1, <2>1, <2>3 DEF Queued, InRace, Out
  <2>5. Popped(u)' <= (rounds + 1) + 1
    BY <2>1, <2>2, <2>3
  <2>6. u \notin ToSet(next') /\ ToSet(turns') = ToSet(next) /\ queues'[u] = queues[u]
    BY <1>1, <1>3
  <2> QED
    BY <2>1, <2>3, <2>4, <2>5, <2>6 DEF Standing
<1>8. \E rounds \in Nat : \A u \in Keys(batch') : Standing(u, rounds)'
  <2>1. PICK rounds \in Nat : \A u \in Keys(batch) : Standing(u, rounds)
    BY DEF RInv
  <2>2. rounds + 1 \in Nat
    OBVIOUS
  <2> QED
    BY <1>1, <1>7, <2>1, <2>2
<1> QED
  BY <1>4, <1>5, <1>6, <1>8 DEF RInv

\* Once the rounds are over every queued claim has its decision.
LEMMA NobodyUndecided ==
  ASSUME RInv, turns = << >>, next = << >>
  PROVE  UNION {ToSet(queues[t]) : t \in DOMAIN queues} \subseteq DOMAIN plan
<1> SUFFICES ASSUME NEW t \in DOMAIN queues, NEW c \in ToSet(queues[t])
             PROVE  c \in DOMAIN plan
  OBVIOUS
<1>1. batch \in Batches /\ t \in Keys(batch)
  BY DEF RInv, Typed
<1>2. Queued(t) /\ (Out(t) \/ (InRace(t) /\ queues[t] = << >>))
  <2>1. ToSet(<< >>) = {}
    BY DEF ToSet
  <2> QED
    BY <1>1, <2>1 DEF RInv, Standing
<1>3. queues[t] # << >>
  BY DEF ToSet
<1>4. \E i \in DOMAIN Ranked(batch, t) : c = Ranked(batch, t)[i]
  BY <1>1, <1>2, <1>3, HeadFacts
<1> QED
  BY <1>2, <1>3, <1>4 DEF Out

LEMMA FinishKeeps ==
  ASSUME RInv, Finish
  PROVE  RInv' /\ plan' = plan /\ next = << >> /\ turns = << >>
<1>1. /\ turns = << >> /\ ~ (progressed /\ next # << >>) /\ done' = TRUE
      /\ plan' = Decided((UNION {ToSet(queues[t]) : t \in DOMAIN queues}) \ DOMAIN plan,
                         Refuse("budget_full"))
      /\ batch' = batch /\ capacity' = capacity /\ remaining' = remaining
      /\ queues' = queues /\ turns' = turns /\ next' = next /\ progressed' = progressed
  BY DEF Finish
<1>2. Typed /\ TurnsOrdered /\ Planned
  BY DEF RInv
<1>3. next = << >>
  BY <1>1, <1>2 DEF TurnsOrdered
<1>4. plan' = plan
  <2> DEFINE S == (UNION {ToSet(queues[t]) : t \in DOMAIN queues}) \ DOMAIN plan
  <2>1. UNION {ToSet(queues[t]) : t \in DOMAIN queues} \subseteq DOMAIN plan
    BY <1>1, <1>3, NobodyUndecided
  <2>2. plan' = [c \in DOMAIN plan \cup S |->
                   IF c \in S THEN Refuse("budget_full") ELSE plan[c]]
    BY <1>1 DEF Decided
  <2>3. S = {}
    BY <2>1
  <2> HIDE DEF S
  <2>4. plan' = [c \in DOMAIN plan |-> plan[c]]
    BY <2>2, <2>3
  <2> QED
    BY <1>2, <2>4 DEF Planned
<1>5. Typed'
  BY <1>1, <1>2 DEF Typed
<1>6. TurnsOrdered'
  <2>1. Rises(turns)' /\ Rises(next)'
    BY <1>1, <1>2 DEF TurnsOrdered, Rises
  <2> QED
    BY <1>1, <1>2, <1>3, <2>1 DEF TurnsOrdered
<1>7. Planned' /\ Granted' = Granted
  BY <1>1, <1>2, <1>4 DEF Planned, Claims, Granted
<1>8. ASSUME NEW rounds \in Nat, NEW u \in Keys(batch), Standing(u, rounds)
      PROVE  Standing(u, rounds)'
  <2>1. Same(u)
    BY <1>1, <1>4, <1>7 DEF Same
  <2> QED
    BY <1>2, <1>8, <2>1, SameStands DEF Typed
<1>9. \E rounds \in Nat : \A u \in Keys(batch') : Standing(u, rounds)'
  BY <1>1, <1>8 DEF RInv
<1> QED
  BY <1>1, <1>3, <1>4, <1>5, <1>6, <1>7, <1>9 DEF RInv

LEMMA StutterKeeps ==
  ASSUME RInv, UNCHANGED vars
  PROVE  RInv'
<1>1. /\ batch' = batch /\ capacity' = capacity /\ remaining' = remaining /\ queues' = queues
      /\ turns' = turns /\ next' = next /\ progressed' = progressed /\ plan' = plan
      /\ done' = done /\ Granted' = Granted
  BY DEF vars, Granted
<1>2. Typed' /\ Planned'
  BY <1>1 DEF RInv, Typed, Planned, Claims
<1>3. TurnsOrdered'
  BY <1>1 DEF RInv, TurnsOrdered, Rises
<1>4. ASSUME NEW rounds \in Nat, NEW u \in Keys(batch), Standing(u, rounds)
      PROVE  Standing(u, rounds)'
  <2>1. Same(u)
    BY <1>1 DEF Same
  <2> QED
    BY <1>4, <2>1, SameStands DEF RInv, Typed
<1>5. \E rounds \in Nat : \A u \in Keys(batch') : Standing(u, rounds)'
  BY <1>1, <1>4 DEF RInv
<1> QED
  BY <1>2, <1>3, <1>5 DEF RInv

\* RInv is inductive.
LEMMA StepKeeps ==
  ASSUME RInv, [Next]_vars
  PROVE  RInv'
BY TakeTurnKeeps, EndRoundKeeps, FinishKeeps, StutterKeeps DEF Next

-----------------------------------------------------------------------------
(* The beginning.                                                          *)

\* The tenants that have a claim, in the order of their names.
LEMMA TurnsAtFirst ==
  ASSUME NEW b \in Batches
  PROVE  /\ Sorted(Keys(b), <) \in Seq(Keys(b)) /\ Rises(Sorted(Keys(b), <))
         /\ ToSet(Sorted(Keys(b), <)) = Keys(b)
<1> DEFINE S == Keys(b)
           R == {x \in Nat \X Nat : x[1] < x[2]}
           n == Cardinality(S)
           s == Sorted(S, <)
           earlier(c) == {d \in S : d < c}
<1>1. S \subseteq Nat /\ IsFiniteSet(S)
  BY BatchFacts
<1>2. \A c, d \in Nat : <<c, d>> \in R <=> c < d
  OBVIOUS
<1>3. s = [i \in 1 .. n |-> CHOOSE c \in S : Cardinality(earlier(c)) = i - 1]
  BY DEF Sorted
<1> HIDE DEF S, R
<1>4. Orders(R, S)
  <2>1. \A a \in S : <<a, a>> \notin R
    BY <1>1, <1>2
  <2>2. ASSUME NEW a \in S, NEW c \in S, NEW d \in S, <<a, c>> \in R, <<c, d>> \in R
        PROVE  <<a, d>> \in R
    <3>1. a \in Nat /\ c \in Nat /\ d \in Nat
      BY <1>1
    <3>2. a < c /\ c < d
      BY <1>2, <2>2, <3>1
    <3>3. a < d
      BY <3>1, <3>2
    <3> QED
      BY <1>2, <3>1, <3>3
  <2>3. ASSUME NEW a \in S, NEW c \in S, a # c PROVE <<a, c>> \in R \/ <<c, a>> \in R
    <3>1. a \in Nat /\ c \in Nat
      BY <1>1
    <3>2. a < c \/ c < a
      BY <2>3, <3>1
    <3> QED
      BY <1>2, <3>1, <3>2
  <2> QED
    BY <2>1, <2>2, <2>3 DEF Orders
<1>5. \A c \in S : Rank(R, S, c) = Cardinality(earlier(c))
  <2> SUFFICES ASSUME NEW c \in S PROVE {d \in S : <<d, c>> \in R} = earlier(c)
    BY DEF Rank
  <2> QED
    BY <1>1, <1>2
<1> HIDE DEF earlier
<1>6. \A i \in 1 .. n : \E c \in S : Cardinality(earlier(c)) = i - 1
  BY <1>1, <1>4, <1>5, RanksTaken
<1>7. \A i \in 1 .. n : s[i] \in S /\ Cardinality(earlier(s[i])) = i - 1
  BY <1>3, <1>6
<1>8. InOrder(s, S, R)
  <2>1. s = [i \in 1 .. n |-> s[i]]
    BY <1>3
  <2> HIDE DEF s
  <2> QED
    BY <1>1, <1>4, <1>5, <1>7, <2>1, RanksOrder
<1> HIDE DEF s
<1>9. s \in Seq(S) /\ \A i \in DOMAIN s : s[i] \in S
  BY <1>8 DEF InOrder
<1>10. Rises(s)
  <2> SUFFICES ASSUME NEW i \in DOMAIN s, NEW j \in DOMAIN s, i < j PROVE s[i] < s[j]
    BY DEF Rises
  <2>1. <<s[i], s[j]>> \in R /\ s[i] \in Nat /\ s[j] \in Nat
    BY <1>1, <1>8, <1>9 DEF InOrder
  <2> QED
    BY <1>2, <2>1
<1>11. ToSet(s) = S
  <2>1. \A c \in S : \E i \in DOMAIN s : s[i] = c
    BY <1>8 DEF InOrder
  <2> QED
    BY <1>9, <2>1 DEF ToSet
<1> QED
  BY <1>9, <1>10, <1>11 DEF s, S

LEMMA InitHolds ==
  ASSUME Init
  PROVE  RInv
<1>1. /\ batch \in Batches /\ capacity \in Nat /\ remaining = capacity
      /\ queues = [t \in Keys(batch) |-> Ranked(batch, t)]
      /\ next = << >> /\ progressed = FALSE /\ done = FALSE
      /\ plan = [c \in {d \in ToSet(batch) : ~ Viable(d)} |-> TooSmall]
  BY CapacityAssumption DEF Init
<1>2. turns \in Seq(Keys(batch)) /\ Rises(turns) /\ ToSet(turns) = Keys(batch)
  BY TurnsAtFirst DEF Init
<1>3. << >> \in Seq(Keys(batch)) /\ DOMAIN << >> = {} /\ ToSet(<< >>) = {}
  BY DEF ToSet
<1>4. Typed
  <2>1. remaining \in 0 .. capacity
    BY <1>1
  <2>2. DOMAIN queues = Keys(batch)
    BY <1>1
  <2> QED
    BY <1>1, <1>2, <1>3, <2>1, <2>2, Zenon DEF Typed
<1>5. TurnsOrdered
  BY <1>1, <1>2, <1>3 DEF TurnsOrdered, Rises
<1>6. Planned
  BY <1>1 DEF Planned, Claims
<1>7. ASSUME NEW t \in Keys(batch) PROVE Standing(t, 0)
  <2> DEFINE r == Ranked(batch, t)
  <2>1. IsLine(r, batch, t)
    BY <1>1, LineFacts
  <2>2. queues[t] = r
    BY <1>1
  <2> HIDE DEF r
  <2>3. Len(r) \in Nat /\ DOMAIN r = 1 .. Len(r) /\ r \in Seq(Mine(batch, t))
        /\ \A i \in DOMAIN r : r[i] \in Mine(batch, t)
    BY <2>1 DEF IsLine
  <2>4. Popped(t) = 0
    BY <2>2, <2>3 DEF Popped, r
  <2>5. Queued(t)
    BY <2>2, <2>3, <2>4 DEF Queued, r
  <2>6. InRace(t)
    <3>1. \A i \in DOMAIN r : ~ (i <= 0)
      BY <2>3
    <3>2. \A i \in DOMAIN r : r[i] \notin DOMAIN plan
      BY <1>1, <2>3 DEF Mine
    <3> QED
      BY <2>4, <3>1, <3>2 DEF InRace, r
  <2>7. Popped(t) <= 0 + 1
    BY <2>4
  <2> QED
    BY <1>1, <1>2, <1>3, <2>4, <2>5, <2>6, <2>7 DEF Standing
<1>8. \E rounds \in Nat : \A t \in Keys(batch) : Standing(t, rounds)
  BY <1>7
<1> QED
  BY <1>4, <1>5, <1>6, <1>8 DEF RInv

THEOREM AlwaysRInv == Spec => []RInv
BY InitHolds, StepKeeps, PTL DEF Spec

-----------------------------------------------------------------------------
(* The properties.                                                         *)

\* Every variable keeps its type, nobody has two turns in a round, and a
\* granted claim gets its whole threshold, a refused one nothing.
THEOREM RoundsTypes == Spec => []TypeOK
<1>1. ASSUME RInv PROVE TypeOK
  <2>1. Typed /\ TurnsOrdered /\ Planned
    BY <1>1 DEF RInv
  <2> DEFINE S == Keys(batch)
             m == Len(turns)
             n == Len(next)
             both == turns \o next
  <2>2. /\ m \in Nat /\ DOMAIN turns = 1 .. m /\ \A i \in 1 .. m : turns[i] \in S
        /\ n \in Nat /\ DOMAIN next = 1 .. n /\ \A i \in 1 .. n : next[i] \in S
    BY <2>1 DEF Typed
  <2>3. S \subseteq Nat
    BY <2>1, BatchFacts DEF Typed
  <2>4. /\ DOMAIN both = 1 .. m + n
        /\ \A i \in 1 .. m + n : both[i] = IF i <= m THEN turns[i] ELSE next[i - m]
    <3>1. turns \in Seq(S) /\ next \in Seq(S)
      BY <2>1 DEF Typed
    <3> HIDE DEF S
    <3> QED
      BY <3>1, ConcatProperties
  <2> HIDE DEF S, m, n, both
  <2>5. ToSet(turns) \cup ToSet(next) \subseteq S
    BY <2>2 DEF ToSet
  <2>6. /\ \A i, j \in 1 .. m : i < j => turns[i] < turns[j]
        /\ \A i, j \in 1 .. n : i < j => next[i] < next[j]
        /\ \A i \in 1 .. n, j \in 1 .. m : next[i] < turns[j]
    BY <2>1, <2>2 DEF TurnsOrdered, Rises
  <2>7. ASSUME NEW i \in 1 .. m + n, NEW j \in 1 .. m + n, i < j PROVE both[i] # both[j]
    <3>1. CASE j <= m
      <4>1. i \in 1 .. m /\ j \in 1 .. m /\ both[i] = turns[i] /\ both[j] = turns[j]
        BY <2>2, <2>4, <2>7, <3>1
      <4>2. turns[i] < turns[j] /\ turns[i] \in Nat /\ turns[j] \in Nat
        BY <2>2, <2>3, <2>6, <2>7, <4>1
      <4> QED
        BY <4>1, <4>2
    <3>2. CASE i > m
      <4>1. i - m \in 1 .. n /\ j - m \in 1 .. n /\ i - m < j - m
            /\ both[i] = next[i-m] /\ both[j] = next[j-m]
        BY <2>2, <2>4, <2>7, <3>2
      <4>2. next[i-m] < next[j-m] /\ next[i-m] \in Nat /\ next[j-m] \in Nat
        BY <2>2, <2>3, <2>6, <4>1
      <4> QED
        BY <4>1, <4>2
    <3>3. CASE i <= m /\ j > m
      <4>1. i \in 1 .. m /\ j - m \in 1 .. n /\ both[i] = turns[i] /\ both[j] = next[j-m]
        BY <2>2, <2>4, <2>7, <3>3
      <4>2. next[j-m] < turns[i] /\ turns[i] \in Nat /\ next[j-m] \in Nat
        BY <2>2, <2>3, <2>6, <4>1
      <4> QED
        BY <4>1, <4>2
    <3> QED
      BY <2>2, <3>1, <3>2, <3>3
  <2>8. IsInjective(both)
    <3>1. DOMAIN both = 1 .. m + n /\ \A i, j \in 1 .. m + n : i < j \/ j < i \/ i = j
      BY <2>2, <2>4
    <3> QED
      BY <2>7, <3>1 DEF IsInjective
  <2>9. ASSUME NEW c \in DOMAIN plan
        PROVE  plan[c].blocks = (IF c \in Granted THEN c.threshold ELSE 0)
    <3>1. c \in ClaimType
      BY <2>1, BatchFacts DEF Typed, Planned, Claims, Distinct
    <3>2. c.threshold \in Nat /\ c.count \in Nat
      BY <3>1 DEF ClaimType
    <3>3. CASE Viable(c) /\ plan[c] = Accepted(c)
      <4>1. Min({c.threshold, c.count}) = c.threshold
        BY <3>2, <3>3 DEF Min, Viable
      <4>2. Accepted(c).blocks = Min({c.threshold, c.count})
        BY DEF Accepted, AcceptLeading
      <4>3. c \in Granted
        BY <3>3, Reasons DEF Granted
      <4> QED
        BY <3>3, <4>1, <4>2, <4>3
    <3>4. CASE plan[c] = Refuse("budget_full") \/ plan[c] = TooSmall
      <4>1. Refuse("budget_full").blocks = 0 /\ TooSmall.blocks = 0
        BY DEF Refuse, TooSmall
      <4>2. c \notin Granted
        BY <3>4, Reasons DEF Granted
      <4> QED
        BY <3>4, <4>1, <4>2
    <3> QED
      BY <2>1, <3>3, <3>4 DEF Planned
  <2>10. DOMAIN plan \subseteq Claims
    BY <2>1 DEF Planned
  <2>11. /\ remaining \in 0 .. capacity /\ DOMAIN queues = Keys(batch)
         /\ progressed \in BOOLEAN /\ done \in BOOLEAN
    BY <2>1 DEF Typed
  <2> QED
    BY <2>5, <2>8, <2>9, <2>10, <2>11, Zenon DEF TypeOK, S, both
<1> QED
  BY <1>1, AlwaysRInv, PTL

\* A granted claim of the tenant left its queue; while the tenant is in the
\* race every claim that did was granted.
LEMMA GrantedFacts ==
  ASSUME RInv, NEW t \in Keys(batch), Queued(t), InRace(t) \/ Out(t)
  PROVE  LET r == Ranked(batch, t)
         IN  /\ IsLine(r, batch, t) /\ Popped(t) \in 0 .. Len(r)
             /\ \A c \in GrantedTo(t) : \E i \in DOMAIN r : r[i] = c
             /\ \A i, j \in DOMAIN r : r[i] \in Granted /\ j < i => r[j] \in Granted
             /\ \A i \in DOMAIN r : r[i] \in Granted => i <= Popped(t)
             /\ InRace(t) => \A i \in DOMAIN r : i <= Popped(t) => r[i] \in GrantedTo(t)
<1> DEFINE r == Ranked(batch, t)
           k == Popped(t)
<1>1. batch \in Batches /\ Planned
  BY DEF RInv, Typed
<1>2. IsLine(r, batch, t)
  BY <1>1, LineFacts
<1>3. k \in 0 .. Len(r)
  <2>1. Len(r) \in Nat /\ Len(queues[t]) \in Nat /\ k >= 0
    BY <1>2 DEF IsLine, Queued
  <2>2. k = Len(r) - Len(queues[t])
    BY DEF Popped
  <2> QED
    BY <2>1, <2>2
<1>4. Out(t) => \A i \in DOMAIN r : r[i] \in Granted <=> i < k
  BY DEF Out
<1>5. InRace(t) => \A i \in DOMAIN r : IF i <= k THEN r[i] \in Granted ELSE r[i] \notin DOMAIN plan
  BY DEF InRace
<1> HIDE DEF r, k
<1>6. /\ Len(r) \in Nat /\ DOMAIN r = 1 .. Len(r)
      /\ \A i \in DOMAIN r : r[i] \in Mine(batch, t)
      /\ \A c \in Mine(batch, t) : \E i \in DOMAIN r : r[i] = c
  BY <1>2 DEF IsLine
<1>7. Granted \subseteq DOMAIN plan
  BY DEF Granted
<1>8. \A i \in DOMAIN r : r[i] \in Granted => i <= k
  BY <1>3, <1>4, <1>5, <1>6, <1>7
<1>9. \A i, j \in DOMAIN r : r[i] \in Granted /\ j < i => r[j] \in Granted
  <2> SUFFICES ASSUME NEW i \in DOMAIN r, NEW j \in DOMAIN r, r[i] \in Granted, j < i
               PROVE  r[j] \in Granted
    OBVIOUS
  <2>1. i \in Nat /\ j \in Nat /\ k \in Nat /\ i <= k
    BY <1>3, <1>6, <1>8
  <2>2. CASE InRace(t)
    <3>1. j <= k
      BY <2>1
    <3> QED
      BY <1>5, <2>2, <3>1
  <2>3. CASE Out(t)
    <3>1. i < k
      BY <1>4, <2>3
    <3>2. j < k
      BY <2>1, <3>1
    <3> QED
      BY <1>4, <2>3, <3>2
  <2> QED
    BY <2>2, <2>3
<1>10. \A c \in GrantedTo(t) : c \in Mine(batch, t)
  <2> SUFFICES ASSUME NEW c \in GrantedTo(t) PROVE c \in Mine(batch, t)
    OBVIOUS
  <2>1. c \in DOMAIN plan /\ plan[c].reason = "complete_prefix_fair_round" /\ TenantKey(c) = t
    BY DEF GrantedTo, Granted
  <2>2. c \in ToSet(batch) /\ (~ Viable(c) => plan[c] = TooSmall)
    BY <1>1, <2>1 DEF Planned, Claims
  <2> QED
    BY <2>1, <2>2, Reasons DEF Mine
<1>11. InRace(t) => \A i \in DOMAIN r : i <= k => r[i] \in GrantedTo(t)
  BY <1>5, <1>6 DEF GrantedTo, Mine
<1> QED
  BY <1>2, <1>3, <1>6, <1>8, <1>9, <1>10, <1>11 DEF r, k

\* Where the tenant stands, one way or another it is in the race or out.
LEMMA InOrOut ==
  ASSUME NEW t, NEW rounds, Standing(t, rounds)
  PROVE  Queued(t) /\ (InRace(t) \/ Out(t))
BY DEF Standing

\* A tenant has at most as many grants as claims that left its queue, and
\* while it is in the race as many.
LEMMA GrantsCounted ==
  ASSUME RInv, NEW t \in Keys(batch), Queued(t), InRace(t) \/ Out(t)
  PROVE  /\ Popped(t) \in Nat /\ Cardinality(GrantedTo(t)) \in Nat
         /\ Cardinality(GrantedTo(t)) <= Popped(t)
         /\ InRace(t) => Cardinality(GrantedTo(t)) = Popped(t)
<1> DEFINE r == Ranked(batch, t)
           k == Popped(t)
           G == GrantedTo(t)
           f == [i \in 1 .. k |-> r[i]]
           H == {r[i] : i \in 1 .. k}
<1>1. /\ IsLine(r, batch, t) /\ k \in 0 .. Len(r)
      /\ \A c \in G : \E i \in DOMAIN r : r[i] = c
      /\ \A i \in DOMAIN r : r[i] \in Granted => i <= k
      /\ InRace(t) => \A i \in DOMAIN r : i <= k => r[i] \in G
  BY GrantedFacts
<1>2. G \subseteq Granted
  BY DEF GrantedTo
<1> HIDE DEF r, k, G
<1>3. /\ Len(r) \in Nat /\ DOMAIN r = 1 .. Len(r) /\ k \in Nat
      /\ \A i, j \in DOMAIN r : r[i] = r[j] => i = j
      /\ \A i \in 1 .. k : i \in DOMAIN r
  BY <1>1 DEF IsLine
<1>4. /\ IsFiniteSet(1 .. k) /\ Cardinality(1 .. k) = k
  <2>1. 1 \in Int /\ k \in Int
    BY <1>3
  <2> QED
    BY <1>3, <2>1, FS_Interval
<1>5. f \in Bijection(1 .. k, H)
  BY <1>3 DEF Bijection, Injection, Surjection, IsInjective
<1>6. IsFiniteSet(H) /\ Cardinality(H) = k
  <2>1. ExistsBijection(1 .. k, H)
    BY <1>5 DEF ExistsBijection
  <2> HIDE DEF H
  <2> QED
    BY <1>4, <2>1, FS_Bijection
<1>7. G \subseteq H
  BY <1>1, <1>2, <1>3
<1>8. IsFiniteSet(G) /\ Cardinality(G) <= Cardinality(H)
  BY <1>6, <1>7, FS_Subset
<1>9. InRace(t) => G = H
  BY <1>1, <1>3, <1>7
<1>10. Cardinality(G) \in Nat
  BY <1>8, FS_CardinalityType
<1> QED
  BY <1>3, <1>6, <1>8, <1>9, <1>10 DEF G, k

\* Fair rounds, for any number of tenants and claims: while a tenant competes
\* no other tenant is more than one grant ahead of it.
THEOREM RoundsAreFair == Spec => []NobodyGetsAhead
<1>1. ASSUME RInv PROVE NobodyGetsAhead
  <2> SUFFICES ASSUME NEW t \in DOMAIN queues, NEW u \in DOMAIN queues, Competes(t)
               PROVE  Cardinality(GrantedTo(u)) <= Cardinality(GrantedTo(t)) + 1
    BY DEF NobodyGetsAhead
  <2>1. t \in Keys(batch) /\ u \in Keys(batch) /\ batch \in Batches
    BY <1>1 DEF RInv, Typed
  <2>2. PICK rounds \in Nat : Standing(t, rounds) /\ Standing(u, rounds)
    BY <1>1, <2>1 DEF RInv
  <2>3. Queued(t) /\ (InRace(t) \/ Out(t)) /\ Queued(u) /\ (InRace(u) \/ Out(u))
    BY <2>2, InOrOut
  <2>4. queues[t] # << >>
    BY DEF Competes, ToSet
  <2>5. ~ Out(t)
    <3>1. PICK c \in ToSet(queues[t]) : c \notin DOMAIN plan
      BY DEF Competes
    <3>2. \E i \in DOMAIN Ranked(batch, t) : c = Ranked(batch, t)[i]
      BY <2>1, <2>3, <2>4, HeadFacts
    <3> QED
      BY <3>1, <3>2 DEF Out
  <2>6. InRace(t) /\ (Popped(t) = rounds \/ Popped(t) = rounds + 1)
    BY <2>2, <2>4, <2>5 DEF Standing
  <2>7. Popped(u) <= rounds + 1
    BY <2>2 DEF Standing
  <2>8. /\ Popped(u) \in Nat /\ Cardinality(GrantedTo(u)) \in Nat
        /\ Cardinality(GrantedTo(u)) <= Popped(u)
    BY <1>1, <2>1, <2>3, GrantsCounted
  <2>9. Popped(t) \in Nat /\ Cardinality(GrantedTo(t)) = Popped(t)
    BY <1>1, <2>1, <2>3, <2>6, GrantsCounted
  <2> QED
    BY <2>6, <2>7, <2>8, <2>9
<1> QED
  BY <1>1, AlwaysRInv, PTL

\* A tenant gets its best claims: none is granted while a better one of the
\* same tenant is refused or waits.
THEOREM BestClaimsAreFirst == Spec => []BestClaimsFirst
<1>1. ASSUME RInv PROVE BestClaimsFirst
  <2> SUFFICES ASSUME NEW c \in Granted, NEW d \in Claims, Viable(d), TenantKey(d) = TenantKey(c),
                      ByTenant(d, c)
               PROVE  d \in Granted
    BY DEF BestClaimsFirst
  <2> DEFINE t == TenantKey(d)
             r == Ranked(batch, t)
  <2>1. t \in Keys(batch) /\ d \in Mine(batch, t) /\ c \in GrantedTo(t)
    BY DEF Keys, Mine, Claims, GrantedTo
  <2>2. \E rounds \in Nat : Standing(t, rounds)
    BY <1>1, <2>1 DEF RInv
  <2> HIDE DEF t
  <2>3. Queued(t) /\ (InRace(t) \/ Out(t))
    BY <2>2, InOrOut
  <2>4. /\ IsLine(r, batch, t) /\ \E i \in DOMAIN r : r[i] = c
        /\ \A i, j \in DOMAIN r : r[i] \in Granted /\ j < i => r[j] \in Granted
    BY <1>1, <2>1, <2>3, GrantedFacts
  <2> HIDE DEF r
  <2>5. PICK i \in DOMAIN r : r[i] = c
    BY <2>4
  <2>6. PICK j \in DOMAIN r : r[j] = d
    BY <2>1, <2>4 DEF IsLine
  <2>7. j < i
    BY <2>4, <2>5, <2>6 DEF IsLine
  <2> QED
    BY <2>4, <2>5, <2>6, <2>7
<1> QED
  BY <1>1, AlwaysRInv, PTL

-----------------------------------------------------------------------------
(* The rounds do what Allocation allows.                                   *)

\* A call begins with nothing granted, and each of its steps grants one claim
\* that fits what is left, or refuses waiting claims of which one does not
\* fit, or changes nothing that Allocation sees: the refusals after the
\* rounds find nobody.  (That every claim gets its decision is liveness.)
THEOREM RoundsAllocate ==
  Spec => AllocationOfRounds!Init /\ [][AllocationOfRounds!Next]_(AllocationOfRounds!vars)
<1>1. ASSUME Init PROVE AllocationOfRounds!Init
  <2>1. RInv /\ remaining = capacity
    BY <1>1, InitHolds DEF Init
  <2>2. remaining \in Nat /\ DOMAIN plan \subseteq Claims
    BY <2>1 DEF RInv, Typed, Planned
  <2>3. Granted = {}
    <3>1. plan = [c \in {d \in ToSet(batch) : ~ Viable(d)} |-> TooSmall]
      BY <1>1 DEF Init
    <3> QED
      BY <3>1, Reasons DEF Granted
  <2> QED
    BY <2>2, <2>3 DEF AllocationOfRounds!Init
<1>2. ASSUME RInv, [Next]_vars
      PROVE  [AllocationOfRounds!Next]_(AllocationOfRounds!vars)
  <2>1. ASSUME batch' = batch, remaining' = remaining, plan' = plan
        PROVE  UNCHANGED AllocationOfRounds!vars
    BY <2>1 DEF AllocationOfRounds!vars, Claims, Granted
  <2>2. CASE TakeTurn
    <3>1. PICK t \in Keys(batch) :
            /\ t = Head(turns) /\ t \in DOMAIN queues /\ LeavesTurns(t, turns', Append(next, t))
            /\ Queued(t) /\ InRace(t) /\ t \in ToSet(turns) /\ turns # << >>
            /\ batch' = batch /\ capacity' = capacity /\ done' = done /\ ~ done
            /\ IF queues[t] = << >> THEN UNCHANGED <<remaining, queues, next, progressed, plan>>
                                    ELSE Grant(t) \/ ShutOut(t)
      BY <1>2, <2>2, TurnFacts
    <3> DEFINE c == Head(queues[t])
               S == ToSet(queues[t])
    <3>2. CASE queues[t] = << >>
      BY <2>1, <3>1, <3>2
    <3>3. /\ Claims' = Claims /\ Granted \subseteq DOMAIN plan
          /\ AllocationOfRounds!Waiting = Claims \ DOMAIN plan
      BY <3>1 DEF Claims, Granted, AllocationOfRounds!Waiting
    <3>4. CASE queues[t] # << >> /\ Grant(t)
      <4>1. c \in Claims /\ c \notin DOMAIN plan
        BY <1>2, <3>1, <3>4, BestClaim
      <4>2. Granted' = Granted \cup {c} /\ DOMAIN plan' = DOMAIN plan \cup {c}
        BY <1>2, <3>1, <3>4, GrantKeeps
      <4>3. c.threshold <= remaining /\ remaining' = remaining - c.threshold
        BY <3>4 DEF Grant
      <4> HIDE DEF c
      <4>4. DOMAIN plan' \ Granted' = DOMAIN plan \ Granted
        BY <4>1, <4>2
      <4>5. AllocationOfRounds!Grant(c)
        BY <3>3, <4>2, <4>3, <4>4 DEF AllocationOfRounds!Grant
      <4>6. c \in AllocationOfRounds!Waiting
        BY <3>3, <4>1
      <4> QED
        BY <4>5, <4>6 DEF AllocationOfRounds!Next
    <3>5. CASE queues[t] # << >> /\ ShutOut(t)
      <4>1. /\ c \in Claims /\ c = Ranked(batch, t)[Popped(t) + 1]
            /\ Popped(t) \in Nat /\ Popped(t) + 1 \in DOMAIN Ranked(batch, t)
        BY <1>2, <3>1, <3>5, BestClaim
      <4>2. Granted' = Granted /\ DOMAIN plan' = DOMAIN plan \cup S
        BY <1>2, <3>1, <3>5, ShutOutKeeps
      <4>3. c.threshold > remaining /\ remaining' = remaining
        BY <3>5 DEF ShutOut
      <4>4. /\ S \subseteq Mine(batch, t) /\ c \in S
            /\ \A d \in S : \E i \in DOMAIN Ranked(batch, t) : i > Popped(t)
                                                              /\ d = Ranked(batch, t)[i]
        <5>1. batch \in Batches
          BY <1>2 DEF RInv, Typed
        <5>2. Popped(t) + 1 > Popped(t)
          BY <4>1
        <5>3. /\ S \subseteq Mine(batch, t)
              /\ \A i \in DOMAIN Ranked(batch, t) : i > Popped(t) => Ranked(batch, t)[i] \in S
              /\ \A d \in S : \E i \in DOMAIN Ranked(batch, t) : i > Popped(t)
                                                                /\ d = Ranked(batch, t)[i]
          BY <3>1, <3>5, <5>1, HeadFacts
        <5> QED
          BY <4>1, <5>2, <5>3
      <4>5. S \subseteq Claims \ DOMAIN plan
        <5> SUFFICES ASSUME NEW d \in S PROVE d \in Claims /\ d \notin DOMAIN plan
          OBVIOUS
        <5>1. PICK i \in DOMAIN Ranked(batch, t) : i > Popped(t) /\ d = Ranked(batch, t)[i]
          BY <4>4
        <5>2. IsLine(Ranked(batch, t), batch, t)
          BY <1>2, LineFacts DEF RInv, Typed
        <5>3. i \in 1 .. Len(Ranked(batch, t)) /\ Len(Ranked(batch, t)) \in Nat
          BY <5>1, <5>2 DEF IsLine
        <5>4. ~ (i <= Popped(t))
          BY <4>1, <5>1, <5>3
        <5>5. d \notin DOMAIN plan
          BY <3>1, <5>1, <5>4 DEF InRace
        <5> QED
          BY <4>4, <5>5 DEF Mine, Claims
      <4> HIDE DEF S, c
      <4>6. DOMAIN plan' \ Granted' = (DOMAIN plan \ Granted) \cup S
        BY <3>3, <4>2, <4>5
      <4>7. AllocationOfRounds!Refuse(S)
        BY <3>3, <4>2, <4>3, <4>4, <4>6 DEF AllocationOfRounds!Refuse
      <4>8. S \in SUBSET AllocationOfRounds!Waiting
        BY <3>3, <4>5
      <4> QED
        BY <4>7, <4>8 DEF AllocationOfRounds!Next
    <3> QED
      BY <3>1, <3>2, <3>4, <3>5
  <2>3. CASE EndRound
    BY <2>1, <2>3 DEF EndRound
  <2>4. CASE Finish
    <3>1. plan' = plan
      BY <1>2, <2>4, FinishKeeps
    <3>2. batch' = batch /\ remaining' = remaining
      BY <2>4 DEF Finish
    <3> QED
      BY <2>1, <3>1, <3>2
  <2>5. CASE UNCHANGED vars
    BY <2>1, <2>5 DEF vars
  <2> QED
    BY <1>2, <2>2, <2>3, <2>4, <2>5 DEF Next
<1> QED
  BY <1>1, <1>2, AlwaysRInv, PTL DEF Spec

-----------------------------------------------------------------------------
(* The rounds come to a single pass.                                       *)

Viables(b) == {c \in ToSet(b) : Viable(c)}

\* c is decided in an earlier turn than d, or in the same by a tenant with an
\* earlier name.
Sooner(b, c, d) ==
  Turn(b, c) < Turn(b, d) \/ (Turn(b, c) = Turn(b, d) /\ TenantKey(c) < TenantKey(d))

PassOrder(b) == {x \in Viables(b) \X Viables(b) : Sooner(b, x[1], x[2])}

\* The order of FairShare.
InTurns(b) ==
  [i \in 1 .. Cardinality(Viables(b)) |->
     CHOOSE c \in Viables(b) : Cardinality({d \in Viables(b) : Sooner(b, d, c)}) = i - 1]

\* Where a claim is in its tenant's line.
LEMMA TurnIsPlace ==
  ASSUME NEW b \in Batches, NEW c \in Viables(b)
  PROVE  /\ TenantKey(c) \in Keys(b) /\ TenantKey(c) \in Nat /\ Turn(b, c) \in Nat
         /\ IsLine(Ranked(b, TenantKey(c)), b, TenantKey(c))
         /\ Turn(b, c) + 1 \in DOMAIN Ranked(b, TenantKey(c))
         /\ Ranked(b, TenantKey(c))[Turn(b, c) + 1] = c
<1> DEFINE t == TenantKey(c)
           r == Ranked(b, t)
<1>1. c \in Mine(b, t) /\ t \in Keys(b)
  BY DEF Viables, Mine, Keys
<1>2. IsLine(r, b, t) /\ t \in Nat
  BY <1>1, LineFacts, BatchFacts
<1> HIDE DEF r, t
<1>3. PICK i \in DOMAIN r : r[i] = c
  BY <1>1, <1>2 DEF IsLine
<1>4. Turn(b, c) = i - 1 /\ i \in 1 .. Len(r) /\ Len(r) \in Nat
  BY <1>2, <1>3 DEF IsLine
<1>5. Turn(b, c) \in Nat /\ Turn(b, c) + 1 = i
  BY <1>4
<1> QED
  BY <1>1, <1>2, <1>3, <1>5 DEF r, t

LEMMA PassOrderIsOrder ==
  ASSUME NEW b \in Batches
  PROVE  Orders(PassOrder(b), Viables(b))
<1> DEFINE V == Viables(b)
<1>1. \A c, d \in V : <<c, d>> \in PassOrder(b) <=> Sooner(b, c, d)
  BY DEF PassOrder
<1>2. \A c \in V : Turn(b, c) \in Nat /\ TenantKey(c) \in Nat
  BY TurnIsPlace
<1> HIDE DEF V
<1>3. ASSUME NEW c \in V PROVE ~ Sooner(b, c, c)
  BY <1>2 DEF Sooner
<1>4. ASSUME NEW c \in V, NEW d \in V, NEW e \in V, Sooner(b, c, d), Sooner(b, d, e)
      PROVE  Sooner(b, c, e)
  <2>1. /\ Turn(b, c) \in Nat /\ Turn(b, d) \in Nat /\ Turn(b, e) \in Nat
        /\ TenantKey(c) \in Nat /\ TenantKey(d) \in Nat /\ TenantKey(e) \in Nat
    BY <1>2
  <2>2. /\ Turn(b, c) < Turn(b, d) \/ (Turn(b, c) = Turn(b, d) /\ TenantKey(c) < TenantKey(d))
        /\ Turn(b, d) < Turn(b, e) \/ (Turn(b, d) = Turn(b, e) /\ TenantKey(d) < TenantKey(e))
    BY <1>4 DEF Sooner
  <2>3. Turn(b, c) < Turn(b, e) \/ (Turn(b, c) = Turn(b, e) /\ TenantKey(c) < TenantKey(e))
    BY <2>1, <2>2
  <2> QED
    BY <2>3 DEF Sooner
<1>5. ASSUME NEW c \in V, NEW d \in V, c # d PROVE Sooner(b, c, d) \/ Sooner(b, d, c)
  <2>1. /\ Turn(b, c) \in Nat /\ Turn(b, d) \in Nat
        /\ TenantKey(c) \in Nat /\ TenantKey(d) \in Nat
    BY <1>2
  <2>2. ~ (Turn(b, c) = Turn(b, d) /\ TenantKey(c) = TenantKey(d))
    <3>1. /\ c = Ranked(b, TenantKey(c))[Turn(b, c) + 1]
          /\ d = Ranked(b, TenantKey(d))[Turn(b, d) + 1]
      BY TurnIsPlace DEF V
    <3> QED
      BY <1>5, <3>1
  <2> QED
    BY <2>1, <2>2 DEF Sooner
<1> QED
  BY <1>1, <1>3, <1>4, <1>5 DEF Orders, V

\* s lists the viable claims of the batch in the order of the pass.
IsPassLine(s, b) ==
  /\ Len(s) \in Nat /\ DOMAIN s = 1 .. Len(s)
  /\ \A i \in DOMAIN s : s[i] \in Viables(b)
  /\ \A c \in Viables(b) : \E i \in DOMAIN s : s[i] = c
  /\ \A i, j \in DOMAIN s : i < j => Sooner(b, s[i], s[j])
  /\ \A i, j \in DOMAIN s : s[i] = s[j] => i = j

LEMMA InTurnsInOrder ==
  ASSUME NEW b \in Batches
  PROVE  IsPassLine(InTurns(b), b)
<1> DEFINE S == Viables(b)
           R == PassOrder(b)
           n == Cardinality(S)
           s == InTurns(b)
           earlier(c) == {d \in S : Sooner(b, d, c)}
<1>1. IsFiniteSet(S)
  <2>1. IsFiniteSet(ToSet(b)) /\ S \in SUBSET ToSet(b)
    BY BatchFacts DEF Viables
  <2> QED
    BY <2>1, FS_Subset
<1>2. Orders(R, S)
  BY PassOrderIsOrder
<1>3. s = [i \in 1 .. n |-> CHOOSE c \in S : Cardinality(earlier(c)) = i - 1]
  BY DEF InTurns
<1>4. \A c, d \in S : <<c, d>> \in R <=> Sooner(b, c, d)
  BY DEF PassOrder
<1> HIDE DEF S, R
<1>5. \A c \in S : Rank(R, S, c) = Cardinality(earlier(c))
  <2> SUFFICES ASSUME NEW c \in S PROVE {d \in S : <<d, c>> \in R} = earlier(c)
    BY DEF Rank
  <2> QED
    BY <1>4
<1> HIDE DEF earlier
<1>6. \A i \in 1 .. n : \E c \in S : Cardinality(earlier(c)) = i - 1
  BY <1>1, <1>2, <1>5, RanksTaken
<1>7. \A i \in 1 .. n : s[i] \in S /\ Cardinality(earlier(s[i])) = i - 1
  BY <1>3, <1>6
<1>8. InOrder(s, S, R)
  <2>1. s = [i \in 1 .. n |-> s[i]]
    BY <1>3
  <2> HIDE DEF s
  <2> QED
    BY <1>1, <1>2, <1>5, <1>7, <2>1, RanksOrder
<1> HIDE DEF s
<1>9. /\ Len(s) \in Nat /\ DOMAIN s = 1 .. Len(s) /\ \A i \in DOMAIN s : s[i] \in S
      /\ \A c \in S : \E i \in DOMAIN s : s[i] = c
  BY <1>8 DEF InOrder
<1>10. \A i, j \in DOMAIN s : i < j => <<s[i], s[j]>> \in R
  BY <1>8 DEF InOrder
<1>11. \A i, j \in DOMAIN s : i < j => Sooner(b, s[i], s[j])
  BY <1>4, <1>9, <1>10
<1>12. \A i, j \in DOMAIN s : s[i] = s[j] => i = j
  <2> SUFFICES ASSUME NEW i \in DOMAIN s, NEW j \in DOMAIN s, i < j PROVE s[i] # s[j]
    BY <1>9
  <2>1. <<s[i], s[j]>> \in R /\ s[j] \in S
    BY <1>9, <1>10
  <2> QED
    BY <1>2, <2>1 DEF Orders
<1> QED
  BY <1>9, <1>11, <1>12 DEF IsPassLine, s, S

\* got is what the pass holds after each claim; what it has taken at the end
\* is accepted.
Passes(got, b, cap) ==
  LET s == InTurns(b)
  IN  /\ got[0] = [remaining |-> cap, taken |-> {}, out |-> {}]
      /\ \A i \in 1 .. Len(s) : got[i] = TakeOrShutOut(got[i-1], s[i])
      /\ FairShare(b, cap) =
           [c \in ToSet(b) |->
              CASE ~ Viable(c) -> TooSmall
                [] c \in got[Len(s)].taken ->
                     AcceptLeading(c, c.threshold, "complete_prefix_fair_round")
                [] OTHER -> Refuse("budget_full")]

LEMMA PassRuns ==
  ASSUME NEW b \in Batches, NEW cap
  PROVE  \E got : Passes(got, b, cap)
<1> DEFINE s == InTurns(b)
           n == Len(s)
           start == [remaining |-> cap, taken |-> {}, out |-> {}]
           Run(g, m) == g = [i \in 0 .. m |-> IF i = 0 THEN start
                                              ELSE TakeOrShutOut(g[i-1], s[i])]
<1>1. n \in Nat
  BY InTurnsInOrder DEF IsPassLine
<1> HIDE DEF s, n
<1>2. \A m \in Nat : \E g : Run(g, m)
  <2> HIDE DEF start
  <2> DEFINE T == {m \in Nat : \E g : Run(g, m)}
  <2>1. 0 \in T
    <3>1. Run([i \in 0 .. 0 |-> start], 0)
      OBVIOUS
    <3> QED
      BY <3>1
  <2>2. ASSUME NEW m \in T PROVE m + 1 \in T
    <3>1. PICK g : Run(g, m)
      BY <2>2
    <3> DEFINE h == [i \in 0 .. m+1 |-> IF i = m+1 THEN TakeOrShutOut(g[m], s[m+1]) ELSE g[i]]
    <3>2. \A i \in 0 .. m+1 : h[i] = IF i = 0 THEN start ELSE TakeOrShutOut(h[i-1], s[i])
      BY <3>1
    <3>3. h = [i \in 0 .. m+1 |-> h[i]]
      OBVIOUS
    <3> HIDE DEF h
    <3>4. Run(h, m+1)
      BY <3>2, <3>3
    <3>5. \E l : Run(l, m+1)
      BY <3>4
    <3> HIDE DEF Run
    <3> QED
      BY <3>5
  <2>3. T = Nat
    <3> HIDE DEF T
    <3> QED
      BY <2>1, <2>2, NatInductionOnSets DEF T
  <2> QED
    BY <2>3
<1> DEFINE g == CHOOSE l : Run(l, n)
<1>3. Run(g, n)
  BY <1>1, <1>2
<1>4. Pass(TakeOrShutOut, start, s) = g[n]
  BY DEF Pass, n
<1>5. FairShare(b, cap) =
        [c \in ToSet(b) |->
           CASE ~ Viable(c) -> TooSmall
             [] c \in Pass(TakeOrShutOut, start, s).taken ->
                  AcceptLeading(c, c.threshold, "complete_prefix_fair_round")
             [] OTHER -> Refuse("budget_full")]
  BY DEF FairShare, Sorted, Viables, Sooner, InTurns, s
<1> HIDE DEF g
<1>6. g[0] = start /\ \A i \in 1 .. n : g[i] = TakeOrShutOut(g[i-1], s[i])
  <2> HIDE DEF start
  <2>1. g = [i \in 0 .. n |-> IF i = 0 THEN start ELSE TakeOrShutOut(g[i-1], s[i])]
    BY <1>3
  <2>2. 0 \in 0 .. n /\ \A i \in 1 .. n : i \in 0 .. n /\ i # 0
    BY <1>1
  <2> QED
    BY <2>1, <2>2
<1>7. Passes(g, b, cap)
  BY <1>4, <1>5, <1>6 DEF Passes, s, n
<1> QED
  BY <1>7

\* The tenants that are out: some claim of theirs was refused.
ShutOuts == {TenantKey(c) : c \in {d \in DOMAIN plan : Viable(d) /\ d \notin Granted}}

\* What the rounds decided is what the pass decides with its first j claims;
\* of the others some may be refused already, none granted.
Mirror(got, j) ==
  LET s == InTurns(batch)
  IN  /\ j \in 0 .. Len(s)
      /\ got[j] = [remaining |-> remaining, taken |-> Granted, out |-> ShutOuts]
      /\ \A i \in DOMAIN s : i <= j => s[i] \in DOMAIN plan
      /\ \A i \in DOMAIN s : i > j => s[i] \notin Granted

PassInv == \A got : Passes(got, batch, capacity) => \E j : Mirror(got, j)

\* The pass skips the claims of tenants that are out.
LEMMA PassSkips ==
  ASSUME NEW b \in Batches, NEW cap, NEW got, Passes(got, b, cap),
         NEW j \in Nat, NEW k \in Nat, j <= k, k <= Len(InTurns(b)),
         \A i \in DOMAIN InTurns(b) :
           j < i /\ i <= k => TenantKey(InTurns(b)[i]) \in got[j].out
  PROVE  got[k] = got[j]
<1> DEFINE s == InTurns(b)
           n == Len(s)
           T == {m \in Nat : j + m <= k => got[j+m] = got[j]}
<1>1. n \in Nat /\ DOMAIN s = 1 .. n
  BY InTurnsInOrder DEF IsPassLine
<1>2. \A i \in 1 .. n : got[i] = TakeOrShutOut(got[i-1], s[i])
  BY DEF Passes
<1>3. k <= n /\ \A i \in 1 .. n : j < i /\ i <= k => TenantKey(s[i]) \in got[j].out
  BY <1>1
<1> HIDE DEF s, n
<1>4. 0 \in T
  OBVIOUS
<1>5. ASSUME NEW m \in T PROVE m + 1 \in T
  <2> SUFFICES ASSUME j + (m + 1) <= k PROVE got[j + (m + 1)] = got[j]
    OBVIOUS
  <2> DEFINE i == j + (m + 1)
  <2>1. i \in 1 .. n /\ j < i /\ i <= k /\ i - 1 = j + m /\ j + m <= k
    BY <1>1, <1>3
  <2> HIDE DEF i
  <2>2. got[i-1] = got[j]
    BY <1>5, <2>1
  <2>3. TenantKey(s[i]) \in got[i-1].out
    BY <1>3, <2>1, <2>2
  <2>4. got[i] = got[i-1]
    BY <1>2, <2>1, <2>3 DEF TakeOrShutOut
  <2> QED
    BY <2>2, <2>4 DEF i
<1>6. T = Nat
  <2> HIDE DEF T
  <2> QED
    BY <1>4, <1>5, NatInductionOnSets DEF T
<1>7. k - j \in T /\ j + (k - j) = k
  <2>1. k - j \in Nat /\ j + (k - j) = k
    OBVIOUS
  <2> HIDE DEF T
  <2> QED
    BY <1>6, <2>1
<1> QED
  BY <1>7

\* A claim whose place has left the tenant's queue is decided, and so are the
\* claims of a tenant that takes no more turns.
LEMMA DecidedInTurn ==
  ASSUME RInv, NEW d \in Viables(batch), NEW rounds, Standing(TenantKey(d), rounds),
         TenantKey(d) \in ToSet(turns) \cup ToSet(next)
           => Turn(batch, d) < Popped(TenantKey(d))
  PROVE  d \in DOMAIN plan
<1> DEFINE t == TenantKey(d)
           r == Ranked(batch, t)
           i == Turn(batch, d) + 1
<1>1. batch \in Batches
  BY DEF RInv, Typed
<1>2. /\ IsLine(r, batch, t) /\ i \in DOMAIN r /\ r[i] = d /\ Turn(batch, d) \in Nat
  BY <1>1, TurnIsPlace
<1>3. Queued(t) /\ (t \in ToSet(turns) \cup ToSet(next) => InRace(t))
      /\ (Out(t) \/ InRace(t))
  BY DEF Standing
<1> HIDE DEF t
<1>4. CASE Out(t)
  BY <1>2, <1>4 DEF Out
<1>5. CASE InRace(t) /\ (Turn(batch, d) < Popped(t) \/ queues[t] = << >>)
  <2>1. i <= Popped(t)
    <3>1. Len(r) \in Nat /\ i \in 1 .. Len(r) /\ Popped(t) = Len(r) - Len(queues[t])
          /\ Len(queues[t]) \in Nat
      BY <1>2, <1>3 DEF IsLine, Popped, Queued
    <3>2. Popped(t) \in Int
      BY <3>1
    <3>3. CASE Turn(batch, d) < Popped(t)
      BY <1>2, <3>2, <3>3
    <3>4. CASE queues[t] = << >>
      <4>1. Len(queues[t]) = 0
        BY <3>4
      <4> HIDE DEF i
      <4> QED
        BY <3>1, <4>1
    <3> QED
      BY <1>5, <3>3, <3>4
  <2>2. r[i] \in Granted
    BY <1>2, <1>5, <2>1 DEF InRace
  <2> QED
    BY <1>2, <2>2 DEF Granted
<1> QED
  BY <1>4, <1>5 DEF Standing, t

\* A claim that the pass comes to before the best claim of the tenant whose
\* turn it is, is decided.
LEMMA SoonerIsDecided ==
  ASSUME RInv, turns # << >>, NEW t \in Keys(batch), t = Head(turns), t \in ToSet(turns),
         LeavesTurns(t, Tail(turns), Append(next, t)), Queued(t), InRace(t), queues[t] # << >>,
         NEW d \in Viables(batch), Sooner(batch, d, Head(queues[t]))
  PROVE  d \in DOMAIN plan
<1> DEFINE c == Head(queues[t])
           u == TenantKey(d)
<1>1. /\ batch \in Batches /\ Typed /\ TurnsOrdered
  BY DEF RInv, Typed
<1>2. /\ c \in Mine(batch, t) /\ c = Ranked(batch, t)[Popped(t) + 1]
      /\ Popped(t) \in Nat /\ Popped(t) + 1 \in DOMAIN Ranked(batch, t)
  BY BestClaim
<1>3. Turn(batch, c) = Popped(t) /\ TenantKey(c) = t
  <2>1. Turn(batch, c) = (Popped(t) + 1) - 1
    BY <1>1, <1>2, LineFacts DEF IsLine
  <2> QED
    BY <1>2, <2>1 DEF Mine
<1>4. u \in Keys(batch) /\ u \in Nat /\ Turn(batch, d) \in Nat /\ t \in Nat
  BY <1>1, TurnIsPlace, BatchFacts
<1>5. PICK rounds \in Nat : Standing(t, rounds) /\ Standing(u, rounds)
  BY <1>4 DEF RInv
<1>6. Popped(t) = rounds
  BY <1>5 DEF Standing
<1>7. Turn(batch, d) < rounds \/ (Turn(batch, d) = rounds /\ u < t)
  BY <1>3, <1>6 DEF Sooner
<1> HIDE DEF u, c
<1>8. CASE u \in ToSet(turns)
  <2>1. Popped(u) = rounds
    BY <1>5, <1>8 DEF Standing
  <2>2. ~ (u < t)
    <3> DEFINE m == Len(turns)
    <3>1. m \in Nat /\ m > 0 /\ DOMAIN turns = 1 .. m /\ t = turns[1]
      BY <1>1, EmptySeq DEF Typed
    <3> HIDE DEF m
    <3>2. PICK j \in 1 .. m : u = turns[j]
      BY <1>8, <3>1 DEF ToSet
    <3>3. j = 1 \/ t < u
      BY <1>1, <3>1, <3>2 DEF TurnsOrdered, Rises
    <3> QED
      BY <1>4, <3>1, <3>2, <3>3
  <2> QED
    BY <1>5, <1>7, <2>1, <2>2, DecidedInTurn DEF u
<1>9. CASE u \in ToSet(next)
  <2>1. Popped(u) = rounds + 1
    BY <1>5, <1>9 DEF Standing
  <2>2. Turn(batch, d) < Popped(u)
    BY <1>4, <1>7, <2>1
  <2> QED
    BY <1>5, <2>2, DecidedInTurn DEF u
<1>10. CASE u \notin ToSet(turns) \cup ToSet(next)
  BY <1>5, <1>10, DecidedInTurn DEF u
<1> QED
  BY <1>8, <1>9, <1>10

\* The pass comes to claim c next, in its k-th step.
NextInPass(got, c, k) ==
  LET s == InTurns(batch)
  IN  /\ k \in DOMAIN s /\ s[k] = c
      /\ got[k] = TakeOrShutOut([remaining |-> remaining, taken |-> Granted, out |-> ShutOuts], c)
      /\ \A i \in DOMAIN s : i < k => s[i] \in DOMAIN plan
      /\ \A i \in DOMAIN s : i > k => s[i] \notin Granted

LEMMA TurnIsNext ==
  ASSUME RInv, turns # << >>, NEW t \in Keys(batch), t = Head(turns), t \in ToSet(turns),
         LeavesTurns(t, Tail(turns), Append(next, t)), Queued(t), InRace(t), queues[t] # << >>,
         NEW got, Passes(got, batch, capacity), NEW j, Mirror(got, j)
  PROVE  \E k : NextInPass(got, Head(queues[t]), k)
<1> DEFINE s == InTurns(batch)
           n == Len(s)
           c == Head(queues[t])
<1>1. batch \in Batches
  BY DEF RInv, Typed
<1>2. c \in Viables(batch) /\ c \notin DOMAIN plan
  BY BestClaim DEF Claims, Viables
<1>3. IsPassLine(s, batch)
  BY <1>1, InTurnsInOrder
<1>4. /\ j \in 0 .. n
      /\ got[j] = [remaining |-> remaining, taken |-> Granted, out |-> ShutOuts]
      /\ \A i \in DOMAIN s : i <= j => s[i] \in DOMAIN plan
      /\ \A i \in DOMAIN s : i > j => s[i] \notin Granted
  BY DEF Mirror
<1>5. \A i \in 1 .. n : got[i] = TakeOrShutOut(got[i-1], s[i])
  BY DEF Passes
<1>6. \A d \in Viables(batch) : Sooner(batch, d, c) => d \in DOMAIN plan
  BY SoonerIsDecided
<1>7. \A i \in DOMAIN InTurns(batch), k \in Nat :
        j < i /\ i <= k /\ k < n + 1 /\ s[i] \in DOMAIN plan => TenantKey(s[i]) \in got[j].out
  <2> SUFFICES ASSUME NEW i \in DOMAIN s, j < i, s[i] \in DOMAIN plan
               PROVE  TenantKey(s[i]) \in got[j].out
    OBVIOUS
  <2>1. s[i] \in DOMAIN plan /\ s[i] \notin Granted /\ s[i] \in Viables(batch)
    BY <1>3, <1>4 DEF IsPassLine
  <2>2. TenantKey(s[i]) \in ShutOuts
    BY <2>1 DEF ShutOuts, Viables
  <2> QED
    BY <1>4, <2>2
<1> HIDE DEF s, n, c
<1>8. /\ n \in Nat /\ DOMAIN s = 1 .. n /\ \A i \in DOMAIN s : s[i] \in Viables(batch)
      /\ \A i, k \in DOMAIN s : i < k => Sooner(batch, s[i], s[k])
      /\ \A d \in Viables(batch) : \E i \in DOMAIN s : s[i] = d
  BY <1>3 DEF IsPassLine, n
<1>9. PICK k \in DOMAIN s : s[k] = c
  BY <1>2, <1>8
<1>10. j \in Nat /\ k \in Nat /\ k >= 1 /\ k <= n /\ j < k
  <2>1. ~ (k <= j)
    BY <1>2, <1>4, <1>9
  <2> QED
    BY <1>4, <1>8, <2>1
<1>11. \A i \in DOMAIN s : i < k => s[i] \in DOMAIN plan
  BY <1>6, <1>8, <1>9
<1>12. got[k-1] = got[j]
  <2> DEFINE m == k - 1
  <2>1. m \in Nat /\ j <= m /\ m <= n /\ m < n + 1
    BY <1>8, <1>10
  <2>2. \A i \in DOMAIN s : i <= m => i < k
    BY <1>8, <1>10
  <2> HIDE DEF m
  <2>3. \A i \in DOMAIN s : j < i /\ i <= m => TenantKey(s[i]) \in got[j].out
    BY <1>7, <1>11, <2>1, <2>2 DEF s
  <2>4. got[m] = got[j]
    BY <1>1, <1>10, <2>1, <2>3, PassSkips DEF s, n
  <2> QED
    BY <2>4 DEF m
<1>13. got[k] = TakeOrShutOut(got[j], c)
  BY <1>5, <1>8, <1>9, <1>12
<1>14. \A i \in DOMAIN s : i > k => s[i] \notin Granted
  <2>1. \A i \in DOMAIN s : i > k => i > j
    BY <1>8, <1>10
  <2> QED
    BY <1>4, <2>1
<1>15. NextInPass(got, c, k)
  BY <1>4, <1>9, <1>11, <1>13, <1>14 DEF NextInPass, s
<1> QED
  BY <1>15 DEF c

LEMMA GrantMirrors ==
  ASSUME RInv, NEW t \in Keys(batch), InRace(t), Queued(t), queues[t] # << >>, batch' = batch,
         Grant(t), Granted' = Granted \cup {Head(queues[t])},
         DOMAIN plan' = DOMAIN plan \cup {Head(queues[t])},
         NEW got, NEW k, NextInPass(got, Head(queues[t]), k)
  PROVE  Mirror(got, k)'
<1> DEFINE s == InTurns(batch)
           c == Head(queues[t])
<1>1. c \in Mine(batch, t) /\ c \notin DOMAIN plan /\ batch \in Batches
  BY BestClaim DEF RInv, Typed
<1>2. c.threshold <= remaining /\ remaining' = remaining - c.threshold
  BY DEF Grant
<1>3. /\ k \in DOMAIN s /\ s[k] = c
      /\ got[k] = TakeOrShutOut([remaining |-> remaining, taken |-> Granted, out |-> ShutOuts], c)
      /\ \A i \in DOMAIN s : i < k => s[i] \in DOMAIN plan
      /\ \A i \in DOMAIN s : i > k => s[i] \notin Granted
  BY DEF NextInPass
<1>4. IsPassLine(s, batch) /\ InTurns(batch') = s
  BY <1>1, InTurnsInOrder
<1> HIDE DEF s, c
<1>5. /\ Len(s) \in Nat /\ DOMAIN s = 1 .. Len(s)
      /\ \A i, l \in DOMAIN s : s[i] = s[l] => i = l
  BY <1>4 DEF IsPassLine
<1>6. TenantKey(c) \notin ShutOuts
  <2> SUFFICES ASSUME NEW d \in DOMAIN plan, Viable(d), TenantKey(d) = TenantKey(c)
               PROVE  d \in Granted
    BY DEF ShutOuts
  <2>1. d \in Mine(batch, t)
    BY <1>1 DEF Mine, RInv, Planned, Claims
  <2>2. PICK i \in DOMAIN Ranked(batch, t) : Ranked(batch, t)[i] = d
    BY <1>1, <2>1, LineFacts DEF IsLine
  <2> QED
    BY <2>2 DEF InRace
<1>7. ShutOuts' = ShutOuts
  <2>1. \A d : d \in DOMAIN plan' /\ d \notin Granted' <=> d \in DOMAIN plan /\ d \notin Granted
    BY <1>1 DEF Granted, c
  <2>2. {d \in DOMAIN plan' : Viable(d) /\ d \notin Granted'}
          = {d \in DOMAIN plan : Viable(d) /\ d \notin Granted}
    BY <2>1
  <2> QED
    BY <2>2 DEF ShutOuts
<1>8. got[k] = [remaining |-> remaining', taken |-> Granted', out |-> ShutOuts']
  <2> DEFINE x == [remaining |-> remaining, taken |-> Granted, out |-> ShutOuts]
  <2>1. x.out = ShutOuts /\ x.remaining = remaining /\ x.taken = Granted
    OBVIOUS
  <2>2. got[k] = [x EXCEPT !.remaining = @ - c.threshold, !.taken = @ \cup {c}]
    BY <1>2, <1>3, <1>6, <2>1 DEF TakeOrShutOut
  <2>3. got[k] = [remaining |-> remaining - c.threshold, taken |-> Granted \cup {c}, out |-> ShutOuts]
    BY <2>2
  <2> QED
    BY <1>2, <1>7, <2>3 DEF c
<1>9. \A i \in DOMAIN s : i <= k => s[i] \in DOMAIN plan'
  <2>1. \A i \in DOMAIN s : i <= k => i < k \/ i = k
    BY <1>3, <1>5
  <2> QED
    BY <1>3, <2>1 DEF c
<1>10. \A i \in DOMAIN s : i > k => s[i] \notin Granted'
  <2>1. \A i \in DOMAIN s : i > k => i # k
    BY <1>3, <1>5
  <2> QED
    BY <1>3, <1>5, <2>1 DEF c
<1>11. k \in 0 .. Len(s)
  BY <1>3, <1>5
<1> QED
  BY <1>4, <1>8, <1>9, <1>10, <1>11 DEF Mirror

LEMMA ShutOutMirrors ==
  ASSUME RInv, NEW t \in Keys(batch), InRace(t), Queued(t), queues[t] # << >>, batch' = batch,
         ShutOut(t), Granted' = Granted, DOMAIN plan' = DOMAIN plan \cup ToSet(queues[t]),
         NEW got, NEW k, NextInPass(got, Head(queues[t]), k)
  PROVE  Mirror(got, k)'
<1> DEFINE s == InTurns(batch)
           c == Head(queues[t])
           S == ToSet(queues[t])
<1>1. /\ c \in Mine(batch, t) /\ c \notin DOMAIN plan /\ batch \in Batches
      /\ c = Ranked(batch, t)[Popped(t) + 1]
      /\ Popped(t) \in Nat /\ Popped(t) + 1 \in DOMAIN Ranked(batch, t)
  BY BestClaim DEF RInv, Typed
<1>2. c.threshold > remaining /\ remaining' = remaining
  BY DEF ShutOut
<1>3. /\ k \in DOMAIN s /\ s[k] = c
      /\ got[k] = TakeOrShutOut([remaining |-> remaining, taken |-> Granted, out |-> ShutOuts], c)
      /\ \A i \in DOMAIN s : i < k => s[i] \in DOMAIN plan
      /\ \A i \in DOMAIN s : i > k => s[i] \notin Granted
  BY DEF NextInPass
<1>4. IsPassLine(s, batch) /\ InTurns(batch') = s
  BY <1>1, InTurnsInOrder
<1>5. S \subseteq Mine(batch, t) /\ c \in S
  <2>1. Popped(t) + 1 > Popped(t)
    BY <1>1
  <2>2. /\ S \subseteq Mine(batch, t)
        /\ \A i \in DOMAIN Ranked(batch, t) : i > Popped(t) => Ranked(batch, t)[i] \in S
    BY <1>1, HeadFacts
  <2> QED
    BY <1>1, <2>1, <2>2
<1> HIDE DEF s, c, S
<1>6. Len(s) \in Nat /\ DOMAIN s = 1 .. Len(s)
  BY <1>4 DEF IsPassLine
<1>7. t \notin ShutOuts
  <2> SUFFICES ASSUME NEW d \in DOMAIN plan, Viable(d), TenantKey(d) = t
               PROVE  d \in Granted
    BY DEF ShutOuts
  <2>1. d \in Mine(batch, t)
    BY <1>1 DEF Mine, RInv, Planned, Claims
  <2>2. PICK i \in DOMAIN Ranked(batch, t) : Ranked(batch, t)[i] = d
    BY <1>1, <2>1, LineFacts DEF IsLine
  <2> QED
    BY <2>2 DEF InRace
<1>8. ShutOuts' = ShutOuts \cup {t}
  <2>1. Viable(c) /\ TenantKey(c) = t /\ \A d \in S : TenantKey(d) = t
    BY <1>1, <1>5 DEF Mine
  <2>2. c \in DOMAIN plan' /\ c \notin Granted' /\ DOMAIN plan' = DOMAIN plan \cup S
    BY <1>1, <1>5 DEF Granted, S
  <2> QED
    BY <2>1, <2>2 DEF ShutOuts
<1>9. got[k] = [remaining |-> remaining', taken |-> Granted', out |-> ShutOuts']
  <2> DEFINE x == [remaining |-> remaining, taken |-> Granted, out |-> ShutOuts]
  <2>1. x.out = ShutOuts /\ x.remaining = remaining /\ x.taken = Granted
    OBVIOUS
  <2>2. TenantKey(c) = t /\ ~ (c.threshold <= remaining)
    <3>1. c.threshold \in Nat /\ remaining \in Nat
      BY <1>1, BatchFacts DEF Mine, Distinct, ClaimType, RInv, Typed
    <3> QED
      BY <1>1, <1>2, <3>1 DEF Mine
  <2>3. got[k] = [x EXCEPT !.out = @ \cup {t}]
    BY <1>3, <1>7, <2>1, <2>2 DEF TakeOrShutOut
  <2>4. got[k] = [remaining |-> remaining, taken |-> Granted, out |-> ShutOuts \cup {t}]
    BY <2>3
  <2> QED
    BY <1>2, <1>8, <2>4
<1>10. \A i \in DOMAIN s : i <= k => s[i] \in DOMAIN plan'
  <2>1. \A i \in DOMAIN s : i <= k => i < k \/ i = k
    BY <1>3, <1>6
  <2> QED
    BY <1>3, <1>5, <2>1 DEF S
<1>11. k \in 0 .. Len(s)
  BY <1>3, <1>6
<1> QED
  BY <1>3, <1>4, <1>9, <1>10, <1>11 DEF Mirror

LEMMA InitMirrors ==
  ASSUME Init
  PROVE  PassInv
<1> SUFFICES ASSUME NEW got, Passes(got, batch, capacity) PROVE Mirror(got, 0)
  BY DEF PassInv
<1> DEFINE s == InTurns(batch)
<1>1. batch \in Batches /\ remaining = capacity
  BY DEF Init
<1>2. plan = [c \in {d \in ToSet(batch) : ~ Viable(d)} |-> TooSmall]
  BY DEF Init
<1>3. Granted = {} /\ ShutOuts = {}
  BY <1>2, Reasons DEF Granted, ShutOuts
<1>4. got[0] = [remaining |-> capacity, taken |-> {}, out |-> {}]
  BY DEF Passes
<1>5. Len(s) \in Nat /\ DOMAIN s = 1 .. Len(s)
  BY <1>1, InTurnsInOrder DEF IsPassLine
<1> HIDE DEF s
<1>6. 0 \in 0 .. Len(s) /\ \A i \in DOMAIN s : ~ (i <= 0)
  BY <1>5
<1> QED
  BY <1>1, <1>3, <1>4, <1>6 DEF Mirror, s

LEMMA StepMirrors ==
  ASSUME RInv, PassInv, [Next]_vars
  PROVE  PassInv'
<1>1. batch' = batch /\ capacity' = capacity
  BY DEF Next, vars, TakeTurn, EndRound, Finish
<1> SUFFICES ASSUME NEW got, Passes(got, batch, capacity) PROVE (\E j : Mirror(got, j))'
  BY <1>1 DEF PassInv
<1>2. PICK j : Mirror(got, j)
  BY DEF PassInv
<1>3. ASSUME remaining' = remaining, plan' = plan PROVE Mirror(got, j)'
  <2>1. Granted' = Granted /\ ShutOuts' = ShutOuts
    BY <1>3 DEF Granted, ShutOuts
  <2> QED
    BY <1>1, <1>2, <1>3, <2>1 DEF Mirror
<1>4. CASE TakeTurn
  <2>1. PICK t \in Keys(batch) :
          /\ t = Head(turns) /\ t \in DOMAIN queues /\ LeavesTurns(t, turns', Append(next, t))
          /\ Queued(t) /\ InRace(t) /\ t \in ToSet(turns) /\ turns # << >>
          /\ batch' = batch /\ capacity' = capacity /\ done' = done /\ ~ done
          /\ IF queues[t] = << >> THEN UNCHANGED <<remaining, queues, next, progressed, plan>>
                                  ELSE Grant(t) \/ ShutOut(t)
    BY <1>4, TurnFacts
  <2>2. LeavesTurns(t, Tail(turns), Append(next, t))
    BY <1>4, <2>1 DEF TakeTurn
  <2>3. CASE queues[t] = << >>
    BY <1>3, <2>1, <2>3
  <2>4. ASSUME queues[t] # << >> PROVE \E k : NextInPass(got, Head(queues[t]), k)
    BY <1>2, <2>1, <2>2, <2>4, TurnIsNext
  <2>5. CASE queues[t] # << >> /\ Grant(t)
    <3>1. PICK k : NextInPass(got, Head(queues[t]), k)
      BY <2>4, <2>5
    <3>2. /\ Granted' = Granted \cup {Head(queues[t])}
          /\ DOMAIN plan' = DOMAIN plan \cup {Head(queues[t])}
      BY <2>1, <2>5, GrantKeeps
    <3>3. Mirror(got, k)'
      BY <2>1, <2>5, <3>1, <3>2, GrantMirrors
    <3> QED
      BY <3>3
  <2>6. CASE queues[t] # << >> /\ ShutOut(t)
    <3>1. PICK k : NextInPass(got, Head(queues[t]), k)
      BY <2>4, <2>6
    <3>2. Granted' = Granted /\ DOMAIN plan' = DOMAIN plan \cup ToSet(queues[t])
      BY <2>1, <2>6, ShutOutKeeps
    <3>3. Mirror(got, k)'
      BY <2>1, <2>6, <3>1, <3>2, ShutOutMirrors
    <3> QED
      BY <3>3
  <2> QED
    BY <2>1, <2>3, <2>5, <2>6
<1>5. CASE EndRound
  BY <1>3, <1>5 DEF EndRound
<1>6. CASE Finish
  <2>1. plan' = plan /\ remaining' = remaining
    BY <1>6, FinishKeeps DEF Finish
  <2> QED
    BY <1>3, <2>1
<1>7. CASE UNCHANGED vars
  BY <1>3, <1>7 DEF vars
<1> QED
  BY <1>4, <1>5, <1>6, <1>7 DEF Next

\* When the rounds are over every viable claim is decided, and what the pass
\* has taken is what was granted.
LEMMA AtTheEnd ==
  ASSUME RInv, PassInv, done
  PROVE  plan = FairShare(batch, capacity)
<1> DEFINE s == InTurns(batch)
           n == Len(s)
<1>1. /\ batch \in Batches /\ Planned /\ turns = << >> /\ next = << >>
  BY DEF RInv, Typed, TurnsOrdered
<1>2. PICK got : Passes(got, batch, capacity)
  BY <1>1, PassRuns
<1>3. PICK j : Mirror(got, j)
  BY <1>2 DEF PassInv
<1>4. ASSUME NEW d \in Viables(batch) PROVE d \in DOMAIN plan
  <2>1. TenantKey(d) \in Keys(batch)
    BY <1>1, TurnIsPlace
  <2>2. PICK rounds \in Nat : Standing(TenantKey(d), rounds)
    BY <2>1 DEF RInv
  <2>3. ToSet(turns) \cup ToSet(next) = {}
    BY <1>1 DEF ToSet
  <2> QED
    BY <2>2, <2>3, DecidedInTurn
<1>5. IsPassLine(s, batch)
  BY <1>1, InTurnsInOrder
<1>6. /\ j \in 0 .. n
      /\ got[j] = [remaining |-> remaining, taken |-> Granted, out |-> ShutOuts]
      /\ \A i \in DOMAIN s : i > j => s[i] \notin Granted
  BY <1>3 DEF Mirror
<1>7. FairShare(batch, capacity) =
        [c \in ToSet(batch) |->
           CASE ~ Viable(c) -> TooSmall
             [] c \in got[n].taken -> Accepted(c)
             [] OTHER -> Refuse("budget_full")]
  BY <1>2 DEF Passes, Accepted
<1> HIDE DEF s, n
<1>8. n \in Nat /\ DOMAIN s = 1 .. n /\ \A i \in DOMAIN s : s[i] \in Viables(batch)
  BY <1>5 DEF IsPassLine, n
<1>9. \A i \in DOMAIN s : j < i /\ i <= n => TenantKey(s[i]) \in got[j].out
  <2> SUFFICES ASSUME NEW i \in DOMAIN s, j < i PROVE TenantKey(s[i]) \in got[j].out
    OBVIOUS
  <2>1. i > j
    BY <1>6, <1>8
  <2>2. s[i] \in DOMAIN plan /\ Viable(s[i]) /\ s[i] \notin Granted
    BY <1>4, <1>6, <1>8, <2>1 DEF Viables
  <2> QED
    BY <1>6, <2>2 DEF ShutOuts
<1>10. got[n] = got[j]
  <2>1. j \in Nat /\ j <= n /\ n <= n
    BY <1>6, <1>8
  <2> QED
    BY <1>1, <1>2, <1>8, <1>9, <2>1, PassSkips DEF s, n
<1>11. got[n].taken = Granted
  BY <1>6, <1>10
<1>12. DOMAIN plan = ToSet(batch)
  BY <1>1, <1>4 DEF Planned, Claims, Viables
<1>13. ASSUME NEW c \in ToSet(batch)
       PROVE  plan[c] = (CASE ~ Viable(c) -> TooSmall
                           [] c \in Granted -> Accepted(c)
                           [] OTHER -> Refuse("budget_full"))
  <2>1. plan[c] \in IF Viable(c) THEN {Accepted(c), Refuse("budget_full")} ELSE {TooSmall}
    BY <1>1, <1>12 DEF Planned
  <2>2. /\ plan[c] = Accepted(c) => c \in Granted
        /\ plan[c] = Refuse("budget_full") => c \notin Granted
        /\ plan[c] = TooSmall => c \notin Granted
    BY <1>12, Reasons DEF Granted
  <2> HIDE DEF Accepted, Viable, Refuse, TooSmall
  <2>3. CASE ~ Viable(c)
    BY <2>1, <2>2, <2>3
  <2>4. CASE Viable(c) /\ plan[c] = Accepted(c)
    BY <2>2, <2>4
  <2>5. CASE Viable(c) /\ plan[c] = Refuse("budget_full")
    BY <2>2, <2>5
  <2> QED
    BY <2>1, <2>3, <2>4, <2>5
<1>14. plan = [c \in ToSet(batch) |-> plan[c]]
  BY <1>1, <1>12 DEF Planned
<1> HIDE DEF Accepted, TooSmall, Refuse, Viable
<1>15. FairShare(batch, capacity) =
         [c \in ToSet(batch) |->
            CASE ~ Viable(c) -> TooSmall
              [] c \in Granted -> Accepted(c)
              [] OTHER -> Refuse("budget_full")]
  BY <1>7, <1>11
<1> QED
  BY <1>13, <1>14, <1>15

\* The queues, the rounds and the turns come to this: all viable claims in
\* the order of their turns, once, and a claim that does not fit shuts out
\* its tenant.
THEOREM RoundsAreOnePass == Spec => []PlanIsOnePass
<1>1. Spec => []PassInv
  BY InitMirrors, StepMirrors, AlwaysRInv, PTL DEF Spec
<1>2. RInv /\ PassInv => PlanIsOnePass
  BY AtTheEnd DEF PlanIsOnePass
<1> QED
  BY <1>1, <1>2, AlwaysRInv, PTL
=============================================================================
