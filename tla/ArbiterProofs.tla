---------------------------- MODULE ArbiterProofs ----------------------------
(***************************************************************************)
(* What holds of every decision of the arbiter, for every conflict and     *)
(* every cost model.                                                       *)
(***************************************************************************)
EXTENDS Arbiter, OrderFacts, SequenceTheorems

-----------------------------------------------------------------------------
(* Live blocks.                                                            *)

\* The least of two numbers.
LEMMA MinOfTwo ==
  ASSUME NEW a \in Nat, NEW b \in Nat
  PROVE  Min({a, b}) = IF a <= b THEN a ELSE b
BY DEF Min

\* The sum of the first chunks is a number of blocks.
LEMMA ScheduledType ==
  ASSUME NEW plan \in PlanType, NEW n \in DOMAIN plan.chunks
  PROVE  Scheduled(plan, n) \in Nat
<1> DEFINE Run(g, m) == g = [j \in 0 .. m |-> IF j = 0 THEN 0 ELSE g[j-1] + plan.chunks[j]]
<1>1. \A m \in Nat : \E g : Run(g, m)
  <2> DEFINE T == {m \in Nat : \E g : Run(g, m)}
  <2>1. 0 \in T
    <3>1. Run([j \in 0 .. 0 |-> 0], 0)
      OBVIOUS
    <3> QED
      BY <3>1
  <2>2. ASSUME NEW m \in T PROVE m + 1 \in T
    <3>1. PICK g : Run(g, m)
      BY <2>2
    <3> DEFINE h == [j \in 0 .. m+1 |-> IF j = m+1 THEN g[m] + plan.chunks[m+1] ELSE g[j]]
    <3>2. \A j \in 0 .. m+1 : h[j] = IF j = 0 THEN 0 ELSE h[j-1] + plan.chunks[j]
      BY <3>1
    <3>3. h = [j \in 0 .. m+1 |-> h[j]]
      OBVIOUS
    <3> HIDE DEF h
    <3>4. Run(h, m+1)
      BY <3>2, <3>3
    <3> QED
      BY <3>4
  <2>3. T = Nat
    <3> HIDE DEF T
    <3> QED
      BY <2>1, <2>2, NatInductionOnSets DEF T
  <2> QED
    BY <2>3
<1>2. /\ plan.chunks \in Seq(Nat) /\ n \in 1 .. Len(plan.chunks)
      /\ \A j \in 1 .. Len(plan.chunks) : plan.chunks[j] \in Nat
  BY DEF PlanType
<1> DEFINE g == CHOOSE l : Run(l, n)
<1>3. Run(g, n)
  <2>1. n \in Nat
    BY <1>2
  <2> HIDE DEF Run
  <2> QED BY <1>1, <2>1
<1>4. Scheduled(plan, n) = g[n]
  BY DEF Scheduled
<1> HIDE DEF g
<1> DEFINE U == {j \in Nat : j <= n => g[j] \in Nat}
<1>5. 0 \in U
  BY <1>2, <1>3
<1>6. ASSUME NEW j \in U PROVE j + 1 \in U
  <2>1. SUFFICES ASSUME j + 1 <= n PROVE g[j+1] \in Nat
    OBVIOUS
  <2>2. g[j] \in Nat /\ j + 1 \in 1 .. n
    BY <1>2, <2>1
  <2>3. g[j+1] = g[j] + plan.chunks[j+1]
    BY <1>2, <1>3, <2>2
  <2>4. plan.chunks[j+1] \in Nat
    BY <1>2, <2>2
  <2> QED
    BY <2>2, <2>3, <2>4
<1>7. U = Nat
  <2> HIDE DEF U
  <2> QED
    BY <1>5, <1>6, NatInductionOnSets DEF U
<1> QED
  BY <1>2, <1>4, <1>7

\* At every step the live blocks are a part of the request, and of the window
\* if there is one.
LEMMA LiveByStepBounds ==
  ASSUME NEW plan \in PlanType, NEW i \in DOMAIN plan.chunks
  PROVE  /\ LiveByStep(plan)[i] \in 0 .. plan.total
         /\ plan.mode = "sliding_window" => LiveByStep(plan)[i] <= Window(plan)
<1>1. /\ plan.total \in Nat /\ plan.mode \in Modes /\ plan.window \in Nat \cup {NoWindow}
      /\ plan.chunks \in Seq(Nat)
  BY DEF PlanType
<1>2. plan.chunks[i] \in Nat
  BY <1>1
<1>3. Scheduled(plan, i) \in Nat
  BY ScheduledType
<1>4. Window(plan) \in Nat
  BY <1>1 DEF Window, NoWindow
<1>5. LiveByStep(plan)[i] =
        CASE plan.mode = "full_attention" -> Min({plan.total, Scheduled(plan, i)})
          [] plan.mode = "sliding_window" -> Min({Window(plan), plan.total, Scheduled(plan, i)})
          [] OTHER                        -> Min({plan.total, plan.chunks[i]})
  BY DEF LiveByStep
<1>6. CASE plan.mode = "full_attention"
  <2>1. LiveByStep(plan)[i] = Min({plan.total, Scheduled(plan, i)})
    BY <1>5, <1>6
  <2> QED
    BY <1>1, <1>3, <1>6, <2>1, MinOfTwo
<1>7. CASE plan.mode = "sliding_window"
  <2> DEFINE S == {Window(plan), plan.total, Scheduled(plan, i)}
  <2>1. S \in SUBSET Nat /\ S # {}
    BY <1>1, <1>3, <1>4
  <2>2. Min(S) \in S /\ \A y \in S : Min(S) <= y
    <3> HIDE DEF S
    <3> QED BY <2>1, LeastNatural DEF Min
  <2>3. LiveByStep(plan)[i] = Min(S)
    BY <1>5, <1>7
  <2>4. Min(S) \in Nat /\ Min(S) <= plan.total /\ Min(S) <= Window(plan)
    BY <2>1, <2>2
  <2> QED
    BY <1>1, <2>3, <2>4
<1>8. CASE plan.mode \notin {"full_attention", "sliding_window"}
  <2>1. LiveByStep(plan)[i] = Min({plan.total, plan.chunks[i]})
    BY <1>5, <1>8
  <2> QED
    BY <1>1, <1>2, <1>8, <2>1, MinOfTwo
<1> QED
  BY <1>6, <1>7, <1>8

\* The peak is reached at some step, or there is none, and no step exceeds it.
LEMMA MaxLiveFacts ==
  ASSUME NEW plan \in PlanType
  PROVE  /\ MaxLive(plan) \in 0 .. plan.total
         /\ \A i \in DOMAIN plan.chunks : LiveByStep(plan)[i] <= MaxLive(plan)
         /\ MaxLive(plan) = 0 \/ \E i \in DOMAIN plan.chunks : LiveByStep(plan)[i] = MaxLive(plan)
<1> DEFINE S == {0} \cup Range(LiveByStep(plan))
<1>1. plan.total \in Nat
  BY DEF PlanType
<1>2. DOMAIN LiveByStep(plan) = DOMAIN plan.chunks
  BY DEF LiveByStep
<1>3. S = {0} \cup {LiveByStep(plan)[i] : i \in DOMAIN plan.chunks}
  BY <1>2 DEF Range
<1>4. S \in SUBSET Nat /\ S # {} /\ \A x \in S : x <= plan.total
  BY <1>1, <1>3, LiveByStepBounds
<1>5. MaxLive(plan) \in S /\ \A y \in S : MaxLive(plan) >= y
  <2>1. MaxLive(plan) = Max(S)
    BY DEF MaxLive
  <2> HIDE DEF S
  <2> QED
    BY <1>1, <1>4, <2>1, GreatestNatural DEF Max
<1>6. \A i \in DOMAIN plan.chunks : LiveByStep(plan)[i] <= MaxLive(plan)
  BY <1>3, <1>4, <1>5
<1>7. MaxLive(plan) = 0 \/ \E i \in DOMAIN plan.chunks : LiveByStep(plan)[i] = MaxLive(plan)
  BY <1>3, <1>5
<1>8. MaxLive(plan) \in 0 .. plan.total
  BY <1>1, <1>4, <1>5
<1> QED
  BY <1>6, <1>7, <1>8

-----------------------------------------------------------------------------
(* The mechanisms, field by field.                                         *)

\* The residents give way.
LEMMA YieldFields ==
  ASSUME NEW c, NEW actions, NEW admitted
  PROVE  LET d == ResidentsYield(c, actions, admitted)
         IN  /\ ~ d.survives /\ (d.served <=> MaxLive(c.plan) <= c.usable)
             /\ d.actions = actions /\ d.plan = c.plan /\ d.usable = c.usable
             /\ d.feasibility = Classify(c.protected, c.plan, c.usable)
             /\ d.cost = 0
BY DEF ResidentsYield, Plain

\* The residents stay.
LEMMA StayFields ==
  ASSUME NEW c, NEW actions, NEW plan, NEW cost
  PROVE  LET d == ResidentsStay(c, actions, plan, cost)
         IN  /\ d.survives /\ (d.served <=> c.protected + MaxLive(plan) <= c.usable)
             /\ d.actions = actions /\ d.plan = plan /\ d.usable = c.usable
             /\ d.feasibility = Classify(c.protected, plan, c.usable)
             /\ d.cost = cost
BY DEF ResidentsStay, Plain, Classify

\* The residents are moved out.
LEMMA OffloadFields ==
  ASSUME NEW c
  PROVE  LET d == OffloadResident(c)
         IN  /\ d.survives /\ (d.served <=> 0 + MaxLive(c.plan) <= c.usable)
             /\ d.admitted /\ d.cost = c.protected * Cost.offloadResident
             /\ d.actions = {"offload_resident", "serve"} /\ d.delay = 0
             /\ d.plan = c.plan /\ d.usable = c.usable
<1> DEFINE f == Classify(0, c.plan, c.usable)
<1>1. f.feasible <=> 0 + MaxLive(c.plan) <= c.usable
  BY DEF Classify
<1> HIDE DEF f
<1> QED
  BY <1>1 DEF OffloadResident, Plain, f

\* Blocks are added.
LEMMA ScalingFields ==
  ASSUME NEW c
  PROVE  LET d == CapacityScaling(c)
         IN  /\ d.survives
             /\ (d.served <=> c.protected + MaxLive(c.plan) <= c.usable + ExtraBlocks(c))
             /\ d.admitted /\ d.cost = ExtraBlocks(c) * Cost.extra
             /\ d.actions = {"increase_capacity", "serve"} /\ d.delay = 0
             /\ d.plan = c.plan /\ d.usable = c.usable + ExtraBlocks(c)
<1> DEFINE f == Classify(c.protected, c.plan, c.usable + ExtraBlocks(c))
<1>1. f.feasible <=> c.protected + MaxLive(c.plan) <= c.usable + ExtraBlocks(c)
  BY DEF Classify
<1> HIDE DEF f
<1> QED
  BY <1>1 DEF CapacityScaling, Plain, f

\* The plans that mechanisms make up are plans.
LEMMA PlansTyped ==
  ASSUME NEW c \in ConflictType
  PROVE  /\ c.plan \in PlanType /\ BoundedPlan(c) \in PlanType /\ SplitPlan(c) \in PlanType
         /\ c.protected \in Nat /\ c.usable \in Nat
         /\ c.value \in Nat /\ c.service \in Nat /\ c.reuse \in Nat
<1>1. /\ c.plan \in PlanType /\ c.protected \in Nat /\ c.usable \in Nat
      /\ c.value \in Nat /\ c.service \in Nat /\ c.reuse \in Nat
  BY DEF ConflictType
<1>2. AtLeast0(Headroom(c)) \in Nat
  BY <1>1 DEF AtLeast0, Headroom
<1>3. c.plan.total \in Nat /\ c.plan.chunks \in Seq(Nat)
  BY <1>1 DEF PlanType
<1>4. BoundedPlan(c) \in PlanType
  BY <1>2, <1>3 DEF BoundedPlan, PlanType, Modes
<1>5. SplitPlan(c) \in PlanType
  BY <1>3 DEF SplitPlan, PlanType, Modes
<1> QED
  BY <1>1, <1>4, <1>5

\* One of the mechanisms' decisions on the conflict.
Mechanisms(c) ==
  {NativeEviction(c), VictimExclusion(c), WriteNoAdmitOnly(c), OrdinaryChunking(c),
   ActiveDeferral(c), ResidentReserve(c), OffloadResident(c), OffloadActive(c),
   BoundedActiveLive(c), RecomputeSplit(c), RouteElsewhere(c),
   RelaxResidentProtection(c), CapacityScaling(c)}

LEMMA CandidatesAreMechanisms ==
  ASSUME NEW c, NEW i \in 1 .. 13
  PROVE  Candidates(c)[i] \in Mechanisms(c)
<1> i \in {1, 2, 3, 4, 5, 6, 7, 8, 9, 10, 11, 12, 13}
  OBVIOUS
<1> QED
  BY DEF Candidates, Mechanisms

\* A decision can be compared.
Comparable(c, d) == Utility(c, d) \in Int

LEMMA MechanismsComparable ==
  ASSUME NEW c \in ConflictType, NEW d \in Mechanisms(c)
  PROVE  d.cost \in Nat /\ Comparable(c, d)
<1>1. /\ c.protected \in Nat /\ c.usable \in Nat
      /\ c.value \in Nat /\ c.service \in Nat /\ c.reuse \in Nat
      /\ MaxLive(c.plan) \in Nat /\ MaxLive(BoundedPlan(c)) \in Nat
      /\ MaxLive(SplitPlan(c)) \in Nat /\ c.plan.total \in Nat
  <2>1. \A plan \in PlanType : plan.total \in Nat /\ MaxLive(plan) \in 0 .. plan.total
    BY MaxLiveFacts DEF PlanType
  <2>2. \A plan \in PlanType : plan.total \in Nat /\ MaxLive(plan) \in Nat
    BY <2>1
  <2> QED
    BY <2>2, PlansTyped
<1>2. /\ Cost.defer \in Nat /\ Cost.steps \in Nat /\ Cost.offloadResident \in Nat
      /\ Cost.offloadActive \in Nat /\ Cost.recompute \in Nat /\ Cost.route \in Nat
      /\ Cost.extra \in Nat
  BY CostAssumption DEF CostType
<1>3. \A m, n \in Nat : m * n \in Nat
  OBVIOUS
<1>4. \A n \in Int : AtLeast0(n) \in Nat
  BY DEF AtLeast0
<1>5. d.cost \in Nat
  <2>1. ASSUME NEW actions, NEW admitted, d = ResidentsYield(c, actions, admitted)
        PROVE  d.cost \in Nat
    BY <2>1, YieldFields
  <2>2. ASSUME NEW actions, NEW plan, NEW cost \in Nat, d = ResidentsStay(c, actions, plan, cost)
        PROVE  d.cost \in Nat
    BY <2>2, StayFields
  <2>3. CASE d \in {NativeEviction(c), WriteNoAdmitOnly(c), OrdinaryChunking(c)}
    BY <2>1, <2>3 DEF NativeEviction, WriteNoAdmitOnly, OrdinaryChunking
  <2>4. CASE d \in {VictimExclusion(c), ResidentReserve(c)}
    BY <2>2, <2>4 DEF VictimExclusion, ResidentReserve
  <2>5. CASE d = OffloadActive(c)
    <3>1. AtLeast0(MaxLive(c.plan) - AtLeast0(Headroom(c))) * Cost.offloadActive \in Nat
      BY <1>1, <1>2, <1>3, <1>4 DEF Headroom
    <3> QED
      BY <2>2, <2>5, <3>1 DEF OffloadActive
  <2>6. CASE d = BoundedActiveLive(c)
    <3>1. AtLeast0(MaxLive(c.plan) - MaxLive(BoundedPlan(c))) * Cost.recompute \in Nat
      BY <1>1, <1>2, <1>3, <1>4
    <3> QED
      BY <2>2, <2>6, <3>1 DEF BoundedActiveLive
  <2>7. CASE d = RecomputeSplit(c)
    <3>1. c.plan.total * Cost.recompute \in Nat
      BY <1>1, <1>2, <1>3
    <3> QED
      BY <2>2, <2>7, <3>1 DEF RecomputeSplit
  <2>8. CASE d = ActiveDeferral(c)
    BY <1>2, <1>3, <2>8 DEF ActiveDeferral, Plain
  <2>9. CASE d = RouteElsewhere(c)
    BY <1>2, <2>9 DEF RouteElsewhere, Plain
  <2>10. CASE d = OffloadResident(c)
    BY <1>1, <1>2, <1>3, <2>10 DEF OffloadResident, Plain, Classify
  <2>11. CASE d = RelaxResidentProtection(c)
    BY YieldFields, <2>11 DEF RelaxResidentProtection, ResidentsYield, Plain
  <2>12. CASE d = CapacityScaling(c)
    <3>1. ExtraBlocks(c) \in Nat
      BY <1>1, <1>4 DEF ExtraBlocks
    <3> QED
      BY <1>1, <1>2, <1>3, <2>12, <3>1 DEF CapacityScaling, Plain, Classify
  <2> QED
    BY <2>3, <2>4, <2>5, <2>6, <2>7, <2>8, <2>9, <2>10, <2>11, <2>12 DEF Mechanisms
<1>6. Utility(c, d) \in Int
  BY <1>1, <1>5 DEF Utility
<1> QED
  BY <1>5, <1>6 DEF Comparable

\* The comparison of the oracle is an order.
LEMMA BetterIsOrder ==
  ASSUME NEW c, NEW d, NEW e, NEW f, Comparable(c, d), Comparable(c, e), Comparable(c, f)
  PROVE  /\ ~ Better(c, d, d)
         /\ Better(c, d, e) /\ Better(c, e, f) => Better(c, d, f)
BY DEF Comparable, Better

\* Some candidate has no better one, and the oracle chooses the first such.
LEMMA OracleChoiceIsBest ==
  ASSUME NEW c \in ConflictType
  PROVE  /\ OracleChoice(c) \in 1 .. 13
         /\ \A j \in 1 .. 13 : ~ Better(c, Candidates(c)[j], Candidates(c)[OracleChoice(c)])
         /\ \A i \in 1 .. 13 :
              (\A j \in 1 .. 13 : ~ Better(c, Candidates(c)[j], Candidates(c)[i])) =>
                OracleChoice(c) <= i
<1> DEFINE D == Candidates(c)
           Best(i, n) == \A j \in 1 .. n + 1 : ~ Better(c, D[j], D[i])
           T == {n \in Nat : n <= 12 => \E i \in 1 .. n + 1 : Best(i, n)}
<1>1. \A i \in 1 .. 13 : Comparable(c, D[i])
  BY CandidatesAreMechanisms, MechanismsComparable
<1>2. DOMAIN D = 1 .. 13
  BY DEF Candidates
<1> HIDE DEF D
<1>3. 0 \in T
  <2>1. Best(1, 0)
    BY <1>1, BetterIsOrder
  <2> QED
    BY <2>1
<1>4. ASSUME NEW n \in T PROVE n + 1 \in T
  <2>1. SUFFICES ASSUME n + 1 <= 12 PROVE \E i \in 1 .. n + 2 : Best(i, n + 1)
    OBVIOUS
  <2>2. PICK i \in 1 .. n + 1 : Best(i, n)
    BY <2>1
  <2>3. \A j \in 1 .. (n + 1) + 1 : j \in 1 .. n + 1 \/ j = n + 2
    OBVIOUS
  <2>4. CASE Better(c, D[n+2], D[i])
    <3>1. ASSUME NEW j \in 1 .. (n + 1) + 1 PROVE ~ Better(c, D[j], D[n+2])
      <4>1. j \in 1 .. 13 /\ n + 2 \in 1 .. 13 /\ i \in 1 .. 13
        BY <2>1
      <4>2. Better(c, D[j], D[n+2]) => Better(c, D[j], D[i])
        BY <1>1, <2>4, <4>1, BetterIsOrder
      <4>3. ~ Better(c, D[n+2], D[n+2])
        BY <1>1, <4>1, BetterIsOrder
      <4> QED
        BY <2>2, <2>3, <4>2, <4>3
    <3> QED
      BY <3>1
  <2>5. CASE ~ Better(c, D[n+2], D[i])
    <3>1. Best(i, n + 1)
      BY <2>2, <2>3, <2>5
    <3> QED
      BY <3>1
  <2> QED
    BY <2>4, <2>5
<1>5. 12 \in T
  <2>1. T \in SUBSET Nat
    OBVIOUS
  <2>2. T = Nat
    <3> HIDE DEF T
    <3> QED
      BY <1>3, <1>4, <2>1, NatInductionOnSets
  <2> QED
    BY <2>2
<1> DEFINE S == {i \in DOMAIN D : \A j \in DOMAIN D : ~ Better(c, D[j], D[i])}
<1>6. S \in SUBSET Nat /\ S # {}
  BY <1>2, <1>5
<1>7. OracleChoice(c) = Min(S)
  BY DEF OracleChoice, D
<1>8. Min(S) \in S /\ \A i \in S : Min(S) <= i
  <2> HIDE DEF S
  <2> QED
    BY <1>6, LeastNatural DEF Min
<1> QED
  BY <1>2, <1>7, <1>8 DEF D

-----------------------------------------------------------------------------
(* The invariant: an answer is the decision of a mechanism on the conflict, *)
(* the best one if the oracle was asked.                                   *)

Decided ==
  /\ conflict \in ConflictType
  /\ Asked => /\ Answer \in Mechanisms(conflict)
              /\ decision.mechanism = "oracle_arbiter" =>
                   Answer = Candidates(conflict)[OracleChoice(conflict)]

LEMMA InitDecided == Init => Decided
BY ConflictAssumption DEF Init, Decided, Asked

LEMMA NextDecided == Decided /\ [Next]_vars => Decided'
<1> SUFFICES ASSUME Decided, [Next]_vars PROVE Decided'
  OBVIOUS
<1>1. ASSUME NEW i \in DOMAIN Names, Arbitrate(i) PROVE Decided'
  <2>1. i \in 1 .. 13 /\ Names[i] # "oracle_arbiter"
    BY DEF Names
  <2>2. conflict' = conflict /\ decision'.mechanism = Names[i]
        /\ decision'.outcome = Candidates(conflict)[i]
    BY <1>1 DEF Arbitrate
  <2>3. Candidates(conflict)[i] \in Mechanisms(conflict)
    BY <2>1, CandidatesAreMechanisms
  <2> QED
    BY <2>1, <2>2, <2>3 DEF Decided, Asked, Answer
<1>2. CASE ArbitrateOracle
  <2>1. conflict' = conflict
        /\ decision'.outcome = Candidates(conflict)[OracleChoice(conflict)]
    BY <1>2 DEF ArbitrateOracle
  <2>2. OracleChoice(conflict) \in 1 .. 13
    BY OracleChoiceIsBest DEF Decided
  <2>3. Candidates(conflict)[OracleChoice(conflict)] \in Mechanisms(conflict)
    BY <2>2, CandidatesAreMechanisms
  <2> QED
    BY <2>1, <2>3 DEF Decided, Asked, Answer
<1>3. CASE UNCHANGED vars
  BY <1>3 DEF vars, Decided, Asked, Answer
<1> QED
  BY <1>1, <1>2, <1>3 DEF Next

LEMMA AlwaysDecided == Spec => []Decided
BY InitDecided, NextDecided, PTL DEF Spec

-----------------------------------------------------------------------------
(* The theorems.                                                           *)

\* Survival and service are yes or no.
LEMMA SidesTyped ==
  ASSUME NEW c, NEW d \in Mechanisms(c)
  PROVE  d.survives \in BOOLEAN /\ d.served \in BOOLEAN
<1>1. \A actions, admitted : LET d1 == ResidentsYield(c, actions, admitted)
                             IN  d1.survives \in BOOLEAN /\ d1.served \in BOOLEAN
  BY DEF ResidentsYield, Plain
<1>2. \A actions, plan, cost : LET d1 == ResidentsStay(c, actions, plan, cost)
                               IN  d1.survives \in BOOLEAN /\ d1.served \in BOOLEAN
  BY DEF ResidentsStay, Plain, Classify
<1>3. CASE d \in {NativeEviction(c), WriteNoAdmitOnly(c), OrdinaryChunking(c)}
  BY <1>1, <1>3 DEF NativeEviction, WriteNoAdmitOnly, OrdinaryChunking
<1>4. CASE d \in {VictimExclusion(c), ResidentReserve(c), OffloadActive(c),
                  BoundedActiveLive(c), RecomputeSplit(c)}
  BY <1>2, <1>4 DEF VictimExclusion, ResidentReserve, OffloadActive, BoundedActiveLive,
                    RecomputeSplit
<1>5. CASE d \in {ActiveDeferral(c), RouteElsewhere(c)}
  BY <1>5 DEF ActiveDeferral, RouteElsewhere, Plain
<1>7. CASE d \in {OffloadResident(c), CapacityScaling(c)}
  <2>1. \A protected, plan, usable : Classify(protected, plan, usable).feasible \in BOOLEAN
    BY DEF Classify
  <2>2. CASE d = OffloadResident(c)
    <3>1. d.survives = TRUE /\ d.served = Classify(0, c.plan, c.usable).feasible
      BY <2>2 DEF OffloadResident, Plain
    <3> QED
      BY <2>1, <3>1
  <2>3. CASE d = CapacityScaling(c)
    <3>1. d.survives = TRUE
          /\ d.served = Classify(c.protected, c.plan, c.usable + ExtraBlocks(c)).feasible
      BY <2>3 DEF CapacityScaling, Plain
    <3> QED
      BY <2>1, <3>1
  <2> QED
    BY <1>7, <2>2, <2>3
<1>6. CASE d = RelaxResidentProtection(c)
  BY <1>6 DEF RelaxResidentProtection, ResidentsYield, Plain
<1> QED
  BY <1>3, <1>4, <1>5, <1>6, <1>7 DEF Mechanisms

\* What a decision gives up and pays, if no way of keeping both sides is
\* better than it.
LEMMA LosesLessThan ==
  ASSUME NEW c \in ConflictType, NEW d \in Mechanisms(c), NEW k \in Mechanisms(c),
         NEW price \in Int, k.survives, k.served, ~ Better(c, k, d),
         Utility(c, k) = (c.value + c.service + c.reuse) - price
  PROVE  /\ SidesLost(c, d) + (IF d.admitted THEN 0 ELSE c.reuse) + d.cost <= price
         /\ ~ d.survives \/ ~ d.served => SidesLost(c, d) < price
<1>1. /\ c.value \in Nat /\ c.service \in Nat /\ c.reuse \in Nat
      /\ d.cost \in Nat /\ Utility(c, d) \in Int /\ Utility(c, k) \in Int
      /\ d.survives \in BOOLEAN /\ d.served \in BOOLEAN
      /\ k.survives \in BOOLEAN /\ k.served \in BOOLEAN
  BY PlansTyped, MechanismsComparable, SidesTyped DEF Comparable
<1> DEFINE reuse == IF d.admitted THEN 0 ELSE c.reuse
<1>2. reuse \in Nat /\ reuse <= c.reuse /\ SidesLost(c, d) \in Nat
  BY <1>1 DEF SidesLost
<1>3. Utility(c, d) = (c.value + c.service + c.reuse) - (SidesLost(c, d) + reuse + d.cost)
  BY <1>1 DEF Utility, SidesLost
<1> HIDE DEF reuse
<1>4. ~ (Utility(c, k) > Utility(c, d))
  BY DEF Better
<1>5. ~ d.survives \/ ~ d.served => Utility(c, k) # Utility(c, d)
  <2>1. CASE ~ d.survives
    BY <2>1 DEF Better
  <2>2. CASE d.survives /\ ~ d.served
    <3>1. k.survives = d.survives
      BY <1>1, <2>2
    <3> QED
      BY <2>2, <3>1 DEF Better
  <2> QED
    BY <2>1, <2>2
<1>6. SidesLost(c, d) + reuse + d.cost <= price
  BY <1>1, <1>2, <1>3, <1>4
<1>7. ~ d.survives \/ ~ d.served => SidesLost(c, d) < price
  BY <1>1, <1>2, <1>3, <1>4, <1>5
<1> QED
  BY <1>6, <1>7 DEF reuse

\* Each way of having both sides is offered by a mechanism, at its price.
LEMMA PricesAreOffered ==
  ASSUME NEW c \in ConflictType, NEW price \in PricesOfBoth(c)
  PROVE  /\ price \in Int
         /\ \E j \in 1 .. 13 : LET k == Candidates(c)[j]
                               IN  /\ k.survives /\ k.served
                                   /\ Utility(c, k) = (c.value + c.service + c.reuse) - price
<1>1. /\ c.plan \in PlanType /\ c.protected \in Nat /\ c.usable \in Nat
      /\ c.value \in Nat /\ c.service \in Nat /\ c.reuse \in Nat
  BY PlansTyped
<1>2. MaxLive(c.plan) \in Nat
  BY <1>1, MaxLiveFacts DEF PlanType
<1>3. /\ Cost.defer \in Nat /\ Cost.steps \in Nat /\ Cost.offloadResident \in Nat
      /\ Cost.route \in Nat /\ Cost.extra \in Nat
  BY CostAssumption DEF CostType
<1>4. \A m, n \in Nat : m * n \in Nat
  OBVIOUS
<1>5. ExtraBlocks(c) \in Nat /\ c.protected + MaxLive(c.plan) <= c.usable + ExtraBlocks(c)
  BY <1>1, <1>2 DEF ExtraBlocks, AtLeast0
<1>6. CASE price = AtLeast0((c.protected + MaxLive(c.plan)) - c.usable) * Cost.extra
  <2> DEFINE k == CapacityScaling(c)
  <2>1. price = ExtraBlocks(c) * Cost.extra
    <3>1. ExtraBlocks(c) = AtLeast0((c.protected + MaxLive(c.plan)) - c.usable)
      BY <1>1, <1>2 DEF ExtraBlocks, AtLeast0
    <3> QED
      BY <1>6, <3>1
  <2>2. price \in Nat
    BY <1>3, <1>4, <1>5, <2>1
  <2>3. k.survives /\ k.served /\ k.admitted /\ k.cost = price
    BY <1>5, <2>1, ScalingFields
  <2>4. k = Candidates(c)[13]
    BY DEF Candidates
  <2> HIDE DEF k
  <2>5. Utility(c, k) = (c.value + c.service + c.reuse) - price
    BY <1>1, <2>2, <2>3 DEF Utility
  <2> QED
    BY <2>2, <2>3, <2>4, <2>5
<1>7. CASE price = Cost.steps * Cost.defer + c.reuse
  <2> DEFINE k == ActiveDeferral(c)
             cost == Cost.steps * Cost.defer
  <2>1. cost \in Nat
    BY <1>3, <1>4
  <2>2. k.survives /\ k.served /\ ~ k.admitted /\ k.cost = cost
    BY DEF ActiveDeferral, Plain
  <2>3. k = Candidates(c)[5]
    BY DEF Candidates
  <2>4. price = cost + c.reuse
    BY <1>7
  <2> HIDE DEF k, cost
  <2>5. Utility(c, k) = (c.value + c.service + c.reuse) - price
    BY <1>1, <2>1, <2>2, <2>4 DEF Utility
  <2> QED
    BY <1>1, <2>1, <2>2, <2>3, <2>4, <2>5
<1>8. CASE price = Cost.route + c.reuse
  <2> DEFINE k == RouteElsewhere(c)
  <2>1. k.survives /\ k.served /\ ~ k.admitted /\ k.cost = Cost.route
    BY DEF RouteElsewhere, Plain
  <2>2. k = Candidates(c)[11]
    BY DEF Candidates
  <2> HIDE DEF k
  <2>3. Utility(c, k) = (c.value + c.service + c.reuse) - price
    BY <1>1, <1>3, <1>8, <2>1 DEF Utility
  <2> QED
    BY <1>1, <1>3, <1>8, <2>1, <2>2, <2>3
<1>9. CASE price = c.protected * Cost.offloadResident /\ MaxLive(c.plan) <= c.usable
  <2> DEFINE k == OffloadResident(c)
  <2>1. price \in Nat
    BY <1>1, <1>3, <1>4, <1>9
  <2>2. k.survives /\ k.served /\ k.admitted /\ k.cost = price
    BY <1>1, <1>2, <1>9, OffloadFields
  <2>3. k = Candidates(c)[7]
    BY DEF Candidates
  <2> HIDE DEF k
  <2>4. Utility(c, k) = (c.value + c.service + c.reuse) - price
    BY <1>1, <2>1, <2>2 DEF Utility
  <2> QED
    BY <2>1, <2>2, <2>3, <2>4
<1> QED
  BY <1>6, <1>7, <1>8, <1>9 DEF PricesOfBoth

\* OracleGivesUpLeast for every conflict and every cost model: each way of
\* having both sides is among the mechanisms that the oracle compares.
THEOREM OracleLosesNoMoreThanItMust == Spec => []OracleGivesUpLeast
<1>1. Decided => OracleGivesUpLeast
  <2> SUFFICES ASSUME Decided, Asked, decision.mechanism = "oracle_arbiter",
                      NEW price \in PricesOfBoth(conflict)
               PROVE  /\ SidesLost(conflict, Answer)
                           + (IF Answer.admitted THEN 0 ELSE conflict.reuse)
                           + Answer.cost <= price
                      /\ ~ Answer.survives \/ ~ Answer.served =>
                           SidesLost(conflict, Answer) < price
    BY DEF OracleGivesUpLeast
  <2>1. /\ conflict \in ConflictType /\ Answer \in Mechanisms(conflict)
        /\ Answer = Candidates(conflict)[OracleChoice(conflict)]
    BY DEF Decided
  <2>2. PICK j \in 1 .. 13 :
          /\ Candidates(conflict)[j].survives /\ Candidates(conflict)[j].served
          /\ Utility(conflict, Candidates(conflict)[j]) =
               (conflict.value + conflict.service + conflict.reuse) - price
    BY <2>1, PricesAreOffered
  <2>3. price \in Int /\ Candidates(conflict)[j] \in Mechanisms(conflict)
    BY <2>1, PricesAreOffered, CandidatesAreMechanisms
  <2>4. ~ Better(conflict, Candidates(conflict)[j], Answer)
    BY <2>1, OracleChoiceIsBest
  <2> QED
    BY <2>1, <2>2, <2>3, <2>4, LosesLessThan
<1> QED
  BY <1>1, AlwaysDecided, PTL

\* Where both fit, the mechanisms whose answer changes or loses something are
\* beaten by added capacity of no block, or come after victim exclusion.
LEMMA FittingChoice ==
  ASSUME NEW c \in ConflictType, c.protected + MaxLive(c.plan) <= c.usable
  PROVE  LET d == Candidates(c)[OracleChoice(c)]
         IN  /\ d.survives /\ d.served /\ (d.admitted \/ c.reuse = 0) /\ d.cost = 0
             /\ d.admitted \/ OracleChoice(c) <= 2
<1> DEFINE D == Candidates(c)
           i == OracleChoice(c)
           d == D[i]
           full == c.value + c.service + c.reuse
           reuse == IF d.admitted THEN 0 ELSE c.reuse
<1>1. /\ c.value \in Nat /\ c.service \in Nat /\ c.reuse \in Nat
      /\ c.protected \in Nat /\ c.usable \in Nat /\ MaxLive(c.plan) \in Nat
  BY PlansTyped, MaxLiveFacts DEF PlanType
<1>2. /\ i \in 1 .. 13 /\ \A j \in 1 .. 13 : ~ Better(c, D[j], d)
      /\ \A m \in 1 .. 13 : (\A j \in 1 .. 13 : ~ Better(c, D[j], D[m])) => i <= m
  BY OracleChoiceIsBest
<1>3. D[2] = VictimExclusion(c) /\ D[13] = CapacityScaling(c)
  BY DEF Candidates
<1>4. \A j \in 1 .. 13 : D[j] \in Mechanisms(c)
  BY CandidatesAreMechanisms
<1>5. D[13].survives /\ D[13].served /\ Utility(c, D[13]) = full - 0
  <2>1. ExtraBlocks(c) = 0
    BY <1>1 DEF ExtraBlocks, AtLeast0
  <2>2. ExtraBlocks(c) * Cost.extra = 0
    BY <2>1, CostAssumption DEF CostType
  <2>3. D[13].survives /\ D[13].served /\ D[13].admitted /\ D[13].cost = 0
    BY <1>1, <1>3, <2>1, <2>2, ScalingFields
  <2> HIDE DEF D
  <2> QED
    BY <1>1, <2>3 DEF Utility
<1>6. D[2].survives /\ D[2].served /\ Utility(c, D[2]) = c.value + c.service
  <2>1. D[2].survives /\ D[2].served /\ ~ D[2].admitted /\ D[2].cost = 0
    BY <1>3, StayFields DEF VictimExclusion, ResidentsStay, Plain
  <2> HIDE DEF D
  <2> QED
    BY <1>1, <2>1 DEF Utility
<1> HIDE DEF D, i
<1>7. d \in Mechanisms(c) /\ D[13] \in Mechanisms(c) /\ D[2] \in Mechanisms(c) /\ ~ Better(c, D[13], d)
  BY <1>2, <1>4
<1> HIDE DEF d
<1>8. /\ SidesLost(c, d) + reuse + d.cost <= 0
      /\ ~ d.survives \/ ~ d.served => SidesLost(c, d) < 0
  BY <1>5, <1>7, LosesLessThan
<1>9. /\ SidesLost(c, d) \in Nat /\ reuse \in Nat /\ d.cost \in Nat
  BY <1>1, <1>7, MechanismsComparable DEF SidesLost
<1> HIDE DEF reuse
<1>10. d.survives /\ d.served /\ reuse = 0 /\ d.cost = 0
  BY <1>8, <1>9
<1>11. d.admitted \/ c.reuse = 0
  BY <1>10 DEF reuse
<1>12. d.admitted \/ i <= 2
  <2> SUFFICES ASSUME ~ d.admitted PROVE i <= 2
    OBVIOUS
  <2>1. Utility(c, d) = Utility(c, D[2])
    BY <1>1, <1>6, <1>10 DEF Utility
  <2>2. d.survives \in BOOLEAN /\ d.served \in BOOLEAN
        /\ D[2].survives \in BOOLEAN /\ D[2].served \in BOOLEAN
    BY <1>7, SidesTyped
  <2>3. d.survives = D[2].survives /\ d.served = D[2].served
    BY <1>6, <1>10, <2>2
  <2>4. ASSUME NEW j \in 1 .. 13 PROVE ~ Better(c, D[j], D[2])
    <3>1. ~ Better(c, D[j], d)
      BY <1>2 DEF d
    <3> QED
      BY <2>1, <2>3, <3>1 DEF Better
  <2> QED
    BY <1>2, <2>4
<1> QED
  BY <1>10, <1>11, <1>12 DEF d, D, i

\* OracleLeavesFittingAlone for every conflict and every cost model, those in
\* which a delay or a route is free included.
THEOREM FittingIsLeftAlone == Spec => []OracleLeavesFittingAlone
<1>1. Decided => OracleLeavesFittingAlone
  <2> SUFFICES ASSUME Decided, Asked, decision.mechanism = "oracle_arbiter",
                      conflict.protected + MaxLive(conflict.plan) <= conflict.usable
               PROVE  /\ Answer.survives /\ Answer.served
                      /\ Answer.admitted \/ conflict.reuse = 0
                      /\ Answer.cost = 0 /\ Answer.delay = 0 /\ ~ Did("route_elsewhere")
                      /\ Answer.plan = conflict.plan /\ Answer.usable = conflict.usable
    BY DEF OracleLeavesFittingAlone
  <2> DEFINE c == conflict
             i == OracleChoice(c)
  <2>1. /\ c \in ConflictType /\ i \in 1 .. 13 /\ Answer = Candidates(c)[i]
    BY OracleChoiceIsBest DEF Decided
  <2>2. /\ Answer.survives /\ Answer.served /\ (Answer.admitted \/ c.reuse = 0)
        /\ Answer.cost = 0 /\ (Answer.admitted \/ i <= 2)
    BY <2>1, FittingChoice
  <2>3. Answer \in {VictimExclusion(c), OffloadResident(c), CapacityScaling(c)}
    <3>1. CASE i <= 2
      <4>1. i \in {1, 2}
        BY <2>1, <3>1
      <4>2. Answer \in {NativeEviction(c), VictimExclusion(c)}
        BY <2>1, <4>1 DEF Candidates
      <4>3. ~ NativeEviction(c).survives
        BY YieldFields DEF NativeEviction
      <4> QED
        BY <2>2, <4>2, <4>3
    <3>2. CASE Answer.admitted
      <4>1. Answer \in Mechanisms(c)
        BY <2>1, CandidatesAreMechanisms
      <4>2. Answer \notin {NativeEviction(c), WriteNoAdmitOnly(c), OrdinaryChunking(c)}
        <5>1. \A actions, admitted : ~ ResidentsYield(c, actions, admitted).survives
          BY YieldFields
        <5> QED
          BY <2>2, <5>1 DEF NativeEviction, WriteNoAdmitOnly, OrdinaryChunking
      <4>3. Answer # RelaxResidentProtection(c)
        BY <2>2 DEF RelaxResidentProtection, ResidentsYield, Plain
      <4>4. Answer \notin {ResidentReserve(c), OffloadActive(c), BoundedActiveLive(c),
                           RecomputeSplit(c)}
        BY <3>2 DEF ResidentReserve, OffloadActive, BoundedActiveLive, RecomputeSplit,
                    ResidentsStay, Plain
      <4>5. Answer \notin {ActiveDeferral(c), RouteElsewhere(c)}
        BY <3>2 DEF ActiveDeferral, RouteElsewhere, Plain
      <4> QED
        BY <4>1, <4>2, <4>3, <4>4, <4>5 DEF Mechanisms
    <3> QED
      BY <2>2, <3>1, <3>2
  <2>4. c.protected \in Nat /\ c.usable \in Nat /\ MaxLive(c.plan) \in Nat
    BY <2>1, PlansTyped, MaxLiveFacts DEF PlanType
  <2>5. c.usable + ExtraBlocks(c) = c.usable
    BY <2>4 DEF ExtraBlocks, AtLeast0
  <2>6. /\ Answer.delay = 0 /\ "route_elsewhere" \notin Answer.actions
        /\ Answer.plan = c.plan /\ Answer.usable = c.usable
    <3>1. CASE Answer = VictimExclusion(c)
      BY <3>1 DEF VictimExclusion, ResidentsStay, Plain
    <3>2. CASE Answer = OffloadResident(c)
      BY <3>2, OffloadFields
    <3>3. CASE Answer = CapacityScaling(c)
      BY <2>5, <3>3, ScalingFields
    <3> QED
      BY <2>3, <3>1, <3>2, <3>3
  <2> QED
    BY <2>2, <2>6 DEF Did
<1> QED
  BY <1>1, AlwaysDecided, PTL

\* WithinBudgetOrElsewhere for every conflict and every cost model in which a
\* deferral takes a step: what is served beside surviving residents is within
\* the budget, or somewhere or sometime else.
THEOREM BudgetIsKept ==
  ASSUME Cost.steps > 0
  PROVE  Spec => []WithinBudgetOrElsewhere
<1>1. Decided => WithinBudgetOrElsewhere
  <2> SUFFICES ASSUME Decided, Asked, Answer.served, Answer.survives
               PROVE  \/ conflict.protected + MaxLive(Answer.plan) <= Answer.usable
                      \/ Did("offload_resident") /\ MaxLive(Answer.plan) <= Answer.usable
                      \/ Did("route_elsewhere")
                      \/ Did("defer_active") /\ Answer.delay > 0
    BY DEF WithinBudgetOrElsewhere
  <2> DEFINE c == conflict
             d == Answer
  <2>1. c \in ConflictType /\ d \in Mechanisms(c)
    BY DEF Decided
  <2>2. c.plan \in PlanType /\ c.protected \in Nat /\ c.usable \in Nat
    BY <2>1, PlansTyped
  <2>3. MaxLive(c.plan) \in Nat
    BY <2>2, MaxLiveFacts DEF PlanType
  <2>4. CASE d \in {NativeEviction(c), WriteNoAdmitOnly(c), OrdinaryChunking(c)}
    <3>1. ~ d.survives
      BY <2>4 DEF NativeEviction, WriteNoAdmitOnly, OrdinaryChunking, ResidentsYield, Plain
    <3> QED
      BY <3>1
  <2>5. CASE d \in {VictimExclusion(c), ResidentReserve(c), OffloadActive(c),
                    BoundedActiveLive(c), RecomputeSplit(c)}
    BY <2>5, StayFields
       DEF VictimExclusion, ResidentReserve, OffloadActive, BoundedActiveLive, RecomputeSplit
  <2>6. CASE d = ActiveDeferral(c)
    <3>1. "defer_active" \in d.actions /\ d.delay = Cost.steps
      BY <2>6 DEF ActiveDeferral, Plain
    <3> QED
      BY <3>1 DEF Did
  <2>7. CASE d = RouteElsewhere(c)
    BY <2>7 DEF RouteElsewhere, Plain, Did
  <2>8. CASE d = OffloadResident(c)
    <3>1. /\ "offload_resident" \in d.actions /\ d.plan = c.plan /\ d.usable = c.usable
          /\ d.served <=> 0 + MaxLive(c.plan) <= c.usable
      BY <2>8 DEF OffloadResident, Plain, Classify
    <3> QED
      BY <2>3, <3>1 DEF Did
  <2>9. CASE d = RelaxResidentProtection(c)
    <3>1. ~ d.survives
      BY <2>9 DEF RelaxResidentProtection, ResidentsYield, Plain
    <3> QED
      BY <3>1
  <2>10. CASE d = CapacityScaling(c)
    BY <2>10 DEF CapacityScaling, Plain, Classify
  <2> QED
    BY <2>1, <2>4, <2>5, <2>6, <2>7, <2>8, <2>9, <2>10 DEF Mechanisms
<1> QED
  BY <1>1, AlwaysDecided, PTL

\* What the property needs of the cost model: nothing a mechanism does is free.
Costly ==
  /\ Cost.defer > 0 /\ Cost.steps > 0 /\ Cost.offloadResident > 0 /\ Cost.offloadActive > 0
  /\ Cost.recompute > 0 /\ Cost.route > 0 /\ Cost.extra > 0

\* ConflictIsLostOrPaid for every conflict and every cost model in which
\* nothing is free.
THEOREM ConflictsAreLostOrPaid ==
  ASSUME Costly
  PROVE  Spec => []ConflictIsLostOrPaid
<1>1. Decided => ConflictIsLostOrPaid
  <2> SUFFICES ASSUME Decided, Asked, Answer.served, Answer.survives,
                      conflict.protected + MaxLive(conflict.plan) > conflict.usable
               PROVE  Answer.cost > 0
    BY DEF ConflictIsLostOrPaid
  <2> DEFINE c == conflict
             d == Answer
  <2>1. c \in ConflictType /\ d \in Mechanisms(c)
    BY DEF Decided
  <2>2. /\ c.plan \in PlanType /\ BoundedPlan(c) \in PlanType /\ SplitPlan(c) \in PlanType
        /\ c.protected \in Nat /\ c.usable \in Nat
    BY <2>1, PlansTyped
  <2>3. /\ c.plan.total \in Nat
        /\ MaxLive(c.plan) \in 0 .. c.plan.total
        /\ MaxLive(BoundedPlan(c)) \in Nat /\ MaxLive(SplitPlan(c)) \in Nat
    <3>1. \A plan \in PlanType : plan.total \in Nat /\ MaxLive(plan) \in 0 .. plan.total
      BY MaxLiveFacts DEF PlanType
    <3>2. \A plan \in PlanType : MaxLive(plan) \in Nat
      BY <3>1
    <3> QED
      BY <2>2, <3>1, <3>2
  <2>4. /\ Cost.defer \in Nat /\ Cost.steps \in Nat /\ Cost.offloadResident \in Nat
        /\ Cost.offloadActive \in Nat /\ Cost.recompute \in Nat /\ Cost.route \in Nat
        /\ Cost.extra \in Nat
    BY CostAssumption DEF CostType
  <2>5. \A m, n \in Nat : m > 0 /\ n > 0 => m * n > 0
    OBVIOUS
  <2>6. c.protected + MaxLive(c.plan) > c.usable /\ MaxLive(c.plan) \in Nat
    BY <2>3
  <2>7. CASE d \in {NativeEviction(c), WriteNoAdmitOnly(c), OrdinaryChunking(c),
                    RelaxResidentProtection(c)}
    <3>1. ~ d.survives
      BY <2>7 DEF NativeEviction, WriteNoAdmitOnly, OrdinaryChunking,
                  RelaxResidentProtection, ResidentsYield, Plain
    <3> QED
      BY <3>1
  <2>8. CASE d \in {VictimExclusion(c), ResidentReserve(c)}
    <3>1. d.served <=> c.protected + MaxLive(c.plan) <= c.usable
      BY <2>8, StayFields DEF VictimExclusion, ResidentReserve
    <3> QED
      BY <2>2, <2>6, <3>1
  <2>9. CASE d = OffloadActive(c)
    <3> DEFINE n == AtLeast0(MaxLive(c.plan) - AtLeast0(Headroom(c)))
    <3>1. /\ d.cost = n * Cost.offloadActive
          /\ c.protected + MaxLive(BoundedPlan(c)) <= c.usable
      BY <2>9, StayFields DEF OffloadActive
    <3>2. n \in Nat /\ n > 0
      BY <2>2, <2>3, <2>6, <3>1 DEF AtLeast0, Headroom
    <3> HIDE DEF n
    <3> QED
      BY <2>4, <2>5, <3>1, <3>2 DEF Costly
  <2>10. CASE d = BoundedActiveLive(c)
    <3> DEFINE n == AtLeast0(MaxLive(c.plan) - MaxLive(BoundedPlan(c)))
    <3>1. /\ d.cost = n * Cost.recompute
          /\ c.protected + MaxLive(BoundedPlan(c)) <= c.usable
      BY <2>10, StayFields DEF BoundedActiveLive
    <3>2. n \in Nat /\ n > 0
      BY <2>2, <2>3, <2>6, <3>1 DEF AtLeast0
    <3> HIDE DEF n
    <3> QED
      BY <2>4, <2>5, <3>1, <3>2 DEF Costly
  <2>11. CASE d = RecomputeSplit(c)
    <3>1. /\ d.cost = c.plan.total * Cost.recompute
          /\ c.protected + MaxLive(SplitPlan(c)) <= c.usable
      BY <2>11, StayFields DEF RecomputeSplit
    <3>2. c.plan.total > 0
      BY <2>2, <2>3, <2>6, <3>1
    <3> QED
      BY <2>3, <2>4, <2>5, <3>1, <3>2 DEF Costly
  <2>12. CASE d = ActiveDeferral(c)
    <3>1. d.cost = Cost.steps * Cost.defer
      BY <2>12 DEF ActiveDeferral, Plain
    <3> QED
      BY <2>4, <2>5, <3>1 DEF Costly
  <2>13. CASE d = RouteElsewhere(c)
    BY <2>13 DEF RouteElsewhere, Plain, Costly
  <2>14. CASE d = OffloadResident(c)
    <3>1. /\ d.cost = c.protected * Cost.offloadResident
          /\ d.served <=> 0 + MaxLive(c.plan) <= c.usable
      BY <2>14 DEF OffloadResident, Plain, Classify
    <3>2. c.protected > 0
      BY <2>2, <2>6, <3>1
    <3> QED
      BY <2>2, <2>4, <2>5, <3>1, <3>2 DEF Costly
  <2>15. CASE d = CapacityScaling(c)
    <3>1. d.cost = ExtraBlocks(c) * Cost.extra
      BY <2>15 DEF CapacityScaling, Plain
    <3>2. ExtraBlocks(c) \in Nat /\ ExtraBlocks(c) > 0
      BY <2>2, <2>6 DEF ExtraBlocks, AtLeast0
    <3> QED
      BY <2>4, <2>5, <3>1, <3>2 DEF Costly
  <2> QED
    BY <2>1, <2>7, <2>8, <2>9, <2>10, <2>11, <2>12, <2>13, <2>14, <2>15 DEF Mechanisms
<1> QED
  BY <1>1, AlwaysDecided, PTL

\* What the actions of a decision say about its mechanism.
LEMMA ActionsName ==
  ASSUME NEW c, NEW d \in Mechanisms(c)
  PROVE  /\ "relax_resident_protection" \in d.actions => d = RelaxResidentProtection(c)
         /\ "bound_active_live" \in d.actions => d = BoundedActiveLive(c)
         /\ "offload_active" \in d.actions => d = OffloadActive(c)
<1>1. /\ NativeEviction(c).actions = {"evict_resident", "serve"}
      /\ WriteNoAdmitOnly(c).actions = {"no_admit_active_reuse", "evict_resident", "serve"}
      /\ OrdinaryChunking(c).actions = {"serve"}
  BY DEF NativeEviction, WriteNoAdmitOnly, OrdinaryChunking, ResidentsYield, Plain
<1>2. /\ VictimExclusion(c).actions = {"defer_active"}
      /\ ResidentReserve(c).actions = {"refuse_residency_claim"}
      /\ RecomputeSplit(c).actions = {"recompute_split", "serve"}
  BY StayFields DEF VictimExclusion, ResidentReserve, RecomputeSplit
<1>3. /\ ActiveDeferral(c).actions = {"defer_active"}
      /\ RouteElsewhere(c).actions = {"route_elsewhere"}
  BY DEF ActiveDeferral, RouteElsewhere, Plain
<1>4. OffloadResident(c).actions = {"offload_resident", "serve"}
  BY DEF OffloadResident, Plain
<1>5. CapacityScaling(c).actions = {"increase_capacity", "serve"}
  BY DEF CapacityScaling, Plain
<1>6. /\ OffloadActive(c).actions = {"offload_active", "no_admit_active_reuse", "serve"}
      /\ BoundedActiveLive(c).actions = {"bound_active_live", "serve"}
  BY StayFields DEF OffloadActive, BoundedActiveLive
<1>7. RelaxResidentProtection(c).actions = {"relax_resident_protection", "serve"}
  BY DEF RelaxResidentProtection, ResidentsYield, Plain
<1>8. CASE d \in {NativeEviction(c), WriteNoAdmitOnly(c), OrdinaryChunking(c),
                  VictimExclusion(c), ResidentReserve(c), RecomputeSplit(c),
                  ActiveDeferral(c), RouteElsewhere(c), OffloadResident(c), CapacityScaling(c)}
  BY <1>1, <1>2, <1>3, <1>4, <1>5, <1>8
<1>9. CASE d \in {OffloadActive(c), BoundedActiveLive(c), RelaxResidentProtection(c)}
  BY <1>6, <1>7, <1>9
<1> QED
  BY <1>8, <1>9 DEF Mechanisms

\* RelaxationIsExact for every conflict: enough blocks are given up, and none
\* too many.
THEOREM RelaxationsAreExact == Spec => []RelaxationIsExact
<1>1. Decided => RelaxationIsExact
  <2> SUFFICES ASSUME Decided, Asked, Did("relax_resident_protection"), Answer.served
               PROVE  LET left == conflict.protected - Answer.relaxed
                      IN  /\ left >= 0
                          /\ left + MaxLive(conflict.plan) <= conflict.usable
                          /\ Answer.relaxed > 0 =>
                               left + 1 + MaxLive(conflict.plan) > conflict.usable
    BY DEF RelaxationIsExact
  <2> DEFINE c == conflict
  <2>1. c \in ConflictType /\ Answer = RelaxResidentProtection(c)
    BY ActionsName DEF Decided, Did
  <2>2. /\ Answer.relaxed = AtLeast0(MaxLive(c.plan) - Headroom(c))
        /\ MaxLive(c.plan) <= c.usable
    BY <2>1 DEF RelaxResidentProtection, ResidentsYield, Plain
  <2>3. c.plan \in PlanType /\ c.protected \in Nat /\ c.usable \in Nat
    BY <2>1, PlansTyped
  <2>4. MaxLive(c.plan) \in Nat
    BY <2>3, MaxLiveFacts DEF PlanType
  <2> QED
    BY <2>2, <2>3, <2>4 DEF AtLeast0, Headroom
<1> QED
  BY <1>1, AlwaysDecided, PTL

\* BoundingFitsHeadroom for every conflict: a window of the headroom serves
\* the request within the headroom, if there is any.
THEOREM BoundingAlwaysFits == Spec => []BoundingFitsHeadroom
<1>1. Decided => BoundingFitsHeadroom
  <2> SUFFICES ASSUME Decided, Asked, Headroom(conflict) > 0,
                      Did("bound_active_live") \/ Did("offload_active")
               PROVE  Answer.served /\ MaxLive(Answer.plan) <= Headroom(conflict)
    BY DEF BoundingFitsHeadroom
  <2> DEFINE c == conflict
             plan == BoundedPlan(c)
  <2>1. c \in ConflictType /\ Answer \in {BoundedActiveLive(c), OffloadActive(c)}
    BY ActionsName DEF Decided, Did
  <2>2. Answer.plan = plan /\ (Answer.served <=> c.protected + MaxLive(plan) <= c.usable)
    BY <2>1, StayFields DEF BoundedActiveLive, OffloadActive
  <2>3. plan \in PlanType /\ c.protected \in Nat /\ c.usable \in Nat
    BY <2>1, PlansTyped
  <2>4. Headroom(c) \in Nat \ {0} /\ Headroom(c) = c.usable - c.protected
    BY <2>3 DEF Headroom
  <2>5. plan.mode = "sliding_window" /\ Window(plan) = Headroom(c)
    BY <2>4 DEF BoundedPlan, Window, AtLeast0, NoWindow
  <2> HIDE DEF plan
  <2>6. MaxLive(plan) \in Nat /\ MaxLive(plan) <= Headroom(c)
    <3>1. MaxLive(plan) \in 0 .. plan.total /\ plan.total \in Nat
      BY <2>3, MaxLiveFacts DEF PlanType
    <3>2. CASE MaxLive(plan) = 0
      BY <2>4, <3>2
    <3>3. CASE \E i \in DOMAIN plan.chunks : LiveByStep(plan)[i] = MaxLive(plan)
      BY <2>3, <2>5, <3>1, <3>3, LiveByStepBounds
    <3> QED
      BY <2>3, <3>2, <3>3, MaxLiveFacts
  <2> QED
    BY <2>2, <2>3, <2>4, <2>6
<1> QED
  BY <1>1, AlwaysDecided, PTL

\* A classification is of some plan against some pool.
LEMMA FeasibilityIsClassified ==
  ASSUME NEW c \in ConflictType, NEW d \in Mechanisms(c)
  PROVE  \E protected, usable \in Nat, plan \in PlanType :
           d.feasibility = Classify(protected, plan, usable)
<1>1. /\ c.plan \in PlanType /\ BoundedPlan(c) \in PlanType /\ SplitPlan(c) \in PlanType
      /\ c.protected \in Nat /\ c.usable \in Nat /\ 0 \in Nat
  BY PlansTyped
<1>2. CASE d \in {NativeEviction(c), WriteNoAdmitOnly(c), OrdinaryChunking(c),
                  RelaxResidentProtection(c), ActiveDeferral(c), RouteElsewhere(c)}
  <2>1. d.feasibility = Classify(c.protected, c.plan, c.usable)
    BY <1>2 DEF NativeEviction, WriteNoAdmitOnly, OrdinaryChunking, RelaxResidentProtection,
                ActiveDeferral, RouteElsewhere, ResidentsYield, Plain
  <2> QED
    BY <1>1, <2>1
<1>3. CASE d \in {VictimExclusion(c), ResidentReserve(c)}
  <2>1. d.feasibility = Classify(c.protected, c.plan, c.usable)
    BY <1>3, StayFields DEF VictimExclusion, ResidentReserve
  <2> QED
    BY <1>1, <2>1
<1>4. CASE d \in {OffloadActive(c), BoundedActiveLive(c)}
  <2>1. d.feasibility = Classify(c.protected, BoundedPlan(c), c.usable)
    BY <1>4, StayFields DEF OffloadActive, BoundedActiveLive
  <2> QED
    BY <1>1, <2>1
<1>5. CASE d = RecomputeSplit(c)
  <2>1. d.feasibility = Classify(c.protected, SplitPlan(c), c.usable)
    BY <1>5, StayFields DEF RecomputeSplit
  <2> QED
    BY <1>1, <2>1
<1>6. CASE d = OffloadResident(c)
  <2>1. d.feasibility = Classify(0, c.plan, c.usable)
    BY <1>6 DEF OffloadResident, Plain
  <2> QED
    BY <1>1, <2>1
<1>7. CASE d = CapacityScaling(c)
  <2>1. d.feasibility = Classify(c.protected, c.plan, c.usable + ExtraBlocks(c))
    BY <1>7 DEF CapacityScaling, Plain
  <2>2. MaxLive(c.plan) \in Nat
    BY <1>1, MaxLiveFacts DEF PlanType
  <2>3. c.usable + ExtraBlocks(c) \in Nat
    BY <1>1, <2>2 DEF ExtraBlocks, AtLeast0
  <2> QED
    BY <1>1, <2>1, <2>3
<1> QED
  BY <1>2, <1>3, <1>4, <1>5, <1>6, <1>7 DEF Mechanisms

\* The first blocked step is one at which more is live than fits, and there
\* is none exactly if the peak fits.
LEMMA ClassifyAgrees ==
  ASSUME NEW protected \in Nat, NEW usable \in Nat, NEW plan \in PlanType
  PROVE  LET f == Classify(protected, plan, usable)
         IN  /\ plan.chunks # << >> => (f.feasible <=> f.blocked = NotBlocked)
             /\ plan.chunks = << >> /\ ~ f.feasible => protected > usable
             /\ f.plan = plan /\ f.protected = protected /\ f.usable = usable
<1> DEFINE f == Classify(protected, plan, usable)
           h == usable - protected
           blocked == {i \in DOMAIN plan.chunks : LiveByStep(plan)[i] > h}
<1>1. /\ f.feasible <=> protected + MaxLive(plan) <= usable
      /\ f.blocked = FirstBlocked(plan, h)
      /\ f.plan = plan /\ f.protected = protected /\ f.usable = usable
  BY DEF Classify
<1>2. plan.chunks \in Seq(Nat) /\ DOMAIN plan.chunks = 1 .. Len(plan.chunks)
  BY DEF PlanType
<1>3. /\ MaxLive(plan) \in Nat /\ plan.total \in Nat
      /\ \A i \in DOMAIN plan.chunks : /\ LiveByStep(plan)[i] \in Nat
                                       /\ LiveByStep(plan)[i] <= MaxLive(plan)
      /\ MaxLive(plan) = 0 \/ \E i \in DOMAIN plan.chunks : LiveByStep(plan)[i] = MaxLive(plan)
  BY MaxLiveFacts, LiveByStepBounds DEF PlanType
<1>4. FirstBlocked(plan, h) = NotBlocked <=> blocked = {}
  <2>1. FirstBlocked(plan, h) = IF blocked = {} THEN NotBlocked ELSE Min(blocked)
    BY DEF FirstBlocked
  <2>2. blocked \in SUBSET Nat /\ 0 \notin blocked
    BY <1>2
  <2> HIDE DEF blocked
  <2>3. blocked # {} => Min(blocked) \in blocked
    BY <2>2, LeastNatural DEF Min
  <2> QED
    BY <2>1, <2>2, <2>3 DEF NotBlocked
<1>5. ASSUME plan.chunks # << >> PROVE blocked = {} <=> protected + MaxLive(plan) <= usable
  <2>1. 1 \in DOMAIN plan.chunks
    BY <1>2, <1>5, EmptySeq
  <2>2. blocked = {} <=> \A i \in DOMAIN plan.chunks : LiveByStep(plan)[i] <= h
    BY <1>3
  <2> QED
    BY <1>3, <2>1, <2>2
<1>6. ASSUME plan.chunks = << >>, ~ (protected + MaxLive(plan) <= usable) PROVE protected > usable
  <2>1. MaxLive(plan) = 0
    BY <1>3, <1>6
  <2> QED
    BY <1>6, <2>1
<1> HIDE DEF f
<1> QED
  BY <1>1, <1>4, <1>5, <1>6 DEF f

\* FeasibleIffNeverBlocked for every conflict.
THEOREM FeasibilityReadingsAgree == Spec => []FeasibleIffNeverBlocked
<1>1. Decided => FeasibleIffNeverBlocked
  <2> SUFFICES ASSUME Decided, Asked
               PROVE  LET f == Answer.feasibility
                      IN  /\ f.plan.chunks # << >> => (f.feasible <=> f.blocked = NotBlocked)
                          /\ Outcome(f) = "failed" =>
                               f.plan.chunks = << >> /\ f.protected > f.usable
    BY DEF FeasibleIffNeverBlocked
  <2>1. PICK protected \in Nat, usable \in Nat, plan \in PlanType :
          Answer.feasibility = Classify(protected, plan, usable)
    BY FeasibilityIsClassified DEF Decided
  <2> DEFINE f == Answer.feasibility
  <2>2. /\ plan.chunks # << >> => (f.feasible <=> f.blocked = NotBlocked)
        /\ plan.chunks = << >> /\ ~ f.feasible => protected > usable
        /\ f.plan = plan /\ f.protected = protected /\ f.usable = usable
    BY <2>1, ClassifyAgrees
  <2> HIDE DEF f
  <2>3. Outcome(f) = "failed" => ~ f.feasible /\ f.blocked = NotBlocked
    BY DEF Outcome
  <2>4. /\ f.plan.chunks # << >> => (f.feasible <=> f.blocked = NotBlocked)
        /\ Outcome(f) = "failed" => f.plan.chunks = << >> /\ f.protected > f.usable
    BY <2>2, <2>3
  <2> QED
    BY <2>4 DEF f
<1> QED
  BY <1>1, AlwaysDecided, PTL
=============================================================================
