------------------------- MODULE ClaimContractProofs -------------------------
(***************************************************************************)
(* Theorems on ClaimContract, for any number of claims, any predicates and *)
(* an object of any length.  Only the last one uses what Materialized is:  *)
(* the others hold for whatever a claim may need.                          *)
(***************************************************************************)
EXTENDS ClaimContract, OrderFacts

\* The history of releases agrees with release_step.
ReleasesRecorded == \A c \in Claim : claims[c].release <=> c \in released

\* Responsibility, harm and the watched predicates depend on each other: a
\* claim is harmed only while the runtime answers for it, which it does only
\* until its first harm.
IInv ==
  /\ TypeOK
  /\ ReleasesRecorded
  /\ ResponsibleExactly
  /\ HarmedOncePerAcceptance
  /\ WatchedStaysMaterialized

\* A fresh object and submitted claims satisfy the invariant.
LEMMA InitInv == Init => IInv
<1> SUFFICES ASSUME Init PROVE IInv
  OBVIOUS
<1> USE DEF Init
<1>1. TypeOK
  BY DEF TypeOK, StateKinds
<1>2. ReleasesRecorded
  BY DEF ReleasesRecorded
<1>3. ResponsibleExactly
  BY DEF ResponsibleExactly, Responsible
<1>4. HarmedOncePerAcceptance
  BY DEF HarmedOncePerAcceptance
<1>5. WatchedStaysMaterialized
  BY DEF WatchedStaysMaterialized
<1> QED
  BY <1>1, <1>2, <1>3, <1>4, <1>5 DEF IInv

\* accept keeps the invariant.
LEMMA AcceptInv ==
  ASSUME IInv, NEW c \in Claim, Accept(c)
  PROVE  IInv'
<1> USE DEF IInv, TypeOK
<1>1. claims'[c] = [claims[c] EXCEPT !.state = "accepted", !.accepted = TRUE]
  BY DEF Accept
<1>2. \A d \in Claim \ {c} : claims'[d] = claims[d] /\ harms'[d] = harms[d]
  BY DEF Accept
<1>3. /\ harms'[c] = 0 /\ released' = released /\ surviving' = surviving /\ harmed' = {}
      /\ harms' \in [Claim -> Nat]
      /\ claims' \in [Claim -> [state : StateKinds, accepted : BOOLEAN, release : BOOLEAN]]
  BY DEF Accept, StateKinds
<1>4. claims'[c].state = "accepted" /\ claims'[c].accepted /\ claims'[c].release = claims[c].release
  BY <1>1
<1>5. TypeOK'
  BY <1>3 DEF Accept
<1>6. ReleasesRecorded'
  BY <1>2, <1>3, <1>4 DEF ReleasesRecorded
<1>7. ResponsibleExactly'
  <2> SUFFICES ASSUME NEW d \in Claim
               PROVE  (Responsible(d) <=> claims[d].accepted /\ d \notin released /\ harms[d] = 0)'
    BY DEF ResponsibleExactly
  <2>1. CASE d = c
    BY <2>1, <1>3, <1>4 DEF Responsible, ReleasesRecorded
  <2>2. CASE d # c
    BY <2>2, <1>2, <1>3 DEF Responsible, ResponsibleExactly
  <2> QED
    BY <2>1, <2>2
<1>8. HarmedOncePerAcceptance'
  BY <1>2, <1>3 DEF HarmedOncePerAcceptance
<1>9. WatchedStaysMaterialized'
  <2> SUFFICES ASSUME NEW d \in held', Responsible(d)'
               PROVE  Materialized(Predicate[d], surviving)'
    BY DEF WatchedStaysMaterialized
  <2>1. CASE d = c
    BY <2>1, <1>3 DEF Accept
  <2>2. CASE d # c
    <3>1. d \in held /\ d \in Claim
      BY <2>2 DEF Accept
    <3>2. Responsible(d)
      BY <2>2, <3>1, <1>2 DEF Responsible
    <3> QED
      BY <3>1, <3>2, <1>3 DEF WatchedStaysMaterialized
  <2> QED
    BY <2>1, <2>2
<1> QED
  BY <1>5, <1>6, <1>7, <1>8, <1>9

\* release keeps the invariant.
LEMMA ReleaseInv ==
  ASSUME IInv, NEW c \in Claim, NEW event \in DOMAIN ReleasedAs, Release(c, event)
  PROVE  IInv'
<1> USE DEF IInv, TypeOK
<1>1. ReleasedAs[event] \in StateKinds \ {"accepted"} /\ ReleasedAs[event] # "materialized"
  BY DEF ReleasedAs, StateKinds
<1>2. claims'[c] = [claims[c] EXCEPT !.state = ReleasedAs[event], !.release = TRUE]
  BY DEF Release
<1>3. \A d \in Claim \ {c} : claims'[d] = claims[d]
  BY DEF Release
<1>4. /\ harms' = harms /\ held' = held /\ surviving' = surviving
      /\ released' = released \cup {c} /\ harmed' = {}
      /\ claims' \in [Claim -> [state : StateKinds, accepted : BOOLEAN, release : BOOLEAN]]
  BY <1>1 DEF Release
<1>5. claims'[c].state = ReleasedAs[event] /\ claims'[c].release
  BY <1>2
<1>6. TypeOK'
  BY <1>4
<1>7. ReleasesRecorded'
  BY <1>3, <1>4, <1>5 DEF ReleasesRecorded
<1>8. \A d \in Claim : Responsible(d)' <=> (Responsible(d) /\ d # c)
  BY <1>3, <1>5 DEF Responsible
<1>9. ResponsibleExactly'
  BY <1>3, <1>4, <1>8 DEF ResponsibleExactly
<1>10. HarmedOncePerAcceptance'
  BY <1>4 DEF HarmedOncePerAcceptance
<1>11. WatchedStaysMaterialized'
  BY <1>4, <1>8 DEF WatchedStaysMaterialized
<1> QED
  BY <1>6, <1>7, <1>9, <1>10, <1>11

\* A change of the resident blocks keeps the invariant.
LEMMA ChangeInv ==
  ASSUME IInv, NEW after \in SUBSET Positions, Change(after)
  PROVE  IInv'
<1> USE DEF IInv, TypeOK
<1>1. /\ surviving' = after /\ released' = released
      /\ harmed' = {c \in Claim : Breaks(c, after)}
      /\ held' = Watched(after)
  BY DEF Change
<1>2. \A c \in harmed' : /\ claims'[c] = [claims[c] EXCEPT !.state = "harmed"]
                         /\ harms'[c] = harms[c] + 1
                         /\ Responsible(c)
  BY DEF Change, Breaks
<1>3. \A c \in Claim \ harmed' : claims'[c] = claims[c] /\ harms'[c] = harms[c]
  BY DEF Change
<1>4. /\ claims' \in [Claim -> [state : StateKinds, accepted : BOOLEAN, release : BOOLEAN]]
      /\ harms' \in [Claim -> Nat]
  <2>1. \A c \in Claim : [claims[c] EXCEPT !.state = "harmed"] \in
                           [state : StateKinds, accepted : BOOLEAN, release : BOOLEAN]
    BY DEF StateKinds
  <2> QED
    BY <2>1 DEF Change
<1>5. TypeOK'
  BY <1>1, <1>4 DEF Watched
<1>6. \A c \in harmed' : /\ claims'[c].state = "harmed"
                         /\ claims'[c].release = claims[c].release
  <2> SUFFICES ASSUME NEW c \in harmed'
               PROVE  claims'[c].state = "harmed" /\ claims'[c].release = claims[c].release
    OBVIOUS
  <2>1. claims[c] \in [state : StateKinds, accepted : BOOLEAN, release : BOOLEAN]
    BY <1>1
  <2>2. claims'[c] = [claims[c] EXCEPT !.state = "harmed"]
    BY <1>2
  <2> QED
    BY <2>1, <2>2
<1>7. ReleasesRecorded'
  BY <1>1, <1>3, <1>6 DEF ReleasesRecorded
<1>8. \A c \in Claim : Responsible(c)' <=> (Responsible(c) /\ c \notin harmed')
  BY <1>3, <1>6 DEF Responsible
<1>9. \A c \in harmed' : harms[c] = 0
  BY <1>1, <1>2 DEF ResponsibleExactly
<1>10. \A c \in harmed' : harms'[c] = 1
  <2> SUFFICES ASSUME NEW c \in harmed' PROVE harms'[c] = 1
    OBVIOUS
  <2>1. harms'[c] = harms[c] + 1
    BY <1>2
  <2>2. harms[c] = 0
    BY <1>9
  <2> QED
    BY <2>1, <2>2
<1>11. ResponsibleExactly'
  <2> SUFFICES ASSUME NEW c \in Claim
               PROVE  (Responsible(c) <=> claims[c].accepted /\ c \notin released /\ harms[c] = 0)'
    BY DEF ResponsibleExactly
  <2>1. CASE c \in harmed'
    <3>1. harms'[c] = 1
      BY <2>1, <1>10
    <3>2. ~ Responsible(c)'
      BY <2>1, <1>8
    <3> QED
      BY <3>1, <3>2
  <2>2. CASE c \notin harmed'
    BY <2>2, <1>1, <1>3, <1>8 DEF ResponsibleExactly
  <2> QED
    BY <2>1, <2>2
<1>12. HarmedOncePerAcceptance'
  <2>1. \A c \in Claim \ harmed' : harms'[c] <= 1
    BY <1>3 DEF HarmedOncePerAcceptance
  <2> QED
    BY <2>1, <1>10 DEF HarmedOncePerAcceptance
<1>13. WatchedStaysMaterialized'
  <2> SUFFICES ASSUME NEW c \in held', Responsible(c)', c \in Claim
               PROVE  Materialized(Predicate[c], after)
    BY <1>1, <1>5 DEF WatchedStaysMaterialized
  <2>1. Responsible(c) /\ c \notin harmed'
    BY <1>8
  <2>2. CASE c \in held
    BY <2>1, <2>2, <1>1 DEF WatchedStaysMaterialized, Breaks
  <2>3. CASE c \notin held
    BY <2>3, <1>1 DEF Watched
  <2> QED
    BY <2>2, <2>3
<1> QED
  BY <1>5, <1>7, <1>11, <1>12, <1>13

\* Every step keeps the invariant.
LEMMA StepInv == IInv /\ [Next]_vars => IInv'
<1> SUFFICES ASSUME IInv, [Next]_vars PROVE IInv'
  OBVIOUS
<1>1. CASE \E c \in Claim : Accept(c)
  BY <1>1, AcceptInv
<1>2. CASE \E c \in Claim, event \in DOMAIN ReleasedAs : Release(c, event)
  BY <1>2, ReleaseInv
<1>3. CASE \E after \in (SUBSET Positions) \ {surviving} : Change(after)
  BY <1>3, ChangeInv
<1>4. CASE UNCHANGED vars
  BY <1>4 DEF vars, IInv, TypeOK, ReleasesRecorded, ResponsibleExactly, Responsible,
              HarmedOncePerAcceptance, WatchedStaysMaterialized
<1> QED
  BY <1>1, <1>2, <1>3, <1>4 DEF Next

\* The invariant holds in every state of every behaviour.
THEOREM InvariantHolds == Spec => []IInv
  BY InitInv, StepInv, PTL DEF Spec

\* Claim states, positions and counts keep their types; "materialized" is a
\* state no call ever assigns.
THEOREM ContractTypes == Spec => []TypeOK
<1>1. IInv => TypeOK
  BY DEF IInv
<1> QED
  BY <1>1, InvariantHolds, PTL

\* under_runtime_responsibility is what it should be: accepted, never
\* released, not harmed since the last acceptance.
THEOREM ResponsibilityIsExact == Spec => []ResponsibleExactly
<1>1. IInv => ResponsibleExactly
  BY DEF IInv
<1> QED
  BY <1>1, InvariantHolds, PTL

\* predicate_breaking_harm_event harms a claim once at most for each time it
\* is accepted.
THEOREM HarmIsReportedOnce == Spec => []HarmedOncePerAcceptance
<1>1. IInv => HarmedOncePerAcceptance
  BY DEF IInv
<1> QED
  BY <1>1, InvariantHolds, PTL

\* No break goes unreported: as long as the runtime answers for a claim that
\* was materialized, it is.
THEOREM BreaksAreReported == Spec => []WatchedStaysMaterialized
<1>1. IInv => WatchedStaysMaterialized
  BY DEF IInv
<1> QED
  BY <1>1, InvariantHolds, PTL

\* No harm event is ever returned for a claim that was released before.
THEOREM ReleaseIsForGood == Spec => ReleasedStaysSilent
<1>1. IInv /\ [Next]_vars => [released \cap harmed' = {}]_vars
  <2> SUFFICES ASSUME IInv, Next PROVE released \cap harmed' = {}
    OBVIOUS
  <2>1. CASE \E c \in Claim : Accept(c)
    BY <2>1 DEF Accept
  <2>2. CASE \E c \in Claim, event \in DOMAIN ReleasedAs : Release(c, event)
    BY <2>2 DEF Release
  <2>3. CASE \E after \in (SUBSET Positions) \ {surviving} : Change(after)
    BY <2>3 DEF Change, Breaks, IInv, ResponsibleExactly
  <2> QED
    BY <2>1, <2>2, <2>3 DEF Next
<1> QED
  BY <1>1, InvariantHolds, PTL DEF Spec, ReleasedStaysSilent

-----------------------------------------------------------------------------
(* What a claim needs.                                                     *)

\* The leading blocks end at the first position that is missing.
LEMMA LeadingFacts ==
  ASSUME NEW positions \in SUBSET Positions
  PROVE  /\ Leading(positions) \in Nat /\ Leading(positions) \notin positions
         /\ 0 .. Leading(positions) - 1 \subseteq positions
<1> DEFINE S == {n \in Nat : n \notin positions}
<1>1. Length \in Nat /\ Length \notin positions
  BY LengthAssumption DEF Positions
<1>2. PICK n \in S : \A m \in S : n <= m
  <2>1. S \in SUBSET Nat /\ S # {}
    BY <1>1
  <2> HIDE DEF S
  <2> QED
    BY <2>1, LeastNatural
<1>3. /\ n \in 0 .. Length /\ n \notin positions
      /\ \A i \in 0 .. n - 1 : i \in positions
  BY <1>1, <1>2
<1>4. /\ Leading(positions) \in 0 .. Length /\ Leading(positions) \notin positions
      /\ \A i \in 0 .. Leading(positions) - 1 : i \in positions
  BY <1>3 DEF Leading
<1> QED
  BY <1>1, <1>4

\* A claim is materialized exactly if all the blocks it needs are there.
LEMMA MaterializedIfNeedsAreThere ==
  ASSUME NEW c \in Claim, NEW positions \in SUBSET Positions,
         Predicate[c].type = "leading_prefix_at_least" => Predicate[c].start = 0
  PROVE  Materialized(Predicate[c], positions) <=> Needs(c) \subseteq positions
<1> DEFINE p == Predicate[c]
<1>1. p.start \in Nat /\ p.required \in Nat
  BY PredicateAssumption DEF PredicateType
<1>2. CASE p.type # "leading_prefix_at_least"
  BY <1>2 DEF Materialized, Needs
<1>3. CASE p.type = "leading_prefix_at_least"
  <2> DEFINE n == Leading(positions)
  <2>1. n \in Nat /\ n \notin positions /\ 0 .. n - 1 \subseteq positions
    BY LeadingFacts
  <2>2. Materialized(p, positions) <=> n >= p.required
    BY <1>3 DEF Materialized
  <2>3. Needs(c) = 0 .. p.required - 1
    BY <1>1, <1>3 DEF Needs
  <2> HIDE DEF n
  <2>4. n >= p.required <=> 0 .. p.required - 1 \subseteq positions
    BY <1>1, <2>1
  <2> QED
    BY <2>2, <2>3, <2>4
<1> QED
  BY <1>2, <1>3

\* HarmFollowsNeeds for any predicates, if leading ranges start at 0: a claim
\* that needs all that a harmed claim needs, and is answered for, is harmed by
\* the same change.
THEOREM HarmFollowsFromNeeds ==
  ASSUME \A c \in Claim : Predicate[c].type = "leading_prefix_at_least" => Predicate[c].start = 0
  PROVE  Spec => HarmFollowsNeeds
<1> DEFINE Follows ==
             \A c, d \in Claim :
               c \in harmed' /\ Needs(c) \subseteq Needs(d) /\ Responsible(d)
                 /\ Needs(d) \subseteq surviving
               => d \in harmed'
<1>1. IInv /\ [Next]_vars => [Follows]_vars
  <2> SUFFICES ASSUME IInv, Next, NEW c \in Claim, NEW d \in Claim,
                      c \in harmed', Needs(c) \subseteq Needs(d), Responsible(d),
                      Needs(d) \subseteq surviving
               PROVE  d \in harmed'
    OBVIOUS
  <2>1. PICK after \in SUBSET Positions : Change(after)
    BY DEF Next, Accept, Release
  <2>2. harmed' = {k \in Claim : Breaks(k, after)}
    BY <2>1 DEF Change
  <2>3. surviving \in SUBSET Positions
    BY DEF IInv, TypeOK
  <2>4. ~ Needs(c) \subseteq after
    BY <2>2, MaterializedIfNeedsAreThere DEF Breaks
  <2>5. ~ Materialized(Predicate[d], after)
    BY <2>4, MaterializedIfNeedsAreThere
  <2>6. Materialized(Predicate[d], surviving)
    BY <2>3, MaterializedIfNeedsAreThere
  <2> QED
    BY <2>2, <2>5, <2>6 DEF Breaks
<1> QED
  BY <1>1, InvariantHolds, PTL DEF Spec, HarmFollowsNeeds
=============================================================================
