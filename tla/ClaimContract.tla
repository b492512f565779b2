---------------------------- MODULE ClaimContract ----------------------------
(***************************************************************************)
(* kvrt/contract.py: the life of resident claims on one cached object, and *)
(* the harm events they are owed.  The caller passes the surviving block   *)
(* positions before and after a change; here it does so for every change   *)
(* and every claim, as the tests do.  Of accepted_step and release_step    *)
(* only whether they are set is ever read.                                 *)
(***************************************************************************)
EXTENDS Integers, FiniteSets

CONSTANTS Claim,      \* claim ids
          Predicate,  \* claim id -> its materialization_predicate
          Length      \* bound: the object has this many block positions

PredicateType == [type : {"leading_prefix_at_least", "contiguous_range"},
                  start : Nat, required : Nat]

ASSUME PredicateAssumption == Predicate \in [Claim -> PredicateType]
ASSUME LengthAssumption    == Length \in Nat

VARIABLES
  claims,     \* claim id -> ResidentClaimState
  surviving,  \* the positions of the object that are resident
  harmed,     \* the claims the last call returned a harm event for
  held,       \* history: claims whose predicate was true since their last accept
  harms,      \* history: harm events per claim since its last accept
  released    \* history: claims that were released at some time

vars == <<claims, surviving, harmed, held, harms, released>>

Positions == 0 .. Length - 1

StateKinds == {"submitted", "accepted", "harmed", "demoted", "expired", "refused"}

\* The state each release event leads to; any other event raises.
ReleasedAs == [resident_claim_demoted  |-> "demoted",
               resident_claim_expired  |-> "expired",
               resident_claim_rejected |-> "refused"]

Init ==
  /\ claims = [c \in Claim |-> [state |-> "submitted", accepted |-> FALSE, release |-> FALSE]]
  /\ surviving \in {{}, Positions}
  /\ harmed = {}
  /\ held = {}
  /\ harms = [c \in Claim |-> 0]
  /\ released = {}

-----------------------------------------------------------------------------
(* MaterializationPredicate.evaluate                                       *)

\* Faulty variant: the surviving blocks are counted wherever they are.
Leading_Counts(positions) == Cardinality(positions)

\* leading_blocks: the first position that is missing.
Leading(positions) ==
  CHOOSE n \in 0 .. Length : n \notin positions /\ \A i \in 0 .. n - 1 : i \in positions

Materialized(predicate, positions) ==
  IF predicate.type = "leading_prefix_at_least"
    THEN Leading(positions) >= predicate.required
    ELSE predicate.start .. predicate.start + predicate.required - 1 \subseteq positions

-----------------------------------------------------------------------------
\* Faulty variant: a release is not looked at.
Responsible_ForgetsRelease(c) ==
  /\ claims[c].state \in {"accepted", "materialized"}
  /\ claims[c].accepted

\* under_runtime_responsibility
Responsible(c) ==
  /\ claims[c].state \in {"accepted", "materialized"}
  /\ claims[c].accepted
  /\ ~ claims[c].release

\* Faulty variant: a new acceptance also forgets the release.
Accept_ClearsRelease(c) ==
  /\ claims' = [claims EXCEPT ![c] = [state |-> "accepted", accepted |-> TRUE, release |-> FALSE]]
  /\ held' = IF Materialized(Predicate[c], surviving) THEN held \cup {c} ELSE held \ {c}
  /\ harms' = [harms EXCEPT ![c] = 0]
  /\ harmed' = {}
  /\ UNCHANGED <<surviving, released>>

\* accept: from any state, and whatever was released before.
Accept(c) ==
  /\ claims' = [claims EXCEPT ![c].state = "accepted", ![c].accepted = TRUE]
  /\ held' = IF Materialized(Predicate[c], surviving) THEN held \cup {c} ELSE held \ {c}
  /\ harms' = [harms EXCEPT ![c] = 0]
  /\ harmed' = {}
  /\ UNCHANGED <<surviving, released>>

\* Faulty variant: the state takes the name of the event.
Release_AsEvent(c, event) ==
  /\ claims' = [claims EXCEPT ![c].state = event, ![c].release = TRUE]
  /\ released' = released \cup {c}
  /\ harmed' = {}
  /\ UNCHANGED <<surviving, held, harms>>

\* release: from any state, too.
Release(c, event) ==
  /\ claims' = [claims EXCEPT ![c].state = ReleasedAs[event], ![c].release = TRUE]
  /\ released' = released \cup {c}
  /\ harmed' = {}
  /\ UNCHANGED <<surviving, held, harms>>

\* Faulty variant: the predicate after the change is taken from the count of
\* surviving blocks.
Breaks_CountsAfter(c, after) ==
  /\ Responsible(c)
  /\ Materialized(Predicate[c], surviving)
  /\ Cardinality(after) < Predicate[c].required

Breaks(c, after) ==
  /\ Responsible(c)
  /\ Materialized(Predicate[c], surviving)
  /\ ~ Materialized(Predicate[c], after)

Watched(after) == held \cup {c \in Claim : Materialized(Predicate[c], after)}

\* Faulty variant: the event is returned, the state is not changed.
Change_StaysAccepted(after) ==
  /\ surviving' = after
  /\ harmed' = {c \in Claim : Breaks(c, after)}
  /\ harms' = [c \in Claim |-> harms[c] + IF c \in harmed' THEN 1 ELSE 0]
  /\ held' = Watched(after)
  /\ UNCHANGED <<claims, released>>

\* The object's blocks are inserted or evicted, and each claim is handed to
\* predicate_breaking_harm_event.
Change(after) ==
  /\ surviving' = after
  /\ harmed' = {c \in Claim : Breaks(c, after)}
  /\ claims' = [c \in Claim |->
                  IF c \in harmed' THEN [claims[c] EXCEPT !.state = "harmed"] ELSE claims[c]]
  /\ harms' = [c \in Claim |-> harms[c] + IF c \in harmed' THEN 1 ELSE 0]
  /\ held' = Watched(after)
  /\ UNCHANGED released

Next ==
  \/ \E c \in Claim : Accept(c) \/ \E event \in DOMAIN ReleasedAs : Release(c, event)
  \/ \E after \in (SUBSET Positions) \ {surviving} : Change(after)

Spec == Init /\ [][Next]_vars
-----------------------------------------------------------------------------
(* Properties.                                                             *)

\* Every variable keeps its type, and every state is one of StateKinds that
\* the code ever assigns.
TypeOK ==
  /\ claims \in [Claim -> [state : StateKinds, accepted : BOOLEAN, release : BOOLEAN]]
  /\ surviving \subseteq Positions
  /\ harmed \subseteq Claim /\ held \subseteq Claim /\ released \subseteq Claim
  /\ harms \in [Claim -> Nat]

\* No break goes unreported: a claim the runtime answers for, whose
\* predicate was true at some time since its acceptance, has it true now.
WatchedStaysMaterialized ==
  \A c \in held : Responsible(c) => Materialized(Predicate[c], surviving)

\* A claim is harmed at most once for each time it is accepted, however
\* often its blocks come back and go again.
HarmedOncePerAcceptance == \A c \in Claim : harms[c] <= 1

\* The runtime answers for a claim exactly from its acceptance to its first
\* harm or its first release.  A release is for good: a later accept makes
\* the claim "accepted" again, but nobody answers for it.
ResponsibleExactly ==
  \A c \in Claim :
    Responsible(c) <=> claims[c].accepted /\ c \notin released /\ harms[c] = 0

\* A demoted, expired or refused claim "must not emit later harm", whatever
\* is called on it afterwards.
ReleasedStaysSilent == [][released \cap harmed' = {}]_vars

Needs(c) == Predicate[c].start .. Predicate[c].start + Predicate[c].required - 1

\* A claim that needs all the blocks another claim needs is harmed whenever
\* the other is, if the runtime answers for it and it was materialized.
\* (required 0 needs nothing; leading predicates start at 0.)
HarmFollowsNeeds ==
  [][\A c, d \in Claim :
       c \in harmed' /\ Needs(c) \subseteq Needs(d) /\ Responsible(d) /\ Needs(d) \subseteq surviving
       => d \in harmed']_vars
=============================================================================
