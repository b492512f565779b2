------------------------------- MODULE Arbiter -------------------------------
(***************************************************************************)
(* kvrt/arbiter.py: one conflict between the protected residents and an    *)
(* active request, decided by one of fourteen mechanisms.  A decision is a *)
(* value and changes nothing, so a behaviour is one conflict, one mechanism *)
(* and its answer.                                                         *)
(* Values and costs are integers in units of 1/20.                         *)
(***************************************************************************)
EXTENDS ActiveLive

CONSTANTS Conflicts,  \* the conflicts that may come up
          Cost,       \* ArbiterCostModel
          None        \* nothing decided yet

\* A ResidentSetSnapshot, an ActiveRequest and the usable blocks.
ConflictType == [protected : Nat, plan : PlanType, usable : Nat,
                 value : Nat, service : Nat, reuse : Nat]

CostType == [defer : Nat, steps : Nat, offloadResident : Nat, offloadActive : Nat,
             recompute : Nat, route : Nat, extra : Nat]

ASSUME ConflictAssumption == Conflicts \subseteq ConflictType
ASSUME CostAssumption     == Cost \in CostType

VARIABLES conflict,   \* the question
          decision    \* the answer: an ArbiterDecision, or None before it

vars == <<conflict, decision>>

AtLeast0(n) == IF n > 0 THEN n ELSE 0

Headroom(c) == c.usable - c.protected

-----------------------------------------------------------------------------
(* The mechanisms of decide_active_resident.  cost is the sum of the five  *)
(* costs of an ArbiterOutcome.                                             *)

\* What _decision fills in: nothing lost, nothing paid, the plan as asked.
Plain(c, actions) ==
  [actions  |-> actions, plan |-> c.plan, usable |-> c.usable,
   feasibility |-> Classify(c.protected, c.plan, c.usable),
   survives |-> TRUE, served |-> FALSE, admitted |-> FALSE,
   cost     |-> 0, delay |-> 0, relaxed |-> 0, extra |-> 0]

\* The residents are the victims; the request has the whole pool.
ResidentsYield(c, actions, admitted) ==
  [Plain(c, actions) EXCEPT !.survives = FALSE,
                            !.served   = MaxLive(c.plan) <= c.usable,
                            !.admitted = admitted]

\* The residents stay; the request is served if the plan fits beside them.
ResidentsStay(c, actions, plan, cost) ==
  LET f == Classify(c.protected, plan, c.usable)
  IN  [Plain(c, actions) EXCEPT !.plan = plan, !.feasibility = f,
                                !.served = f.feasible, !.cost = cost]

NativeEviction(c)   == ResidentsYield(c, {"evict_resident", "serve"}, TRUE)
WriteNoAdmitOnly(c) == ResidentsYield(c, {"no_admit_active_reuse", "evict_resident", "serve"}, FALSE)
OrdinaryChunking(c) == ResidentsYield(c, {"serve"}, TRUE)

VictimExclusion(c)  == ResidentsStay(c, {"defer_active"}, c.plan, 0)
ResidentReserve(c)  == ResidentsStay(c, {"refuse_residency_claim"}, c.plan, 0)

\* Served later, and paid for by the step: whether the request fits then is
\* not asked.
ActiveDeferral(c) ==
  [Plain(c, {"defer_active"}) EXCEPT !.served = TRUE, !.delay = Cost.steps,
                                     !.cost = Cost.steps * Cost.defer]

RouteElsewhere(c) ==
  [Plain(c, {"route_elsewhere"}) EXCEPT !.served = TRUE, !.cost = Cost.route]

\* Faulty variant: moving the residents out costs nothing.
OffloadResident_Free(c) ==
  LET f == Classify(0, c.plan, c.usable)
  IN  [Plain(c, {"offload_resident", "serve"}) EXCEPT
         !.feasibility = f, !.served = f.feasible, !.admitted = TRUE]

OffloadResident(c) ==
  LET f == Classify(0, c.plan, c.usable)
  IN  [Plain(c, {"offload_resident", "serve"}) EXCEPT
         !.feasibility = f, !.served = f.feasible, !.admitted = TRUE,
         !.cost = c.protected * Cost.offloadResident]

\* _bounded_active_plan
BoundedPlan(c) ==
  [total |-> c.plan.total, chunks |-> c.plan.chunks, mode |-> "sliding_window",
   window |-> AtLeast0(Headroom(c))]

OffloadActive(c) ==
  ResidentsStay(c, {"offload_active", "no_admit_active_reuse", "serve"}, BoundedPlan(c),
                AtLeast0(MaxLive(c.plan) - AtLeast0(Headroom(c))) * Cost.offloadActive)

BoundedActiveLive(c) ==
  ResidentsStay(c, {"bound_active_live", "serve"}, BoundedPlan(c),
                AtLeast0(MaxLive(c.plan) - MaxLive(BoundedPlan(c))) * Cost.recompute)

\* The chunks of the request, each one recomputed from nothing.
SplitPlan(c) ==
  [total |-> c.plan.total, chunks |-> c.plan.chunks,
   mode |-> "recompute_free_between_chunks", window |-> NoWindow]

RecomputeSplit(c) ==
  ResidentsStay(c, {"recompute_split", "serve"}, SplitPlan(c), c.plan.total * Cost.recompute)

RelaxResidentProtection(c) ==
  [ResidentsYield(c, {"relax_resident_protection", "serve"}, TRUE) EXCEPT
     !.relaxed = AtLeast0(MaxLive(c.plan) - Headroom(c))]

\* Faulty variant: the blocks of the whole request are counted, not its peak.
ExtraBlocks_OfTotal(c) == AtLeast0(c.protected + c.plan.total - c.usable)

ExtraBlocks(c) == AtLeast0(c.protected + MaxLive(c.plan) - c.usable)

CapacityScaling(c) ==
  LET usable == c.usable + ExtraBlocks(c)
      f      == Classify(c.protected, c.plan, usable)
  IN  [Plain(c, {"increase_capacity", "serve"}) EXCEPT
         !.usable = usable, !.feasibility = f, !.served = f.feasible, !.admitted = TRUE,
         !.cost = ExtraBlocks(c) * Cost.extra, !.extra = ExtraBlocks(c)]
-----------------------------------------------------------------------------
(* The oracle.                                                             *)

\* default_arbiter_mechanisms, in its order, with what each one decides.
Candidates(c) ==
  <<NativeEviction(c), VictimExclusion(c), WriteNoAdmitOnly(c), OrdinaryChunking(c),
    ActiveDeferral(c), ResidentReserve(c), OffloadResident(c), OffloadActive(c),
    BoundedActiveLive(c), RecomputeSplit(c), RouteElsewhere(c),
    RelaxResidentProtection(c), CapacityScaling(c)>>

Names ==
  <<"native_eviction", "resident_victim_exclusion", "write_no_admit_only", "ordinary_chunking",
    "active_deferral", "resident_reserve", "offload_resident", "offload_active",
    "bounded_active_live", "recompute_split", "route_elsewhere",
    "relax_resident_protection", "capacity_scaling">>

Utility(c, d) ==
  (IF d.survives THEN c.value ELSE 0) + (IF d.served THEN c.service ELSE 0)
    + (IF d.admitted THEN c.reuse ELSE 0) - d.cost

\* The key of the oracle's max: utility, then survival, then service.
Better(c, d, e) ==
  \/ Utility(c, d) > Utility(c, e)
  \/ /\ Utility(c, d) = Utility(c, e)
     /\ \/ d.survives /\ ~ e.survives
        \/ d.survives = e.survives /\ d.served /\ ~ e.served

\* Faulty variant: ties go to the first of equal utility.
OracleChoice_UtilityOnly(c) ==
  LET d == Candidates(c)
  IN  Min({i \in DOMAIN d : \A j \in DOMAIN d : Utility(c, d[j]) <= Utility(c, d[i])})

\* Python's max: the first candidate that none is better than.
OracleChoice(c) ==
  LET d == Candidates(c)
  IN  Min({i \in DOMAIN d : \A j \in DOMAIN d : ~ Better(c, d[j], d[i])})

-----------------------------------------------------------------------------
Init == conflict \in Conflicts /\ decision = None

\* decide_active_resident with the i-th mechanism.
Arbitrate(i) ==
  /\ decision = None
  /\ decision' = [mechanism |-> Names[i], by |-> i, outcome |-> Candidates(conflict)[i]]
  /\ UNCHANGED conflict

\* decide_active_resident with oracle_arbiter.
ArbitrateOracle ==
  /\ decision = None
  /\ decision' = LET i == OracleChoice(conflict)
                 IN  [mechanism |-> "oracle_arbiter", by |-> i,
                      outcome |-> Candidates(conflict)[i]]
  /\ UNCHANGED conflict

Next == (\E i \in DOMAIN Names : Arbitrate(i)) \/ ArbitrateOracle

Spec == Init /\ [][Next]_vars
-----------------------------------------------------------------------------
(* Properties of the decision.                                             *)

Asked == decision # None

Answer == decision.outcome

Did(action) == action \in Answer.actions

\* The two readings of feasibility agree: the peak fits iff no step of the
\* schedule is blocked.  The outcome "failed", neither served nor blocked at
\* a step, is left to requests that schedule no chunk at all.
FeasibleIffNeverBlocked ==
  Asked =>
    LET f == Answer.feasibility
    IN  /\ f.plan.chunks # << >> => (f.feasible <=> f.blocked = NotBlocked)
        /\ Outcome(f) = "failed" => f.plan.chunks = << >> /\ f.protected > f.usable

\* The contract of the README, "protected resident KV + active live KV <=
\* usable KV memory": a decision that serves the request and keeps the
\* residents is within the budget it names, or says which of the two is
\* somewhere or sometime else.
WithinBudgetOrElsewhere ==
  Asked /\ Answer.served /\ Answer.survives =>
    \/ conflict.protected + MaxLive(Answer.plan) <= Answer.usable
    \/ Did("offload_resident") /\ MaxLive(Answer.plan) <= Answer.usable
    \/ Did("route_elsewhere")
    \/ Did("defer_active") /\ Answer.delay > 0

\* Nothing is free: when the two do not fit, some side loses (the request is
\* not served, the residents do not survive) or a cost is paid.
ConflictIsLostOrPaid ==
  Asked /\ conflict.protected + MaxLive(conflict.plan) > conflict.usable =>
    ~ Answer.served \/ ~ Answer.survives \/ Answer.cost > 0

\* relax_resident_protection gives up blocks the residents have, enough of
\* them, and none too many.
RelaxationIsExact ==
  Asked /\ Did("relax_resident_protection") /\ Answer.served =>
    LET left == conflict.protected - Answer.relaxed
    IN  /\ left >= 0
        /\ left + MaxLive(conflict.plan) <= conflict.usable
        /\ Answer.relaxed > 0 => left + 1 + MaxLive(conflict.plan) > conflict.usable

\* With headroom left, bounding the live blocks or moving them out always
\* serves the request, within the headroom.
BoundingFitsHeadroom ==
  Asked /\ Headroom(conflict) > 0 /\ (Did("bound_active_live") \/ Did("offload_active")) =>
    Answer.served /\ MaxLive(Answer.plan) <= Headroom(conflict)

\* What it takes to have both sides, for every amount of cost: more blocks for
\* those that are short; a delay or another budget, which both forgo the
\* reuse; moving the residents out, if that leaves room for the request.
PricesOfBoth(c) ==
  {AtLeast0((c.protected + MaxLive(c.plan)) - c.usable) * Cost.extra,
   Cost.steps * Cost.defer + c.reuse,
   Cost.route + c.reuse}
  \cup {x \in {c.protected * Cost.offloadResident} : MaxLive(c.plan) <= c.usable}

\* What the answer loses of the two sides.
SidesLost(c, d) ==
  (IF d.survives THEN 0 ELSE c.value) + (IF d.served THEN 0 ELSE c.service)

\* The oracle gives up a side only for less than any way of having both would
\* cost, and all that it gives up and pays never exceeds such a price: the
\* mechanisms it compares must offer each of these ways, at its price.
OracleGivesUpLeast ==
  Asked /\ decision.mechanism = "oracle_arbiter" =>
    \A price \in PricesOfBoth(conflict) :
      /\ SidesLost(conflict, Answer) + (IF Answer.admitted THEN 0 ELSE conflict.reuse)
           + Answer.cost <= price
      /\ ~ Answer.survives \/ ~ Answer.served => SidesLost(conflict, Answer) < price

\* Where both fit, the oracle leaves both as they are: nothing is lost, paid,
\* delayed, bounded, split, sent elsewhere or added, though other mechanisms
\* may be as good and are told apart only by the ties and their order.
OracleLeavesFittingAlone ==
  /\ Asked /\ decision.mechanism = "oracle_arbiter"
  /\ conflict.protected + MaxLive(conflict.plan) <= conflict.usable
  => /\ Answer.survives /\ Answer.served
     /\ Answer.admitted \/ conflict.reuse = 0
     /\ Answer.cost = 0 /\ Answer.delay = 0 /\ ~ Did("route_elsewhere")
     /\ Answer.plan = conflict.plan /\ Answer.usable = conflict.usable

\* The reason bounded_active_live gives, "active_live_kv_is_bounded_not_
\* merely_scheduled": the plan it returns stays within what the residents
\* leave.
BoundedMeansBounded ==
  Asked /\ Did("bound_active_live") =>
    MaxLive(Answer.plan) <= AtLeast0(Headroom(conflict))
=============================================================================
