------------------------------- MODULE Harness -------------------------------
(***************************************************************************)
(* The reports of kvrt/eval: the same prefixes, claims and calls are run   *)
(* on a fresh MicroRuntime for each of several policies, and what survives *)
(* is scored.  A regime is compared under the policies of harness.py and   *)
(* materialization_report.py; a scenario (its last prefix is prefilled as  *)
(* the active one) is run under the pairs of active_prefill_report.py.     *)
(* The runs call the methods of MicroRuntime with the plans of             *)
(* ClaimPolicies; the claim on a prefix is made by ResidencyClaim.for_prefix. *)
(***************************************************************************)
EXTENDS MicroRuntime

CONSTANTS
  Experiments  \* [order  : the claims, one for each prefix, in the order of the prefixes,
               \*  of     : for each of them its prefix,
               \*  pressure : pressure_blocks, active : whether it is a scenario]

ASSUME ClaimPerPrefix == Claim \subseteq Nat \ {0} /\ IsInjective(ClaimedPrefix)

RuleNames == {"fixed_blocks", "fraction", "full_prefix", "latency_value", "tenant_sla"}

\* A prefix has count, useful (useful_threshold_blocks), rule, value, curve and
\* tenant.  A fraction is a pair; a rule's value may be None.
Described(prefix) ==
  /\ prefix.count \in Nat /\ prefix.useful \in Int /\ prefix.value \in Nat
  /\ prefix.curve \in Curves /\ prefix.tenant \in Nat
  /\ prefix.rule.name \in RuleNames
  /\ \/ prefix.rule.value = None
     \/ prefix.rule.value \in IF prefix.rule.name = "fraction" THEN Int \X (Nat \ {0}) ELSE Int
  /\ \A t \in DOMAIN prefix.rule.tenants : prefix.rule.tenants[t] \in Int

\* Every prefix is listed once; a scenario has an active one.
ASSUME ExperimentAssumption ==
  \A e \in Experiments :
    /\ e.order \in Seq(Claim) /\ IsInjective(e.order)
    /\ \A k \in ToSet(e.order) : Described(e.of[k])
    /\ e.pressure \in PressureSizes \cup {0}
    /\ e.active \in BOOLEAN /\ (e.active => e.order # << >>)

\* The values of all prefixes have a common denominator.
ASSUME UnitAssumption ==
  /\ Unit \in Nat
  /\ \A e \in Experiments : \A k \in ToSet(e.order) : e.of[k].count > 0 => Unit % e.of[k].count = 0

Policies == INSTANCE ClaimPolicies

VARIABLES
  experiment,
  agenda,     \* the runs still to start: [name, policy, gate]
  running,    \* the run in progress, None between runs
  plan,       \* what its policy answered to the batch
  todo,       \* the calls it still makes
  evictions,  \* how many evict events it has seen
  scenario,   \* what an active run saw: [before, delta, residents, active], the
              \* value of the residents before the active prefill, the
              \* net_value_delta of its harm report, and the realized values of
              \* the returns of the residents and of the active prefix
  results     \* name of a finished run -> its record

runtime == <<cache, step, prefixes, accepted, decisions, runtimeEvents, auditEvents>>
report  == <<experiment, agenda, running, plan, todo, evictions, scenario, results>>
allVars == <<runtime, report>>

-----------------------------------------------------------------------------
(* model.py: prefixes and their claims.                                    *)

CeilingOf(n, fraction) == -((- n * fraction[1]) \div fraction[2])

\* ThresholdRule.blocks_for
ThresholdBlocks(prefix) ==
  LET rule  == prefix.rule
      given == IF rule.value = None THEN prefix.useful ELSE rule.value
  IN  AtLeast0(
        CASE rule.name \in {"fixed_blocks", "latency_value"} -> given
          [] rule.name = "full_prefix" -> prefix.count
          [] rule.name = "fraction" ->
               CeilingOf(prefix.count, IF rule.value = None THEN <<1, 1>> ELSE rule.value)
          [] rule.name = "tenant_sla" ->
               IF prefix.tenant \in DOMAIN rule.tenants THEN rule.tenants[prefix.tenant]
                                                        ELSE given)

ShapeOf(prefix) ==
  [count |-> prefix.count, threshold |-> ThresholdBlocks(prefix),
   value |-> prefix.value, curve |-> prefix.curve]

\* ResidencyClaim.for_prefix, with what the policies read of the prefix
ForPrefix(k, prefix) ==
  [id |-> k, tenant |-> prefix.tenant, created |-> 0, value |-> prefix.value,
   reuse |-> prefix.value, worth |-> prefix.value, footprint |-> prefix.count, count |-> prefix.count,
   threshold |-> ThresholdBlocks(prefix)]

BatchOf(e) == [i \in DOMAIN e.order |-> ForPrefix(e.order[i], e.of[e.order[i]])]

Batch == BatchOf(experiment)

PlanOf(policy) ==
  CASE policy = "native"           -> Policies!Native(Batch)
    [] policy = "value_density"    -> Policies!ValueDensity(Batch, Capacity)
    [] policy = "naive_fair_share" -> Policies!NaiveFairShare(Batch, Capacity)
    [] policy = "complete_prefix_fair_share" -> Policies!FairShare(Batch, Capacity)
    [] policy = "complete_prefix_oracle" -> Policies!CompletePrefixOracle(Batch, Capacity)
    [] policy = "abstract_block_oracle"  -> Policies!AbstractBlockOracle(Batch, Capacity)

-----------------------------------------------------------------------------
(* The runs of a report.                                                   *)

Row(name, policy, gate) == [name |-> name, policy |-> policy, gate |-> gate]

\* default_policy_specs, with the abstract oracle of report_policy_specs
ComparedPolicies ==
  <<Row("native", "native", None),
    Row("value_density", "value_density", None),
    Row("naive_fair_share", "naive_fair_share", None),
    Row("complete_prefix_fair_share", "complete_prefix_fair_share", None),
    Row("oracle", "complete_prefix_oracle", None),
    Row("abstract_block_oracle", "abstract_block_oracle", None)>>

\* The pairs of active_prefill_report_rows; no_cache is told the active prefix.
ComparedGates ==
  <<Row("native_cache_all_prefill", "value_density", "cache_all"),
    Row("value_density_no_cache_bulky", "value_density", "no_cache"),
    Row("value_density_active_admission", "value_density", "density"),
    Row("complete_prefix_no_cache_bulky", "complete_prefix_fair_share", "no_cache")>>

\* A run is not confused with there being none.
ASSUME RowAssumption ==
  \A row \in ToSet(ComparedPolicies) \cup ToSet(ComparedGates) : row # None

Call(name, argument) == [call |-> name, on |-> argument]

CallsOf(name, order) == [i \in DOMAIN order |-> Call(name, order[i])]

\* admit_claims, prefill_many and pressure of _run_policy; or what
\* _run_active_prefill_row calls, the active prefix last and returned last.
Calls ==
  LET order == experiment.order
  IN  IF experiment.active
        THEN CallsOf("admit", order) \o CallsOf("prefill", Front(order))
               \o <<Call("active", Last(order))>> \o CallsOf("return", order)
        ELSE CallsOf("admit", order) \o CallsOf("prefill", order)
               \o (IF experiment.pressure > 0 THEN <<Call("pressure", experiment.pressure)>>
                                              ELSE << >>)

NothingSeen == [before |-> 0, delta |-> 0, residents |-> 0, active |-> 0]

ReportInit ==
  /\ cache = EmptyCache /\ step = 0 /\ prefixes = EmptyDict
  /\ accepted = EmptyDict /\ decisions = EmptyDict
  /\ runtimeEvents = << >> /\ auditEvents = << >>
  /\ experiment \in Experiments
  /\ agenda = IF experiment.active THEN ComparedGates ELSE ComparedPolicies
  /\ running = None /\ plan = EmptyDict /\ todo = << >> /\ evictions = 0
  /\ scenario = NothingSeen
  /\ results = EmptyDict

\* MicroRuntime(...), register_prefixes, and the plan for all the claims.
Start ==
  /\ running = None /\ agenda # << >>
  /\ running' = Head(agenda)
  /\ agenda' = Tail(agenda)
  /\ cache' = EmptyCache /\ step' = 0
  /\ accepted' = EmptyDict /\ decisions' = EmptyDict
  /\ runtimeEvents' = << >> /\ auditEvents' = << >>
  /\ prefixes' = [p \in {ClaimedPrefix[k] : k \in ToSet(experiment.order)} |->
                    ShapeOf(experiment.of[CHOOSE k \in Claim : ClaimedPrefix[k] = p])]
  /\ plan' = PlanOf(Head(agenda).policy)
  /\ todo' = Calls
  /\ evictions' = 0 /\ scenario' = NothingSeen
  /\ UNCHANGED <<experiment, results>>

Evicts(events) == Cardinality({i \in DOMAIN events : events[i].event = "evict"})

Calling(name) == running # None /\ todo # << >> /\ Head(todo).call = name

Called ==
  /\ todo' = Tail(todo)
  /\ evictions' = evictions + Evicts(runtimeEvents')
  /\ UNCHANGED <<experiment, agenda, running, plan, results>>

\* admit_claims takes the decisions of the plan one by one; a refused claim,
\* or one that is left to the native policy, protects nothing.
Admit ==
  /\ Calling("admit")
  /\ \E c \in DOMAIN plan :
       /\ c.id = Head(todo).on
       /\ AdmitClaim(c.id, IF plan[c].kind \in Policies!Accepting THEN plan[c].blocks ELSE 0)
  /\ Called /\ UNCHANGED scenario

PrefillNext ==
  /\ Calling("prefill")
  /\ Prefill(ClaimedPrefix[Head(todo).on])
  /\ Called /\ UNCHANGED scenario

PressureNext ==
  /\ Calling("pressure")
  /\ Pressure(Head(todo).on)
  /\ Called /\ UNCHANGED scenario

\* What the active prefill policy of the run decides.
Gate(p) ==
  CASE running.gate = "cache_all" -> "cache_admit"
    [] running.gate = "no_cache"  -> "cache_no_admit"
    [] running.gate = "density"   -> ByDensity(p).decision

RealizedValue(ps) ==
  MapThenSumSet(LAMBDA p : ValueFor(prefixes[p], Contiguous(cache, p)), ps)

ResidentsOfScenario == DOMAIN prefixes \ {ClaimedPrefix[Last(experiment.order)]}

ActiveNext ==
  /\ Calling("active")
  /\ LET p == ClaimedPrefix[Head(todo).on]
     IN  \E d \in ActiveDecisions(p) : d.decision = Gate(p) /\ ActivePrefill(p, d)
  /\ scenario' = [scenario EXCEPT !.before = RealizedValue(ResidentsOfScenario),
                                  !.delta  = Last(auditEvents').netValueDelta]
  /\ Called

ReturnNext ==
  /\ Calling("return")
  /\ ReturnPrefix(ClaimedPrefix[Head(todo).on], FALSE)
  /\ scenario' = IF Len(todo) > 1
                   THEN [scenario EXCEPT !.residents = @ + runtimeEvents'[1].value]
                   ELSE [scenario EXCEPT !.active = runtimeEvents'[1].value]
  /\ Called

-----------------------------------------------------------------------------
(* eval/surfaces.py, in 1/Unit.                                            *)

\* full_reuse_value times blocks over block_count
ShareOf(value, count, blocks) ==
  IF count = 0 THEN 0 ELSE value * blocks * (Unit \div count)

Share(p, blocks) == ShareOf(prefixes[p].value, prefixes[p].count, blocks)

Registered == {ClaimedPrefix[k] : k \in ToSet(experiment.order)}

\* score_state, surface by surface; block_count 0 scores 0 on every one.
Scores ==
  [abstract_block_value |->
     MapThenSumSet(LAMBDA p : Share(p, TotalSurviving(cache, p)), Registered),
   total_cached |-> MapThenSumSet(LAMBDA p : TotalSurviving(cache, p), Registered),
   leading_contiguous |-> MapThenSumSet(LAMBDA p : Contiguous(cache, p), Registered),
   contiguous_prefix_value |->
     MapThenSumSet(LAMBDA p : Share(p, Contiguous(cache, p)), Registered),
   thresholded_contiguous_value |->
     MapThenSumSet(LAMBDA p : IF prefixes[p].count = 0 THEN 0
                              ELSE ValueFor(prefixes[p], Contiguous(cache, p)), Registered)]

\* export/vllm_seed.py, _pressure_decomposition
PressureDecomposition ==
  LET prefill == MapThenSumSet(LAMBDA p : prefixes[p].count, Registered)
      wanted  == prefill + experiment.pressure
  IN  [prefill_blocks        |-> prefill,
       prefill_over_capacity |-> AtLeast0(prefill - Capacity),
       total_pressure_blocks |-> AtLeast0(wanted - Capacity),
       capacity_headroom     |->
         AtLeast0(Capacity - (IF wanted < Capacity THEN wanted ELSE Capacity))]

Score ==
  /\ running # None /\ todo = << >>
  /\ results' = Put(results, running.name, [scores |-> Scores, plan |-> plan])
  /\ running' = None
  /\ UNCHANGED <<runtime, experiment, agenda, plan, todo, evictions, scenario>>

ReportNext ==
  \/ Start
  \/ Admit
  \/ PrefillNext
  \/ PressureNext
  \/ ActiveNext
  \/ ReturnNext
  \/ Score

ReportSpec == ReportInit /\ [][ReportNext]_allVars
-----------------------------------------------------------------------------
(* Properties.                                                             *)

\* A run has made all its calls; a report has all its runs.
Finished == running # None /\ todo = << >>
Reported == running = None /\ agenda = << >>

Granted(answer) ==
  MapThenSumSet(LAMBDA c : IF answer[c].kind \in Policies!Accepting THEN answer[c].blocks ELSE 0,
                DOMAIN answer)

\* Protection is no pinning, but it is enough as long as one block of the pool
\* is not granted to anyone: then every accepted range is resident in full at
\* the end of a run, however the prefills and the pressure crowd the pool.
AcceptedRangesSurvive ==
  Finished /\ ~ experiment.active /\ Granted(plan) < Capacity =>
    \A k \in DOMAIN accepted : Contiguous(cache, accepted[k].prefix) >= accepted[k].blocks

AllByThreshold == \A p \in DOMAIN prefixes : prefixes[p].curve = "threshold"

Thresholded(name) == results[name].scores.thresholded_contiguous_value

\* What the complete prefix oracle's plan is worth on the thresholded surface,
\* and the abstract oracle's on the abstract one.
WorthOfSelected(answer) ==
  MapThenSumSet(LAMBDA c : IF answer[c].reason = "oracle_complete_prefix" THEN Unit * c.worth ELSE 0,
                DOMAIN answer)

WorthOfBlocks(answer) ==
  MapThenSumSet(LAMBDA c : ShareOf(c.reuse, c.count, answer[c].blocks), DOMAIN answer)

\* What the oracles plan bounds what any policy realizes: the complete prefix
\* oracle on the thresholded surface, if every prefix is valued by its
\* threshold, and the abstract oracle on the abstract surface.
RealizedWithinOraclePlans ==
  Reported /\ ~ experiment.active =>
    \A name \in DOMAIN results :
      /\ AllByThreshold => Thresholded(name) <= WorthOfSelected(results["oracle"].plan)
      /\ results[name].scores.abstract_block_value
           <= WorthOfBlocks(results["abstract_block_oracle"].plan)

\* No policy realizes more than the oracle, unless the oracle's plan left no
\* block of the pool to give up.
NegativeRegretNeedsFullPool ==
  Reported /\ ~ experiment.active /\ AllByThreshold =>
    \A name \in DOMAIN results :
      Thresholded(name) > Thresholded("oracle") => Granted(results["oracle"].plan) = Capacity

\* The pressure_decomposition of the hard seeds is what happens: the total
\* pressure is the number of evictions of every run, under every policy, and
\* the headroom is the number of blocks that are free at its end.
PressureIsEvictions ==
  Finished /\ ~ experiment.active =>
    /\ evictions = PressureDecomposition.total_pressure_blocks
    /\ Len(cache.freeBlocks) = PressureDecomposition.capacity_headroom

\* The harm report of an active prefill adds up with the returns after it:
\* the residents realize what they were worth before it and its
\* net_value_delta, whatever the curves of their values.
HarmMatchesReturns ==
  Finished /\ experiment.active =>
    scenario.residents = scenario.before + scenario.delta

\* normalized_regret "raising a quarantine flag for negative regret": no
\* policy realizes more than the oracle on the thresholded surface.
NoNegativeRegret ==
  Reported /\ ~ experiment.active /\ AllByThreshold =>
    \A name \in DOMAIN results : Thresholded(name) <= Thresholded("oracle")
=============================================================================
