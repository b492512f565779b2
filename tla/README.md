# TLA+ verification of the resident KV claims MicroRuntime

The program (`src/src/kvrt`) is an executable reference model of *resident KV claims*: a finite
pool of KV-cache blocks, claims that ask for a leading range of a prefix to stay resident, policies
that accept or refuse them, active requests that need live blocks in the same pool, and reports
of who lost what. It is a sequential, single-threaded library: a caller calls methods one after another,
nothing is persisted, there are no threads, callbacks, messages or timers. What is hard in it is
not concurrency but **long sequences of legal calls**: several structures describe the same blocks
(block table, two indexes, two deques, a ledger, the decisions, two logs), most of them are
updated incrementally, and eviction happens in the middle of an insertion.

The contract the program exists for (`src/README.md:16`):

    protected resident KV + active live KV <= usable KV memory

and, when both do not fit, the conflict must be observable (`src/README.md:19-20`).

## 1. Inventory

| Part (src/src/kvrt) | State | Operations | What makes it correct |
|---|---|---|---|
| Block cache (`cache.py`, `Block` and `RuntimeState` of `model.py`) | block table, `free_blocks`, `free_queue`, `resident_by_prefix`, `protected_by_claim`, `position_ledger` | `materialize_prefix`, `evict_one`, `free_block`, `protect_existing_ranges`, `validate_state` | the structures agree after any sequence of calls; one block per position; eviction by rank; the ledger says who is resident |
| Runtime loop (`runtime.py`) | the cache, `step`, registered prefixes, accepted claims, decisions, `runtime_events`, `audit_events` | `register_prefixes`, `admit_claims`, `prefill` (passive, active), `pressure`, `return_prefix`, `reset` | accepted ranges are protected whatever came first; decisions name live blocks; events replay to the residency; a harm report names its cause |
| Active prefill policies (`prefill.py`) | none | `decide` | an admission is all, a leading part, or none, at a known priority; the density gate compares with what it evicts |
| Active live KV (`active_live.py`) | none | live blocks per step, feasibility, outcome | the two readings of feasibility agree |
| Arbiter (`arbiter.py`) | none | `decide_active_resident`, 13 mechanisms and an oracle | what is served beside surviving residents fits, or is elsewhere and paid for; the oracle gives up a side only for less than keeping both would cost, and nothing where both fit |
| Resident claim contract (`contract.py`) | per claim: state, accepted, released | `accept`, `release`, `predicate_breaking_harm_event` | every break owed is reported, once, never after a release |
| Claim policies (`policies/`) | none between calls; the fair share loops over tenants | `plan_claims`, `eviction_key` | grants within capacity; fairness between tenants; greedy and oracle plans are what they claim; every claim is decided and the loop ends |
| Prefix metadata (`model.py`) | none | threshold rules, reuse value, `ResidencyClaim.for_prefix` | what a harm report calls lost is what the returns miss |
| Evaluation (`eval/`), `export/` | the results of the runs so far | run a scenario under each policy, score it on five surfaces, decompose its pressure | no policy realises more than the oracle's *plan*; granted ranges survive a run; the exported pressure is the evictions that happen |
| `regimes.py`, `scripts/`, rendering | none | named scenarios; formatting | |

Interactions. The caller drives `MicroRuntime`. `admit_claims` asks the claim policy for a plan, records
the acceptances and calls `protect_existing_ranges`. `prefill` asks the prefill policy (active only), calls
`materialize_prefix`, which reads the accepted ranges to annotate what it inserts and calls back into
the policy's `eviction_key` to choose a victim; then it copies the events to the log, refreshes the
decisions' physical blocks, and compares thresholds before and after for the harm report. The
arbiter, the live plans and the claim contract are separate value-level models that a caller feeds
with block counts and positions; they share no state with the runtime. The harness composes policies,
runtime and value surfaces.

`PROJECT.json` lists each hazard at its line, with the properties that would catch it.

## 2. Modules

| Module | Models | State and actions |
|---|---|---|
| `BlockCache` | `cache.py` and the records of `model.py` it keeps | Operators only: a cache is a record, an operation maps caches to caches. `InsertLeading` is `materialize_prefix` (a recursive function over positions, one `InsertPosition` per loop turn), `EvictOne`, `FreeBlock`, `FreeOwn` (`replace_existing`), `ProtectExisting`, `ValidState` |
| `MicroRuntime` | `runtime.py`, `prefill.py`, the value curves of `model.py` | `cache, step, prefixes, accepted, decisions, runtimeEvents, auditEvents`; actions `RegisterPrefix`, `AdmitClaim`, `Prefill`, `ActivePrefill`, `Pressure`, `ReturnPrefix`, `Reset`: one per public method; `PositionLedger` is the query `prefix_position_ledger` |
| `ResidentSet` | what the runtime promises about residency (abstract) | `held, size`; `Register`, `Prefill`, `Recompute`, `Pressure`, `Clear` |
| `ActiveLive` | `active_live.py` | operators |
| `Arbiter` | `arbiter.py` | `conflict, decision`; a behaviour is one call: `Arbitrate(i)` per mechanism, `ArbitrateOracle` |
| `ClaimContract` | `contract.py` | `claims, surviving, harmed` and three history variables; `Accept`, `Release`, `Change` (blocks come and go and every claim is handed to `predicate_breaking_harm_event`) |
| `ClaimPolicies` | `policies/*.py` | operators, from a batch of claims to a plan |
| `PolicyPlans` | six `plan_claims` | one batch, one policy, its plan |
| `FairRounds` | `CompletePrefixFairSharePolicy.plan_claims` | its loop: `TakeTurn` (`Grant` or `ShutOut`), `EndRound`, `Finish` |
| `Allocation` | what such a policy promises (abstract) | `claims, left, granted, refused`; `Grant`, `Refuse` |
| `Harness` | `eval/harness.py`, `materialization_report.py`, `active_prefill_report.py`, `surfaces.py`, `regret.py`, the threshold rules and `for_prefix` of `model.py`, `_pressure_decomposition` of `export/vllm_seed.py` | the runtime's variables and `experiment, agenda, running, plan, todo, evictions, scenario, results`; `Start`, one action per kind of call (each is an action of `MicroRuntime`), `Score` |
| `MCRuntime`, `MCArbiter`, `MCContract`, `MCPlans`, `MCRounds`, `MCHarness` | | constants for TLC |
| `OrderFacts`, `MicroRuntimeProofs`, `BookkeepingProofs`, `ClaimContractProofs`, `ArbiterProofs`, `FairRoundsProofs`, `PolicyPlansProofs`, `HarnessProofs` | | lemmas and theorems, section 4 |

What composes what: `MicroRuntime` extends `BlockCache`; `Harness` extends `MicroRuntime` and instantiates `ClaimPolicies`, so that
real plans of real policies drive the cache; `FairRounds` and `PolicyPlans` extend `ClaimPolicies`; `Arbiter` extends `ActiveLive`.

Refinements, each a property of a run:

- `MicroRuntime` implements `ResidentSet`, with `held` the places of the resident blocks (`HeldPlaces(cache)`) and `size` the block
  counts of the registered prefixes. Claims, priorities, ages and indexes are gone; what stays is the promise that everything
  wanted is held if it fits, that the pool is left *full*, of wanted places, if it does not, and that the last place asked for is among them.
- `FairRounds` implements `Allocation`, with `Need` the claim's threshold, `left` the remaining budget, `granted` the accepted and `refused` the other decided claims.
  Queues, turns and rounds are gone; what stays is that each grant fits what is left, that a refusal has a cause at the moment it is given, that no
  decision is withdrawn, and that every claim is decided in the end (liveness).

How the runtime model corresponds to the code:

- A public method is one action, because the program is sequential. Everything the method changes is in
  the action: a prefill includes its evictions, the refresh of the decisions and the harm report.
- The claim policy is open: `AdmitClaim(k, n)` accepts any leading `n` blocks, or refuses (`n = 0`). All
  policies answer with leading ranges (`accept_leading`, `refuse`), so every policy is covered. A batch is a sequence
  of single admissions: the loop of `admit_claims` carries nothing from one claim to the next but the state, and the policy was
  asked before it.
- The prefill policy is open in the same way: `Admissions` is the set of answers of the four policies that do
  not look at the state. `ByDensity` is the one answer of `value_density_active_prefill` in the present state.
- `runtimeEvents` and `auditEvents` hold what the last call appended: the logs only grow, and nothing reads
  them back. `decisions` holds the last decision of each claim, the one that is refreshed.
- Methods raise `KeyError` on an unknown prefix before they change anything; such a call is no action.
- Left out: `hash_key`, the ledger's `accepted_range`, tokens and values in events, superseded decisions (their physical blocks
  are never refreshed), `MicroRuntime.claims` (never read), the audit of a plan for leaked oracle data (`_audit_decision`: no policy of the repository leaks).
- `step` is cut off at `MaxStep`; nothing else is bounded by a guard.

How the harness model corresponds to the code: a run starts a fresh runtime with the registered prefixes, asks the policy for
the plan of the whole batch, and then makes the calls `_run_policy` or `_run_active_prefill_row` makes, in their order, each with
everything the runtime does in it. `Score` computes the five surfaces of `surfaces.py`. The complete-prefix fair share is the one-pass plan
`FairShare`, which `rounds` shows to be what its rounds produce (`PlanIsOnePass`).

Values and costs are integers: the arbiter's in units of 1/20, so that its default costs are whole, the runtime's in units of 1/`Unit`, a
common multiple of the block counts, so that a value per block is whole;
densities are compared by cross-multiplication, where the code divides floats. Claim ids and tenants
are numbers in the order of the strings.

## 3. Runs

Every definition mutated by a `..._Xyz` operator in the modules is a plausible bug; each checked property is
shown to fail under one of them.

**runtime_state** (3 blocks; one prefix, registered with 2 or 3 blocks, threshold 2; two claims on it; pressure of 2 blocks; partial
admissions of 1; 3 step-advancing calls, any number of registrations and admissions between them; 1.3 million states). What must be true between any two calls:
`TypeOK`; `NeverRaises` (`validate_state` never raises); `IndexesExact` and `QueueListsResidents`, what `validate_state` does
not look at; `OneBlockPerPosition`; `AcceptedRangesProtected`, also when the prefix is registered again with another count while resident and claimed; `DecisionsFresh`.
The pool does not hold the prefix and a pressure prefix together, so that insertions evict; three blocks are the fewest where a prefix can be partly resident, scattered, and
protected in part; two claims on it overlap with different ranges.

**runtime_steps** (3 blocks; prefixes of 2 and 3 blocks; one claim; pressure of 1 and 2; 3 calls). What a call may do to others: `EvictionRespectsRank` (nothing that
outlives the call ranks below something evicted in it), `LowPriorityYields` (unclaimed blocks that enter at a priority cost the blocks
that rank above them one block at most), `FreshInsertionIsComplete`, `HarmNamesTheBreak`, `EventsReplay` (the log of a call turns the residency before it into
the one after), `ImplementsResidentSet`; and `LedgerAgrees`, the one state property that needs prefixes to keep their block count: a recompute frees the
prefix's blocks without marking their ledger rows, and with a smaller count the rows beyond it are not rewritten.

**contract** (three claims on an object of three blocks; exhaustive, no bound on the number of calls).
`WatchedStaysMaterialized`, `HarmedOncePerAcceptance`, `ResponsibleExactly`, `ReleasedStaysSilent`, `HarmFollowsNeeds`. Three blocks and three
predicates give a leading predicate, a range with the same needs, and one with disjoint needs.

**arbiter** (172,800 states: residents up to 3 blocks, pools of 0 to 4, requests of 0 to 4 blocks in three modes and six
chunkings, values on both sides of the costs). `FeasibleIffNeverBlocked`, `WithinBudgetOrElsewhere` (the contract
above), `ConflictIsLostOrPaid`, `BoundingFitsHeadroom`, and of the
oracle's answer `OracleGivesUpLeast`, which compares what it loses and pays with the prices of keeping both sides, named apart from the mechanisms (`PricesOfBoth`), and `OracleLeavesFittingAlone`, for
the conflicts where many mechanisms tie. The code is linear in these numbers, so both sides of each comparison are met; all six are also proved for every size, and so is `RelaxationIsExact`.

**plans** (batches of up to three claims of seven shapes, capacities 0 to 5). `WithinCapacity`, `DensestThatFit`, `OracleIsOptimal` (against all subsets),
`AbstractOracleIsBound`. Three claims give a claim that is too big with a smaller one behind it, and sets of two that beat the densest one.

**rounds** (batches of up to four claims, two tenants and claims without one, capacities 0 to 5). `NobodyGetsAhead`, `BestClaimsFirst`, `PlanIsOnePass` and the
refinement `ImplementsAllocation`, which carries the liveness: every call returns with all claims decided. Four claims give a tenant two claims more than another, and a third round.

**harness** (4 blocks; two or three prefixes of seven kinds that meet every threshold rule and value curve, in both orders of their ids; pressure of 0, 1 and 3; scenarios with an active
prefill; `MaxStep` 7 is more than any run makes; 155,232 states). `AcceptedRangesSurvive`: protection is a rank and no pin, but if the policy leaves one block of the pool ungranted, every granted range is resident
in full at the end. `RealizedWithinOraclePlans`: the oracles' plans bound every policy's realised value. `NegativeRegretNeedsFullPool`: only if the oracle granted the whole pool may a policy realise
more than it. `PressureIsEvictions`: the exported pressure decomposition is what happens. `HarmMatchesReturns`: the harm report of an active prefill adds up with the returns after it.
With four blocks the plans leave zero, one or more blocks free, and the prefixes overfill the pool by up to eight.

Deadlock is checked in the passing runs of the runtime and the contract, up to the bound on steps: registering and admitting are always possible. `arbiter`, `arbiter_bounded`,
`plans`, `rounds`, `harness` and `harness_regret` say `CHECK_DEADLOCK FALSE`: a behaviour there is one call, or one report, which returns.

Fairness. Only `FairRounds` assumes it, `WF_vars(Next)`: its steps are the turns of one `while` loop, and a
sequential call runs on until it returns. Nothing else in the program must eventually happen: the caller decides what is
called, so the other modules state safety only.

### Disagreements found

- **runtime_conflict**: `return_prefix(recompute=True)` drops the events of `materialize_prefix` (`runtime.py:188`); a recompute
  that evicts another prefix's protected block leaves no record, against `src/README.md:19-20`.
- **runtime_prefill**: `materialize_prefix` "inserts a full prefix" (`cache.py:73`), but positions already resident keep their
  age (`cache.py:83`) and may be evicted for later positions of the same call.
- **arbiter_bounded**: with no headroom the bounded plan has window 0, which `active_live.py:62` takes for "no window": the
  plan called "bounded, not merely scheduled" is not bounded.
- **runtime_gate**: `value_density_active_prefill` admits a prefix "only when it beats likely resident victim density" (`prefill.py:131`). It compares
  with the least dense resident prefix, but victims are chosen by priority and age: an admitted prefix may break the threshold of a denser one.
- **harness_regret**: `normalized_regret` treats a policy that realises more than the oracle as an error (`eval/regret.py:7-11`). The
  oracle is optimal in what it accepts, not in what survives: when its plan fills the pool, the other prefills take one of its ranges apart. `harness` shows
  that this is the only way (`NegativeRegretNeedsFullPool`).

## 4. Proofs

Of `MicroRuntime!Spec`, for every capacity, every set of prefixes and claims, every shape and every bound (from
`CapacityAssumption`, `IdAssumption`, `ShapeAssumption`, `ClaimAssumption`, `SizeAssumption`, `StepAssumption`):

| Module | Theorem | States |
|---|---|---|
| `MicroRuntimeProofs` | `InsertLeadingInv` | `materialize_prefix` keeps the cache invariant and the protection of accepted ranges |
| | `TypeCorrect` | `TypeOK` |
| | `ValidationNeverFails` | `NeverRaises` |
| | `IndexesAreExact` | `IndexesExact` |
| | `PositionsHeldOnce` | `OneBlockPerPosition` |
| | `AcceptedRangesStayProtected` | `AcceptedRangesProtected` |
| | `DecisionsStayFresh` | `DecisionsFresh` |
| | `RuntimeImplementsResidentSet` | `ImplementsResidentSet`: the refinement |
| `BookkeepingProofs` | `QueueIsExact` | `QueueListsResidents` |
| | `LedgerTellsTheTruth` | `LedgerAgrees`, if a prefix registered again keeps its block count (`KeptCounts`) |
| | `LogReplaysToResidency` | `EventsReplay` |
| | `VictimsRankBelow` | `EvictionRespectsRank` |
| | `BreaksAreNamed` | `HarmNamesTheBreak` |
| | `PressureCostsOneBlock` | `LowPriorityYields` |
| | `FreshInsertionsFill` | `FreshInsertionIsComplete` |

None of the state properties is inductive by itself. That a position is held once needs `resident_by_prefix` to be exact, since the
cache looks there before it inserts; that needs each resident block to have an owner and a place, and free blocks to be listed
once, since insertion pops the list; and protection needs `protected_by_claim` to mirror the annotations. The invariant is
therefore `CacheInv` (all of these for one cache) with `Covered` (the accepted ranges are protected in it) and the
types. `MicroRuntimeProofs` proves first that each operator of `BlockCache` keeps it: `FreeBlock`, then `EvictOne` (some block is resident when none is
free), then `Fill`, then `InsertPosition`, and by induction over the positions `InsertLeading` and `FreeOwn`. One step per action stands on top of these.

The refinement counts. Each round of an insertion either leaves a hit alone or holds one place more, after giving one up only if the pool was full; by induction the places held after
`i` rounds are what `ResidentSet!Materialize` allows (`BroughtIsAllowed`). One more invariant is needed, that the id which `pressure` makes next is not registered.

The books are a second invariant, `Books`: the queue lists the resident blocks oldest first, each resident block has its own ledger row without an eviction, and every such row is
the place of a resident block or of one of the places `X` that a recompute under way has given up. The recompute refills exactly `X` if the block count did not change, hence
`KeptCounts`, and `Fits` (no row lies beyond the count).

The log is a loop over its events (`ReplayRuns`): one event more is one step more, so `Logged` (the events of the call so far, replayed on the residency before it, give the residency now)
goes from each eviction and insertion to the next, and every call but a recompute ends with what it logged.

What one call gives up needs the state in the middle of it. Three loop invariants relate the cache `d` after some rounds to the cache `c` before the call:
`Spent` (a block of `c` is as it was or was touched in this call; those that were rank below those that were not; a place that is gone has its ledger row), `Yields` (at most one
block that ranks above the priority of the insertion is gone, and once it is, there is a lower one to evict), and `Filling` (everything inserted so far is still there). `Filling` rests
on a count (`LowBlockExists`): among more blocks than the own and the highly ranked ones fill, some older block of low rank is left to evict. `BreaksAreNamed` uses `Spent`: the first position now missing
was held before, so it was entered as evicted in this call.

Of `ClaimContract!Spec`, for any number of claims, any predicates and any object (`PredicateAssumption`, `LengthAssumption`):

| Theorem | States |
|---|---|
| `ContractTypes` | `TypeOK` |
| `ResponsibilityIsExact` | `ResponsibleExactly` |
| `HarmIsReportedOnce` | `HarmedOncePerAcceptance` |
| `BreaksAreReported` | `WatchedStaysMaterialized` |
| `ReleaseIsForGood` | `ReleasedStaysSilent`, an action property |
| `HarmFollowsFromNeeds` | `HarmFollowsNeeds`, an action property |

The first five depend on each other: a second harm is excluded because the runtime does not answer for a harmed claim, which is
`ResponsibleExactly`, which in turn needs `release` to agree with the history of releases (`ReleasesRecorded`). Their conjunction is
inductive; there is one lemma per action. Only the last one looks at what a predicate computes.

Of `Arbiter!Spec`, for every set of conflicts and every cost model (`ConflictAssumption`, `CostAssumption`):

| Theorem | States |
|---|---|
| `OracleLosesNoMoreThanItMust` | `OracleGivesUpLeast` |
| `FittingIsLeftAlone` | `OracleLeavesFittingAlone`, with free delays and routes too |
| `BudgetIsKept` | `WithinBudgetOrElsewhere`, if a deferral takes a step at least |
| `ConflictsAreLostOrPaid` | `ConflictIsLostOrPaid`, if every cost is positive (`Costly`) |
| `RelaxationsAreExact` | `RelaxationIsExact` |
| `BoundingAlwaysFits` | `BoundingFitsHeadroom` |
| `FeasibilityReadingsAgree` | `FeasibleIffNeverBlocked` |

The invariant `Decided` says that an answer is the decision of one of the mechanisms on the conflict. The rest is about the pure functions: `MaxLiveFacts` bounds the peak of the live blocks
by the schedule, by induction on its steps; `BetterIsOrder` makes the oracle's comparison (utility, then survival, then service) a strict order, so that `OracleChoiceIsBest`
finds the first mechanism that none beats. `PricesAreOffered` finds, for each way of keeping both sides, a mechanism that offers it at its price, and `LosesLessThan` compares the oracle's
choice with it. Where both fit, `FittingChoice` shows that adding capacity of no block beats whatever loses something, and that an answer which forgoes the reuse comes no later than victim exclusion.

Of `FairRounds!Spec`, for every batch of claims with different ids and every capacity (`BatchAssumption`, `CapacityAssumption`):

| Theorem | States |
|---|---|
| `RoundsTypes` | `TypeOK` |
| `RoundsAreFair` | `NobodyGetsAhead` |
| `BestClaimsAreFirst` | `BestClaimsFirst` |
| `RoundsAreOnePass` | `PlanIsOnePass` |
| `RoundsAllocate` | the safety part of `ImplementsAllocation`: its initial states and its steps |

The invariant `RInv` says where each tenant stands. After as many rounds as a tenant had turns (`Standing`), its queue is its ranked claims without that many, and these are decided; a
tenant that is out of the race ran dry or was shut out with its queue refused; and those still to come in the round have had one turn less (`TurnsOrdered`). All three
fairness properties count from there. `RoundsAreOnePass` simulates: the pass over the claims in the order of turn and tenant is at its `j`-th claim in the state that the
rounds are in (`Mirror`: same budget, same grants, same tenants shut out), a claim of a tenant that was shut out moves the pass and not the rounds, and at the end nobody is left to pass over.

Of `PolicyPlans!Spec`, from the same assumptions:

| Theorem | States |
|---|---|
| `PlansFit` | `WithinCapacity` |
| `DensestFirst` | `DensestThatFit` |
| `OracleBest` | `OracleIsOptimal` |
| `AbstractOracleBounds` | `AbstractOracleIsBound` |

The state adds little here (`Planned`: the plan is what the policy answers); the theorems are about the pure functions. `DensestFirst` follows the greedy loop: what is left when a claim's
turn comes is the capacity less the thresholds of the denser claims taken. `OracleBest` needs that every set of candidates has a mask (`EveryMask`, by induction on the number of bits) and that the
search holds the best of the masks tried so far (`BestUpTo`); the mask 0, of nothing, always fits, so that there is a best from the first turn on. `AbstractOracleBounds` is the exchange argument:
the oracle grants all of the heavier claims, nothing of the lighter ones and part of at most one, `z`. Any other plan has `x` blocks of a claim where the oracle has `g`; with the rates `r` per block, `r * x + r_z * g <= r * g + r_z * x` holds claim by claim,
and the sums of `g` and `x` are the pool and at most the pool. Rates are integers because `OneDenominator` is a multiple of every block count.

Of `Harness!ReportSpec`, for every set of experiments, pool, shape and value, from the assumptions of `MicroRuntime` and four more: each claim has a prefix of its own (`ClaimPerPrefix`); every prefix is
listed once and is what the constructor of `Prefix` takes, with a value that is not negative, and a scenario has an active prefix (`ExperimentAssumption` with `Described`); `Unit` is a multiple of the block counts
(`UnitAssumption`); and a run is not taken for there being none (`RowAssumption`):

| Theorem | States |
|---|---|
| `PressureIsWhatHappens` | `PressureIsEvictions` |
| `HarmReportsAddUp` | `HarmMatchesReturns` |
| `AcceptedRangesOutlive` | `AcceptedRangesSurvive` |
| `RealizedStaysWithinPlans` | `RealizedWithinOraclePlans` |
| `RegretIsExplained` | `NegativeRegretNeedsFullPool` |

Every action of a run is one of `MicroRuntime`, so that `IInv`, the invariant of the runtime, holds all along. `Track` adds where the report stands: `todo` is the end of the calls and `agenda` the end of the rows (`Suffix`), the plan is
what the policy of the row answers, the registered prefixes are those of the experiment, and only what this run has inserted is resident. `RunSteps` turns `Head(todo)` into the number of the call, so that each lemma speaks of the `i`-th admission
or prefill. On `Track` rest four more invariants, one for each kind of statement:

- `PressureInv`: the blocks in use and the evictions so far are the blocks inserted so far, the former up to the capacity and the latter the rest. One more block is either free or evicted (`InsertPositionSqueezes`); that no position
  is a hit is where `Track` is needed, since each prefix is inserted once.
- `HarmInv`: after the active prefill, the residents are worth `before + delta`; each return realizes the value of one more of them and changes no block. That the harm report charges what was lost, prefix by prefix, is `ActiveCharged`.
- `AcceptInv`: what is accepted is what the plan grants, every place in an accepted range of an inserted prefix is held, and no block outside these ranges ranks above priority 0. As the accepted ranges hold fewer blocks than the pool, some other block is always there
  to be evicted before them (`PromisesFit`, `InsertPositionKeeps`).
- `ResultsInv`: what a finished run realized. On the abstract surface that is the value of what it keeps, block for block, which is an assignment of blocks within the pool and so within the abstract oracle's (`PartsAreBest`). On the
  thresholded one it is the worth of the claims whose threshold is reached (`Reached`): a set that fits the pool, and so is worth no more than the oracle's (`WholeIsBest`). The run of the oracle itself, if its plan left a block ungranted, reached
  all it selected: its grants were admitted (`GrantsAdmitted`) and outlive the run by `AcceptedRangesSurvive`. So no set is worth more than what the oracle's run reached, which is `NegativeRegretNeedsFullPool`; selected claims on prefixes of
  no blocks need nothing and realize nothing, and drop out of the comparison (`FillableIsBest`).

`WholeIsBest` and `PartsAreBest` are the lemmas of `PolicyPlansProofs`, used through an instance of that module whose batches are those of the experiments; `PlansApply` shows that its assumptions hold of them.

`OrderFacts` holds what these proofs share: induction stated for sets of naturals, ranks in strict orders and sorting by them, orders by ratio, sums over finite sets (`Total`, which is
what `MapThenSumSet` computes), and runs of loops (`IsRun`). `ClaimPolicies` writes its loops as `Pass` and its sorts as `Sorted`, and builds candidates and powers of 2 by them or by a recursive
function, where the library has `FoldLeft`, `SetToSortSeq`, `SelectSeq` and `^`: the prover cannot expand those. It also reads `UNION A \ B` as `UNION (A \ B)`, which TLC does not; such terms are parenthesised.

Only model-checked: the liveness in `ImplementsAllocation` (every claim is decided in the end), which is out of the prover's reach. Every other property of the passing runs is a theorem. The five properties that the code violates are
checked, not proved: each run shows the behaviour that violates one.

## 5. Plan

Done: the core (`BlockCache`, `MicroRuntime`), the contract, the value-level parts (`Arbiter`, `ClaimPolicies`, `FairRounds`), the composition (`Harness`), the abstract
specifications (`ResidentSet`, `Allocation`), and the proofs of every property of the passing runs but the liveness of `Allocation`.

What could follow:
1. Larger pools for `harness`, where abstract and complete-prefix plans differ by more than a block; the theorems hold for them, the disagreements of section 3 may show others.
2. The remaining three reports of `eval/`, if they come to do more than tabulate.

## 6. Not modelled

- Reports, the ablation tables, regimes, seed export and scripts: they format or serialise what the modelled parts compute, or hold constant data. Of the exports, only the pressure
  decomposition makes a claim about runs, and it is modelled. Regimes are instances of what `MCHarness` enumerates, at another size.
- Labels, reasons, field provenance, token counts (a block count times a constant), scores, the order of rows, and the winner by surface.
- The oracle-leakage audit (`_audit_decision`): it flags non-oracle policies that name oracle fields; none of the repository does.
- The physical blocks of superseded decisions: the code never refreshes them and nothing reads them.
- A pool with no blocks, excluded by `CapacityAssumption`: the first insertion raises. Claim ids used twice in a batch; and custom lists of policies, of which the comparison table of `harness.py` looks up the default names.
- The `declared_value` that a caller may pass to the density gate (`prefill.py:142`): `ByDensity` values the active prefix as it is registered, which is what `prefill` does when no claim is passed to it, and nothing in the repository passes one.
- A claim id that moves to another prefix between batches: `ClaimedPrefix` fixes the prefix of each id. `victim_harm` and `feasible_without_extra_capacity` of an `ArbiterOutcome`, which are only reported.
- Floating-point rounding: densities and values are exact.
- The two rows of the active prefill report that refuse the literal id `bulky`, whatever the scenario: the model gives them the active prefix, which is what the scenario of the repository does.
