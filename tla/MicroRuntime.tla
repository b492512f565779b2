----------------------------- MODULE MicroRuntime -----------------------------
(***************************************************************************)
(* kvrt/runtime.py: the execution loop.  Each public method of             *)
(* MicroRuntime is one action; the program is sequential, so a method runs *)
(* to its end before the next one starts.  The claim policy is left open:  *)
(* an admission may accept any leading range of the claim's prefix, which  *)
(* covers every policy of kvrt/policies.                                   *)
(***************************************************************************)
EXTENDS BlockCache

CONSTANTS ShapesOf,       \* prefix id -> the shapes it may be registered with
          ClaimedPrefix,  \* claim id -> its prefix_id
          Partials,       \* arguments of PartialCachePrefillPolicy in use
          PressureSizes,  \* arguments of pressure() in use
          MaxStep,        \* bound on the step counter
          Unit            \* values are counted in 1/Unit; a common multiple
                          \* of the block counts

Curves == {"threshold", "linear", "vllm_cached_tokens"}

\* block_count, threshold_blocks, full_reuse_value and partial_reuse_curve of
\* a prefix.
Shape == [count : Nat, threshold : Nat, value : Nat, curve : Curves]

ASSUME ShapeAssumption == ShapesOf \in [Prefix -> SUBSET Shape]
ASSUME ClaimAssumption == ClaimedPrefix \in [Claim -> Prefix]
ASSUME SizeAssumption  == Partials \subseteq Nat /\ PressureSizes \subseteq Nat
ASSUME StepAssumption  == MaxStep \in Nat

VARIABLES
  cache,          \* the pool and its indexes (RuntimeState.blocks, ...)
  step,           \* RuntimeState.step
  prefixes,       \* registered prefixes: prefix id -> shape
  accepted,       \* active_claims with accepted_ranges_by_claim
  decisions,      \* claim id -> its last decision: [blocks, physical]
  runtimeEvents,  \* what the last call appended to runtime_events
  auditEvents     \* what the last call appended to audit_events

vars == <<cache, step, prefixes, accepted, decisions, runtimeEvents, auditEvents>>

Init ==
  /\ cache = EmptyCache
  /\ step = 0
  /\ prefixes = EmptyDict
  /\ accepted = EmptyDict
  /\ decisions = EmptyDict
  /\ runtimeEvents = << >>
  /\ auditEvents = << >>

-----------------------------------------------------------------------------
(* What several methods share.                                             *)

\* Calls that advance the step counter are cut off at MaxStep.
Now == step + 1
NextStep == step < MaxStep /\ step' = Now

\* The cache between calls: the list of events is the caller's now.
Settled(c) == [c EXCEPT !.events = << >>]

\* Faulty variant: the blocks named before are not cleared first.
Refreshed_KeepsOld(c) ==
  [k \in DOMAIN decisions |->
     [decisions[k] EXCEPT !.physical = @ \cup Held(c.protectedByClaim, k)]]

\* _refresh_decision_physical_blocks: the last decision of each claim names
\* the blocks the claim protects.
Refreshed(c) ==
  [k \in DOMAIN decisions |->
     [decisions[k] EXCEPT !.physical = Held(c.protectedByClaim, k)]]

\* value_for_contiguous_blocks
ValueFor(shape, contiguous) ==
  LET n == IF contiguous < shape.count THEN contiguous ELSE shape.count
  IN  CASE shape.curve = "threshold" -> IF n >= shape.threshold THEN Unit * shape.value ELSE 0
        [] shape.curve = "linear"    -> IF shape.count = 0 THEN 0
                                        ELSE shape.value * n * (Unit \div shape.count)
        [] OTHER                     -> Unit * n

Crosses(c, shapes, q) == Contiguous(c, q) >= shapes[q].threshold

AtLeast0(n) == IF n > 0 THEN n ELSE 0

\* Faulty variant: the whole value, and only once the threshold breaks.
ValueLost_OnBreak(q, before, after) ==
  IF Crosses(before, prefixes, q) /\ ~ Crosses(after, prefixes, q)
    THEN Unit * prefixes[q].value ELSE 0

ValueLost(q, before, after) ==
  AtLeast0(ValueFor(prefixes[q], Contiguous(before, q))
             - ValueFor(prefixes[q], Contiguous(after, q)))

\* What the prefixes qs lose between two caches: blocks of their leading
\* spans, and value.
BlocksLost(qs, before, after) ==
  MapThenSumSet(LAMBDA q : AtLeast0(Contiguous(before, q) - Contiguous(after, q)), qs)

TotalValueLost(qs, before, after) ==
  MapThenSumSet(LAMBDA q : ValueLost(q, before, after), qs)

\* _emit_prefill_harm: the loss of the registered prefixes other than p
\* between the cache before the call and the cache after it.
Harm(p, decision, before, after, now) ==
  LET others == DOMAIN prefixes \ {p}
  IN  [event   |-> "prefill_harm", prefix |-> p, decision |-> decision,
       evicted |-> {x \in DOMAIN after.ledger :
                      x[1] \in others /\ after.ledger[x].evicted = now},
       broken  |-> {q \in others : /\ Crosses(before, prefixes, q)
                                   /\ ~ Crosses(after, prefixes, q)},
       moved   |-> {q \in others : Contiguous(after, q) < Contiguous(before, q)},
       cachedBlocksLost |-> BlocksLost(others, before, after),
       netValueDelta    |-> - TotalValueLost(others, before, after)]

\* prefix_position_ledger: one row for each position of the prefix, from the
\* last insertion there and from what is resident now.
PositionLedger(p) ==
  [i \in 0 .. prefixes[p].count - 1 |->
     LET known == <<p, i>> \in DOMAIN cache.ledger
         row   == cache.ledger[<<p, i>>]
     IN  [block     |-> IF known THEN row.block ELSE None,
          protected |-> known /\ row.protected,
          evicted   |-> IF known THEN row.evicted ELSE NoStep,
          survived  |-> i < Contiguous(cache, p) \/ i \in ResidentPositions(cache, p),
          crossed   |-> Crosses(cache, prefixes, p)]]

-----------------------------------------------------------------------------
(* register_prefixes, admit_claims.                                        *)

RegisterPrefix(p, shape) ==
  /\ prefixes' = Put(prefixes, p, shape)
  /\ runtimeEvents' = << >>
  /\ auditEvents' = << >>
  /\ UNCHANGED <<cache, step, accepted, decisions>>

\* admit_claims on one claim, for which the policy accepts the leading n
\* blocks; n = 0 refuses, and leaves an earlier acceptance of k in force.
AdmitClaim(k, n) ==
  LET p == ClaimedPrefix[k]
  IN  /\ p \in DOMAIN prefixes
      /\ n \in 0 .. prefixes[p].count
      /\ IF n = 0
           THEN /\ decisions' = Put(decisions, k, [blocks |-> 0, physical |-> {}])
                /\ UNCHANGED <<cache, accepted>>
           ELSE /\ accepted' = Put(accepted, k, [prefix |-> p, blocks |-> n])
                /\ cache' = ProtectExisting(cache, k, p, n)
                /\ decisions' = Put(decisions, k,
                       [blocks |-> n, physical |-> InRange(cache, p, n)])
      /\ runtimeEvents' = <<[event |-> "claim_decision", claim |-> k, blocks |-> n]>>
      /\ auditEvents' = << >>
      /\ UNCHANGED <<step, prefixes>>

-----------------------------------------------------------------------------
(* prefill, pressure.                                                      *)

\* prefill(p): all blocks of the prefix, at priority 0.
Prefill(p) ==
  /\ p \in DOMAIN prefixes
  /\ NextStep
  /\ LET after == InsertLeading(cache, accepted, p, prefixes[p].count, 0, Now)
     IN  /\ cache' = Settled(after)
         /\ decisions' = Refreshed(after)
         /\ runtimeEvents' = after.events
  /\ auditEvents' = << >>
  /\ UNCHANGED <<prefixes, accepted>>

\* What the policies of kvrt/prefill.py that read nothing of the runtime
\* decide for a prefix of n blocks.
Admissions(n) ==
  {[decision |-> "cache_admit",    blocks |-> n, prio |-> 2],
   [decision |-> "cache_no_admit", blocks |-> 0, prio |-> 0],
   [decision |-> "cache_demote",   blocks |-> n, prio |-> -1]} \cup
  {[decision |-> "cache_partial",  blocks |-> IF m < n THEN m ELSE n, prio |-> 2] :
     m \in Partials}

AtLeast1(n) == IF n > 1 THEN n ELSE 1

\* value per block of the threshold, by cross-multiplication
AtLeastAsDense(a, b) == a.value * AtLeast1(b.threshold) >= b.value * AtLeast1(a.threshold)

\* The prefixes with resident blocks that have reached their threshold, p
\* itself among them.
CrossedResidents ==
  {q \in DOMAIN cache.residentByPrefix \cap DOMAIN prefixes : Crosses(cache, prefixes, q)}

\* ValueDensityPrefillAdmissionPolicy: p is admitted if it is at least as
\* dense as the least dense of them, or if there is none.
ByDensity(p) ==
  IF CrossedResidents = {} \/ \E q \in CrossedResidents : AtLeastAsDense(prefixes[p], prefixes[q])
    THEN [decision |-> "cache_if_value_density", blocks |-> prefixes[p].count, prio |-> 2]
    ELSE [decision |-> "cache_no_admit", blocks |-> 0, prio |-> 0]

ActiveDecisions(p) == Admissions(prefixes[p].count) \cup {ByDensity(p)}

\* prefill(p, active=True) when the active prefill policy decides d.
ActivePrefill(p, d) ==
  /\ p \in DOMAIN prefixes
  /\ d \in ActiveDecisions(p)
  /\ NextStep
  /\ LET announced == <<[event |-> "active_prefill_decision", prefix |-> p,
                         decision |-> d.decision, blocks |-> d.blocks]>>
         after == InsertLeading(cache, accepted, p, d.blocks, d.prio, Now)
     IN  IF d.decision = "cache_no_admit"
           THEN /\ runtimeEvents' = announced
                /\ auditEvents' = <<Harm(p, d.decision, cache, cache, Now)>>
                /\ UNCHANGED <<cache, decisions>>
           ELSE /\ cache' = Settled(after)
                /\ decisions' = Refreshed(after)
                /\ runtimeEvents' = announced \o after.events
                /\ auditEvents' = <<Harm(p, d.decision, cache, after, Now)>>
  /\ UNCHANGED <<prefixes, accepted>>

\* pressure(n): register a fresh prefix of n blocks that can never cross its
\* threshold and is worth nothing, and prefill it.
Pressure(n) ==
  LET p == <<"__pressure__", Now>>
  IN  /\ NextStep
      /\ prefixes' = Put(prefixes, p, [count |-> n, threshold |-> n + 1, value |-> 0,
                                       curve |-> "threshold"])
      /\ LET after == InsertLeading(cache, accepted, p, n, 0, Now)
         IN  /\ cache' = Settled(after)
             /\ decisions' = Refreshed(after)
             /\ runtimeEvents' = after.events
      /\ auditEvents' = << >>
      /\ UNCHANGED accepted

-----------------------------------------------------------------------------
(* return_prefix, reset.                                                   *)

\* return_prefix(p, recompute): the materialization of a recompute returns
\* its events to no one.
ReturnPrefix(p, recompute) ==
  LET contiguous == Contiguous(cache, p)
      total      == TotalSurviving(cache, p)
      crossed    == Crosses(cache, prefixes, p)
  IN  /\ p \in DOMAIN prefixes
      /\ NextStep
      /\ runtimeEvents' = <<[event |-> "return", prefix |-> p,
                             contiguous |-> contiguous, total |-> total,
                             crossed |-> crossed,
                             value |-> ValueFor(prefixes[p], contiguous)]>>
      /\ auditEvents' =
           IF crossed THEN << >>
           ELSE <<[event |-> "failure_label", prefix |-> p,
                   failure |-> IF total > 0 THEN "partial_prefix_waste"
                                            ELSE "underprotection"]>>
      /\ IF recompute
           THEN LET after == InsertLeading(FreeOwn(cache, p, Now), accepted, p,
                                           prefixes[p].count, 0, Now)
                IN  cache' = Settled(after) /\ decisions' = Refreshed(after)
           ELSE UNCHANGED <<cache, decisions>>
      /\ UNCHANGED <<prefixes, accepted>>

\* reset(): a new RuntimeState that keeps the step counter; the registered
\* prefixes stay.
Reset ==
  /\ NextStep
  /\ cache' = EmptyCache
  /\ accepted' = EmptyDict
  /\ decisions' = EmptyDict
  /\ runtimeEvents' = <<[event |-> "reset"]>>
  /\ auditEvents' = << >>
  /\ UNCHANGED prefixes

-----------------------------------------------------------------------------
(* A method that is handed an unregistered prefix id raises KeyError       *)
(* before it changes anything: no action.                                  *)

Next ==
  \/ \E p \in Prefix : \E shape \in ShapesOf[p] : RegisterPrefix(p, shape)
  \/ \E k \in {j \in Claim : ClaimedPrefix[j] \in DOMAIN prefixes} :
       \E n \in 0 .. prefixes[ClaimedPrefix[k]].count : AdmitClaim(k, n)
  \/ \E p \in Prefix \cap DOMAIN prefixes :
       \/ Prefill(p)
       \/ \E d \in ActiveDecisions(p) : ActivePrefill(p, d)
       \/ \E recompute \in BOOLEAN : ReturnPrefix(p, recompute)
  \/ \E n \in PressureSizes : Pressure(n)
  \/ Reset

Spec == Init /\ [][Next]_vars
-----------------------------------------------------------------------------
(* Properties.                                                             *)

\* Every variable keeps its type, events and audit rows apart.
TypeOK ==
  /\ CacheType(cache) /\ cache.events = << >>
  /\ step \in 0 .. MaxStep
  /\ IsDict(prefixes, PrefixId, Shape)
  /\ IsDict(accepted, Claim, [prefix : Prefix, blocks : Nat])
  /\ IsDict(decisions, Claim, [blocks : Nat, physical : SUBSET BlockId])

\* No sequence of calls makes validate_state raise.
NeverRaises == ValidState(cache)

\* What validate_state does not look at: protected_by_claim is exactly the
\* annotation kept on the blocks, and no block is free twice.
IndexesExact ==
  /\ \A k \in Claim :
       Held(cache.protectedByClaim, k) = {b \in BlockId : k \in cache.blocks[b].claims}
  /\ {} \notin Range(cache.protectedByClaim)
  /\ IsInjective(cache.freeBlocks)

\* free_queue lists the resident blocks once each, oldest first.
QueueListsResidents ==
  /\ IsInjective(cache.freeQueue)
  /\ ToSet(cache.freeQueue) = Resident(cache)
  /\ \A i, j \in DOMAIN cache.freeQueue : i < j =>
       cache.blocks[cache.freeQueue[i]].touched <= cache.blocks[cache.freeQueue[j]].touched

\* No position of a prefix is held by two blocks.
OneBlockPerPosition ==
  \A a, b \in Resident(cache) : Place(cache, a) = Place(cache, b) => a = b

\* Whatever the order of admissions and insertions, a resident block inside
\* an accepted range carries the claim and ranks as protected.
AcceptedRangesProtected ==
  \A b \in Resident(cache) : \A k \in DOMAIN accepted :
    accepted[k].prefix = cache.blocks[b].owner /\ cache.blocks[b].pos < accepted[k].blocks
      => k \in cache.blocks[b].claims /\ cache.blocks[b].prio >= 1

\* The position ledger of a prefix tells the truth about every position: it
\* survived exactly if some insertion filled it and no eviction is recorded
\* since; then the block it names is the one that holds the position, and a
\* protected row still has a claim behind it.
LedgerAgrees ==
  \A p \in DOMAIN prefixes : \A i \in DOMAIN PositionLedger(p) :
    LET row == PositionLedger(p)[i]
    IN  /\ row.survived <=> row.block # None /\ row.evicted = NoStep
        /\ row.survived =>
             /\ row.block \in Resident(cache) /\ Place(cache, row.block) = <<p, i>>
             /\ row.protected => cache.blocks[row.block].claims # {}

\* A claim's last decision names only blocks that the claim protects now.
DecisionsFresh ==
  \A k \in DOMAIN decisions :
    decisions[k].physical \subseteq Held(cache.protectedByClaim, k)

\* A harm report that says a threshold broke also says which eviction broke
\* it: the position that is now first missing, and lies below the threshold.
HarmNamesTheBreak ==
  \A i \in DOMAIN auditEvents : auditEvents[i].event = "prefill_harm" =>
    \A q \in auditEvents[i].broken :
      /\ q \in auditEvents[i].moved
      /\ <<q, Contiguous(cache, q)>> \in auditEvents[i].evicted
      /\ Contiguous(cache, q) < prefixes[q].threshold
-----------------------------------------------------------------------------
(* Action properties.  "Untouched" blocks hold after the step what they    *)
(* held before it; the others were evicted or freed in between.            *)

Untouched(b) ==
  /\ Place(cache, b)' = Place(cache, b)
  /\ cache'.blocks[b].touched = cache.blocks[b].touched

Lost == {b \in Resident(cache) : ~ Untouched(b)}

Unclaimed(p) == \A k \in DOMAIN accepted : accepted[k].prefix # p

FullyResident(c, p) == Contiguous(c, p) >= prefixes[p].count

\* Within one call, no block is sacrificed before a block with a smaller
\* eviction key: every block that outlives the call outranks every block
\* that was evicted to make room in it.
EvictionRespectsRank ==
  [][(\E p \in DOMAIN prefixes :
        Prefill(p) \/ \E d \in ActiveDecisions(p) : ActivePrefill(p, d))
      \/ (\E n \in PressureSizes : Pressure(n))
     => \A b \in Lost : \A a \in Resident(cache) \ Lost : EvictsBefore(cache, b, a)]_vars

\* Unclaimed blocks that enter at a priority evict at most one block that
\* ranks above it, however many of them there are: the second one evicts the
\* first.  So pressure costs the protected set one block at most.
LowPriorityYields ==
  [][/\ (\E n \in PressureSizes : Pressure(n)) =>
          Cardinality({b \in Lost : cache.blocks[b].prio > 0}) <= 1
     /\ \A p \in DOMAIN prefixes : Unclaimed(p) =>
          /\ Prefill(p) => Cardinality({b \in Lost : cache.blocks[b].prio > 0}) <= 1
          /\ \A d \in ActiveDecisions(p) : ActivePrefill(p, d) =>
               Cardinality({b \in Lost : cache.blocks[b].prio > d.prio}) <= 1]_vars

\* A prefix that is recomputed, or prefilled when none of it is resident,
\* ends up resident in full if it fits beside the blocks of others that rank
\* above priority 0: it never evicts itself while older blocks remain.
FreshInsertionIsComplete ==
  [][\A p \in DOMAIN prefixes :
       /\ ReturnPrefix(p, TRUE) \/ (Prefill(p) /\ ResidentPositions(cache, p) = {})
       /\ prefixes[p].count + Cardinality({b \in Resident(cache) :
              cache.blocks[b].owner # p /\ cache.blocks[b].prio > 0}) <= Capacity
       => FullyResident(cache', p)]_vars

\* The residency: which block holds which position.
Residency(c) == {<<b, c.blocks[b].owner, c.blocks[b].pos>> : b \in Resident(c)}

\* What an event says has become of it; the others say nothing.
Applied(e, held) ==
  CASE e.event = "insert" -> held \cup {<<e.block, e.prefix, e.pos>>}
    [] e.event = "evict"  -> held \ {<<e.block, e.prefix, e.pos>>}
    [] e.event = "reset"  -> {}
    [] OTHER -> held

Replay(events, before) ==
  LET held[i \in 0 .. Len(events)] ==
        IF i = 0 THEN before ELSE Applied(events[i], held[i-1])
  IN  held[Len(events)]

\* runtime_events is a faithful history: replaying what a call appended on
\* the residency before it gives the residency after it.  (A recompute is
\* the exception, see ConflictObservable.)
EventsReplay ==
  [][(~ \E p \in DOMAIN prefixes : ReturnPrefix(p, TRUE))
     => Residency(cache') = Replay(runtimeEvents', Residency(cache))]_vars

\* The runtime implements ResidentSet: what is resident never depends on the
\* claims beyond which places are given up, blocks are evicted only when the
\* pool is full, and a call that evicts leaves it full.
BlockCounts == [p \in DOMAIN prefixes |-> prefixes[p].count]

Residents == INSTANCE ResidentSet WITH held <- HeldPlaces(cache), size <- BlockCounts

ImplementsResidentSet == Residents!Spec

\* The README: when protected KV and live KV cannot both fit, "the runtime
\* must make the conflict observable instead of hiding it inside ordinary
\* cache eviction".  Every protected block another prefix loses is the block
\* of an evict event.
ConflictObservable ==
  [][\A p \in DOMAIN prefixes, recompute \in BOOLEAN :
       Prefill(p) \/ ReturnPrefix(p, recompute) =>
         \A b \in Lost : cache.blocks[b].owner # p /\ cache.blocks[b].claims # {} =>
           \E i \in DOMAIN runtimeEvents' :
             runtimeEvents'[i].event = "evict" /\ runtimeEvents'[i].block = b]_vars

\* The docstring of materialize_prefix: "Insert a full prefix into the cache,
\* evicting as needed."  With nothing protected or admitted by a live
\* prefill, and a pool that is large enough, a prefill leaves it resident.
PrefillInsertsFullPrefix ==
  [][\A p \in DOMAIN prefixes :
       Prefill(p) /\ prefixes[p].count <= Capacity
         /\ (\A b \in BlockId : cache.blocks[b].prio = 0)
       => FullyResident(cache', p)]_vars

\* ValueDensityPrefillAdmissionPolicy: "Admit active prefill only when it beats
\* likely resident victim density", and the reason it gives is
\* "active_density_beats_resident_victims".  A prefix it admits, that was not
\* resident before, breaks no threshold of a denser prefix.
AdmittedBeatsVictims ==
  [][\A p \in DOMAIN prefixes : \A d \in ActiveDecisions(p) :
       ActivePrefill(p, d) /\ d.decision = "cache_if_value_density"
         /\ ResidentPositions(cache, p) = {}
       => \A i \in DOMAIN auditEvents' : \A q \in auditEvents'[i].broken :
            AtLeastAsDense(prefixes[p], prefixes[q])]_vars
=============================================================================
