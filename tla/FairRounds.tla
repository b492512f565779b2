----------------------------- MODULE FairRounds -----------------------------
(***************************************************************************)
(* CompletePrefixFairSharePolicy.plan_claims (kvrt/policies/fair_share.py), *)
(* turn by turn: the tenants that still compete take turns, and each turn  *)
(* decides one claim.                                                      *)
(***************************************************************************)
EXTENDS ClaimPolicies

CONSTANTS Batches,    \* the batches that may be submitted
          Capacities  \* capacity_blocks of the runtime

ASSUME BatchAssumption ==
  \A b \in Batches : b \in Seq(ClaimType) /\ \A i, j \in DOMAIN b : b[i].id = b[j].id => i = j
ASSUME CapacityAssumption == Capacities \subseteq Nat

VARIABLES
  batch, capacity,  \* the call's arguments
  remaining,        \* blocks not granted yet
  queues,           \* feasible_by_tenant: tenant key -> its claims, best first
  turns,            \* tenant keys still to take their turn in this round
  next,             \* next_tenants
  progressed,       \* whether this round granted anything
  plan,             \* decisions_by_id: the claims decided so far
  done              \* the rounds are over, and so is the call

vars == <<batch, capacity, remaining, queues, turns, next, progressed, plan, done>>

Claims == ToSet(batch)

\* Faulty variant: the claims of a tenant stay in the order of the batch.
Ranked_AsSubmitted(b, t) == SelectSeq(b, LAMBDA c : Viable(c) /\ TenantKey(c) = t)

Ranked(b, t) == Sorted({c \in ToSet(b) : Viable(c) /\ TenantKey(c) = t}, ByTenant)

Keys(b) == {TenantKey(c) : c \in {d \in ToSet(b) : Viable(d)}}

Init ==
  /\ batch \in Batches
  /\ capacity \in Capacities
  /\ remaining = capacity
  /\ queues = [t \in Keys(batch) |-> Ranked(batch, t)]
  /\ turns = Sorted(Keys(batch), <)
  /\ next = << >>
  /\ progressed = FALSE
  /\ plan = [c \in {d \in ToSet(batch) : ~ Viable(d)} |-> TooSmall]
  /\ done = FALSE

\* Decisions are added; a later one for a claim replaces an earlier one.
Decided(claims, decision) ==
  [c \in DOMAIN plan \cup claims |-> IF c \in claims THEN decision ELSE plan[c]]

\* Faulty variant: the blocks are not taken off what remains.
Grant_KeepsBudget(t) ==
  LET c == Head(queues[t])
  IN  /\ c.threshold <= remaining
      /\ queues' = [queues EXCEPT ![t] = Tail(@)]
      /\ progressed' = TRUE
      /\ plan' = Decided({c}, AcceptLeading(c, c.threshold, "complete_prefix_fair_round"))
      /\ next' = IF queues'[t] = << >> THEN next ELSE Append(next, t)
      /\ UNCHANGED remaining

\* Faulty variant: the tenant takes all the turns it can at once.
Grant_AllAtOnce(t) ==
  LET got == Pass(Take, [remaining |-> remaining, taken |-> {}], queues[t])
  IN  /\ Head(queues[t]).threshold <= remaining
      /\ remaining' = got.remaining
      /\ queues' = [queues EXCEPT ![t] = SelectSeq(@, LAMBDA c : c \notin got.taken)]
      /\ progressed' = TRUE
      /\ plan' = [c \in DOMAIN plan \cup got.taken |->
                    IF c \in DOMAIN plan THEN plan[c]
                    ELSE AcceptLeading(c, c.threshold, "complete_prefix_fair_round")]
      /\ next' = IF queues'[t] = << >> THEN next ELSE Append(next, t)

\* The best claim of the tenant fits.
Grant(t) ==
  LET c == Head(queues[t])
  IN  /\ c.threshold <= remaining
      /\ remaining' = remaining - c.threshold
      /\ queues' = [queues EXCEPT ![t] = Tail(@)]
      /\ progressed' = TRUE
      /\ plan' = Decided({c}, AcceptLeading(c, c.threshold, "complete_prefix_fair_round"))
      /\ next' = IF queues'[t] = << >> THEN next ELSE Append(next, t)

\* Faulty variant: only the claim is refused, the tenant stays in.
ShutOut_StaysIn(t) ==
  LET c == Head(queues[t])
  IN  /\ c.threshold > remaining
      /\ plan' = Decided({c}, Refuse("budget_full"))
      /\ queues' = [queues EXCEPT ![t] = Tail(@)]
      /\ next' = IF queues'[t] = << >> THEN next ELSE Append(next, t)
      /\ UNCHANGED <<remaining, progressed>>

\* It does not: it and all the tenant's claims behind it are refused, those
\* that would fit as well.  They stay in the queue.
ShutOut(t) ==
  LET c == Head(queues[t])
  IN  /\ c.threshold > remaining
      /\ plan' = Decided(ToSet(queues[t]), Refuse("budget_full"))
      /\ queues' = [queues EXCEPT ![t] = Tail(@)]
      /\ UNCHANGED <<remaining, progressed, next>>

TakeTurn ==
  /\ ~ done /\ turns # << >>
  /\ turns' = Tail(turns)
  /\ LET t == Head(turns)
     IN  IF queues[t] = << >>
           THEN UNCHANGED <<remaining, queues, next, progressed, plan>>
           ELSE Grant(t) \/ ShutOut(t)
  /\ UNCHANGED <<batch, capacity, done>>

\* Faulty variant: the tenants of the next round are not collected anew.
EndRound_KeepsNext ==
  /\ ~ done /\ turns = << >> /\ progressed /\ next # << >>
  /\ turns' = next
  /\ progressed' = FALSE
  /\ UNCHANGED <<batch, capacity, remaining, queues, next, plan, done>>

EndRound ==
  /\ ~ done /\ turns = << >> /\ progressed /\ next # << >>
  /\ turns' = next
  /\ next' = << >>
  /\ progressed' = FALSE
  /\ UNCHANGED <<batch, capacity, remaining, queues, plan, done>>

\* Nobody is left, or nobody got anything.  Claims that are still queued and
\* have no decision (setdefault) are refused.
Finish ==
  /\ ~ done /\ turns = << >> /\ ~ (progressed /\ next # << >>)
  /\ plan' = Decided((UNION {ToSet(queues[t]) : t \in DOMAIN queues}) \ DOMAIN plan,
                     Refuse("budget_full"))
  /\ done' = TRUE
  /\ UNCHANGED <<batch, capacity, remaining, queues, turns, next, progressed>>

Next == TakeTurn \/ EndRound \/ Finish

\* A call runs on until it returns.
Spec == Init /\ [][Next]_vars /\ WF_vars(Next)
-----------------------------------------------------------------------------
(* Properties.                                                             *)

Granted == {c \in DOMAIN plan : plan[c].reason = "complete_prefix_fair_round"}

GrantedTo(t) == {c \in Granted : TenantKey(c) = t}

\* The tenant still competes: it has a claim that is not decided.
Competes(t) == \E c \in ToSet(queues[t]) : c \notin DOMAIN plan

\* Every variable keeps its type; a granted claim gets its whole threshold.
TypeOK ==
  /\ remaining \in 0 .. capacity
  /\ DOMAIN queues = Keys(batch)
  /\ ToSet(turns) \cup ToSet(next) \subseteq Keys(batch)
  /\ IsInjective(turns \o next)
  /\ progressed \in BOOLEAN /\ done \in BOOLEAN
  /\ DOMAIN plan \subseteq Claims
  /\ \A c \in DOMAIN plan : plan[c].blocks = (IF c \in Granted THEN c.threshold ELSE 0)

\* Rounds are fair: while a tenant competes, no other tenant is more than one
\* grant ahead of it.
NobodyGetsAhead ==
  \A t, u \in DOMAIN queues :
    Competes(t) => Cardinality(GrantedTo(u)) <= Cardinality(GrantedTo(t)) + 1

\* A tenant gets its best claims: no claim of it is granted while one of its
\* claims that ranks before it is refused or waits.
BestClaimsFirst ==
  \A c \in Granted : \A d \in Claims :
    Viable(d) /\ TenantKey(d) = TenantKey(c) /\ ByTenant(d, c) => d \in Granted

\* The rounds implement Allocation: each turn grants a claim that fits what is
\* left, or refuses claims of which one does not; the refusals after the
\* rounds find nobody to refuse; every call returns with all claims decided.
AllocationOfRounds ==
  INSTANCE Allocation WITH Need <- LAMBDA c : c.threshold, claims <- Claims,
                           left <- remaining, granted <- Granted,
                           refused <- DOMAIN plan \ Granted

ImplementsAllocation == AllocationOfRounds!Spec

\* The queues, rounds and turns come to a single pass over all viable claims
\* in the order of their turns.
PlanIsOnePass == done => plan = FairShare(batch, capacity)
=============================================================================
