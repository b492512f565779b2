----------------------------- MODULE PolicyPlans -----------------------------
(***************************************************************************)
(* plan_claims of the policies in ClaimPolicies, on the same batches.  A   *)
(* policy keeps nothing between calls and reads of the runtime only its    *)
(* capacity, so a behaviour is one batch, one policy and its plan.         *)
(***************************************************************************)
EXTENDS ClaimPolicies

CONSTANTS Batches,     \* the batches that may be submitted
          Capacities,  \* capacity_blocks of the runtime
          None        \* no plan yet

ASSUME BatchAssumption ==
  \A b \in Batches : b \in Seq(ClaimType) /\ \A i, j \in DOMAIN b : b[i].id = b[j].id => i = j
ASSUME CapacityAssumption == Capacities \subseteq Nat

VARIABLES batch, capacity,
          policy,   \* the policy that planned
          plan      \* what it answered

vars == <<batch, capacity, policy, plan>>

Init ==
  /\ batch \in Batches
  /\ capacity \in Capacities
  /\ policy = None
  /\ plan = None

Plan(name, answer) ==
  /\ plan = None
  /\ policy' = name
  /\ plan' = answer
  /\ UNCHANGED <<batch, capacity>>

\* NaiveFairShare returns no decisions for no claims, before it divides.
Next ==
  \/ Plan("native", Native(batch))
  \/ Plan("no_refusal_all_claims", NoRefusalAllClaims(batch))
  \/ Plan("naive_fair_share", IF batch = << >> THEN << >> ELSE NaiveFairShare(batch, capacity))
  \/ Plan("value_density", ValueDensity(batch, capacity))
  \/ Plan("complete_prefix_oracle", CompletePrefixOracle(batch, capacity))
  \/ Plan("abstract_block_oracle", AbstractBlockOracle(batch, capacity))

Spec == Init /\ [][Next]_vars
-----------------------------------------------------------------------------
Claims == ToSet(batch)

Blocks(claims) == MapThenSumSet(LAMBDA c : plan[c].blocks, claims)

Taken == {c \in Claims : plan[c].kind \in Accepting}

\* All but native and no_refusal_all_claims grant no more blocks than the
\* runtime has.
WithinCapacity ==
  plan # None /\ policy \notin {"native", "no_refusal_all_claims"} =>
    Blocks(Claims) <= capacity

\* value_density takes a viable claim exactly if it fits beside the claims
\* taken before it in the order of density: a big claim that is passed over
\* does not shut out a smaller one behind it.
DensestThatFit ==
  plan # None /\ policy = "value_density" =>
    \A c \in Claims : Viable(c) /\ c.threshold > 0 =>
      (c \in Taken
         <=> Thresholds({d \in Taken : ByDensity(d, c)}) + c.threshold <= capacity)

\* No set of viable claims that fits is worth more than what the complete
\* prefix oracle takes, thresholds of 0 included.
OracleIsOptimal ==
  plan # None /\ policy = "complete_prefix_oracle" =>
    LET took == {c \in Claims : plan[c].reason = "oracle_complete_prefix"}
    IN  /\ Thresholds(took) <= capacity
        /\ \A s \in SUBSET {c \in Claims : Viable(c)} :
             Thresholds(s) <= capacity => Worth(s) <= Worth(took)

\* The value of a plan's blocks, each worth what reuse of its prefix is
\* worth over block_count: brought to one denominator.
OneDenominator == Pass(LAMBDA n, c : n * AtLeast1(c.count), 1, batch)

AbstractValue(p) ==
  MapThenSumSet(LAMBDA c : c.reuse * p[c].blocks * (OneDenominator \div AtLeast1(c.count)), Claims)

\* The abstract oracle is the upper bound it is meant to be: block for block
\* no plan within capacity has more abstract value.
AbstractOracleIsBound ==
  plan # None /\ policy # "no_refusal_all_claims" =>
    AbstractValue(plan) <= AbstractValue(AbstractBlockOracle(batch, capacity))
=============================================================================
