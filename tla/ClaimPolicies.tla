---------------------------- MODULE ClaimPolicies ----------------------------
(***************************************************************************)
(* kvrt/policies: what each policy answers to a batch of claims.  A batch  *)
(* is a sequence of claims with different ids; a claim carries the shape   *)
(* of its prefix.  A plan maps each claim of the batch to its decision.    *)
(* Ids and tenants are numbers in the order of the strings they stand for; *)
(* densities are compared by cross-multiplication.  The rounds by which    *)
(* the complete-prefix fair share gets at its plan are in FairRounds.      *)
(***************************************************************************)
EXTENDS Integers, SequencesExt

NoTenant == 0

\* value is declared by the claim, reuse is the full reuse value of its prefix;
\* worth is what the complete prefix oracle goes by: the true value if it is
\* told one, or else reuse.
ClaimType == [id : Nat \ {0}, tenant : Nat, created : Nat, value : Nat, reuse : Nat, worth : Nat,
              footprint : Nat, count : Nat, threshold : Nat]

Accepting == {"accept", "partial_accept"}
Kinds     == Accepting \cup {"refuse", "fallback_native"}

AtLeast1(n) == IF n > 1 THEN n ELSE 1

-----------------------------------------------------------------------------
(* Loops.  (SetToSortSeq and FoldLeft, in a form that proofs can expand.)  *)

\* sorted(S): the i-th element is the one that i - 1 others come before.
Sorted(S, before(_, _)) ==
  [i \in 1 .. Cardinality(S) |-> CHOOSE c \in S : Cardinality({d \in S : before(d, c)}) = i - 1]

\* What a loop over the sequence makes of start, one element at a time.
Pass(turn(_, _), start, seq) ==
  LET after[i \in 0 .. Len(seq)] == IF i = 0 THEN start ELSE turn(after[i-1], seq[i])
  IN  after[Len(seq)]

-----------------------------------------------------------------------------
(* policies/base.py                                                        *)

Refuse(reason) == [kind |-> "refuse", blocks |-> 0, reason |-> reason]

FallbackNative == [Refuse("native_fallback") EXCEPT !.kind = "fallback_native"]

\* accept_leading: as many of n blocks as the prefix has.
AcceptLeading(c, n, reason) ==
  LET blocks == Min({n, c.count})
  IN  [kind   |-> CASE blocks = 0 -> "refuse"
                    [] blocks > 0 /\ blocks >= c.footprint -> "accept"
                    [] OTHER -> "partial_accept",
       blocks |-> blocks, reason |-> reason]

\* A threshold above the block count can never be reached.
Viable(c) == c.threshold <= c.count

TooSmall == Refuse("below_minimum_viable_footprint")

Denser(c, d) == c.value * AtLeast1(d.threshold) > d.value * AtLeast1(c.threshold)

ByDensity(c, d) == Denser(c, d) \/ (~ Denser(d, c) /\ c.id < d.id)

Thresholds(claims) == MapThenSumSet(LAMBDA c : c.threshold, claims)
Worth(claims)      == MapThenSumSet(LAMBDA c : c.worth, claims)
Counts(claims)     == MapThenSumSet(LAMBDA c : c.count, claims)

-----------------------------------------------------------------------------
(* native.py, all_claims.py, NaiveFairSharePolicy                          *)

Native(batch) == [c \in ToSet(batch) |-> FallbackNative]

NoRefusalAllClaims(batch) ==
  [c \in ToSet(batch) |-> AcceptLeading(c, Min({c.footprint, c.count}), "no_refusal")]

\* Faulty variant: the share is rounded up.
Share_RoundedUp(batch, capacity) == (capacity + Len(batch) - 1) \div Len(batch)

Share(batch, capacity) == capacity \div Len(batch)

NaiveFairShare(batch, capacity) ==
  [c \in ToSet(batch) |->
     AcceptLeading(c, Min({Share(batch, capacity), c.footprint, c.count}), "equal_share")]

-----------------------------------------------------------------------------
(* value_density.py                                                        *)

\* Faulty variant: the first claim that does not fit ends the round.
Take_StopsAtMiss(got, c) ==
  IF c.threshold <= got.remaining
    THEN [remaining |-> got.remaining - c.threshold, taken |-> got.taken \cup {c}]
    ELSE [got EXCEPT !.remaining = -1]

Take(got, c) ==
  IF c.threshold <= got.remaining
    THEN [remaining |-> got.remaining - c.threshold, taken |-> got.taken \cup {c}]
    ELSE got

\* The viable claims by density, each taken if it fits into what is left.
ValueDensity(batch, capacity) ==
  LET ranked == Sorted({c \in ToSet(batch) : Viable(c)}, ByDensity)
      taken  == Pass(Take, [remaining |-> capacity, taken |-> {}], ranked).taken
  IN  [c \in ToSet(batch) |->
         CASE ~ Viable(c)  -> TooSmall
           [] c \in taken  -> AcceptLeading(c, c.threshold, "value_density")
           [] OTHER        -> Refuse("budget_full")]

-----------------------------------------------------------------------------
(* CompletePrefixFairSharePolicy                                           *)

\* tenant_id or claim_id: a claim without a tenant is its own tenant, under
\* a name that a tenant may have too.
TenantKey(c) == IF c.tenant = NoTenant THEN c.id ELSE c.tenant

ByTenant(c, d) ==
  \/ Denser(c, d)
  \/ /\ ~ Denser(d, c)
     /\ c.created < d.created \/ (c.created = d.created /\ c.id < d.id)

\* The turn in which c is decided: its rank among its tenant's claims.
Turn(batch, c) ==
  Cardinality({d \in ToSet(batch) : Viable(d) /\ TenantKey(d) = TenantKey(c) /\ ByTenant(d, c)})

\* A claim that does not fit shuts out its tenant.
TakeOrShutOut(got, c) ==
  IF TenantKey(c) \in got.out THEN got
  ELSE IF c.threshold <= got.remaining
    THEN [got EXCEPT !.remaining = @ - c.threshold, !.taken = @ \cup {c}]
    ELSE [got EXCEPT !.out = @ \cup {TenantKey(c)}]

\* The viable claims, first those of the first turn in the order of their
\* tenants, and so on.
FairShare(batch, capacity) ==
  LET earlier(c, d) == \/ Turn(batch, c) < Turn(batch, d)
                       \/ Turn(batch, c) = Turn(batch, d) /\ TenantKey(c) < TenantKey(d)
      ranked == Sorted({c \in ToSet(batch) : Viable(c)}, earlier)
      taken  == Pass(TakeOrShutOut,
                     [remaining |-> capacity, taken |-> {}, out |-> {}], ranked).taken
  IN  [c \in ToSet(batch) |->
         CASE ~ Viable(c) -> TooSmall
           [] c \in taken -> AcceptLeading(c, c.threshold, "complete_prefix_fair_round")
           [] OTHER       -> Refuse("budget_full")]

-----------------------------------------------------------------------------
(* oracle.py                                                               *)

\* The viable claims, as submitted.
Candidates(batch) ==
  Pass(LAMBDA found, c : IF Viable(c) THEN Append(found, c) ELSE found, << >>, batch)

\* 1 << n
TwoTo[n \in Nat] == IF n = 0 THEN 1 ELSE 2 * TwoTo[n-1]

\* The candidates of a mask: bit i-1 selects the i-th.
Chosen(candidates, mask) ==
  {candidates[i] : i \in {j \in DOMAIN candidates : (mask \div TwoTo[j-1]) % 2 = 1}}

\* Faulty variant: the mask of all candidates is left out.
Masks_AllButLast(candidates) == [i \in 1 .. TwoTo[Len(candidates)] - 1 |-> i - 1]

Masks(candidates) == [i \in 1 .. TwoTo[Len(candidates)] |-> i - 1]

\* A mask that fits replaces the best so far if it is worth more.
TryMask(candidates, capacity, best, mask) ==
  LET chosen == Chosen(candidates, mask)
  IN  IF Thresholds(chosen) <= capacity /\ Worth(chosen) > best.worth
        THEN [worth |-> Worth(chosen), mask |-> mask]
        ELSE best

\* The first mask of the greatest worth among those that fit.
BestMask(candidates, capacity) ==
  Pass(LAMBDA best, mask : TryMask(candidates, capacity, best, mask),
       [worth |-> -1, mask |-> 0], Masks(candidates)).mask

CompletePrefixOracle(batch, capacity) ==
  LET selected == Chosen(Candidates(batch), BestMask(Candidates(batch), capacity))
  IN  [c \in ToSet(batch) |->
         IF c \in selected THEN AcceptLeading(c, c.threshold, "oracle_complete_prefix")
                           ELSE Refuse("oracle_not_selected")]

\* Faulty variant: value per block of the threshold.
ByBlockValue_OfThreshold(c, d) ==
  LET left == c.reuse * AtLeast1(d.threshold)
      right == d.reuse * AtLeast1(c.threshold)
  IN  left > right \/ (left = right /\ c.id < d.id)

ByBlockValue(c, d) ==
  LET left == c.reuse * AtLeast1(d.count)
      right == d.reuse * AtLeast1(c.count)
  IN  left > right \/ (left = right /\ c.id < d.id)

\* AbstractBlockOraclePolicy: blocks by reuse value per block, no thresholds.  What
\* is left for a claim is what those before it do not fill.
AbstractBlockOracle(batch, capacity) ==
  LET before(c) == {d \in ToSet(batch) : ByBlockValue(d, c)}
      left(c)   == capacity - Counts(before(c))
      blocks(c) == IF left(c) > 0 THEN Min({c.count, left(c)}) ELSE 0
  IN  [c \in ToSet(batch) |->
         IF blocks(c) > 0 THEN AcceptLeading(c, blocks(c), "oracle_abstract_block_value")
                          ELSE Refuse("oracle_not_selected")]
=============================================================================
