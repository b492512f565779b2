------------------------------- MODULE MCPlans -------------------------------
(***************************************************************************)
(* Batches of up to three claims of seven shapes: without value, viable or *)
(* not, with a threshold of 0, declared above and below their worth,       *)
(* with a true value unlike their reuse value.                             *)
(***************************************************************************)
EXTENDS PolicyPlans

Shapes ==
  {[value |-> 1, reuse |-> 1, worth |-> 1, count |-> 1, threshold |-> 1],
   [value |-> 2, reuse |-> 3, worth |-> 3, count |-> 3, threshold |-> 2],
   [value |-> 3, reuse |-> 1, worth |-> 2, count |-> 3, threshold |-> 3],
   [value |-> 3, reuse |-> 3, worth |-> 3, count |-> 2, threshold |-> 1],
   [value |-> 0, reuse |-> 2, worth |-> 2, count |-> 2, threshold |-> 2],
   [value |-> 1, reuse |-> 1, worth |-> 1, count |-> 2, threshold |-> 0],
   [value |-> 2, reuse |-> 2, worth |-> 2, count |-> 2, threshold |-> 3]}

AsClaim(s, i) ==
  [id |-> i, tenant |-> NoTenant, created |-> 0, footprint |-> 2, value |-> s.value,
   reuse |-> s.reuse, worth |-> s.worth, count |-> s.count, threshold |-> s.threshold]

MCBatches == UNION {{[i \in 1 .. n |-> AsClaim(f[i], i)] : f \in [1 .. n -> Shapes]} : n \in 0 .. 3}
=============================================================================
