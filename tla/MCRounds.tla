------------------------------ MODULE MCRounds ------------------------------
(***************************************************************************)
(* Batches of up to four claims by tenants 1 and 2 or by none; a claim     *)
(* without a tenant and with the id 1 or 2 joins the tenant of that name.  *)
(***************************************************************************)
EXTENDS FairRounds

Shapes ==
  {[tenant |-> 1, value |-> 1, threshold |-> 1, count |-> 2],
   [tenant |-> 1, value |-> 3, threshold |-> 2, count |-> 2],
   [tenant |-> 2, value |-> 2, threshold |-> 2, count |-> 3],
   [tenant |-> 2, value |-> 1, threshold |-> 0, count |-> 1],
   [tenant |-> NoTenant, value |-> 2, threshold |-> 1, count |-> 1],
   [tenant |-> 1, value |-> 5, threshold |-> 3, count |-> 2]}

AsClaim(s, i) ==
  [id |-> i, tenant |-> s.tenant, created |-> i % 2, footprint |-> s.count, value |-> s.value,
   reuse |-> s.value, worth |-> s.value, count |-> s.count, threshold |-> s.threshold]

MCBatches == UNION {{[i \in 1 .. n |-> AsClaim(f[i], i)] : f \in [1 .. n -> Shapes]} : n \in 0 .. 4}
=============================================================================
