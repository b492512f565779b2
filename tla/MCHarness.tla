------------------------------ MODULE MCHarness ------------------------------
(***************************************************************************)
(* Experiments on up to three prefixes of seven kinds, in both orders of   *)
(* their ids, with a pool of four blocks.                                  *)
(***************************************************************************)
EXTENDS Harness

CONSTANTS p1, p2, p3

MCClaimedPrefix == [k \in Claim |-> CASE k = 1 -> p1 [] k = 2 -> p2 [] k = 3 -> p3]

MCShapesOf == [p \in Prefix |-> {}]  \* the experiments make the shapes

Rule(name, value) == [name |-> name, value |-> value, tenants |-> << >>]

Kind(count, useful, rule, value, curve, tenant) ==
  [count |-> count, useful |-> useful, rule |-> rule, value |-> value, curve |-> curve,
   tenant |-> tenant]

\* Tenants 11 and 12, their ids after those of all claims; 0 for none.
Kinds ==
  {Kind(2, 1, Rule("full_prefix", None), 3, "threshold", 11),
   Kind(3, 2, Rule("fixed_blocks", None), 2, "threshold", 12),
   Kind(4, 4, Rule("fraction", <<2, 5>>), 4, "threshold", 11),
   Kind(1, 1, [Rule("tenant_sla", None) EXCEPT !.tenants = 11 :> -1], 1, "threshold", 11),
   Kind(2, 3, Rule("latency_value", None), 5, "threshold", 0),
   Kind(3, 1, Rule("fraction", None), 3, "linear", 12),
   Kind(2, 1, Rule("tenant_sla", None), 2, "vllm_cached_tokens", 0)}

Orders == {<<1, 2>>, <<2, 1>>, <<1, 2, 3>>, <<3, 2, 1>>}

MCExperiments ==
  UNION {[order : {order}, of : [ToSet(order) -> Kinds], pressure : {0, 1, 3}, active : {FALSE}]
         : order \in Orders}
  \cup
  UNION {[order : {order}, of : [ToSet(order) -> Kinds], pressure : {0}, active : {TRUE}]
         : order \in Orders}
=============================================================================
