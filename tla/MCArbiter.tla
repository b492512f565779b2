------------------------------ MODULE MCArbiter ------------------------------
(***************************************************************************)
(* Conflicts for Arbiter: up to 3 protected blocks, pools of up to 4,      *)
(* requests of up to 4 blocks whole, in chunks, or with no chunk at all,   *)
(* and values on both sides of the costs.                                  *)
(***************************************************************************)
EXTENDS Arbiter

Chunkings == {<< >>, <<3>>, <<4>>, <<1, 1>>, <<2, 1>>, <<1, 0, 3>>}

MCPlans ==
  {[total |-> t, chunks |-> s, mode |-> m, window |-> w] :
     t \in {0, 2, 4}, s \in Chunkings, m \in Modes, w \in {NoWindow, 0, 2}}

MCConflicts ==
  [protected : 0 .. 3, plan : {x \in MCPlans : x.mode = "sliding_window" \/ x.window = NoWindow},
   usable : {0, 2, 3, 4}, value : {0, 2}, service : {0, 30}, reuse : {0, 6}]

\* Pools with blocks, requests in full attention.
MCPlainConflicts ==
  {c \in MCConflicts : c.usable > 0 /\ c.plan.total > 0 /\ c.plan.mode = "full_attention"}

\* The defaults of ArbiterCostModel in units of 1/20.
MCCost == [defer |-> 20, steps |-> 1, offloadResident |-> 1, offloadActive |-> 1,
           recompute |-> 2, route |-> 80, extra |-> 4]
=============================================================================
