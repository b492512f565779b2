------------------------------ MODULE MCRuntime ------------------------------
(***************************************************************************)
(* Instances of MicroRuntime for TLC: prefix p1 has 2 blocks, p2 has 3, both *)
(* become useful at 2; the claims are on p1.                                *)
(***************************************************************************)
EXTENDS MicroRuntime

CONSTANTS p1, p2

MCShapesOf ==
  [x \in Prefix |-> {IF x = p1 THEN [count |-> 2, threshold |-> 2, value |-> 2, curve |-> "threshold"]
                     ELSE [count |-> 3, threshold |-> 2, value |-> 1, curve |-> "threshold"]}]

\* p1 is also registered with one block more.
MCResized ==
  [x \in Prefix |-> {[count |-> n, threshold |-> 2, value |-> 1, curve |-> "threshold"] :
                       n \in IF x = p1 THEN {2, 3} ELSE {3}}]

\* Three prefixes of one block and different density: p1, p3, p2.
MCDensities ==
  [x \in Prefix |-> {CASE x = p1 -> [count |-> 1, threshold |-> 1, value |-> 3, curve |-> "threshold"]
                       [] x = p2 -> [count |-> 1, threshold |-> 1, value |-> 1, curve |-> "threshold"]
                       [] OTHER  -> [count |-> 1, threshold |-> 1, value |-> 2, curve |-> "threshold"]}]

MCClaimedPrefix == [k \in Claim |-> p1]
=============================================================================
