----------------------------- MODULE MCContract -----------------------------
(***************************************************************************)
(* Three claims on an object of three blocks: its first two blocks, the    *)
(* same two as a range, and its last block.                                *)
(***************************************************************************)
EXTENDS ClaimContract

CONSTANTS k1, k2, k3

MCPredicate ==
  [c \in Claim |->
     CASE c = k1 -> [type |-> "leading_prefix_at_least", start |-> 0, required |-> 2]
       [] c = k2 -> [type |-> "contiguous_range", start |-> 0, required |-> 2]
       [] c = k3 -> [type |-> "contiguous_range", start |-> 2, required |-> 1]]
=============================================================================
