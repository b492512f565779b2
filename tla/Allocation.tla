------------------------------ MODULE Allocation ------------------------------
(***************************************************************************)
(* What any policy that hands out complete prefixes promises about a       *)
(* batch, in whatever order it goes about it: claims are granted one by    *)
(* one from what is left, a refusal has a cause at the moment it is given, *)
(* no decision is withdrawn, and in the end every claim has one.           *)
(* FairRounds implements it.                                               *)
(***************************************************************************)
EXTENDS Naturals

CONSTANT Need(_)  \* the blocks that a claim needs

VARIABLES
  claims,   \* the batch
  left,     \* the blocks not granted yet
  granted,
  refused

vars == <<claims, left, granted, refused>>

Waiting == claims \ (granted \cup refused)

\* Claims that no grant could help are refused from the start.
Init ==
  /\ left \in Nat
  /\ granted = {}
  /\ refused \subseteq claims

Grant(c) ==
  /\ Need(c) <= left
  /\ left' = left - Need(c)
  /\ granted' = granted \cup {c}
  /\ UNCHANGED <<claims, refused>>

\* Some claims are refused together, because one of them does not fit.
Refuse(some) ==
  /\ \E c \in some : Need(c) > left
  /\ refused' = refused \cup some
  /\ UNCHANGED <<claims, left, granted>>

Next ==
  \/ \E c \in Waiting : Grant(c)
  \/ \E some \in SUBSET Waiting : Refuse(some)

Spec == Init /\ [][Next]_vars /\ <>(Waiting = {})
=============================================================================
