----------------------------- MODULE ResidentSet -----------------------------
(***************************************************************************)
(* What the runtime of kvrt/runtime.py promises about residency, whatever  *)
(* the claims, the priorities and the order of evictions are: the set of   *)
(* places (prefix id, position) that are held, and how one call may change *)
(* it.  MicroRuntime implements it.                                        *)
(***************************************************************************)
EXTENDS Integers, FiniteSets

CONSTANT Capacity  \* the number of places that can be held

VARIABLES
  held,  \* the places that are held
  size   \* registered prefix ids, with the number of their positions

Leading(p, n) == {<<p, i>> : i \in 0 .. n - 1}

PlacesOf(p) == {x \in held : x[1] = p}

Init ==
  /\ held = {}
  /\ DOMAIN size = {}

\* All that is wanted is held if it fits.  If it does not, the pool is left
\* full, of wanted places, and the last place asked for is among them.
Materialize(kept, p, n) ==
  LET wanted == kept \cup Leading(p, n)
  IN  IF Cardinality(wanted) <= Capacity
        THEN held' = wanted
        ELSE /\ held' \subseteq wanted /\ Cardinality(held') = Capacity
             /\ <<p, n - 1>> \in held'

\* p is registered, anew or with another size; the others stay.
Registers(p) ==
  /\ DOMAIN size' = DOMAIN size \cup {p}
  /\ \A q \in DOMAIN size \ {p} : size'[q] = size[q]

Register(p) == Registers(p) /\ UNCHANGED held

\* Any leading part of p is brought in.
Prefill(p) == UNCHANGED size /\ \E n \in 0 .. size[p] : Materialize(held, p, n)

\* p is dropped and brought in again.
Recompute(p) == UNCHANGED size /\ Materialize(held \ PlacesOf(p), p, size[p])

\* A new prefix is brought in as a whole.
Pressure(p) == p \notin DOMAIN size /\ Registers(p) /\ Materialize(held, p, size'[p])

Clear == held' = {} /\ UNCHANGED size

Next ==
  \/ \E p \in DOMAIN size' : Register(p) \/ Pressure(p)
  \/ \E p \in DOMAIN size : Prefill(p) \/ Recompute(p)
  \/ Clear

Spec == Init /\ [][Next]_<<held, size>>
=============================================================================
