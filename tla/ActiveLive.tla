------------------------------ MODULE ActiveLive ------------------------------
(***************************************************************************)
(* kvrt/active_live.py: how many blocks an active request keeps live while *)
(* its chunks are processed, and whether that fits beside the protected    *)
(* residents.  Operators only; Arbiter decides with them.                  *)
(***************************************************************************)
EXTENDS Integers, Sequences, FiniteSetsExt, Functions

NoWindow == -1    \* active_window_blocks = None
NotBlocked == 0   \* expected_blocked_step = None

Modes == {"full_attention", "sliding_window", "recompute_free_between_chunks"}

\* An ActiveLiveKVPlan; nothing ties the chunks to the total.
PlanType == [total : Nat, chunks : Seq(Nat), mode : Modes, window : Nat \cup {NoWindow}]

\* itertools.accumulate over the chunks.
Scheduled(plan, i) ==
  LET sum[j \in 0 .. i] == IF j = 0 THEN 0 ELSE sum[j-1] + plan.chunks[j]
  IN  sum[i]

\* Faulty variant: the window is ignored.
Window_Ignored(plan) == plan.total

\* "active_window_blocks or active_total_blocks": a window of no blocks is
\* taken for no window.
Window(plan) == IF plan.window \in {NoWindow, 0} THEN plan.total ELSE plan.window

\* active_live_blocks_by_step
LiveByStep(plan) ==
  [i \in DOMAIN plan.chunks |->
     CASE plan.mode = "full_attention" -> Min({plan.total, Scheduled(plan, i)})
       [] plan.mode = "sliding_window" -> Min({Window(plan), plan.total, Scheduled(plan, i)})
       [] OTHER                        -> Min({plan.total, plan.chunks[i]})]

\* max_active_live_blocks; 0 for a plan without chunks.
MaxLive(plan) == Max({0} \cup Range(LiveByStep(plan)))

\* Faulty variant: a step that fills the headroom is blocked as well.
FirstBlocked_OffByOne(plan, headroom) ==
  LET blocked == {i \in DOMAIN plan.chunks : LiveByStep(plan)[i] >= headroom}
  IN  IF blocked = {} THEN NotBlocked ELSE Min(blocked)

\* _first_blocked_step
FirstBlocked(plan, headroom) ==
  LET blocked == {i \in DOMAIN plan.chunks : LiveByStep(plan)[i] > headroom}
  IN  IF blocked = {} THEN NotBlocked ELSE Min(blocked)

\* Faulty variant: the residents are not counted.
Classify_ActiveOnly(protected, plan, usable) ==
  [protected |-> protected, plan |-> plan, usable |-> usable,
   feasible  |-> MaxLive(plan) <= usable,
   blocked   |-> FirstBlocked(plan, usable - protected)]

\* classify_active_feasibility
Classify(protected, plan, usable) ==
  [protected |-> protected, plan |-> plan, usable |-> usable,
   feasible  |-> protected + MaxLive(plan) <= usable,
   blocked   |-> FirstBlocked(plan, usable - protected)]

\* active_outcome_for_protected_residents
Outcome(f) ==
  CASE f.feasible -> "served"
    [] ~ f.feasible /\ f.blocked # NotBlocked -> "chunk_blocked"
    [] OTHER -> "failed"
=============================================================================
