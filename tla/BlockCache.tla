------------------------------ MODULE BlockCache ------------------------------
(***************************************************************************)
(* The block cache of kvrt/cache.py: a finite pool of physical blocks that *)
(* hold positions of logical prefixes, the indexes kept beside them, and   *)
(* the operations the runtime composes.  A cache is a record; an operation *)
(* is an operator from caches to caches.                                   *)
(*                                                                         *)
(*   blocks            block id -> what it holds                           *)
(*   freeBlocks        deque of free block ids, popped from the left       *)
(*   freeQueue         resident block ids, in order of insertion           *)
(*   residentByPrefix  dict: prefix id -> the blocks that hold it          *)
(*   protectedByClaim  dict: claim id  -> the blocks it protects           *)
(*   ledger            dict: <<prefix id, position>> -> its last insertion *)
(*   events            the list one materialize_prefix call returns; empty *)
(*                     between calls                                       *)
(*                                                                         *)
(* A dict is a function whose domain is the set of keys present.           *)
(***************************************************************************)
EXTENDS Integers, SequencesExt

CONSTANTS Capacity,  \* capacity_blocks
          Prefix,    \* prefix ids the callers register
          Claim,     \* residency claim ids
          None       \* Python's None

\* Ids made by MicroRuntime.pressure: one per step.
PressureId == {"__pressure__"} \X Nat
PrefixId == Prefix \cup PressureId
BlockId == 0 .. Capacity - 1

ASSUME CapacityAssumption == Capacity \in Nat \ {0}
ASSUME IdAssumption == None \notin PrefixId \cup BlockId /\ Prefix \cap PressureId = {}

NoPosition == -1     \* position_in_prefix is None
NoStep == -1         \* evicted_step is None

-----------------------------------------------------------------------------
(* Dictionaries of block sets.                                             *)

EmptyDict == [k \in {} |-> {}]

\* d[k] = v
Put(d, k, v) == [j \in DOMAIN d \cup {k} |-> IF j = k THEN v ELSE d[j]]

IsDict(d, K, V) == DOMAIN d \subseteq K /\ d \in [DOMAIN d -> V]

\* d.get(k, set())
Held(d, k) == IF k \in DOMAIN d THEN d[k] ELSE {}

\* d.setdefault(k, set()).add(b), for each key of ks
AddBlock(d, ks, b) ==
  [k \in ks \cup DOMAIN d |-> IF k \in ks THEN Held(d, k) \cup {b} ELSE d[k]]

\* Faulty variant: keys left with no block stay.
DiscardBlock_KeepsEmptyKeys(d, ks, b) ==
  [k \in DOMAIN d |-> IF k \in ks THEN d[k] \ {b} ELSE d[k]]

\* discard b under each key of ks and delete the keys left with no block
DiscardBlock(d, ks, b) ==
  [k \in {j \in DOMAIN d : j \in ks => d[j] \ {b} # {}} |->
     IF k \in ks THEN d[k] \ {b} ELSE d[k]]

-----------------------------------------------------------------------------
(* Blocks.                                                                 *)

\* Block.clear
Cleared(step) ==
  [state |-> "free", owner |-> None, pos |-> NoPosition, touched |-> step,
   claims |-> {}, prio |-> 0]

EmptyCache ==
  [blocks           |-> [b \in BlockId |-> Cleared(0)],
   freeBlocks       |-> [i \in 1 .. Capacity |-> i - 1],
   freeQueue        |-> << >>,
   residentByPrefix |-> EmptyDict,
   protectedByClaim |-> EmptyDict,
   ledger           |-> EmptyDict,
   events           |-> << >>]

BlockType ==
  [state : {"free", "resident"}, owner : PrefixId \cup {None},
   pos : Nat \cup {NoPosition}, touched : Nat, claims : SUBSET Claim,
   prio : {-1, 0, 1, 2}]

RowType ==
  [block : BlockId, protected : BOOLEAN, inserted : Nat, evicted : Nat \cup {NoStep}]

CacheType(c) ==
  /\ DOMAIN c = DOMAIN EmptyCache
  /\ c.blocks \in [BlockId -> BlockType]
  /\ c.freeBlocks \in Seq(BlockId) /\ c.freeQueue \in Seq(BlockId)
  /\ IsDict(c.residentByPrefix, PrefixId, SUBSET BlockId)
  /\ IsDict(c.protectedByClaim, Claim, SUBSET BlockId)
  /\ IsDict(c.ledger, PrefixId \X Nat, RowType)

Resident(c) == {b \in BlockId : c.blocks[b].state = "resident"}

\* Where a resident block sits: its key in the ledger.
Place(c, b) == <<c.blocks[b].owner, c.blocks[b].pos>>

HeldPlaces(c) == {Place(c, b) : b \in Resident(c)}

ResidentPositions(c, p) == {c.blocks[b].pos : b \in Held(c.residentByPrefix, p)}

\* Faulty variant: counts the scattered blocks too.
Contiguous_CountsScattered(c, p) == Cardinality(ResidentPositions(c, p))

\* contiguous_surviving_blocks: the length of the leading resident span.
Contiguous(c, p) ==
  LET held == ResidentPositions(c, p)
  IN  CHOOSE n \in 0 .. Capacity : n \notin held /\ 0 .. n-1 \subseteq held

TotalSurviving(c, p) == Cardinality(ResidentPositions(c, p))

-----------------------------------------------------------------------------
(* Eviction.                                                               *)

\* Faulty variant: the block stays in free_queue.
FreeBlock_LeavesQueue(c, b, step) ==
  [c EXCEPT
    !.residentByPrefix = DiscardBlock(@, {c.blocks[b].owner}, b),
    !.protectedByClaim = DiscardBlock(@, c.blocks[b].claims, b),
    !.blocks           = [@ EXCEPT ![b] = Cleared(step)],
    !.freeBlocks       = Append(@, b)]

FreeBlock(c, b, step) ==
  LET block == c.blocks[b]
  IN  [c EXCEPT
        !.residentByPrefix = IF block.state = "resident"
                               THEN DiscardBlock(@, {block.owner}, b) ELSE @,
        !.protectedByClaim = DiscardBlock(@, block.claims, b),
        !.freeQueue  = RemoveFirst(@, b),
        !.blocks     = [@ EXCEPT ![b] = Cleared(step)],
        !.freeBlocks = IF b \in ToSet(@) THEN @ ELSE Append(@, b)]

\* Faulty variants: age alone; the youngest first.
EvictsBefore_ByAge(c, a, b) ==
  (c.blocks[a].touched * Capacity) + a < (c.blocks[b].touched * Capacity) + b

EvictsBefore_YoungestFirst(c, a, b) ==
  LET x == c.blocks[a]
      y == c.blocks[b]
  IN  \/ x.prio < y.prio
      \/ x.prio = y.prio /\ x.touched > y.touched
      \/ x.prio = y.prio /\ x.touched = y.touched /\ a < b

\* The order of NativePolicy.eviction_key on two blocks: the least key goes.
EvictsBefore(c, a, b) ==
  LET x == c.blocks[a]
      y == c.blocks[b]
  IN  \/ x.prio < y.prio
      \/ x.prio = y.prio /\ x.touched < y.touched
      \/ x.prio = y.prio /\ x.touched = y.touched /\ a < b

\* Faulty variant: the oldest inserted block, whatever its priority.
Victim_QueueHead(c) == Head(c.freeQueue)

Victim(c) ==
  CHOOSE b \in Resident(c) : \A o \in Resident(c) \ {b} : EvictsBefore(c, b, o)

EvictEvent(c, b) ==
  [event |-> "evict", block |-> b, prefix |-> c.blocks[b].owner,
   pos |-> c.blocks[b].pos, claims |-> c.blocks[b].claims]

\* Faulty variant: the block is cleared before its owner is read.
EvictOne_FreesFirst(c, step) ==
  LET b     == Victim(c)
      freed == FreeBlock(c, b, step)
  IN  [freed EXCEPT
        !.ledger = [k \in DOMAIN @ |->
                      IF k = Place(freed, b) THEN [@[k] EXCEPT !.evicted = step]
                                             ELSE @[k]],
        !.events = Append(@, EvictEvent(freed, b))]

EvictOne(c, step) ==
  LET b == Victim(c)
  IN  [FreeBlock(c, b, step) EXCEPT
        !.ledger = [k \in DOMAIN @ |->
                      IF k = Place(c, b) THEN [@[k] EXCEPT !.evicted = step]
                                         ELSE @[k]],
        !.events = Append(@, EvictEvent(c, b))]

-----------------------------------------------------------------------------
(* Materialization.  "accepted" is the runtime's dict of active claims:    *)
(* claim id -> [prefix, blocks], the claim's prefix and the length of the  *)
(* leading range accepted for it.                                          *)

\* Faulty variant: ranges read as (0, blocks].
ClaimIdsFor_OffByOne(accepted, p, i) ==
  {k \in DOMAIN accepted : accepted[k].prefix = p /\ i \in 1 .. accepted[k].blocks}

ClaimIdsFor(accepted, p, i) ==
  {k \in DOMAIN accepted : accepted[k].prefix = p /\ i < accepted[k].blocks}

\* Faulty variant: the last free block is kept in reserve.
MakeRoom_KeepsReserve(c, step) ==
  IF Len(c.freeBlocks) <= 1 /\ Resident(c) # {} THEN EvictOne(c, step) ELSE c

\* _allocate_free_block, without the popleft: some block is free.
MakeRoom(c, step) == IF c.freeBlocks = << >> THEN EvictOne(c, step) ELSE c

\* Faulty variant: a claim adds to the priority instead of setting it.
Entry_RaisesPriority(p, i, ks, prio, step) ==
  [state |-> "resident", owner |-> p, pos |-> i, touched |-> step,
   claims |-> ks, prio |-> IF ks # {} THEN prio + 1 ELSE prio]

\* A block that is filled; claimed positions enter at priority 1.
Entry(p, i, ks, prio, step) ==
  [state |-> "resident", owner |-> p, pos |-> i, touched |-> step,
   claims |-> ks, prio |-> IF ks # {} THEN 1 ELSE prio]

\* The body of the loop of materialize_prefix once a block is free.
Fill(c, accepted, p, i, prio, step) ==
  LET b  == Head(c.freeBlocks)
      ks == ClaimIdsFor(accepted, p, i)
  IN  [c EXCEPT
        !.freeBlocks = Tail(@),
        !.blocks = [@ EXCEPT ![b] = Entry(p, i, ks, prio, step)],
        !.residentByPrefix = AddBlock(@, {p}, b),
        !.protectedByClaim = AddBlock(@, ks, b),
        !.freeQueue = Append(@, b),
        !.ledger = Put(@, <<p, i>>, [block |-> b, protected |-> ks # {},
                                     inserted |-> step, evicted |-> NoStep]),
        !.events = Append(@, [event |-> "insert", block |-> b, prefix |-> p,
                              pos |-> i, claims |-> ks])]

\* Faulty variant: a resident position is inserted again.
InsertPosition_NoHits(c, accepted, p, i, prio, step) ==
  Fill(MakeRoom(c, step), accepted, p, i, prio, step)

InsertPosition(c, accepted, p, i, prio, step) ==
  IF i \in ResidentPositions(c, p)
    THEN c
    ELSE Fill(MakeRoom(c, step), accepted, p, i, prio, step)

\* Positions 0 .. n-1 of p, in order.
InsertLeading(c, accepted, p, n, prio, step) ==
  LET loop[i \in 0 .. n] ==
        IF i = 0 THEN c ELSE InsertPosition(loop[i-1], accepted, p, i-1, prio, step)
  IN  loop[n]

\* replace_existing: free the blocks of p, in ascending order of their ids.
FreeOwn(c, p, step) ==
  LET own == Held(c.residentByPrefix, p)
      loop[i \in 0 .. Capacity] ==
        IF i = 0 THEN c
        ELSE IF i-1 \in own THEN FreeBlock(loop[i-1], i-1, step) ELSE loop[i-1]
  IN  loop[Capacity]

\* protect_existing_ranges for the range (0, n), and the blocks it returns.
InRange(c, p, n) ==
  {b \in Held(c.residentByPrefix, p) : c.blocks[b].pos < n}

Protected(block, k) ==
  [block EXCEPT !.claims = @ \cup {k}, !.prio = IF @ < 1 THEN 1 ELSE @]

\* Faulty variant: the blocks are annotated, the index is not updated.
ProtectExisting_NoIndex(c, k, p, n) ==
  [c EXCEPT !.blocks = [b \in BlockId |->
     IF b \in InRange(c, p, n) THEN Protected(@[b], k) ELSE @[b]]]

ProtectExisting(c, k, p, n) ==
  LET bs == InRange(c, p, n)
  IN  [c EXCEPT
        !.blocks = [b \in BlockId |-> IF b \in bs THEN Protected(@[b], k) ELSE @[b]],
        !.protectedByClaim =
           IF bs = {} THEN @ ELSE Put(@, k, Held(@, k) \cup bs)]
-----------------------------------------------------------------------------
(* validate_state: what it raises CacheInvariantError on, conjunct by      *)
(* conjunct.  The "evicted" state is declared but never assigned.          *)

ResidentSeen(c) ==
  [p \in {c.blocks[b].owner : b \in Resident(c)} |->
     {b \in Resident(c) : c.blocks[b].owner = p}]

ValidState(c) ==
  /\ \A b \in BlockId :
       \/ /\ c.blocks[b].state = "free"
          /\ c.blocks[b].owner = None /\ c.blocks[b].claims = {}
       \/ /\ c.blocks[b].state = "resident"
          /\ c.blocks[b].owner # None /\ c.blocks[b].pos # NoPosition
  /\ c.residentByPrefix = ResidentSeen(c)
  /\ ToSet(c.freeBlocks) = BlockId \ Resident(c)
  /\ \A k \in DOMAIN c.protectedByClaim : \A b \in c.protectedByClaim[k] :
       c.blocks[b].state = "resident" /\ k \in c.blocks[b].claims
=============================================================================
