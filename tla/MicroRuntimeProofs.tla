-------------------------- MODULE MicroRuntimeProofs --------------------------
(***************************************************************************)
(* The operations of the block cache preserve its inductive invariant; and *)
(* from there the invariants of MicroRuntime, for every pool, every set of *)
(* prefixes and claims, and every bound on the steps, and that it          *)
(* implements ResidentSet.                                                 *)
(***************************************************************************)
EXTENDS MicroRuntime, OrderFacts, SequenceTheorems

-----------------------------------------------------------------------------
(* Dictionaries of block sets.                                             *)

\* A dictionary of block sets that stores no empty set.
BlockDict(d, K) == IsDict(d, K, SUBSET BlockId) /\ \A k \in DOMAIN d : d[k] # {}

\* e differs from d by b being added to, or missing from, the keys ks.
IsAdded(e, d, K, ks, b) ==
  /\ BlockDict(e, K)
  /\ \A k \in K : Held(e, k) = IF k \in ks THEN Held(d, k) \cup {b} ELSE Held(d, k)

IsDiscarded(e, d, K, ks, b) ==
  /\ BlockDict(e, K)
  /\ \A k \in K : Held(e, k) = IF k \in ks THEN Held(d, k) \ {b} ELSE Held(d, k)

\* AddBlock adds the block under the given keys and nowhere else.
LEMMA AddBlockFacts ==
  ASSUME NEW K, NEW d, BlockDict(d, K), NEW ks \in SUBSET K, NEW b \in BlockId
  PROVE  IsAdded(AddBlock(d, ks, b), d, K, ks, b)
<1> DEFINE e == AddBlock(d, ks, b)
<1>1. /\ DOMAIN e = ks \cup DOMAIN d
      /\ \A k \in DOMAIN e : e[k] = IF k \in ks THEN Held(d, k) \cup {b} ELSE d[k]
      /\ e \in [DOMAIN e -> SUBSET BlockId]
  BY DEF AddBlock, BlockDict, IsDict, Held
<1>2. BlockDict(e, K)
  BY <1>1 DEF BlockDict, IsDict, Held
<1>3. ASSUME NEW k \in K
      PROVE  Held(e, k) = IF k \in ks THEN Held(d, k) \cup {b} ELSE Held(d, k)
  BY <1>1 DEF Held
<1> QED
  BY <1>2, <1>3 DEF IsAdded

\* DiscardBlock removes the block under the given keys and nowhere else.
LEMMA DiscardBlockFacts ==
  ASSUME NEW K, NEW d, BlockDict(d, K), NEW ks \in SUBSET K, NEW b \in BlockId
  PROVE  IsDiscarded(DiscardBlock(d, ks, b), d, K, ks, b)
<1> DEFINE e == DiscardBlock(d, ks, b)
<1>1. /\ DOMAIN e = {j \in DOMAIN d : j \in ks => d[j] \ {b} # {}}
      /\ \A k \in DOMAIN e : e[k] = IF k \in ks THEN d[k] \ {b} ELSE d[k]
      /\ e \in [DOMAIN e -> SUBSET BlockId]
  BY DEF DiscardBlock, BlockDict, IsDict
<1>2. BlockDict(e, K)
  BY <1>1 DEF BlockDict, IsDict
<1>3. ASSUME NEW k \in K
      PROVE  Held(e, k) = IF k \in ks THEN Held(d, k) \ {b} ELSE Held(d, k)
  BY <1>1 DEF Held
<1> QED
  BY <1>2, <1>3 DEF IsDiscarded

-----------------------------------------------------------------------------
(* The two deques.                                                         *)

\* Removing an element from a deque leaves a deque over the same set.
LEMMA RemoveFirstType ==
  ASSUME NEW S, NEW s \in Seq(S), NEW e
  PROVE  RemoveFirst(s, e) \in Seq(S)
<1>1. CASE ~ \E i \in 1 .. Len(s) : s[i] = e
  BY <1>1 DEF RemoveFirst
<1>2. CASE \E i \in 1 .. Len(s) : s[i] = e
  <2> DEFINE I == {i \in 1 .. Len(s) : s[i] = e}
             m == CHOOSE x \in I : \A y \in I : x =< y
  <2>1. RemoveFirst(s, e) = RemoveAt(s, m)
    BY <1>2 DEF RemoveFirst, SelectInSeq, Min
  <2>2. I \in SUBSET Nat /\ I # {}
    BY <1>2
  <2>3. m \in I
    <3> HIDE DEF I
    <3> QED
      BY <2>2, LeastNatural
  <2>4. m \in 1 .. Len(s) /\ Len(s) \in Nat /\ \A i \in 1 .. Len(s) : s[i] \in S
    BY <2>3
  <2> HIDE DEF m
  <2>5. SubSeq(s, 1, m-1) \in Seq(S)
    BY <2>4, SubSeqProperties
  <2>6. SubSeq(s, m+1, Len(s)) \in Seq(S)
    BY <2>4, SubSeqProperties
  <2>7. RemoveAt(s, m) \in Seq(S)
    BY <2>5, <2>6, ConcatProperties DEF RemoveAt
  <2> QED
    BY <2>1, <2>7
<1> QED
  BY <1>1, <1>2

\* No element occurs twice, and the elements are those of S.
Lists(s, S) ==
  /\ s \in Seq(BlockId)
  /\ \A i, j \in 1 .. Len(s) : s[i] = s[j] => i = j
  /\ \A x : x \in S <=> \E i \in 1 .. Len(s) : s[i] = x

\* Appending a new block.
LEMMA AppendLists ==
  ASSUME NEW s, NEW S, Lists(s, S), NEW b \in BlockId, b \notin S
  PROVE  Lists(Append(s, b), S \cup {b})
<1> DEFINE t == Append(s, b)
<1>1. /\ t \in Seq(BlockId) /\ Len(t) = Len(s) + 1 /\ Len(s) \in Nat
      /\ \A i \in 1 .. Len(s) : t[i] = s[i]
      /\ t[Len(s) + 1] = b
  BY AppendProperties, LenProperties DEF Lists
<1> HIDE DEF t
<1>2. \A i \in 1 .. Len(t) : i \in 1 .. Len(s) \/ i = Len(s) + 1
  BY <1>1
<1>3. \A i, j \in 1 .. Len(t) : t[i] = t[j] => i = j
  BY <1>1, <1>2 DEF Lists
<1>4. ASSUME NEW x PROVE x \in S \cup {b} <=> \E i \in 1 .. Len(t) : t[i] = x
  BY <1>1, <1>2 DEF Lists
<1> QED
  BY <1>1, <1>3, <1>4 DEF Lists, t

\* Popping the first block.
LEMMA PopLists ==
  ASSUME NEW s, NEW S, Lists(s, S), s # << >>
  PROVE  Head(s) \in BlockId /\ Head(s) \in S /\ Lists(Tail(s), S \ {Head(s)})
<1> DEFINE t == Tail(s)
           h == Head(s)
<1>1. /\ h \in BlockId /\ t \in Seq(BlockId) /\ Len(t) = Len(s) - 1
      /\ \A i \in 1 .. Len(t) : t[i] = s[i+1]
      /\ Len(s) \in Nat \ {0} /\ h = s[1]
  BY HeadTailProperties, EmptySeq DEF Lists
<1> HIDE DEF t, h
<1>2. h \in S
  BY <1>1 DEF Lists
<1>3. \A i, j \in 1 .. Len(t) : t[i] = t[j] => i = j
  <2> TAKE i, j \in 1 .. Len(t)
  <2>1. i + 1 \in 1 .. Len(s) /\ j + 1 \in 1 .. Len(s)
    BY <1>1
  <2> QED
    BY <1>1, <2>1 DEF Lists
<1>4. ASSUME NEW x PROVE x \in S \ {h} <=> \E i \in 1 .. Len(t) : t[i] = x
  <2>1. ASSUME x \in S \ {h} PROVE \E i \in 1 .. Len(t) : t[i] = x
    <3>1. PICK i \in 1 .. Len(s) : s[i] = x
      BY <2>1 DEF Lists
    <3>2. i - 1 \in 1 .. Len(t) /\ t[i-1] = x
      BY <1>1, <2>1, <3>1
    <3> QED
      BY <3>2
  <2>2. ASSUME NEW i \in 1 .. Len(t), t[i] = x PROVE x \in S \ {h}
    <3>1. i + 1 \in 1 .. Len(s) /\ s[i+1] = x /\ 1 \in 1 .. Len(s) /\ i + 1 # 1
      BY <1>1, <2>2
    <3> QED
      BY <1>1, <3>1 DEF Lists
  <2> QED
    BY <2>1, <2>2
<1> QED
  BY <1>1, <1>2, <1>3, <1>4 DEF Lists, t, h

-----------------------------------------------------------------------------
(* The inductive invariant of a cache.                                     *)

\* A free block carries nothing, a resident one names its place.
BlocksMarked(c) ==
  \A b \in BlockId :
    \/ /\ c.blocks[b].state = "free"
       /\ c.blocks[b].owner = None /\ c.blocks[b].claims = {}
    \/ /\ c.blocks[b].state = "resident"
       /\ c.blocks[b].owner \in PrefixId /\ c.blocks[b].pos \in Nat

\* The two indexes are what the blocks say.
ResidentIndexed(c) ==
  /\ BlockDict(c.residentByPrefix, PrefixId)
  /\ \A p \in PrefixId :
       Held(c.residentByPrefix, p) = {b \in Resident(c) : c.blocks[b].owner = p}

ClaimsIndexed(c) ==
  /\ BlockDict(c.protectedByClaim, Claim)
  /\ \A k \in Claim :
       Held(c.protectedByClaim, k) = {b \in BlockId : k \in c.blocks[b].claims}

\* No two blocks hold one position.
PlacesUnique(c) ==
  \A a, b \in Resident(c) : Place(c, a) = Place(c, b) => a = b

\* A claimed block ranks as protected.
ClaimedRanked(c) == \A b \in BlockId : c.blocks[b].claims # {} => c.blocks[b].prio >= 1

CacheInv(c) ==
  /\ CacheType(c)
  /\ BlocksMarked(c)
  /\ ResidentIndexed(c)
  /\ ClaimsIndexed(c)
  /\ Lists(c.freeBlocks, BlockId \ Resident(c))
  /\ PlacesUnique(c)
  /\ ClaimedRanked(c)

\* A resident block inside an accepted range carries the claim.
Covered(c, acc) ==
  \A b \in Resident(c) : \A k \in DOMAIN acc :
    acc[k].prefix = c.blocks[b].owner /\ c.blocks[b].pos < acc[k].blocks
      => k \in c.blocks[b].claims

AcceptedType(acc) == IsDict(acc, Claim, [prefix : PrefixId, blocks : Nat])

\* Freeing a resident block.
LEMMA FreeBlockInv ==
  ASSUME NEW c, CacheInv(c), NEW b \in Resident(c), NEW now \in Nat
  PROVE  /\ CacheInv(FreeBlock(c, b, now))
         /\ FreeBlock(c, b, now).blocks = [c.blocks EXCEPT ![b] = Cleared(now)]
         /\ FreeBlock(c, b, now).freeBlocks # << >>
         /\ FreeBlock(c, b, now).ledger = c.ledger
<1> DEFINE d == FreeBlock(c, b, now)
<1>1. /\ b \in BlockId /\ c.blocks[b].state = "resident"
      /\ c.blocks[b].owner \in PrefixId /\ c.blocks[b].claims \in SUBSET Claim
      /\ DOMAIN c = DOMAIN EmptyCache /\ c.blocks \in [BlockId -> BlockType]
  BY DEF CacheInv, CacheType, BlocksMarked, Resident, BlockType
<1>2. b \notin ToSet(c.freeBlocks)
  <2>1. \A x \in ToSet(c.freeBlocks) : \E i \in 1 .. Len(c.freeBlocks) : c.freeBlocks[i] = x
    BY DEF ToSet, CacheInv, CacheType
  <2> QED
    BY <2>1 DEF CacheInv, Lists
<1>3. /\ DOMAIN d = DOMAIN EmptyCache
      /\ d.blocks = [c.blocks EXCEPT ![b] = Cleared(now)]
      /\ d.residentByPrefix = DiscardBlock(c.residentByPrefix, {c.blocks[b].owner}, b)
      /\ d.protectedByClaim = DiscardBlock(c.protectedByClaim, c.blocks[b].claims, b)
      /\ d.freeQueue = RemoveFirst(c.freeQueue, b)
      /\ d.freeBlocks = Append(c.freeBlocks, b)
      /\ d.ledger = c.ledger
  BY <1>1, <1>2 DEF FreeBlock, EmptyCache
<1> HIDE DEF d
<1>4. /\ d.blocks \in [BlockId -> BlockType]
      /\ \A a \in BlockId : d.blocks[a] = IF a = b THEN Cleared(now) ELSE c.blocks[a]
  BY <1>1, <1>3 DEF BlockType, Cleared
<1>5. Resident(d) = Resident(c) \ {b}
  BY <1>1, <1>4 DEF Resident, Cleared
<1>6. Lists(d.freeBlocks, BlockId \ Resident(d)) /\ d.freeBlocks # << >>
  <2>1. Lists(d.freeBlocks, (BlockId \ Resident(c)) \cup {b})
    BY <1>1, <1>3, AppendLists DEF CacheInv
  <2>2. (BlockId \ Resident(c)) \cup {b} = BlockId \ Resident(d)
    BY <1>1, <1>5
  <2>3. c.freeBlocks \in Seq(BlockId)
    BY DEF CacheInv, CacheType
  <2>4. d.freeBlocks # << >>
    BY <1>1, <1>3, <2>3, AppendProperties
  <2> QED
    BY <2>1, <2>2, <2>4
<1>7. ResidentIndexed(d)
  <2>1. IsDiscarded(d.residentByPrefix, c.residentByPrefix, PrefixId,
                    {c.blocks[b].owner}, b)
    <3>1. BlockDict(c.residentByPrefix, PrefixId)
      BY DEF CacheInv, ResidentIndexed
    <3>2. {c.blocks[b].owner} \in SUBSET PrefixId
      BY <1>1
    <3> QED
      BY <1>1, <1>3, <3>1, <3>2, DiscardBlockFacts
  <2>2. ASSUME NEW p \in PrefixId
        PROVE  Held(d.residentByPrefix, p) = {a \in Resident(d) : d.blocks[a].owner = p}
    <3>1. Held(c.residentByPrefix, p) = {a \in Resident(c) : c.blocks[a].owner = p}
      BY DEF CacheInv, ResidentIndexed
    <3>2. \A a \in Resident(c) \ {b} : d.blocks[a] = c.blocks[a]
      BY <1>4 DEF Resident
    <3> QED
      BY <1>5, <2>1, <3>1, <3>2 DEF IsDiscarded
  <2> QED
    BY <2>1, <2>2 DEF ResidentIndexed, IsDiscarded
<1>8. ClaimsIndexed(d)
  <2>1. IsDiscarded(d.protectedByClaim, c.protectedByClaim, Claim,
                    c.blocks[b].claims, b)
    <3>1. BlockDict(c.protectedByClaim, Claim)
      BY DEF CacheInv, ClaimsIndexed
    <3> QED
      BY <1>1, <1>3, <3>1, DiscardBlockFacts
  <2>2. ASSUME NEW k \in Claim
        PROVE  Held(d.protectedByClaim, k) = {a \in BlockId : k \in d.blocks[a].claims}
    <3>1. Held(c.protectedByClaim, k) = {a \in BlockId : k \in c.blocks[a].claims}
      BY DEF CacheInv, ClaimsIndexed
    <3>2. d.blocks[b].claims = {}
      BY <1>1, <1>4 DEF Cleared
    <3> QED
      BY <1>4, <2>1, <3>1, <3>2 DEF IsDiscarded
  <2> QED
    BY <2>1, <2>2 DEF ClaimsIndexed, IsDiscarded
<1>9. BlocksMarked(d) /\ PlacesUnique(d) /\ ClaimedRanked(d)
  BY <1>4, <1>5 DEF CacheInv, BlocksMarked, PlacesUnique, ClaimedRanked, Place,
                    Resident, Cleared
<1>10. CacheType(d)
  <2>1. d.freeQueue \in Seq(BlockId)
    BY <1>3, RemoveFirstType DEF CacheInv, CacheType
  <2>2. d.freeBlocks \in Seq(BlockId)
    BY <1>6 DEF Lists
  <2> QED
    BY <1>3, <1>4, <1>7, <1>8, <2>1, <2>2
    DEF CacheInv, CacheType, ResidentIndexed, ClaimsIndexed, BlockDict
<1> QED
  BY <1>3, <1>6, <1>7, <1>8, <1>9, <1>10 DEF CacheInv, d

\* Fewer blocks, or fewer claims in force: what is covered stays covered.
LEMMA FreeBlockCovered ==
  ASSUME NEW c, CacheInv(c), NEW b \in Resident(c), NEW now \in Nat,
         NEW acc, Covered(c, acc)
  PROVE  /\ Covered(FreeBlock(c, b, now), acc)
         /\ Resident(FreeBlock(c, b, now)) = Resident(c) \ {b}
         /\ \A a \in Resident(c) \ {b} :
              FreeBlock(c, b, now).blocks[a] = c.blocks[a]
<1> DEFINE d == FreeBlock(c, b, now)
<1>1. d.blocks = [c.blocks EXCEPT ![b] = Cleared(now)]
  BY FreeBlockInv
<1>2. c.blocks \in [BlockId -> BlockType] /\ b \in BlockId
  BY DEF CacheInv, CacheType, Resident
<1> HIDE DEF d
<1>3. \A a \in BlockId : d.blocks[a] = IF a = b THEN Cleared(now) ELSE c.blocks[a]
  BY <1>1, <1>2
<1>4. Resident(d) = Resident(c) \ {b}
  BY <1>3 DEF Resident, Cleared
<1>5. \A a \in Resident(c) \ {b} : d.blocks[a] = c.blocks[a]
  BY <1>3 DEF Resident
<1>6. Covered(d, acc)
  BY <1>4, <1>5 DEF Covered
<1> QED
  BY <1>4, <1>5, <1>6 DEF d

-----------------------------------------------------------------------------
(* Eviction.                                                               *)

\* The eviction key orders the blocks totally, so a victim exists, and no
\* other block goes before it.
LEMMA VictimIsResident ==
  ASSUME NEW c, CacheInv(c), Resident(c) # {}
  PROVE  /\ Victim(c) \in Resident(c)
         /\ \A o \in Resident(c) \ {Victim(c)} : EvictsBefore(c, Victim(c), o)
<1> DEFINE R == Resident(c)
           rank(b) == c.blocks[b].prio
           age(b) == c.blocks[b].touched
<1>1. \A b \in R : b \in Nat /\ rank(b) \in {-1, 0, 1, 2} /\ age(b) \in Nat
  BY CapacityAssumption DEF CacheInv, CacheType, Resident, BlockType, BlockId
<1>2. PICK x \in R : \A y \in R : rank(x) <= rank(y)
  <2> DEFINE S == {rank(b) + 1 : b \in R}
  <2>1. S \in SUBSET Nat /\ S # {}
    BY <1>1
  <2>2. PICK m \in S : \A n \in S : m <= n
    <3> HIDE DEF S
    <3> QED BY <2>1, LeastNatural
  <2>3. PICK x \in R : m = rank(x) + 1
    BY <2>2
  <2>4. \A y \in R : rank(x) + 1 <= rank(y) + 1
    BY <2>2, <2>3
  <2> QED
    BY <1>1, <2>4
<1> DEFINE R1 == {b \in R : rank(b) = rank(x)}
<1>3. PICK y \in R1 : \A z \in R1 : age(y) <= age(z)
  <2> DEFINE S == {age(b) : b \in R1}
  <2>1. S \in SUBSET Nat /\ S # {}
    BY <1>1, <1>2
  <2>2. PICK m \in S : \A n \in S : m <= n
    <3> HIDE DEF S
    <3> QED BY <2>1, LeastNatural
  <2> QED
    BY <2>2
<1> DEFINE R2 == {b \in R1 : age(b) = age(y)}
<1>4. PICK z \in R2 : \A w \in R2 : z <= w
  <2>1. R2 \in SUBSET Nat /\ R2 # {}
    BY <1>1, <1>3
  <2> HIDE DEF R2
  <2> QED BY <2>1, LeastNatural
<1>5. ASSUME NEW o \in R \ {z} PROVE EvictsBefore(c, z, o)
  <2>1. rank(z) = rank(x) /\ age(z) = age(y) /\ z \in R
    BY <1>4
  <2>2. CASE rank(o) # rank(x)
    BY <1>1, <1>2, <2>1, <2>2 DEF EvictsBefore
  <2>3. CASE rank(o) = rank(x) /\ age(o) # age(y)
    <3>1. age(y) < age(o)
      BY <1>1, <1>3, <2>3
    <3> QED
      BY <2>1, <2>3, <3>1 DEF EvictsBefore
  <2>4. CASE rank(o) = rank(x) /\ age(o) = age(y)
    <3>1. z < o
      BY <1>1, <1>4, <2>1, <2>4
    <3> QED
      BY <2>1, <2>4, <3>1 DEF EvictsBefore
  <2> QED
    BY <2>2, <2>3, <2>4
<1> QED
  BY <1>4, <1>5 DEF Victim

\* Evicting makes a block free and touches nothing of the others.
LEMMA EvictOneInv ==
  ASSUME NEW c, CacheInv(c), Resident(c) # {}, NEW now \in Nat,
         NEW acc, Covered(c, acc)
  PROVE  /\ CacheInv(EvictOne(c, now))
         /\ Covered(EvictOne(c, now), acc)
         /\ EvictOne(c, now).freeBlocks # << >>
         /\ \E v \in Resident(c) : Resident(EvictOne(c, now)) = Resident(c) \ {v}
         /\ \A a \in Resident(EvictOne(c, now)) :
              EvictOne(c, now).blocks[a] = c.blocks[a]
<1> DEFINE b == Victim(c)
           f == FreeBlock(c, b, now)
           d == EvictOne(c, now)
<1>1. b \in Resident(c)
  BY VictimIsResident
<1> HIDE DEF b
<1>2. /\ CacheInv(f) /\ f.freeBlocks # << >> /\ Covered(f, acc)
      /\ Resident(f) = Resident(c) \ {b}
      /\ \A a \in Resident(c) \ {b} : f.blocks[a] = c.blocks[a]
  <2>1. CacheInv(f) /\ f.freeBlocks # << >>
    BY <1>1, FreeBlockInv
  <2>2. /\ Covered(f, acc)
        /\ Resident(f) = Resident(c) \ {b}
        /\ \A a \in Resident(c) \ {b} : f.blocks[a] = c.blocks[a]
    BY <1>1, FreeBlockCovered
  <2> QED
    BY <2>1, <2>2
<1> HIDE DEF f
<1>3. DOMAIN f = DOMAIN EmptyCache
  BY <1>2 DEF CacheInv, CacheType
<1>4. /\ DOMAIN d = DOMAIN EmptyCache
      /\ d.blocks = f.blocks /\ d.freeBlocks = f.freeBlocks
      /\ d.freeQueue = f.freeQueue /\ d.residentByPrefix = f.residentByPrefix
      /\ d.protectedByClaim = f.protectedByClaim
      /\ d.ledger = [k \in DOMAIN f.ledger |->
                       IF k = Place(c, b) THEN [f.ledger[k] EXCEPT !.evicted = now]
                                          ELSE f.ledger[k]]
  BY <1>3 DEF EvictOne, EmptyCache, f, b
<1> HIDE DEF d
<1>5. Resident(d) = Resident(f) /\ Resident(d) = Resident(c) \ {b}
  BY <1>2, <1>4 DEF Resident
<1>6. IsDict(d.ledger, PrefixId \X Nat, RowType)
  <2>1. IsDict(f.ledger, PrefixId \X Nat, RowType)
    BY <1>2 DEF CacheInv, CacheType
  <2>2. \A k \in DOMAIN f.ledger : [f.ledger[k] EXCEPT !.evicted = now] \in RowType
    BY <2>1 DEF IsDict, RowType
  <2> QED
    BY <1>4, <2>1, <2>2 DEF IsDict
<1>7. CacheType(d)
  BY <1>2, <1>4, <1>6 DEF CacheInv, CacheType
<1>8. CacheInv(d)
  BY <1>2, <1>4, <1>5, <1>7
  DEF CacheInv, BlocksMarked, ResidentIndexed, ClaimsIndexed, PlacesUnique, Place,
      ClaimedRanked
<1>9. Covered(d, acc)
  BY <1>2, <1>4, <1>5 DEF Covered
<1> QED
  BY <1>1, <1>2, <1>4, <1>5, <1>8, <1>9 DEF d

\* After MakeRoom a block is free, and one block at most was evicted for it,
\* none if some block was free before.
LEMMA MakeRoomInv ==
  ASSUME NEW c, CacheInv(c), NEW now \in Nat, NEW acc, Covered(c, acc)
  PROVE  /\ CacheInv(MakeRoom(c, now))
         /\ Covered(MakeRoom(c, now), acc)
         /\ MakeRoom(c, now).freeBlocks # << >>
         /\ Resident(MakeRoom(c, now)) \subseteq Resident(c)
         /\ \/ MakeRoom(c, now) = c
            \/ /\ Resident(c) = BlockId
               /\ \E v \in BlockId : Resident(MakeRoom(c, now)) = BlockId \ {v}
         /\ \A a \in Resident(MakeRoom(c, now)) :
              MakeRoom(c, now).blocks[a] = c.blocks[a]
<1>1. CASE c.freeBlocks # << >>
  BY <1>1 DEF MakeRoom
<1>2. CASE c.freeBlocks = << >>
  <2>1. 0 \in BlockId
    BY CapacityAssumption DEF BlockId
  <2>2. Len(c.freeBlocks) = 0
    BY <1>2, EmptySeq
  <2>3. Resident(c) = BlockId /\ Resident(c) # {}
    BY <2>1, <2>2 DEF CacheInv, Lists, Resident
  <2> QED
    BY <1>2, <2>3, EvictOneInv DEF MakeRoom
<1> QED
  BY <1>1, <1>2

-----------------------------------------------------------------------------
(* Materialization.                                                        *)

\* The leading n places of p.
Lead(p, n) == {<<p, i>> : i \in 0 .. n - 1}

\* Filling a free block with a position that is not resident.
LEMMA FillInv ==
  ASSUME NEW c, CacheInv(c), c.freeBlocks # << >>,
         NEW acc, AcceptedType(acc), Covered(c, acc),
         NEW p \in PrefixId, NEW i \in Nat,
         \A a \in Resident(c) : Place(c, a) # <<p, i>>,
         NEW prio \in {-1, 0, 1, 2}, NEW now \in Nat
  PROVE  /\ CacheInv(Fill(c, acc, p, i, prio, now))
         /\ Covered(Fill(c, acc, p, i, prio, now), acc)
         /\ \E b \in BlockId \ Resident(c) :
              Resident(Fill(c, acc, p, i, prio, now)) = Resident(c) \cup {b}
         /\ HeldPlaces(Fill(c, acc, p, i, prio, now)) = HeldPlaces(c) \cup {<<p, i>>}
<1> DEFINE b  == Head(c.freeBlocks)
           ks == ClaimIdsFor(acc, p, i)
           d  == Fill(c, acc, p, i, prio, now)
           e  == Entry(p, i, ks, prio, now)
<1>1. /\ b \in BlockId /\ b \notin Resident(c)
      /\ Lists(Tail(c.freeBlocks), (BlockId \ Resident(c)) \ {b})
  <2> DEFINE free == BlockId \ Resident(c)
  <2>1. Lists(c.freeBlocks, free)
    BY DEF CacheInv
  <2> HIDE DEF free
  <2>2. b \in BlockId /\ b \in free /\ Lists(Tail(c.freeBlocks), free \ {b})
    BY <2>1, PopLists
  <2> QED
    BY <2>2 DEF free
<1>2. ks \in SUBSET Claim
  BY DEF ClaimIdsFor, AcceptedType, IsDict
<1>3. c.blocks \in [BlockId -> BlockType] /\ DOMAIN c = DOMAIN EmptyCache
  BY DEF CacheInv, CacheType
<1>4. /\ DOMAIN d = DOMAIN EmptyCache
      /\ d.blocks = [c.blocks EXCEPT ![b] = e]
      /\ d.freeBlocks = Tail(c.freeBlocks)
      /\ d.freeQueue = Append(c.freeQueue, b)
      /\ d.residentByPrefix = AddBlock(c.residentByPrefix, {p}, b)
      /\ d.protectedByClaim = AddBlock(c.protectedByClaim, ks, b)
      /\ d.ledger = Put(c.ledger, <<p, i>>,
                        [block |-> b, protected |-> ks # {},
                         inserted |-> now, evicted |-> NoStep])
  BY <1>3 DEF Fill, EmptyCache
<1>5. /\ e.state = "resident" /\ e.owner = p /\ e.pos = i /\ e.claims = ks
      /\ ks # {} => e.prio = 1
      /\ e \in BlockType
  <2> HIDE DEF ks
  <2> QED
    BY <1>2 DEF Entry, BlockType
<1> HIDE DEF b, ks, d, e
<1>6. /\ d.blocks \in [BlockId -> BlockType]
      /\ \A a \in BlockId : d.blocks[a] = IF a = b THEN e ELSE c.blocks[a]
      /\ d.blocks[b] = e
  BY <1>1, <1>3, <1>4, <1>5
<1>7. Resident(d) = Resident(c) \cup {b}
  BY <1>1, <1>5, <1>6 DEF Resident
<1>8. Lists(d.freeBlocks, BlockId \ Resident(d))
  <2>1. (BlockId \ Resident(c)) \ {b} = BlockId \ Resident(d)
    BY <1>7
  <2> QED
    BY <1>1, <1>4, <2>1
<1>9. c.blocks[b].claims = {}
  BY <1>1 DEF CacheInv, BlocksMarked, Resident
<1>10. ResidentIndexed(d)
  <2>1. IsAdded(d.residentByPrefix, c.residentByPrefix, PrefixId, {p}, b)
    <3>1. BlockDict(c.residentByPrefix, PrefixId)
      BY DEF CacheInv, ResidentIndexed
    <3>2. {p} \in SUBSET PrefixId
      OBVIOUS
    <3> QED
      BY <1>1, <1>4, <3>1, <3>2, AddBlockFacts
  <2>2. ASSUME NEW q \in PrefixId
        PROVE  Held(d.residentByPrefix, q) = {a \in Resident(d) : d.blocks[a].owner = q}
    <3>1. Held(c.residentByPrefix, q) = {a \in Resident(c) : c.blocks[a].owner = q}
      BY DEF CacheInv, ResidentIndexed
    <3>2. \A a \in Resident(c) : d.blocks[a] = c.blocks[a]
      BY <1>1, <1>6 DEF Resident
    <3>3. d.blocks[b].owner = p
      BY <1>5, <1>6
    <3> QED
      BY <1>7, <2>1, <3>1, <3>2, <3>3 DEF IsAdded
  <2> QED
    BY <2>1, <2>2 DEF ResidentIndexed, IsAdded
<1>11. ClaimsIndexed(d)
  <2>1. IsAdded(d.protectedByClaim, c.protectedByClaim, Claim, ks, b)
    <3>1. BlockDict(c.protectedByClaim, Claim)
      BY DEF CacheInv, ClaimsIndexed
    <3> QED
      BY <1>1, <1>2, <1>4, <3>1, AddBlockFacts
  <2>2. ASSUME NEW k \in Claim
        PROVE  Held(d.protectedByClaim, k) = {a \in BlockId : k \in d.blocks[a].claims}
    <3>1. Held(c.protectedByClaim, k) = {a \in BlockId : k \in c.blocks[a].claims}
      BY DEF CacheInv, ClaimsIndexed
    <3>2. d.blocks[b].claims = ks
      BY <1>5, <1>6
    <3> QED
      BY <1>1, <1>6, <1>9, <2>1, <3>1, <3>2 DEF IsAdded
  <2> QED
    BY <2>1, <2>2 DEF ClaimsIndexed, IsAdded
<1>12. /\ d.blocks[b].state = "resident" /\ d.blocks[b].owner = p /\ d.blocks[b].pos = i
       /\ d.blocks[b].claims = ks /\ (ks # {} => d.blocks[b].prio = 1)
  BY <1>5, <1>6
<1>13. BlocksMarked(d) /\ ClaimedRanked(d)
  BY <1>6, <1>12 DEF CacheInv, BlocksMarked, ClaimedRanked
<1>13a. /\ \A a \in Resident(c) : a # b /\ Place(d, a) = Place(c, a)
        /\ Place(d, b) = <<p, i>>
  BY <1>1, <1>6, <1>12 DEF Place, Resident
<1>14. PlacesUnique(d)
  BY <1>7, <1>13a DEF CacheInv, PlacesUnique
<1>14a. HeldPlaces(d) = HeldPlaces(c) \cup {<<p, i>>}
  BY <1>7, <1>13a DEF HeldPlaces
<1>15. IsDict(d.ledger, PrefixId \X Nat, RowType)
  <2>1. [block |-> b, protected |-> ks # {}, inserted |-> now, evicted |-> NoStep]
          \in RowType
    BY <1>1 DEF RowType
  <2>2. IsDict(c.ledger, PrefixId \X Nat, RowType) /\ <<p, i>> \in PrefixId \X Nat
    BY DEF CacheInv, CacheType
  <2> QED
    BY <1>4, <2>1, <2>2 DEF IsDict, Put
<1>16. CacheType(d)
  <2>1. d.freeQueue \in Seq(BlockId)
    BY <1>1, <1>4, AppendProperties DEF CacheInv, CacheType
  <2>2. d.freeBlocks \in Seq(BlockId)
    BY <1>8 DEF Lists
  <2> QED
    BY <1>4, <1>6, <1>10, <1>11, <1>15, <2>1, <2>2
    DEF CacheType, ResidentIndexed, ClaimsIndexed, BlockDict
<1>17. Covered(d, acc)
  <2> SUFFICES ASSUME NEW a \in Resident(d), NEW k \in DOMAIN acc,
                      acc[k].prefix = d.blocks[a].owner,
                      d.blocks[a].pos < acc[k].blocks
               PROVE  k \in d.blocks[a].claims
    BY DEF Covered
  <2>1. CASE a = b
    BY <1>12, <2>1 DEF ClaimIdsFor, ks
  <2>2. CASE a # b
    BY <1>6, <1>7, <2>2 DEF Covered, Resident
  <2> QED
    BY <2>1, <2>2
<1>18. CacheInv(d)
  BY <1>8, <1>10, <1>11, <1>13, <1>14, <1>16 DEF CacheInv
<1> QED
  BY <1>1, <1>7, <1>14a, <1>17, <1>18 DEF d

\* From c to d the places of X came in; others were given up for them only
\* if the pool is full now, and a full pool stays full.
Brings(d, c, X) ==
  /\ HeldPlaces(d) \subseteq HeldPlaces(c) \cup X
  /\ HeldPlaces(d) = HeldPlaces(c) \cup X \/ Resident(d) = BlockId
  /\ Resident(c) = BlockId => Resident(d) = BlockId

\* One round of the loop of materialize_prefix.
LEMMA InsertPositionInv ==
  ASSUME NEW c, CacheInv(c),
         NEW acc, AcceptedType(acc), Covered(c, acc),
         NEW p \in PrefixId, NEW i \in Nat,
         NEW prio \in {-1, 0, 1, 2}, NEW now \in Nat
  PROVE  /\ CacheInv(InsertPosition(c, acc, p, i, prio, now))
         /\ Covered(InsertPosition(c, acc, p, i, prio, now), acc)
         /\ Brings(InsertPosition(c, acc, p, i, prio, now), c, {<<p, i>>})
         /\ <<p, i>> \in HeldPlaces(InsertPosition(c, acc, p, i, prio, now))
<1>1. CASE i \in ResidentPositions(c, p)
  <2>1. <<p, i>> \in HeldPlaces(c)
    BY <1>1 DEF ResidentPositions, HeldPlaces, Place, CacheInv, ResidentIndexed
  <2>2. Brings(c, c, {<<p, i>>})
    BY <2>1 DEF Brings
  <2> QED
    BY <1>1, <2>1, <2>2 DEF InsertPosition
<1>2. CASE i \notin ResidentPositions(c, p)
  <2> DEFINE m == MakeRoom(c, now)
  <2>1. /\ CacheInv(m) /\ Covered(m, acc) /\ m.freeBlocks # << >>
        /\ Resident(m) \subseteq Resident(c)
        /\ \A a \in Resident(m) : m.blocks[a] = c.blocks[a]
        /\ \/ m = c
           \/ /\ Resident(c) = BlockId
              /\ \E v \in BlockId : Resident(m) = BlockId \ {v}
    BY MakeRoomInv
  <2> HIDE DEF m
  <2>2. \A a \in Resident(c) : Place(c, a) # <<p, i>>
    BY <1>2 DEF ResidentPositions, Place, CacheInv, ResidentIndexed
  <2>3. \A a \in Resident(m) : Place(m, a) # <<p, i>>
    BY <2>1, <2>2 DEF Place
  <2> DEFINE d == Fill(m, acc, p, i, prio, now)
  <2>4. /\ CacheInv(d) /\ Covered(d, acc)
        /\ \E b \in BlockId \ Resident(m) : Resident(d) = Resident(m) \cup {b}
        /\ HeldPlaces(d) = HeldPlaces(m) \cup {<<p, i>>}
    BY <2>1, <2>3, FillInv
  <2> HIDE DEF d
  <2>5. HeldPlaces(m) \subseteq HeldPlaces(c)
    BY <2>1 DEF HeldPlaces, Place
  <2>6. Brings(d, c, {<<p, i>>})
    <3>1. Resident(c) = BlockId => Resident(d) = BlockId
      <4>1. CASE m = c
        BY <2>4, <4>1 DEF Resident
      <4>2. CASE \E v \in BlockId : Resident(m) = BlockId \ {v}
        BY <2>4, <4>2
      <4> QED
        BY <2>1, <4>1, <4>2
    <3>2. m # c => Resident(d) = BlockId
      BY <2>1, <3>1
    <3> QED
      BY <2>4, <2>5, <3>1, <3>2 DEF Brings
  <2> QED
    BY <1>2, <2>4, <2>6 DEF InsertPosition, m, d
<1> QED
  BY <1>1, <1>2

\* The caches between the rounds of materialize_prefix.
Rounds(g, c, acc, p, n, prio, now) ==
  /\ g[0] = c /\ g[n] = InsertLeading(c, acc, p, n, prio, now)
  /\ \A i \in 0 .. n - 1 : g[i+1] = InsertPosition(g[i], acc, p, i, prio, now)
  /\ \A i \in 0 .. n :
       /\ CacheInv(g[i]) /\ Covered(g[i], acc)
       /\ Brings(g[i], c, Lead(p, i))
       /\ i > 0 => <<p, i-1>> \in HeldPlaces(g[i])

\* Its loop, by induction on the rounds.
LEMMA InsertLeadingRounds ==
  ASSUME NEW c, CacheInv(c),
         NEW acc, AcceptedType(acc), Covered(c, acc),
         NEW p \in PrefixId, NEW n \in Nat,
         NEW prio \in {-1, 0, 1, 2}, NEW now \in Nat
  PROVE  \E g : Rounds(g, c, acc, p, n, prio, now)
<1> DEFINE Round(d, i) == InsertPosition(d, acc, p, i, prio, now)
           Run(g, m) == g = [i \in 0 .. m |-> IF i = 0 THEN c ELSE Round(g[i-1], i-1)]
<1> HIDE DEF Round
<1>1. \A m \in Nat : \E g : Run(g, m)
  <2> DEFINE T == {m \in Nat : \E g : Run(g, m)}
  <2>1. 0 \in T
    <3>1. Run([i \in 0 .. 0 |-> c], 0)
      OBVIOUS
    <3> QED
      BY <3>1
  <2>2. ASSUME NEW m \in T PROVE m + 1 \in T
    <3>1. PICK g : Run(g, m)
      BY <2>2
    <3> DEFINE h == [i \in 0 .. m+1 |-> IF i = m+1 THEN Round(g[m], m) ELSE g[i]]
    <3>2. \A i \in 0 .. m+1 : h[i] = IF i = 0 THEN c ELSE Round(h[i-1], i-1)
      BY <3>1
    <3>3. h = [i \in 0 .. m+1 |-> h[i]]
      OBVIOUS
    <3> HIDE DEF h
    <3>4. Run(h, m+1)
      BY <3>2, <3>3
    <3> QED
      BY <3>4
  <2>3. T = Nat
    <3> HIDE DEF T
    <3> QED
      BY <2>1, <2>2, NatInductionOnSets DEF T
  <2> QED
    BY <2>3
<1> DEFINE g == CHOOSE l : Run(l, n)
<1>2. Run(g, n)
  BY <1>1
<1>3. InsertLeading(c, acc, p, n, prio, now) = g[n]
  BY DEF InsertLeading, Round
<1> HIDE DEF g
<1>4. g[0] = c /\ \A i \in 1 .. n : g[i] = Round(g[i-1], i-1)
  BY <1>2
<1> DEFINE Good(i) == /\ CacheInv(g[i]) /\ Covered(g[i], acc)
                      /\ Brings(g[i], c, Lead(p, i))
                      /\ i > 0 => <<p, i-1>> \in HeldPlaces(g[i])
           U == {i \in Nat : i <= n => Good(i)}
<1>5. 0 \in U
  <2>1. Lead(p, 0) = {}
    BY DEF Lead
  <2> QED
    BY <1>4, <2>1 DEF Brings
<1>6. ASSUME NEW i \in U PROVE i + 1 \in U
  <2>1. SUFFICES ASSUME i + 1 <= n PROVE Good(i+1)
    OBVIOUS
  <2>2. Good(i) /\ i \in Nat
    BY <2>1
  <2> DEFINE b == g[i]
             d == g[i+1]
  <2>3. d = InsertPosition(b, acc, p, i, prio, now)
    BY <1>4, <2>1 DEF Round
  <2>3a. CacheInv(b) /\ Covered(b, acc) /\ Brings(b, c, Lead(p, i))
    BY <2>2
  <2> HIDE DEF b, d
  <2>4. /\ CacheInv(d) /\ Covered(d, acc)
        /\ Brings(d, b, {<<p, i>>}) /\ <<p, i>> \in HeldPlaces(d)
    BY <2>2, <2>3, <2>3a, InsertPositionInv
  <2>5. Lead(p, i+1) = Lead(p, i) \cup {<<p, i>>}
    BY <2>2 DEF Lead
  <2>6. Brings(d, c, Lead(p, i+1))
    BY <2>3a, <2>4, <2>5 DEF Brings
  <2>7. <<p, (i+1)-1>> \in HeldPlaces(d)
    BY <2>2, <2>4
  <2> QED
    BY <2>4, <2>6, <2>7 DEF d
<1>7. U = Nat
  <2> HIDE DEF U
  <2> QED
    BY <1>5, <1>6, NatInductionOnSets DEF U
<1>8. \A i \in 0 .. n : Good(i)
  <2> HIDE DEF Good
  <2> QED
    BY <1>7
<1>9. \A i \in 0 .. n - 1 : g[i+1] = InsertPosition(g[i], acc, p, i, prio, now)
  BY <1>4 DEF Round
<1>10. Rounds(g, c, acc, p, n, prio, now)
  BY <1>3, <1>4, <1>8, <1>9 DEF Rounds
<1> QED
  BY <1>10

\* What the loop leaves behind.
LEMMA InsertLeadingInv ==
  ASSUME NEW c, CacheInv(c),
         NEW acc, AcceptedType(acc), Covered(c, acc),
         NEW p \in PrefixId, NEW n \in Nat,
         NEW prio \in {-1, 0, 1, 2}, NEW now \in Nat
  PROVE  /\ CacheInv(InsertLeading(c, acc, p, n, prio, now))
         /\ Covered(InsertLeading(c, acc, p, n, prio, now), acc)
         /\ Brings(InsertLeading(c, acc, p, n, prio, now), c, Lead(p, n))
         /\ n > 0 => <<p, n-1>> \in HeldPlaces(InsertLeading(c, acc, p, n, prio, now))
<1> DEFINE d == InsertLeading(c, acc, p, n, prio, now)
<1>1. PICK g : Rounds(g, c, acc, p, n, prio, now)
  BY InsertLeadingRounds
<1>2. n \in 0 .. n
  OBVIOUS
<1>3. d = g[n]
  BY <1>1 DEF Rounds
<1> HIDE DEF d
<1> QED
  BY <1>1, <1>2, <1>3 DEF Rounds, d

\* The loop that frees the blocks of a prefix before a recompute.
LEMMA FreeOwnRun ==
  ASSUME NEW c, CacheInv(c), NEW acc, Covered(c, acc),
         NEW p \in PrefixId, NEW now \in Nat
  PROVE  LET own == Held(c.residentByPrefix, p)
         IN  \E g : /\ g[0] = c /\ g[Capacity] = FreeOwn(c, p, now)
                    /\ \A i \in 0 .. Capacity - 1 :
                         g[i+1] = IF i \in own THEN FreeBlock(g[i], i, now) ELSE g[i]
                    /\ \A i \in 0 .. Capacity :
                         /\ CacheInv(g[i]) /\ Covered(g[i], acc)
                         /\ Resident(g[i]) = Resident(c) \ {b \in own : b < i}
                         /\ \A b \in Resident(g[i]) : g[i].blocks[b] = c.blocks[b]
<1> DEFINE own == Held(c.residentByPrefix, p)
           Round(d, i) == IF i \in own THEN FreeBlock(d, i, now) ELSE d
           Run(g, m) == g = [i \in 0 .. m |-> IF i = 0 THEN c ELSE Round(g[i-1], i-1)]
<1>0. own \subseteq Resident(c)
  BY DEF CacheInv, ResidentIndexed
<1> HIDE DEF Round
<1>1. \A m \in Nat : \E g : Run(g, m)
  <2> DEFINE T == {m \in Nat : \E g : Run(g, m)}
  <2>1. 0 \in T
    <3>1. Run([i \in 0 .. 0 |-> c], 0)
      OBVIOUS
    <3> QED
      BY <3>1
  <2>2. ASSUME NEW m \in T PROVE m + 1 \in T
    <3>1. PICK g : Run(g, m)
      BY <2>2
    <3> DEFINE h == [i \in 0 .. m+1 |-> IF i = m+1 THEN Round(g[m], m) ELSE g[i]]
    <3>2. \A i \in 0 .. m+1 : h[i] = IF i = 0 THEN c ELSE Round(h[i-1], i-1)
      BY <3>1
    <3>3. h = [i \in 0 .. m+1 |-> h[i]]
      OBVIOUS
    <3> HIDE DEF h
    <3>4. Run(h, m+1)
      BY <3>2, <3>3
    <3> QED
      BY <3>4
  <2>3. T = Nat
    <3> HIDE DEF T
    <3> QED
      BY <2>1, <2>2, NatInductionOnSets DEF T
  <2> QED
    BY <2>3
<1> DEFINE g == CHOOSE l : Run(l, Capacity)
<1>2. Run(g, Capacity)
  BY <1>1, CapacityAssumption
<1>3. FreeOwn(c, p, now) = g[Capacity]
  BY DEF FreeOwn, Round
<1> HIDE DEF g
<1>4. g[0] = c /\ \A i \in 1 .. Capacity : g[i] = Round(g[i-1], i-1)
  BY <1>2, CapacityAssumption
\* After i rounds the own blocks below i are gone, and no other.
<1> DEFINE Good(i) == /\ CacheInv(g[i]) /\ Covered(g[i], acc)
                      /\ Resident(g[i]) = Resident(c) \ {b \in own : b < i}
                      /\ \A b \in Resident(g[i]) : g[i].blocks[b] = c.blocks[b]
           U == {i \in Nat : i <= Capacity => Good(i)}
<1>4a. \A b \in own : b \in Nat /\ b < Capacity
  BY <1>0, CapacityAssumption DEF Resident, BlockId
<1>5. 0 \in U
  <2>1. {b \in own : b < 0} = {}
    BY <1>4a
  <2> QED
    BY <1>4, <2>1
<1>6. ASSUME NEW i \in U PROVE i + 1 \in U
  <2>1. SUFFICES ASSUME i + 1 <= Capacity PROVE Good(i+1)
    OBVIOUS
  <2>2. Good(i)
    BY <2>1, CapacityAssumption
  <2>3. g[i+1] = Round(g[i], i)
    BY <1>4, <2>1, CapacityAssumption
  <2>4. {b \in own : b < i+1} = {b \in own : b < i} \cup (own \cap {i})
    BY <1>4a
  <2>5. CASE i \in own
    <3>1. i \in Resident(g[i])
      BY <1>0, <2>2, <2>5
    <3>2. CacheInv(FreeBlock(g[i], i, now))
      BY <2>2, <3>1, FreeBlockInv
    <3>3. /\ Covered(FreeBlock(g[i], i, now), acc)
          /\ Resident(FreeBlock(g[i], i, now)) = Resident(g[i]) \ {i}
          /\ \A b \in Resident(g[i]) \ {i} : FreeBlock(g[i], i, now).blocks[b] = g[i].blocks[b]
      BY <2>2, <3>1, FreeBlockCovered
    <3>4. g[i+1] = FreeBlock(g[i], i, now)
      BY <2>3, <2>5 DEF Round
    <3>5. Resident(g[i]) \ {i} = Resident(c) \ {b \in own : b < i+1}
      BY <2>2, <2>4, <2>5
    <3> QED
      BY <2>2, <3>2, <3>3, <3>4, <3>5
  <2>6. CASE i \notin own
    <3>1. g[i+1] = g[i]
      BY <2>3, <2>6 DEF Round
    <3>2. {b \in own : b < i+1} = {b \in own : b < i}
      BY <2>4, <2>6
    <3> QED
      BY <2>2, <3>1, <3>2
  <2> QED
    BY <2>5, <2>6
<1>7. U = Nat
  <2> HIDE DEF U
  <2> QED
    BY <1>5, <1>6, NatInductionOnSets DEF U
<1>8. \A i \in 0 .. Capacity : Good(i)
  <2> HIDE DEF Good
  <2> QED
    BY <1>7, CapacityAssumption
<1>9. \A i \in 0 .. Capacity - 1 : g[i+1] = IF i \in own THEN FreeBlock(g[i], i, now) ELSE g[i]
  BY <1>4, CapacityAssumption DEF Round
<1> HIDE DEF own
<1>10. \E l : /\ l[0] = c /\ l[Capacity] = FreeOwn(c, p, now)
              /\ \A i \in 0 .. Capacity - 1 :
                   l[i+1] = IF i \in own THEN FreeBlock(l[i], i, now) ELSE l[i]
              /\ \A i \in 0 .. Capacity :
                   /\ CacheInv(l[i]) /\ Covered(l[i], acc)
                   /\ Resident(l[i]) = Resident(c) \ {b \in own : b < i}
                   /\ \A b \in Resident(l[i]) : l[i].blocks[b] = c.blocks[b]
  BY <1>3, <1>4, <1>8, <1>9
<1> QED
  BY <1>10 DEF own

\* What it leaves behind: the places of p are given up, and no other.
LEMMA FreeOwnInv ==
  ASSUME NEW c, CacheInv(c), NEW acc, Covered(c, acc),
         NEW p \in PrefixId, NEW now \in Nat
  PROVE  /\ CacheInv(FreeOwn(c, p, now))
         /\ Covered(FreeOwn(c, p, now), acc)
         /\ HeldPlaces(FreeOwn(c, p, now)) = {x \in HeldPlaces(c) : x[1] # p}
         /\ Resident(FreeOwn(c, p, now)) = Resident(c) \ Held(c.residentByPrefix, p)
         /\ \A b \in Resident(FreeOwn(c, p, now)) :
              FreeOwn(c, p, now).blocks[b] = c.blocks[b]
<1> DEFINE own == Held(c.residentByPrefix, p)
           d == FreeOwn(c, p, now)
<1>1. own \subseteq Resident(c) /\ Capacity \in 0 .. Capacity
  BY CapacityAssumption DEF CacheInv, ResidentIndexed
<1>2. \A b \in own : b < Capacity
  BY <1>1, CapacityAssumption DEF Resident, BlockId
<1> HIDE DEF own, d
<1>3. PICK g : /\ g[Capacity] = d
               /\ \A i \in 0 .. Capacity :
                    /\ CacheInv(g[i]) /\ Covered(g[i], acc)
                    /\ Resident(g[i]) = Resident(c) \ {b \in own : b < i}
                    /\ \A b \in Resident(g[i]) : g[i].blocks[b] = c.blocks[b]
  BY FreeOwnRun DEF own, d
<1>4. CacheInv(d) /\ Covered(d, acc)
  BY <1>1, <1>3
<1>5. /\ Resident(d) = Resident(c) \ own
       /\ \A b \in Resident(d) : d.blocks[b] = c.blocks[b]
  <2>1. {b \in own : b < Capacity} = own
    BY <1>2
  <2> QED
    BY <1>1, <1>3, <2>1
<1>6. own = {b \in Resident(c) : c.blocks[b].owner = p}
  BY DEF CacheInv, ResidentIndexed, own
<1>7. HeldPlaces(d) = {x \in HeldPlaces(c) : x[1] # p}
  <2>1. \A b \in Resident(c) : b \in Resident(d) <=> Place(c, b)[1] # p
    BY <1>5, <1>6 DEF Place
  <2>2. \A b \in Resident(d) : b \in Resident(c) /\ Place(d, b) = Place(c, b)
    BY <1>5 DEF Place
  <2> QED
    BY <2>1, <2>2 DEF HeldPlaces
<1> QED
  BY <1>4, <1>5, <1>7 DEF own, d

-----------------------------------------------------------------------------
(* Protection of what is already resident.                                 *)

\* A claim of which the leading n blocks are accepted covers, from then on,
\* its resident blocks; a wider acceptance of the same claim may go.
LEMMA ProtectExistingInv ==
  ASSUME NEW c, CacheInv(c), NEW acc, Covered(c, acc),
         NEW k \in Claim, NEW p \in PrefixId, NEW n \in Nat
  PROVE  /\ CacheInv(ProtectExisting(c, k, p, n))
         /\ Covered(ProtectExisting(c, k, p, n),
                    Put(acc, k, [prefix |-> p, blocks |-> n]))
<1> DEFINE bs == InRange(c, p, n)
           d  == ProtectExisting(c, k, p, n)
<1>1. bs = {b \in Resident(c) : c.blocks[b].owner = p /\ c.blocks[b].pos < n}
  BY DEF InRange, CacheInv, ResidentIndexed
<1>2. c.blocks \in [BlockId -> BlockType] /\ DOMAIN c = DOMAIN EmptyCache
  BY DEF CacheInv, CacheType
<1>3. /\ DOMAIN d = DOMAIN EmptyCache
      /\ d.blocks = [b \in BlockId |-> IF b \in bs THEN Protected(c.blocks[b], k)
                                                  ELSE c.blocks[b]]
      /\ d.protectedByClaim =
           IF bs = {} THEN c.protectedByClaim
           ELSE Put(c.protectedByClaim, k, Held(c.protectedByClaim, k) \cup bs)
      /\ d.freeBlocks = c.freeBlocks /\ d.freeQueue = c.freeQueue
      /\ d.residentByPrefix = c.residentByPrefix /\ d.ledger = c.ledger
  <2> HIDE DEF bs
  <2> QED
    BY <1>2 DEF ProtectExisting, EmptyCache, bs
<1> HIDE DEF bs, d
<1>3a. \A x \in BlockType :
        /\ Protected(x, k) \in BlockType
        /\ Protected(x, k).state = x.state /\ Protected(x, k).owner = x.owner
        /\ Protected(x, k).pos = x.pos /\ Protected(x, k).claims = x.claims \cup {k}
        /\ Protected(x, k).prio >= 1
  <2> TAKE x \in BlockType
  <2> DEFINE y == Protected(x, k)
             new == IF x.prio < 1 THEN 1 ELSE x.prio
  <2>1. /\ x.claims \in SUBSET Claim /\ x.prio \in {-1, 0, 1, 2}
        /\ DOMAIN x = {"state", "owner", "pos", "touched", "claims", "prio"}
    BY DEF BlockType
  <2>2. new \in {-1, 0, 1, 2} /\ new >= 1
    BY <2>1
  <2>3. y = [[x EXCEPT !.claims = x.claims \cup {k}] EXCEPT !.prio = new]
    BY DEF Protected
  <2> HIDE DEF y, new
  <2>4. /\ y.state = x.state /\ y.owner = x.owner /\ y.pos = x.pos
        /\ y.claims = x.claims \cup {k} /\ y.prio = new
    BY <2>1, <2>3
  <2>5. y \in BlockType
    BY <2>1, <2>2, <2>3 DEF BlockType
  <2> QED
    BY <2>2, <2>4, <2>5 DEF y
<1>4. \A b \in BlockId :
        /\ d.blocks[b] \in BlockType
        /\ d.blocks[b].state = c.blocks[b].state
        /\ d.blocks[b].owner = c.blocks[b].owner
        /\ d.blocks[b].pos = c.blocks[b].pos
        /\ d.blocks[b].claims = IF b \in bs THEN c.blocks[b].claims \cup {k}
                                           ELSE c.blocks[b].claims
        /\ b \in bs => d.blocks[b].prio >= 1
        /\ b \notin bs => d.blocks[b].prio = c.blocks[b].prio
  BY <1>2, <1>3, <1>3a
<1>5. Resident(d) = Resident(c)
  BY <1>4 DEF Resident
<1>6. d.blocks \in [BlockId -> BlockType]
  BY <1>3, <1>4
<1>7. BlocksMarked(d) /\ ClaimedRanked(d)
  BY <1>1, <1>4 DEF CacheInv, BlocksMarked, ClaimedRanked, Resident
<1>8. PlacesUnique(d)
  <2>1. \A b \in Resident(c) : Place(d, b) = Place(c, b)
    BY <1>4 DEF Place, Resident
  <2> QED
    BY <1>5, <2>1 DEF CacheInv, PlacesUnique
<1>9. ResidentIndexed(d)
  <2>1. /\ BlockDict(c.residentByPrefix, PrefixId)
        /\ \A q \in PrefixId :
             Held(c.residentByPrefix, q) = {b \in Resident(c) : c.blocks[b].owner = q}
    BY DEF CacheInv, ResidentIndexed
  <2>2. \A b \in Resident(c) : d.blocks[b].owner = c.blocks[b].owner
    BY <1>4 DEF Resident
  <2> QED
    BY <1>3, <1>5, <2>1, <2>2 DEF ResidentIndexed
<1>10. ClaimsIndexed(d)
  <2>1. /\ BlockDict(c.protectedByClaim, Claim)
        /\ \A j \in Claim :
             Held(c.protectedByClaim, j) = {b \in BlockId : j \in c.blocks[b].claims}
    BY DEF CacheInv, ClaimsIndexed
  <2>2. bs \subseteq BlockId
    BY <1>1 DEF Resident
  <2>3. CASE bs = {}
    BY <1>3, <1>4, <2>1, <2>3 DEF ClaimsIndexed
  <2>4. CASE bs # {}
    <3>1. d.protectedByClaim = Put(c.protectedByClaim, k, Held(c.protectedByClaim, k) \cup bs)
      BY <1>3, <2>4
    <3>2. Held(c.protectedByClaim, k) \in SUBSET BlockId
      BY <2>1 DEF BlockDict, IsDict, Held
    <3>3. BlockDict(d.protectedByClaim, Claim)
      BY <2>1, <2>2, <2>4, <3>1, <3>2 DEF BlockDict, IsDict, Put
    <3>4. \A j \in Claim : Held(d.protectedByClaim, j) =
            IF j = k THEN Held(c.protectedByClaim, k) \cup bs
                     ELSE Held(c.protectedByClaim, j)
      BY <3>1 DEF Put, Held
    <3>5. ASSUME NEW j \in Claim
          PROVE  Held(d.protectedByClaim, j) = {b \in BlockId : j \in d.blocks[b].claims}
      <4>1. CASE j = k
        <5>1. \A b \in BlockId : k \in d.blocks[b].claims <=>
                                  k \in c.blocks[b].claims \/ b \in bs
          BY <1>4
        <5> QED
          BY <2>1, <2>2, <3>4, <4>1, <5>1
      <4>2. CASE j # k
        <5>1. \A b \in BlockId : j \in d.blocks[b].claims <=> j \in c.blocks[b].claims
          BY <1>4, <4>2
        <5> QED
          BY <2>1, <3>4, <4>2, <5>1
      <4> QED
        BY <4>1, <4>2
    <3> QED
      BY <3>3, <3>5 DEF ClaimsIndexed
  <2> QED
    BY <2>3, <2>4
<1>11. CacheType(d)
  BY <1>3, <1>6, <1>10 DEF CacheInv, CacheType, ClaimsIndexed, BlockDict
<1>12. CacheInv(d)
  BY <1>3, <1>5, <1>7, <1>8, <1>9, <1>10, <1>11 DEF CacheInv
<1>13. Covered(d, Put(acc, k, [prefix |-> p, blocks |-> n]))
  <2> DEFINE put == Put(acc, k, [prefix |-> p, blocks |-> n])
  <2>1. /\ put[k] = [prefix |-> p, blocks |-> n]
        /\ \A j \in DOMAIN put : j # k => j \in DOMAIN acc /\ put[j] = acc[j]
    BY DEF Put
  <2> HIDE DEF put
  <2> SUFFICES ASSUME NEW b \in Resident(d), NEW j \in DOMAIN put,
                      put[j].prefix = d.blocks[b].owner,
                      d.blocks[b].pos < put[j].blocks
               PROVE  j \in d.blocks[b].claims
    BY DEF Covered, put
  <2>2. b \in BlockId /\ b \in Resident(c)
    BY <1>5 DEF Resident
  <2>3. CASE j = k
    <3>0. put[j].prefix = p /\ put[j].blocks = n
      BY <2>1, <2>3
    <3>1. p = c.blocks[b].owner /\ c.blocks[b].pos < n
      BY <1>4, <2>2, <3>0
    <3>2. b \in bs
      BY <1>1, <2>2, <3>1
    <3> QED
      BY <1>4, <2>2, <2>3, <3>2
  <2>4. CASE j # k
    BY <1>4, <2>1, <2>2, <2>4 DEF Covered
  <2> QED
    BY <2>3, <2>4
<1> QED
  BY <1>12, <1>13 DEF d

\* The empty pool.
LEMMA EmptyCacheInv == CacheInv(EmptyCache) /\ Covered(EmptyCache, EmptyDict)
<1> DEFINE e == EmptyCache
<1>1. /\ e.blocks = [b \in BlockId |-> Cleared(0)]
      /\ e.freeBlocks = [i \in 1 .. Capacity |-> i - 1] /\ e.freeQueue = << >>
      /\ e.residentByPrefix = EmptyDict /\ e.protectedByClaim = EmptyDict
      /\ e.ledger = EmptyDict /\ DOMAIN e = DOMAIN EmptyCache
  BY DEF EmptyCache
<1> HIDE DEF e
<1>2. \A b \in BlockId :
        /\ e.blocks[b] \in BlockType
        /\ e.blocks[b].state = "free" /\ e.blocks[b].owner = None
        /\ e.blocks[b].claims = {}
  BY <1>1 DEF Cleared, BlockType
<1>3. Resident(e) = {}
  BY <1>2 DEF Resident
<1>4. /\ e.freeBlocks \in Seq(BlockId) /\ Len(e.freeBlocks) = Capacity
      /\ \A i \in 1 .. Capacity : e.freeBlocks[i] = i - 1
  BY <1>1, CapacityAssumption DEF BlockId
<1>5. Lists(e.freeBlocks, BlockId \ Resident(e))
  <2>1. ASSUME NEW x \in BlockId PROVE \E i \in 1 .. Capacity : e.freeBlocks[i] = x
    <3>1. x + 1 \in 1 .. Capacity /\ e.freeBlocks[x+1] = x
      BY <1>4, CapacityAssumption DEF BlockId
    <3> QED
      BY <3>1
  <2> QED
    <3>1. \A i, j \in 1 .. Capacity : e.freeBlocks[i] = e.freeBlocks[j] => i = j
      BY <1>4, CapacityAssumption
    <3>2. \A i \in 1 .. Capacity : e.freeBlocks[i] \in BlockId
      BY <1>4, CapacityAssumption DEF BlockId
    <3> DEFINE s == e.freeBlocks
    <3>3. s \in Seq(BlockId) /\ Len(s) = Capacity
      BY <1>4
    <3>4. BlockId \ Resident(e) = BlockId
      BY <1>3
    <3> HIDE DEF s
    <3>5. \A x : x \in BlockId <=> \E i \in 1 .. Len(s) : s[i] = x
      BY <2>1, <3>2, <3>3 DEF s
    <3>6. Lists(s, BlockId)
      BY <3>1, <3>3, <3>5 DEF Lists, s
    <3> QED
      BY <3>4, <3>6 DEF s
<1>6. /\ \A K : BlockDict(EmptyDict, K)
      /\ \A k : Held(EmptyDict, k) = {}
      /\ \A K, V : IsDict(EmptyDict, K, V)
  BY DEF EmptyDict, BlockDict, IsDict, Held
<1>7. CacheType(e)
  <2>1. e.blocks \in [BlockId -> BlockType]
    BY <1>1, <1>2
  <2>2. e.freeQueue \in Seq(BlockId)
    BY <1>1
  <2> QED
    BY <1>1, <1>4, <1>6, <2>1, <2>2 DEF CacheType
<1>8. BlocksMarked(e) /\ ClaimedRanked(e) /\ PlacesUnique(e)
  BY <1>2, <1>3 DEF BlocksMarked, ClaimedRanked, PlacesUnique
<1>9. ResidentIndexed(e) /\ ClaimsIndexed(e)
  BY <1>1, <1>2, <1>3, <1>6 DEF ResidentIndexed, ClaimsIndexed
<1>10. Covered(e, EmptyDict)
  BY <1>3 DEF Covered
<1> QED
  BY <1>5, <1>7, <1>8, <1>9, <1>10 DEF CacheInv, e

-----------------------------------------------------------------------------
(* The runtime.                                                            *)

\* The inductive invariant: the cache is consistent, and covers the accepted
\* ranges; the rest is typed.
IInv ==
  /\ CacheInv(cache)
  /\ cache.events = << >>
  /\ Covered(cache, accepted)
  /\ step \in 0 .. MaxStep
  /\ IsDict(prefixes, PrefixId, Shape)
  /\ IsDict(accepted, Claim, [prefix : Prefix, blocks : Nat])
  /\ IsDict(decisions, Claim, [blocks : Nat, physical : SUBSET BlockId])

-----------------------------------------------------------------------------
(* What the actions share.                                                 *)

\* Dropping the events of a call changes nothing else.
LEMMA SettledInv ==
  ASSUME NEW c, CacheInv(c), NEW acc, Covered(c, acc)
  PROVE  /\ CacheInv(Settled(c)) /\ Settled(c).events = << >> /\ Covered(Settled(c), acc)
         /\ Resident(Settled(c)) = Resident(c) /\ HeldPlaces(Settled(c)) = HeldPlaces(c)
<1> DEFINE d == Settled(c)
<1>1. DOMAIN c = DOMAIN EmptyCache
  BY DEF CacheInv, CacheType
<1>2. /\ DOMAIN d = DOMAIN EmptyCache /\ d.events = << >>
      /\ d.blocks = c.blocks /\ d.freeBlocks = c.freeBlocks
      /\ d.freeQueue = c.freeQueue /\ d.residentByPrefix = c.residentByPrefix
      /\ d.protectedByClaim = c.protectedByClaim /\ d.ledger = c.ledger
  BY <1>1 DEF Settled, EmptyCache
<1> HIDE DEF d
<1>3. Resident(d) = Resident(c)
  BY <1>2 DEF Resident
<1>4. CacheInv(d)
  BY <1>2, <1>3
  DEF CacheInv, CacheType, BlocksMarked, ResidentIndexed, ClaimsIndexed,
      PlacesUnique, Place, ClaimedRanked
<1>5. Covered(d, acc)
  BY <1>2, <1>3 DEF Covered
<1>6. HeldPlaces(d) = HeldPlaces(c)
  BY <1>2, <1>3 DEF HeldPlaces, Place
<1> QED
  BY <1>2, <1>3, <1>4, <1>5, <1>6 DEF d

\* Refreshed decisions are typed.
LEMMA RefreshedType ==
  ASSUME NEW c, CacheInv(c), IInv
  PROVE  IsDict(Refreshed(c), Claim, [blocks : Nat, physical : SUBSET BlockId])
<1>1. \A k \in Claim : Held(c.protectedByClaim, k) \in SUBSET BlockId
  BY DEF CacheInv, ClaimsIndexed
<1>2. \A k \in DOMAIN decisions :
        /\ k \in Claim
        /\ decisions[k] \in [blocks : Nat, physical : SUBSET BlockId]
  BY DEF IInv, IsDict
<1>3. \A k \in DOMAIN decisions :
        [decisions[k] EXCEPT !.physical = Held(c.protectedByClaim, k)]
          \in [blocks : Nat, physical : SUBSET BlockId]
  BY <1>1, <1>2
<1> QED
  BY <1>2, <1>3 DEF Refreshed, IsDict

\* The accepted ranges are typed as the lemmas on the cache want them.
LEMMA AcceptedIsTyped == IInv => AcceptedType(accepted)
  BY DEF IInv, AcceptedType, IsDict, PrefixId

\* A materialization, settled and refreshed, leaves the invariant's conjuncts
\* on the cache and the decisions true.
LEMMA MaterializeInv ==
  ASSUME IInv, NEW c, CacheInv(c), Covered(c, accepted),
         NEW p \in PrefixId, NEW n \in Nat, NEW prio \in {-1, 0, 1, 2}, step < MaxStep,
         cache' = Settled(InsertLeading(c, accepted, p, n, prio, Now)),
         decisions' = Refreshed(InsertLeading(c, accepted, p, n, prio, Now)),
         accepted' = accepted
  PROVE  /\ CacheInv(cache') /\ cache'.events = << >>
         /\ Covered(cache', accepted')
         /\ IsDict(decisions', Claim, [blocks : Nat, physical : SUBSET BlockId])
         /\ IsDict(accepted', Claim, [prefix : Prefix, blocks : Nat])
<1> DEFINE m == InsertLeading(c, accepted, p, n, prio, Now)
<1>1. Now \in Nat
  BY DEF IInv, Now
<1>2. CacheInv(m) /\ Covered(m, accepted)
  BY <1>1, AcceptedIsTyped, InsertLeadingInv
<1> HIDE DEF m
<1>3. CacheInv(Settled(m)) /\ Settled(m).events = << >> /\ Covered(Settled(m), accepted)
  BY <1>2, SettledInv
<1>4. IsDict(Refreshed(m), Claim, [blocks : Nat, physical : SUBSET BlockId])
  BY <1>2, RefreshedType
<1> QED
  BY <1>3, <1>4 DEF IInv, m

-----------------------------------------------------------------------------
(* The invariant is inductive.                                             *)

LEMMA InitIInv == Init => IInv
<1> SUFFICES ASSUME Init PROVE IInv
  OBVIOUS
<1>1. \A K, V : IsDict(EmptyDict, K, V)
  BY DEF EmptyDict, IsDict
<1>2. EmptyCache.events = << >>
  BY DEF EmptyCache
<1>3. 0 \in 0 .. MaxStep
  BY StepAssumption
<1> QED
  BY <1>1, <1>2, <1>3, EmptyCacheInv DEF Init, IInv

LEMMA StepTyped == IInv /\ NextStep => step' \in 0 .. MaxStep
  BY StepAssumption DEF IInv, NextStep, Now

\* What any active prefill policy decides: some leading blocks of the prefix,
\* at one of the four priorities.
LEMMA DecisionTyped ==
  ASSUME NEW p, prefixes[p].count \in Nat, NEW d \in ActiveDecisions(p)
  PROVE  /\ d.blocks \in Nat /\ d.blocks \in 0 .. prefixes[p].count
         /\ d.prio \in {-1, 0, 1, 2}
<1> DEFINE n == prefixes[p].count
           Typed == d.blocks \in 0 .. n /\ d.prio \in {-1, 0, 1, 2}
<1>1. n \in Nat
  OBVIOUS
<1> SUFFICES Typed
  OBVIOUS
<1>2. d \in Admissions(n) \/ d = ByDensity(p)
  BY DEF ActiveDecisions
<1>2a. /\ ByDensity(p).blocks = n \/ ByDensity(p).blocks = 0
       /\ ByDensity(p).prio = 2 \/ ByDensity(p).prio = 0
  BY DEF ByDensity
<1> HIDE DEF n
<1>2b. n \in 0 .. n /\ 0 \in 0 .. n
  BY <1>1
<1>3. CASE d = [decision |-> "cache_admit", blocks |-> n, prio |-> 2]
  BY <1>2b, <1>3
<1>4. CASE d = [decision |-> "cache_no_admit", blocks |-> 0, prio |-> 0]
  BY <1>2b, <1>4
<1>5. CASE d = [decision |-> "cache_demote", blocks |-> n, prio |-> -1]
  BY <1>2b, <1>5
<1>6. CASE \E m \in Partials :
             d = [decision |-> "cache_partial",
                  blocks |-> IF m < n THEN m ELSE n, prio |-> 2]
  <2>1. PICK m \in Partials :
               d = [decision |-> "cache_partial",
                    blocks |-> IF m < n THEN m ELSE n, prio |-> 2]
    BY <1>6
  <2>2. m \in Nat
    BY SizeAssumption
  <2>3. (IF m < n THEN m ELSE n) \in 0 .. n
    BY <1>1, <2>2
  <2> QED
    BY <2>1, <2>3
<1>7. CASE d = ByDensity(p)
  BY <1>2a, <1>2b, <1>7
<1> QED
  BY <1>2, <1>3, <1>4, <1>5, <1>6, <1>7 DEF Admissions

LEMMA NextIInv == IInv /\ [Next]_vars => IInv'
<1> SUFFICES ASSUME IInv, [Next]_vars PROVE IInv'
  OBVIOUS
<1>1. CASE UNCHANGED vars
  BY <1>1 DEF IInv, vars
<1>2. ASSUME NEW p \in Prefix, NEW shape \in ShapesOf[p], RegisterPrefix(p, shape)
      PROVE  IInv'
  <2>1. shape \in Shape /\ p \in PrefixId
    BY ShapeAssumption DEF PrefixId
  <2>2. IsDict(prefixes', PrefixId, Shape)
    BY <1>2, <2>1 DEF RegisterPrefix, IInv, IsDict, Put
  <2> QED
    BY <1>2, <2>2 DEF RegisterPrefix, IInv
<1>3. ASSUME NEW k \in Claim, NEW n, AdmitClaim(k, n)
      PROVE  IInv'
  <2> DEFINE p == ClaimedPrefix[k]
  <2>1. p \in Prefix /\ p \in PrefixId
    BY ClaimAssumption DEF PrefixId
  <2>2. p \in DOMAIN prefixes /\ n \in Nat
    BY <1>3 DEF AdmitClaim, IInv, IsDict, Shape
  <2>3. CASE n = 0
    <3>1. [blocks |-> 0, physical |-> {}] \in [blocks : Nat, physical : SUBSET BlockId]
      OBVIOUS
    <3>2. IsDict(decisions', Claim, [blocks : Nat, physical : SUBSET BlockId])
      BY <1>3, <2>3, <3>1 DEF AdmitClaim, IInv, IsDict, Put
    <3> QED
      BY <1>3, <2>3, <3>2 DEF AdmitClaim, IInv
  <2>4. CASE n # 0
    <3> HIDE DEF p
    <3>1. /\ accepted' = Put(accepted, k, [prefix |-> p, blocks |-> n])
          /\ cache' = ProtectExisting(cache, k, p, n)
          /\ decisions' = Put(decisions, k, [blocks |-> n, physical |-> InRange(cache, p, n)])
          /\ UNCHANGED <<step, prefixes>>
      BY <1>3, <2>4 DEF AdmitClaim, p
    <3>2. CacheInv(cache') /\ Covered(cache', accepted')
      BY <2>1, <2>2, <3>1, ProtectExistingInv DEF IInv
    <3>3. cache'.events = cache.events
      BY <3>1 DEF ProtectExisting, IInv, CacheInv, CacheType, EmptyCache
    <3>4. InRange(cache, p, n) \in SUBSET BlockId
      BY <2>1 DEF InRange, IInv, CacheInv, ResidentIndexed, Resident
    <3>5. IsDict(decisions', Claim, [blocks : Nat, physical : SUBSET BlockId])
      <4>1. [blocks |-> n, physical |-> InRange(cache, p, n)]
              \in [blocks : Nat, physical : SUBSET BlockId]
        BY <2>2, <3>4
      <4> QED
        BY <3>1, <4>1 DEF IInv, IsDict, Put
    <3>6. IsDict(accepted', Claim, [prefix : Prefix, blocks : Nat])
      <4>1. [prefix |-> p, blocks |-> n] \in [prefix : Prefix, blocks : Nat]
        BY <2>1, <2>2
      <4> QED
        BY <3>1, <4>1 DEF IInv, IsDict, Put
    <3> QED
      BY <3>1, <3>2, <3>3, <3>5, <3>6 DEF IInv
  <2> QED
    BY <2>3, <2>4
<1>4. ASSUME NEW p \in DOMAIN prefixes
      PROVE  p \in PrefixId /\ prefixes[p].count \in Nat
  BY DEF IInv, IsDict, Shape
<1>5. ASSUME NEW p \in DOMAIN prefixes, Prefill(p)
      PROVE  IInv'
  <2>1. step < MaxStep /\ prefixes' = prefixes
    BY <1>5 DEF Prefill, NextStep
  <2>2. /\ CacheInv(cache') /\ cache'.events = << >>
        /\ Covered(cache', accepted')
        /\ IsDict(decisions', Claim, [blocks : Nat, physical : SUBSET BlockId])
        /\ IsDict(accepted', Claim, [prefix : Prefix, blocks : Nat])
    BY <1>4, <1>5, <2>1, MaterializeInv DEF Prefill, IInv
  <2>3. step' \in 0 .. MaxStep
    BY <1>5, StepTyped DEF Prefill
  <2> QED
    BY <2>1, <2>2, <2>3 DEF IInv
<1>6. ASSUME NEW p \in DOMAIN prefixes, NEW d \in ActiveDecisions(p),
             ActivePrefill(p, d)
      PROVE  IInv'
  <2>1. step < MaxStep /\ prefixes' = prefixes /\ accepted' = accepted
    BY <1>6 DEF ActivePrefill, NextStep
  <2>2. d.blocks \in Nat /\ d.prio \in {-1, 0, 1, 2}
    BY <1>4, DecisionTyped
  <2>3. step' \in 0 .. MaxStep
    BY <1>6, StepTyped DEF ActivePrefill
  <2>4. CASE d.decision = "cache_no_admit"
    BY <1>6, <2>1, <2>3, <2>4 DEF ActivePrefill, IInv
  <2>5. CASE d.decision # "cache_no_admit"
    <3>1. /\ cache' = Settled(InsertLeading(cache, accepted, p, d.blocks, d.prio, Now))
          /\ decisions' = Refreshed(InsertLeading(cache, accepted, p, d.blocks, d.prio, Now))
      BY <1>6, <2>5 DEF ActivePrefill
    <3>2. /\ CacheInv(cache') /\ cache'.events = << >>
          /\ Covered(cache', accepted')
          /\ IsDict(decisions', Claim, [blocks : Nat, physical : SUBSET BlockId])
          /\ IsDict(accepted', Claim, [prefix : Prefix, blocks : Nat])
      BY <1>4, <2>1, <2>2, <3>1, MaterializeInv DEF IInv
    <3> QED
      BY <2>1, <2>3, <3>2 DEF IInv
  <2> QED
    BY <2>4, <2>5
<1>7. ASSUME NEW n \in PressureSizes, Pressure(n)
      PROVE  IInv'
  <2> DEFINE p == <<"__pressure__", Now>>
  <2>1. n \in Nat /\ p \in PrefixId
    BY SizeAssumption DEF PrefixId, PressureId, Now, IInv
  <2> HIDE DEF p
  <2>2. /\ cache' = Settled(InsertLeading(cache, accepted, p, n, 0, Now))
        /\ decisions' = Refreshed(InsertLeading(cache, accepted, p, n, 0, Now))
        /\ prefixes' = Put(prefixes, p, [count |-> n, threshold |-> n + 1, value |-> 0,
                                     curve |-> "threshold"])
        /\ accepted' = accepted /\ step < MaxStep
    BY <1>7 DEF Pressure, NextStep, p
  <2>3. /\ CacheInv(cache') /\ cache'.events = << >>
        /\ Covered(cache', accepted')
        /\ IsDict(decisions', Claim, [blocks : Nat, physical : SUBSET BlockId])
        /\ IsDict(accepted', Claim, [prefix : Prefix, blocks : Nat])
    BY <2>1, <2>2, MaterializeInv DEF IInv
  <2>4. step' \in 0 .. MaxStep
    BY <1>7, StepTyped DEF Pressure
  <2>5. IsDict(prefixes', PrefixId, Shape)
    <3>1. [count |-> n, threshold |-> n + 1, value |-> 0,
                                     curve |-> "threshold"] \in Shape
      BY <2>1 DEF Shape, Curves
    <3> QED
      BY <2>1, <2>2, <3>1 DEF IInv, IsDict, Put
  <2> QED
    BY <2>3, <2>4, <2>5 DEF IInv
<1>8. ASSUME NEW p \in DOMAIN prefixes, NEW recompute \in BOOLEAN,
             ReturnPrefix(p, recompute)
      PROVE  IInv'
  <2>1. step < MaxStep /\ prefixes' = prefixes /\ accepted' = accepted
    BY <1>8 DEF ReturnPrefix, NextStep
  <2>2. step' \in 0 .. MaxStep
    BY <1>8, StepTyped DEF ReturnPrefix
  <2>3. CASE ~ recompute
    BY <1>8, <2>1, <2>2, <2>3 DEF ReturnPrefix, IInv
  <2>4. CASE recompute
    <3> DEFINE f == FreeOwn(cache, p, Now)
    <3>1. Now \in Nat
      BY DEF IInv, Now
    <3>2. CacheInv(f) /\ Covered(f, accepted)
      BY <1>4, <3>1, FreeOwnInv DEF IInv
    <3>3. /\ cache' = Settled(InsertLeading(f, accepted, p, prefixes[p].count, 0, Now))
          /\ decisions' = Refreshed(InsertLeading(f, accepted, p, prefixes[p].count, 0, Now))
      BY <1>8, <2>4 DEF ReturnPrefix
    <3> HIDE DEF f
    <3>4. /\ CacheInv(cache') /\ cache'.events = << >>
          /\ Covered(cache', accepted')
          /\ IsDict(decisions', Claim, [blocks : Nat, physical : SUBSET BlockId])
          /\ IsDict(accepted', Claim, [prefix : Prefix, blocks : Nat])
      BY <1>4, <2>1, <3>2, <3>3, MaterializeInv
    <3> QED
      BY <2>1, <2>2, <3>4 DEF IInv
  <2> QED
    BY <2>3, <2>4
<1>9. CASE Reset
  <2>1. \A K, V : IsDict(EmptyDict, K, V)
    BY DEF EmptyDict, IsDict
  <2>2. EmptyCache.events = << >>
    BY DEF EmptyCache
  <2>3. step' \in 0 .. MaxStep
    BY <1>9, StepTyped DEF Reset
  <2> QED
    BY <1>9, <2>1, <2>2, <2>3, EmptyCacheInv DEF Reset, IInv
<1> QED
  BY <1>1, <1>2, <1>3, <1>5, <1>6, <1>7, <1>8, <1>9 DEF Next

LEMMA AlwaysIInv == Spec => []IInv
<1> QED
  BY InitIInv, NextIInv, PTL DEF Spec

-----------------------------------------------------------------------------
(* What follows from it.                                                   *)

\* Every variable keeps its type (TypeOK, checked by the runs of MCRuntime).
THEOREM TypeCorrect == Spec => []TypeOK
<1>1. IInv => TypeOK
  BY DEF IInv, CacheInv, TypeOK
<1> QED
  BY <1>1, AlwaysIInv, PTL

\* No sequence of calls makes validate_state raise CacheInvariantError.
THEOREM ValidationNeverFails == Spec => []NeverRaises
<1>1. IInv => NeverRaises
  <2> SUFFICES ASSUME IInv PROVE ValidState(cache)
    BY DEF NeverRaises
  <2> DEFINE c == cache
  <2>1. CacheInv(c)
    BY DEF IInv
  <2> HIDE DEF c
  <2>2. \A b \in BlockId :
          \/ /\ c.blocks[b].state = "free"
             /\ c.blocks[b].owner = None /\ c.blocks[b].claims = {}
          \/ /\ c.blocks[b].state = "resident"
             /\ c.blocks[b].owner # None /\ c.blocks[b].pos # NoPosition
    BY <2>1, IdAssumption DEF CacheInv, BlocksMarked, NoPosition
  <2>3. c.residentByPrefix = ResidentSeen(c)
    <3> DEFINE r == c.residentByPrefix
               owners == {c.blocks[b].owner : b \in Resident(c)}
    <3>1. /\ BlockDict(r, PrefixId)
          /\ \A p \in PrefixId : Held(r, p) = {b \in Resident(c) : c.blocks[b].owner = p}
      BY <2>1 DEF CacheInv, ResidentIndexed
    <3>2. owners \subseteq PrefixId
      BY <2>1 DEF CacheInv, BlocksMarked, Resident
    <3>3. DOMAIN r \subseteq PrefixId /\ r = [p \in DOMAIN r |-> r[p]]
      BY <3>1 DEF BlockDict, IsDict
    <3> HIDE DEF r
    <3>4. \A p \in DOMAIN r :
            r[p] # {} /\ r[p] = {b \in Resident(c) : c.blocks[b].owner = p}
      BY <3>1, <3>3 DEF BlockDict, Held
    <3>5. \A p \in owners : p \in DOMAIN r
      BY <3>1, <3>2 DEF Held
    <3>6. DOMAIN r = owners
      BY <3>4, <3>5
    <3> QED
      BY <3>3, <3>4, <3>6 DEF ResidentSeen, r
  <2>4. ToSet(c.freeBlocks) = BlockId \ Resident(c)
    <3>1. /\ c.freeBlocks \in Seq(BlockId)
          /\ \A x : x \in BlockId \ Resident(c) <=>
                    \E i \in 1 .. Len(c.freeBlocks) : c.freeBlocks[i] = x
      BY <2>1 DEF CacheInv, Lists
    <3> QED
      BY <3>1 DEF ToSet
  <2>5. \A k \in DOMAIN c.protectedByClaim : \A b \in c.protectedByClaim[k] :
          c.blocks[b].state = "resident" /\ k \in c.blocks[b].claims
    <3>1. \A k \in DOMAIN c.protectedByClaim :
            c.protectedByClaim[k] = {b \in BlockId : k \in c.blocks[b].claims}
      BY <2>1 DEF CacheInv, ClaimsIndexed, BlockDict, IsDict, Held
    <3>2. \A b \in BlockId : c.blocks[b].claims # {} => c.blocks[b].state = "resident"
      BY <2>1 DEF CacheInv, BlocksMarked
    <3> QED
      BY <3>1, <3>2
  <2> QED
    BY <2>2, <2>3, <2>4, <2>5 DEF ValidState, c
<1> QED
  BY <1>1, AlwaysIInv, PTL

\* protected_by_claim is exactly the annotation kept on the blocks, and the
\* deque of free blocks has no duplicates.
THEOREM IndexesAreExact == Spec => []IndexesExact
<1>1. IInv => IndexesExact
  <2> SUFFICES ASSUME IInv PROVE IndexesExact
    OBVIOUS
  <2>1. CacheInv(cache)
    BY DEF IInv
  <2>2. \A k \in Claim :
          Held(cache.protectedByClaim, k) = {b \in BlockId : k \in cache.blocks[b].claims}
    BY <2>1 DEF CacheInv, ClaimsIndexed
  <2>3. {} \notin Range(cache.protectedByClaim)
    BY <2>1 DEF CacheInv, ClaimsIndexed, BlockDict, Range
  <2>4. IsInjective(cache.freeBlocks)
    <3>1. cache.freeBlocks \in Seq(BlockId)
      BY <2>1 DEF CacheInv, Lists
    <3>2. DOMAIN cache.freeBlocks = 1 .. Len(cache.freeBlocks)
      BY <3>1
    <3> QED
      BY <2>1, <3>2 DEF CacheInv, Lists, IsInjective
  <2> QED
    BY <2>2, <2>3, <2>4 DEF IndexesExact
<1> QED
  BY <1>1, AlwaysIInv, PTL

\* No position of a prefix is held by two blocks.
THEOREM PositionsHeldOnce == Spec => []OneBlockPerPosition
<1>1. IInv => OneBlockPerPosition
  BY DEF IInv, CacheInv, PlacesUnique, OneBlockPerPosition
<1> QED
  BY <1>1, AlwaysIInv, PTL

\* Whatever the order of admissions, insertions, recomputes and resets, a
\* resident block inside an accepted range carries the claim and ranks as
\* protected.
THEOREM AcceptedRangesStayProtected == Spec => []AcceptedRangesProtected
<1>1. IInv => AcceptedRangesProtected
  <2> SUFFICES ASSUME IInv, NEW b \in Resident(cache), NEW k \in DOMAIN accepted,
                      accepted[k].prefix = cache.blocks[b].owner,
                      cache.blocks[b].pos < accepted[k].blocks
               PROVE  k \in cache.blocks[b].claims /\ cache.blocks[b].prio >= 1
    BY DEF AcceptedRangesProtected
  <2>1. k \in cache.blocks[b].claims
    BY DEF IInv, Covered
  <2>2. cache.blocks[b].prio >= 1
    BY <2>1 DEF IInv, CacheInv, ClaimedRanked, Resident
  <2> QED
    BY <2>1, <2>2
<1> QED
  BY <1>1, AlwaysIInv, PTL

-----------------------------------------------------------------------------
(* The decisions in the log.                                               *)

\* Refreshing the decisions after the cache has become c makes them fresh.
LEMMA RefreshedIsFresh ==
  ASSUME IInv, NEW c, CacheInv(c),
         cache' = Settled(c), decisions' = Refreshed(c)
  PROVE  DecisionsFresh'
<1>1. cache'.protectedByClaim = c.protectedByClaim
  BY DEF Settled, CacheInv, CacheType, EmptyCache
<1>2. \A k \in DOMAIN decisions : DOMAIN decisions[k] = {"blocks", "physical"}
  BY DEF IInv, IsDict
<1>3. \A k \in DOMAIN decisions : decisions'[k].physical = Held(c.protectedByClaim, k)
  BY <1>2 DEF Refreshed
<1>4. DOMAIN decisions' = DOMAIN decisions
  BY DEF Refreshed
<1> QED
  BY <1>1, <1>3, <1>4 DEF DecisionsFresh

\* One step per way in which a call touches the decisions or the index.
LEMMA NextDecisionsFresh == IInv /\ DecisionsFresh /\ [Next]_vars => DecisionsFresh'
<1> SUFFICES ASSUME IInv, DecisionsFresh, [Next]_vars PROVE DecisionsFresh'
  OBVIOUS
<1>1. ASSUME UNCHANGED <<cache, decisions>> PROVE DecisionsFresh'
  BY <1>1 DEF DecisionsFresh
<1>2. ASSUME NEW c, CacheInv(c), Covered(c, accepted), NEW p \in PrefixId, NEW n \in Nat,
             NEW prio \in {-1, 0, 1, 2},
             cache' = Settled(InsertLeading(c, accepted, p, n, prio, Now)),
             decisions' = Refreshed(InsertLeading(c, accepted, p, n, prio, Now))
      PROVE  DecisionsFresh'
  <2> DEFINE m == InsertLeading(c, accepted, p, n, prio, Now)
  <2>1. Now \in Nat
    BY DEF IInv, Now
  <2>2. CacheInv(m)
    BY <1>2, <2>1, AcceptedIsTyped, InsertLeadingInv
  <2> HIDE DEF m
  <2> QED
    BY <1>2, <2>2, RefreshedIsFresh DEF m
<1>3. ASSUME NEW p \in DOMAIN prefixes
      PROVE  p \in PrefixId /\ prefixes[p].count \in Nat
  BY DEF IInv, IsDict, Shape
<1>4. CacheInv(cache) /\ Covered(cache, accepted)
  BY DEF IInv
<1>5. ASSUME NEW k \in Claim, NEW n, AdmitClaim(k, n)
      PROVE  DecisionsFresh'
  <2> DEFINE p  == ClaimedPrefix[k]
             bs == InRange(cache, p, n)
  <2>1. CASE n = 0
    BY <1>5, <2>1 DEF AdmitClaim, DecisionsFresh, Put
  <2>2. CASE n # 0
    <3>1. /\ cache' = ProtectExisting(cache, k, p, n)
          /\ decisions' = Put(decisions, k, [blocks |-> n, physical |-> bs])
      BY <1>5, <2>2 DEF AdmitClaim
    <3> HIDE DEF p, bs
    <3>2. cache'.protectedByClaim =
            IF bs = {} THEN cache.protectedByClaim
            ELSE Put(cache.protectedByClaim, k, Held(cache.protectedByClaim, k) \cup bs)
      BY <1>4, <3>1 DEF ProtectExisting, bs, CacheInv, CacheType, EmptyCache
    <3>3. /\ bs \subseteq Held(cache'.protectedByClaim, k)
          /\ \A j : Held(cache.protectedByClaim, j) \subseteq Held(cache'.protectedByClaim, j)
      BY <3>2 DEF Put, Held
    <3> QED
      BY <3>1, <3>3 DEF DecisionsFresh, Put
  <2> QED
    BY <2>1, <2>2
<1>6. ASSUME NEW p \in DOMAIN prefixes, Prefill(p) PROVE DecisionsFresh'
  BY <1>2, <1>3, <1>4, <1>6 DEF Prefill
<1>7. ASSUME NEW p \in DOMAIN prefixes, NEW d \in ActiveDecisions(p), ActivePrefill(p, d)
      PROVE  DecisionsFresh'
  <2>1. d.blocks \in Nat /\ d.prio \in {-1, 0, 1, 2}
    BY <1>3, DecisionTyped
  <2>2. CASE d.decision = "cache_no_admit"
    BY <1>1, <1>7, <2>2 DEF ActivePrefill
  <2>3. CASE d.decision # "cache_no_admit"
    BY <1>2, <1>3, <1>4, <1>7, <2>1, <2>3 DEF ActivePrefill
  <2> QED
    BY <2>2, <2>3
<1>8. ASSUME NEW n \in PressureSizes, Pressure(n) PROVE DecisionsFresh'
  <2> DEFINE p == <<"__pressure__", Now>>
  <2>1. n \in Nat /\ p \in PrefixId
    BY SizeAssumption DEF PrefixId, PressureId, Now, IInv
  <2>2. /\ cache' = Settled(InsertLeading(cache, accepted, p, n, 0, Now))
        /\ decisions' = Refreshed(InsertLeading(cache, accepted, p, n, 0, Now))
    BY <1>8 DEF Pressure
  <2> HIDE DEF p
  <2> QED
    BY <1>2, <1>4, <2>1, <2>2
<1>9. ASSUME NEW p \in DOMAIN prefixes, NEW recompute \in BOOLEAN,
             ReturnPrefix(p, recompute)
      PROVE  DecisionsFresh'
  <2>1. CASE ~ recompute
    BY <1>1, <1>9, <2>1 DEF ReturnPrefix
  <2>2. CASE recompute
    <3> DEFINE f == FreeOwn(cache, p, Now)
    <3>1. Now \in Nat
      BY DEF IInv, Now
    <3>2. CacheInv(f) /\ Covered(f, accepted)
      BY <1>3, <1>4, <3>1, FreeOwnInv
    <3>3. /\ cache' = Settled(InsertLeading(f, accepted, p, prefixes[p].count, 0, Now))
          /\ decisions' = Refreshed(InsertLeading(f, accepted, p, prefixes[p].count, 0, Now))
      BY <1>9, <2>2 DEF ReturnPrefix
    <3> HIDE DEF f
    <3> QED
      BY <1>2, <1>3, <3>2, <3>3
  <2> QED
    BY <2>1, <2>2
<1>10. CASE Reset
  BY <1>10 DEF Reset, EmptyDict, DecisionsFresh
<1>11. ASSUME NEW p \in Prefix, NEW shape \in ShapesOf[p], RegisterPrefix(p, shape)
       PROVE  DecisionsFresh'
  BY <1>1, <1>11 DEF RegisterPrefix
<1>12. CASE UNCHANGED vars
  BY <1>1, <1>12 DEF vars
<1> QED
  BY <1>5, <1>6, <1>7, <1>8, <1>9, <1>10, <1>11, <1>12 DEF Next

\* The physical blocks a claim's last decision names are blocks the claim
\* protects now, whatever was evicted, recomputed or admitted since.
THEOREM DecisionsStayFresh == Spec => []DecisionsFresh
<1>1. Init => DecisionsFresh
  BY DEF Init, DecisionsFresh, EmptyDict
<1> QED
  BY <1>1, NextDecisionsFresh, AlwaysIInv, PTL DEF Spec

-----------------------------------------------------------------------------
(* The refinement of ResidentSet.                                          *)

\* As many places are held as blocks are resident, and never more than there
\* are blocks.
LEMMA HeldCounts ==
  ASSUME NEW c, CacheInv(c)
  PROVE  /\ IsFiniteSet(HeldPlaces(c)) /\ Cardinality(HeldPlaces(c)) <= Capacity
         /\ Cardinality(HeldPlaces(c)) \in Nat
         /\ Resident(c) = BlockId => Cardinality(HeldPlaces(c)) = Capacity
<1> DEFINE R == Resident(c)
           H == HeldPlaces(c)
           f == [b \in R |-> Place(c, b)]
<1>1. IsFiniteSet(BlockId) /\ Cardinality(BlockId) = Capacity
  BY FS_Interval, CapacityAssumption DEF BlockId
<1>2. R \in SUBSET BlockId
  BY DEF Resident
<1>3. IsFiniteSet(R) /\ Cardinality(R) <= Capacity
  BY <1>1, <1>2, FS_Subset
<1>4. f \in Bijection(R, H)
  <2>1. \A a, b \in R : f[a] = f[b] => a = b
    BY DEF CacheInv, PlacesUnique
  <2>2. f \in [R -> H] /\ \A x \in H : \E b \in R : f[b] = x
    BY DEF HeldPlaces
  <2> QED
    BY <2>1, <2>2 DEF Bijection, Injection, Surjection, IsInjective
<1>5. ExistsBijection(R, H)
  BY <1>4 DEF ExistsBijection
<1>6. IsFiniteSet(H) /\ Cardinality(H) = Cardinality(R)
  BY <1>3, <1>5, FS_Bijection
<1>7. Cardinality(H) \in Nat
  BY <1>6, FS_CardinalityType
<1> QED
  BY <1>1, <1>3, <1>6, <1>7

LEMMA LeadIsFinite ==
  ASSUME NEW p, NEW n \in Nat
  PROVE  IsFiniteSet(Lead(p, n))
<1> DEFINE f == [i \in 0 .. n - 1 |-> <<p, i>>]
<1>1. f \in Surjection(0 .. n - 1, Lead(p, n))
  BY DEF Surjection, Lead
<1>2. IsFiniteSet(0 .. n - 1)
  BY FS_Interval
<1> QED
  BY <1>1, <1>2, FS_Surjection

-----------------------------------------------------------------------------
\* What ResidentSet allows a call to make of the places it keeps.
Allowed(new, kept, p, n) ==
  LET wanted == kept \cup Lead(p, n)
  IN  IF Cardinality(wanted) <= Capacity
        THEN new = wanted
        ELSE /\ new \subseteq wanted /\ Cardinality(new) = Capacity
             /\ <<p, n - 1>> \in new

\* What materialize_prefix makes of the places that are held is allowed.
LEMMA BroughtIsAllowed ==
  ASSUME NEW c, CacheInv(c), NEW d, CacheInv(d), NEW p, NEW n \in Nat,
         Brings(d, c, Lead(p, n)), n > 0 => <<p, n-1>> \in HeldPlaces(d)
  PROVE  Allowed(HeldPlaces(d), HeldPlaces(c), p, n)
<1> DEFINE new    == HeldPlaces(d)
           kept   == HeldPlaces(c)
           wanted == kept \cup Lead(p, n)
<1>1. /\ IsFiniteSet(new) /\ Cardinality(new) <= Capacity /\ Cardinality(new) \in Nat
      /\ Resident(d) = BlockId => Cardinality(new) = Capacity
  BY HeldCounts
<1>2. IsFiniteSet(kept) /\ Cardinality(kept) <= Capacity
  BY HeldCounts
<1>3. IsFiniteSet(wanted)
  BY <1>2, LeadIsFinite, FS_Union
<1>4. new \subseteq wanted /\ (new = wanted \/ Resident(d) = BlockId)
  BY DEF Brings
<1> HIDE DEF new, kept
<1>5. CASE Cardinality(wanted) <= Capacity
  <2>1. CASE Resident(d) = BlockId
    <3>1. Cardinality(new) <= Cardinality(wanted) /\ Cardinality(wanted) \in Nat
      BY <1>3, <1>4, FS_Subset, FS_CardinalityType
    <3>2. Cardinality(wanted) = Cardinality(new)
      BY <1>1, <1>5, <2>1, <3>1, CapacityAssumption
    <3> QED
      BY <1>3, <1>4, <1>5, <3>2, FS_Subset DEF Allowed, new, kept
  <2> QED
    BY <1>4, <1>5, <2>1 DEF Allowed, new, kept
<1>6. CASE ~ (Cardinality(wanted) <= Capacity)
  <2>1. new # wanted
    BY <1>1, <1>6
  <2>2. Cardinality(new) = Capacity
    BY <1>1, <1>4, <2>1
  <2>3. n # 0
    <3>1. ASSUME n = 0 PROVE Lead(p, n) = {}
      BY <3>1 DEF Lead
    <3> QED
      BY <1>2, <1>6, <3>1
  <2> QED
    BY <1>4, <1>6, <2>2, <2>3 DEF Allowed, new, kept
<1> QED
  BY <1>5, <1>6

LEMMA MaterializePlaces ==
  ASSUME IInv, NEW c, CacheInv(c), Covered(c, accepted),
         NEW p \in PrefixId, NEW n \in Nat, NEW prio \in {-1, 0, 1, 2},
         cache' = Settled(InsertLeading(c, accepted, p, n, prio, Now))
  PROVE  Allowed(HeldPlaces(cache'), HeldPlaces(c), p, n)
<1> DEFINE m == InsertLeading(c, accepted, p, n, prio, Now)
<1>1. Now \in Nat
  BY DEF IInv, Now
<1>2. /\ CacheInv(m) /\ Covered(m, accepted)
      /\ Brings(m, c, Lead(p, n)) /\ (n > 0 => <<p, n-1>> \in HeldPlaces(m))
  BY <1>1, AcceptedIsTyped, InsertLeadingInv
<1> HIDE DEF m
<1>3. Allowed(HeldPlaces(m), HeldPlaces(c), p, n)
  BY <1>2, BroughtIsAllowed
<1>4. HeldPlaces(Settled(m)) = HeldPlaces(m)
  BY <1>2, SettledInv
<1> QED
  BY <1>3, <1>4 DEF m

LEMMA AllowedIsMaterialize ==
  ASSUME NEW kept, NEW p, NEW n, Allowed(HeldPlaces(cache'), kept, p, n)
  PROVE  Residents!Materialize(kept, p, n)
<1>1. Residents!Leading(p, n) = Lead(p, n)
  BY DEF Residents!Leading, Lead
<1>2. HeldPlaces(cache)' = HeldPlaces(cache')
  BY DEF HeldPlaces, Place, Resident
<1> DEFINE new    == HeldPlaces(cache')
           wanted == kept \cup Lead(p, n)
<1>3. IF Cardinality(wanted) <= Capacity
        THEN new = wanted
        ELSE new \subseteq wanted /\ Cardinality(new) = Capacity /\ <<p, n - 1>> \in new
  BY DEF Allowed
<1>3a. \A S : Residents!Cardinality(S) = Cardinality(S)
  BY DEF Residents!Cardinality, Cardinality
<1> HIDE DEF new
<1>4. Residents!Materialize(kept, p, n)
        <=> IF Cardinality(wanted) <= Capacity
              THEN new = wanted
              ELSE new \subseteq wanted /\ Cardinality(new) = Capacity /\ <<p, n - 1>> \in new
  BY <1>1, <1>2, <1>3a, Zenon DEF Residents!Materialize, new
<1> QED
  BY <1>3, <1>4

-----------------------------------------------------------------------------
(* The refinement.                                                         *)

LEMMA InitMaps == Init => Residents!Init
<1> SUFFICES ASSUME Init PROVE Residents!Init
  OBVIOUS
<1>1. \A b \in BlockId : EmptyCache.blocks[b].state = "free"
  BY DEF EmptyCache, Cleared
<1>2. Resident(cache) = {}
  BY <1>1 DEF Init, Resident
<1>3. HeldPlaces(cache) = {}
  BY <1>2 DEF HeldPlaces
<1>4. DOMAIN BlockCounts = {}
  BY DEF Init, BlockCounts, EmptyDict
<1> QED
  BY <1>3, <1>4 DEF Residents!Init

\* The blocks of a claim are annotated where they are.
LEMMA AdmissionKeepsPlaces ==
  ASSUME NEW c, CacheInv(c), NEW k \in Claim, NEW p \in PrefixId, NEW n \in Nat
  PROVE  /\ HeldPlaces(ProtectExisting(c, k, p, n)) = HeldPlaces(c)
         /\ Residency(ProtectExisting(c, k, p, n)) = Residency(c)
<1> DEFINE d == ProtectExisting(c, k, p, n)
           bs == InRange(c, p, n)
<1>1. c.blocks \in [BlockId -> BlockType] /\ DOMAIN c = DOMAIN EmptyCache
  BY DEF CacheInv, CacheType
<1>2. d.blocks = [b \in BlockId |-> IF b \in bs THEN Protected(c.blocks[b], k)
                                               ELSE c.blocks[b]]
  <2> HIDE DEF bs
  <2> QED
    BY <1>1 DEF ProtectExisting, EmptyCache, bs
<1> HIDE DEF d
<1>3. \A b \in BlockId : /\ d.blocks[b].state = c.blocks[b].state
                         /\ d.blocks[b].owner = c.blocks[b].owner
                         /\ d.blocks[b].pos = c.blocks[b].pos
  <2> SUFFICES ASSUME NEW b \in BlockId
               PROVE  /\ d.blocks[b].state = c.blocks[b].state
                      /\ d.blocks[b].owner = c.blocks[b].owner
                      /\ d.blocks[b].pos = c.blocks[b].pos
    OBVIOUS
  <2> DEFINE x == c.blocks[b]
  <2>1. x \in BlockType
    BY <1>1
  <2>2. d.blocks[b] = IF b \in bs THEN Protected(x, k) ELSE x
    BY <1>2
  <2> HIDE DEF x, bs
  <2>3. /\ Protected(x, k).state = x.state /\ Protected(x, k).owner = x.owner
        /\ Protected(x, k).pos = x.pos
    BY <2>1 DEF Protected, BlockType
  <2> QED
    BY <2>2, <2>3 DEF x
<1>4. Resident(d) = Resident(c)
  BY <1>3 DEF Resident
<1>5. \A b \in Resident(c) : Place(d, b) = Place(c, b)
  BY <1>3 DEF Place, Resident
<1>6. Residency(d) = Residency(c)
  BY <1>3, <1>4 DEF Residency, Resident
<1> QED
  BY <1>4, <1>5, <1>6 DEF HeldPlaces, d

\* The id that the next call of pressure makes is new.
PressureIsFresh == \A m \in Nat : m > step => <<"__pressure__", m>> \notin DOMAIN prefixes

LEMMA AlwaysPressureIsFresh == Spec => []PressureIsFresh
<1>1. Init => PressureIsFresh
  BY DEF Init, PressureIsFresh, EmptyDict
<1>2. IInv /\ PressureIsFresh /\ [Next]_vars => PressureIsFresh'
  <2> SUFFICES ASSUME IInv, PressureIsFresh, [Next]_vars,
                      NEW m \in Nat, m > step'
               PROVE  <<"__pressure__", m>> \notin DOMAIN prefixes'
    BY DEF PressureIsFresh
  <2>0. step \in Nat
    BY StepAssumption DEF IInv
  <2>1. step' = step \/ step' = step + 1
    BY DEF vars, Next, RegisterPrefix, AdmitClaim, Prefill, ActivePrefill,
           ReturnPrefix, Pressure, Reset, NextStep, Now
  <2>2. <<"__pressure__", m>> \notin DOMAIN prefixes
    BY <2>0, <2>1 DEF PressureIsFresh
  <2>3. ASSUME NEW p \in Prefix, NEW shape, RegisterPrefix(p, shape)
        PROVE  <<"__pressure__", m>> \notin DOMAIN prefixes'
    <3>1. DOMAIN prefixes' = DOMAIN prefixes \cup {p}
      BY <2>3 DEF RegisterPrefix, Put
    <3>2. <<"__pressure__", m>> \in PressureId
      BY DEF PressureId
    <3> QED
      BY <2>2, <3>1, <3>2, IdAssumption
  <2>4. ASSUME NEW n \in PressureSizes, Pressure(n)
        PROVE  <<"__pressure__", m>> \notin DOMAIN prefixes'
    <3>1. /\ DOMAIN prefixes' = DOMAIN prefixes \cup {<<"__pressure__", step + 1>>}
          /\ step' = step + 1
      BY <2>4 DEF Pressure, Put, NextStep, Now
    <3>2. m # step + 1
      BY <2>0, <3>1
    <3> QED
      BY <2>2, <3>1, <3>2
  <2>5. CASE UNCHANGED prefixes
    BY <2>2, <2>5
  <2> QED
    BY <2>3, <2>4, <2>5
       DEF vars, Next, AdmitClaim, Prefill, ActivePrefill, ReturnPrefix, Reset
<1> QED
  BY <1>1, <1>2, AlwaysIInv, PTL DEF Spec

LEMMA NextMaps ==
  ASSUME IInv, PressureIsFresh, [Next]_vars
  PROVE  [Residents!Next]_<<HeldPlaces(cache), BlockCounts>>
<1> DEFINE Same == HeldPlaces(cache') = HeldPlaces(cache) /\ BlockCounts' = BlockCounts
<1>0. /\ DOMAIN BlockCounts = DOMAIN prefixes /\ DOMAIN BlockCounts' = DOMAIN prefixes'
      /\ \A q \in DOMAIN prefixes : BlockCounts[q] = prefixes[q].count
      /\ \A q \in DOMAIN prefixes' : BlockCounts'[q] = prefixes'[q].count
  BY DEF BlockCounts
<1>1. ASSUME Same PROVE [Residents!Next]_<<HeldPlaces(cache), BlockCounts>>
  BY <1>1
<1>2. CASE UNCHANGED vars
  BY <1>1, <1>2 DEF vars, BlockCounts
<1>3. ASSUME NEW p \in Prefix, NEW shape \in ShapesOf[p], RegisterPrefix(p, shape)
      PROVE  Residents!Next
  <2>1. /\ DOMAIN prefixes' = DOMAIN prefixes \cup {p}
        /\ \A q \in DOMAIN prefixes \ {p} : prefixes'[q] = prefixes[q]
        /\ cache' = cache
    BY <1>3 DEF RegisterPrefix, Put
  <2>2. Residents!Register(p) /\ p \in DOMAIN BlockCounts'
    BY <1>0, <2>1 DEF Residents!Register, Residents!Registers
  <2> QED
    BY <2>2 DEF Residents!Next
<1>4. ASSUME NEW k \in Claim, NEW n, AdmitClaim(k, n)
      PROVE  Same
  <2>1. ClaimedPrefix[k] \in PrefixId
    BY ClaimAssumption DEF PrefixId
  <2>2. n \in Nat /\ BlockCounts' = BlockCounts
    BY <1>4 DEF AdmitClaim, IInv, IsDict, Shape, BlockCounts
  <2>4. HeldPlaces(ProtectExisting(cache, k, ClaimedPrefix[k], n)) = HeldPlaces(cache)
    BY <2>1, <2>2, AdmissionKeepsPlaces DEF IInv
  <2> QED
    BY <1>4, <2>2, <2>4 DEF AdmitClaim
<1>5. ASSUME NEW p \in DOMAIN prefixes
      PROVE  /\ p \in PrefixId /\ prefixes[p].count \in Nat
             /\ p \in DOMAIN BlockCounts /\ BlockCounts[p] = prefixes[p].count
  BY <1>0 DEF IInv, IsDict, Shape
<1>6. ASSUME NEW p \in DOMAIN prefixes, NEW n \in 0 .. prefixes[p].count,
             prefixes' = prefixes, Allowed(HeldPlaces(cache'), HeldPlaces(cache), p, n)
      PROVE  Residents!Next
  <2>1. Residents!Materialize(HeldPlaces(cache), p, n)
    BY <1>6, AllowedIsMaterialize
  <2>2. BlockCounts' = BlockCounts
    BY <1>6 DEF BlockCounts
  <2>3. Residents!Prefill(p)
    BY <1>5, <2>1, <2>2 DEF Residents!Prefill
  <2> QED
    BY <1>5, <2>3 DEF Residents!Next
<1>7. ASSUME NEW p \in DOMAIN prefixes, Prefill(p)
      PROVE  Residents!Next
  <2>1. prefixes[p].count \in 0 .. prefixes[p].count
    BY <1>5
  <2>2. Allowed(HeldPlaces(cache'), HeldPlaces(cache), p, prefixes[p].count)
    BY <1>5, <1>7, MaterializePlaces DEF Prefill, IInv
  <2> QED
    BY <1>6, <1>7, <2>1, <2>2 DEF Prefill
<1>8. ASSUME NEW p \in DOMAIN prefixes, NEW d \in ActiveDecisions(p), ActivePrefill(p, d)
      PROVE  [Residents!Next]_<<HeldPlaces(cache), BlockCounts>>
  <2>1. CASE d.decision = "cache_no_admit"
    BY <1>1, <1>8, <2>1 DEF ActivePrefill, BlockCounts
  <2>2. CASE d.decision # "cache_no_admit"
    <3>1. d.blocks \in 0 .. prefixes[p].count /\ d.prio \in {-1, 0, 1, 2}
      BY <1>5, DecisionTyped
    <3>2. /\ cache' = Settled(InsertLeading(cache, accepted, p, d.blocks, d.prio, Now))
          /\ prefixes' = prefixes
      BY <1>8, <2>2 DEF ActivePrefill
    <3>3. d.blocks \in Nat
      BY <1>5, <3>1
    <3>4. Allowed(HeldPlaces(cache'), HeldPlaces(cache), p, d.blocks)
      BY <1>5, <3>1, <3>2, <3>3, MaterializePlaces DEF IInv
    <3> QED
      BY <1>6, <3>1, <3>2, <3>4
  <2> QED
    BY <2>1, <2>2
<1>9. ASSUME NEW p \in DOMAIN prefixes, NEW recompute \in BOOLEAN,
             ReturnPrefix(p, recompute)
      PROVE  [Residents!Next]_<<HeldPlaces(cache), BlockCounts>>
  <2>1. prefixes' = prefixes /\ BlockCounts' = BlockCounts
    BY <1>9 DEF ReturnPrefix, BlockCounts
  <2>2. CASE ~ recompute
    BY <1>1, <1>9, <2>1, <2>2 DEF ReturnPrefix
  <2>3. CASE recompute
    <3> DEFINE f == FreeOwn(cache, p, Now)
               n == prefixes[p].count
    <3>1. Now \in Nat
      BY DEF IInv, Now
    <3>2. /\ CacheInv(f) /\ Covered(f, accepted)
          /\ HeldPlaces(f) = {x \in HeldPlaces(cache) : x[1] # p}
      BY <1>5, <3>1, FreeOwnInv DEF IInv
    <3>3. cache' = Settled(InsertLeading(f, accepted, p, n, 0, Now))
      BY <1>9, <2>3 DEF ReturnPrefix
    <3> HIDE DEF f
    <3>4. Allowed(HeldPlaces(cache'), HeldPlaces(f), p, n)
      BY <1>5, <3>2, <3>3, MaterializePlaces
    <3>5. HeldPlaces(f) = HeldPlaces(cache) \ Residents!PlacesOf(p)
      BY <3>2 DEF Residents!PlacesOf
    <3>6. Residents!Materialize(HeldPlaces(cache) \ Residents!PlacesOf(p), p, n)
      BY <3>4, <3>5, AllowedIsMaterialize
    <3>7. Residents!Recompute(p)
      BY <1>5, <2>1, <3>6 DEF Residents!Recompute
    <3> QED
      BY <1>5, <3>7 DEF Residents!Next
  <2> QED
    BY <2>2, <2>3
<1>10. ASSUME NEW n \in PressureSizes, Pressure(n)
       PROVE  Residents!Next
  <2> DEFINE p == <<"__pressure__", Now>>
  <2>1. n \in Nat /\ p \in PrefixId
    BY SizeAssumption DEF PrefixId, PressureId, Now, IInv
  <2> HIDE DEF p
  <2>2. /\ cache' = Settled(InsertLeading(cache, accepted, p, n, 0, Now))
        /\ prefixes' = Put(prefixes, p, [count |-> n, threshold |-> n + 1, value |-> 0,
                                     curve |-> "threshold"])
    BY <1>10 DEF Pressure, p
  <2>3. Allowed(HeldPlaces(cache'), HeldPlaces(cache), p, n)
    BY <2>1, <2>2, MaterializePlaces DEF IInv
  <2>4. Residents!Materialize(HeldPlaces(cache), p, n)
    BY <2>3, AllowedIsMaterialize
  <2>5. /\ DOMAIN prefixes' = DOMAIN prefixes \cup {p} /\ prefixes'[p].count = n
        /\ \A q \in DOMAIN prefixes \ {p} : prefixes'[q] = prefixes[q]
    BY <2>2 DEF Put
  <2>6. /\ Residents!Registers(p) /\ p \in DOMAIN BlockCounts' /\ BlockCounts'[p] = n
    BY <1>0, <2>5 DEF Residents!Registers
  <2>7. p \notin DOMAIN BlockCounts
    BY <1>0 DEF p, PressureIsFresh, Now, IInv
  <2>8. Residents!Pressure(p)
    BY <2>4, <2>6, <2>7 DEF Residents!Pressure
  <2> QED
    BY <2>6, <2>8 DEF Residents!Next
<1>11. CASE Reset
  <2>1. \A b \in BlockId : EmptyCache.blocks[b].state = "free"
    BY DEF EmptyCache, Cleared
  <2>2. Resident(cache') = {}
    BY <1>11, <2>1 DEF Reset, Resident
  <2>3. HeldPlaces(cache') = {} /\ BlockCounts' = BlockCounts
    BY <1>11, <2>2 DEF HeldPlaces, Reset, BlockCounts
  <2>4. Residents!Clear
    BY <2>3 DEF Residents!Clear
  <2> QED
    BY <2>4 DEF Residents!Next
<1> QED
  BY <1>1, <1>2, <1>3, <1>4, <1>7, <1>8, <1>9, <1>10, <1>11 DEF Next

\* Whatever the claims, the priorities, the evictions and the bound on the
\* steps: the runtime implements ResidentSet.
THEOREM RuntimeImplementsResidentSet == Spec => ImplementsResidentSet
<1>1. IInv /\ PressureIsFresh /\ [Next]_vars
        => [Residents!Next]_<<HeldPlaces(cache), BlockCounts>>
  BY NextMaps
<1> QED
  BY <1>1, InitMaps, AlwaysIInv, AlwaysPressureIsFresh, PTL DEF Spec, ImplementsResidentSet, Residents!Spec
=============================================================================
