--------------------------- MODULE BookkeepingProofs ---------------------------
(***************************************************************************)
(* The records that MicroRuntime keeps beside the pool and that            *)
(* validate_state does not look at: free_queue, the position ledger and    *)
(* the log; and which blocks a materialization gives up.                   *)
(***************************************************************************)
EXTENDS MicroRuntimeProofs

-----------------------------------------------------------------------------
(* Removing one element of a deque.                                        *)

\* t is s without its m-th element.
Drops(t, s, m) ==
  /\ Len(t) = Len(s) - 1
  /\ \A i \in 1 .. Len(s) - 1 : t[i] = IF i < m THEN s[i] ELSE s[i+1]

LEMMA RemoveFirstDrops ==
  ASSUME NEW S, NEW s \in Seq(S), NEW e, \E i \in 1 .. Len(s) : s[i] = e
  PROVE  \E m \in 1 .. Len(s) : s[m] = e /\ Drops(RemoveFirst(s, e), s, m)
<1> DEFINE I == {i \in 1 .. Len(s) : s[i] = e}
           m == CHOOSE x \in I : \A y \in I : x =< y
<1>1. RemoveFirst(s, e) = RemoveAt(s, m)
  BY DEF RemoveFirst, SelectInSeq, Min
<1>2. I \in SUBSET Nat /\ I # {}
  OBVIOUS
<1>3. m \in I
  <2> HIDE DEF I
  <2> QED
    BY <1>2, LeastNatural
<1>4. m \in 1 .. Len(s) /\ s[m] = e /\ Len(s) \in Nat /\ \A i \in 1 .. Len(s) : s[i] \in S
  BY <1>3
<1> HIDE DEF m
<1> DEFINE a == SubSeq(s, 1, m-1)
           z == SubSeq(s, m+1, Len(s))
           t == a \o z
<1>5. a \in Seq(S) /\ Len(a) = m - 1 /\ \A i \in 1 .. m - 1 : a[i] = s[i]
  <2>1. \A i \in 1 .. m - 1 : s[i] \in S
    BY <1>4
  <2> QED
    BY <1>4, <2>1, SubSeqProperties
<1>6. z \in Seq(S) /\ Len(z) = Len(s) - m /\ \A i \in 1 .. Len(s) - m : z[i] = s[m+i]
  <2>1. \A i \in m + 1 .. Len(s) : s[i] \in S
    BY <1>4
  <2>2. \A i \in 1 .. Len(s) - (m + 1) + 1 : z[i] = s[(m + 1) + i - 1]
    BY <1>4, <2>1, SubSeqProperties
  <2>3. z \in Seq(S) /\ Len(z) = IF m + 1 <= Len(s) THEN Len(s) - (m + 1) + 1 ELSE 0
    BY <1>4, <2>1, SubSeqProperties
  <2>4. ASSUME NEW i \in 1 .. Len(s) - m PROVE z[i] = s[m+i]
    <3>1. Len(s) - m = Len(s) - (m + 1) + 1 /\ m + i = (m + 1) + i - 1
      BY <1>4
    <3> QED
      BY <2>2, <3>1
  <2> QED
    BY <1>4, <2>3, <2>4
<1> HIDE DEF a, z
<1>7. /\ Len(t) = Len(a) + Len(z)
      /\ \A i \in 1 .. Len(a) + Len(z) : t[i] = IF i <= Len(a) THEN a[i] ELSE z[i - Len(a)]
  BY <1>5, <1>6, ConcatProperties
<1> HIDE DEF t
<1>8. ASSUME NEW i \in 1 .. Len(s) - 1
      PROVE  t[i] = IF i < m THEN s[i] ELSE s[i+1]
  <2>1. i \in 1 .. Len(a) + Len(z)
    BY <1>4, <1>5, <1>6
  <2>2. CASE i < m
    BY <1>4, <1>5, <1>7, <2>1, <2>2
  <2>3. CASE ~ (i < m)
    <3>1. i - Len(a) \in 1 .. Len(s) - m /\ m + (i - Len(a)) = i + 1 /\ ~ (i <= Len(a))
      BY <1>4, <1>5, <2>3
    <3> QED
      BY <1>6, <1>7, <2>1, <2>3, <3>1
  <2> QED
    BY <2>2, <2>3
<1>9. Len(t) = Len(s) - 1
  BY <1>4, <1>5, <1>6, <1>7
<1>10. t = RemoveFirst(s, e)
  BY <1>1 DEF RemoveAt, t, a, z
<1>11. Drops(RemoveFirst(s, e), s, m)
  BY <1>8, <1>9, <1>10 DEF Drops
<1> QED
  BY <1>4, <1>11

\* t lists elements of s in the order of s.
Follows(t, s) ==
  \A i, j \in 1 .. Len(t) : i < j =>
    \E k, l \in 1 .. Len(s) : k < l /\ s[k] = t[i] /\ s[l] = t[j]

LEMMA RemoveLists ==
  ASSUME NEW s, NEW S, Lists(s, S), NEW b \in S
  PROVE  Lists(RemoveFirst(s, b), S \ {b}) /\ Follows(RemoveFirst(s, b), s)
<1> DEFINE t == RemoveFirst(s, b)
<1>1. s \in Seq(BlockId) /\ Len(s) \in Nat
  BY DEF Lists
<1>2. \E i \in 1 .. Len(s) : s[i] = b
  BY DEF Lists
<1>3. PICK m \in 1 .. Len(s) : s[m] = b /\ Drops(t, s, m)
  BY <1>1, <1>2, RemoveFirstDrops
<1>4. t \in Seq(BlockId)
  BY <1>1, RemoveFirstType
<1> HIDE DEF t
<1> DEFINE at(i) == IF i < m THEN i ELSE i + 1
<1>5. \A i \in 1 .. Len(t) : at(i) \in 1 .. Len(s) /\ at(i) # m /\ t[i] = s[at(i)]
  BY <1>1, <1>3 DEF Drops
<1>6. \A i, j \in 1 .. Len(t) : i < j => at(i) < at(j)
  BY <1>1, <1>3 DEF Drops
<1>7. \A k \in 1 .. Len(s) \ {m} : \E i \in 1 .. Len(t) : k = at(i)
  <2> TAKE k \in 1 .. Len(s) \ {m}
  <2>1. CASE k < m
    <3>1. k \in 1 .. Len(t) /\ k = at(k)
      BY <1>1, <1>3, <2>1 DEF Drops
    <3> QED
      BY <3>1
  <2>2. CASE ~ (k < m)
    <3>1. k - 1 \in 1 .. Len(t) /\ k = at(k - 1)
      BY <1>1, <1>3, <2>2 DEF Drops
    <3> QED
      BY <3>1
  <2> QED
    BY <2>1, <2>2
<1>8. Follows(t, s)
  BY <1>5, <1>6 DEF Follows
<1> HIDE DEF at
<1>9. ASSUME NEW i \in 1 .. Len(t), NEW j \in 1 .. Len(t), t[i] = t[j] PROVE i = j
  <2>1. i \in Nat /\ j \in Nat
    BY <1>4
  <2>2. CASE i < j
    <3>1. PICK k, l \in 1 .. Len(s) : k < l /\ s[k] = t[i] /\ s[l] = t[j]
      BY <1>8, <2>2 DEF Follows
    <3> QED
      BY <1>9, <3>1 DEF Lists
  <2>3. CASE j < i
    <3>1. PICK k, l \in 1 .. Len(s) : k < l /\ s[k] = t[j] /\ s[l] = t[i]
      BY <1>8, <2>3 DEF Follows
    <3> QED
      BY <1>9, <3>1 DEF Lists
  <2> QED
    BY <2>1, <2>2, <2>3
<1>10. ASSUME NEW x PROVE x \in S \ {b} <=> \E i \in 1 .. Len(t) : t[i] = x
  <2>1. ASSUME x \in S \ {b} PROVE \E i \in 1 .. Len(t) : t[i] = x
    <3>1. PICK k \in 1 .. Len(s) : s[k] = x
      BY <2>1 DEF Lists
    <3>2. k # m
      BY <1>3, <2>1, <3>1
    <3>3. PICK i \in 1 .. Len(t) : k = at(i)
      BY <1>7, <3>2
    <3> QED
      BY <1>5, <3>1, <3>3
  <2>2. ASSUME NEW i \in 1 .. Len(t), t[i] = x PROVE x \in S \ {b}
    <3>1. at(i) \in 1 .. Len(s) /\ at(i) # m /\ s[at(i)] = x
      BY <1>5, <2>2
    <3> QED
      BY <1>3, <3>1 DEF Lists
  <2> QED
    BY <2>1, <2>2
<1>11. Lists(t, S \ {b})
  BY <1>4, <1>9, <1>10 DEF Lists
<1> QED
  BY <1>8, <1>11 DEF t

-----------------------------------------------------------------------------
(* The books of a cache.                                                   *)

\* free_queue lists the resident blocks, oldest first, none younger than now.
Queued(c, now) ==
  /\ Lists(c.freeQueue, Resident(c))
  /\ \A i, j \in 1 .. Len(c.freeQueue) : i < j =>
       c.blocks[c.freeQueue[i]].touched <= c.blocks[c.freeQueue[j]].touched
  /\ \A b \in Resident(c) : c.blocks[b].touched <= now

\* The row of the ledger at the place of a resident block is about it.
RowOf(c, b) ==
  /\ Place(c, b) \in DOMAIN c.ledger
  /\ c.ledger[Place(c, b)].block = b
  /\ c.ledger[Place(c, b)].evicted = NoStep
  /\ c.ledger[Place(c, b)].protected => c.blocks[b].claims # {}

Booked(c) == \A b \in Resident(c) : RowOf(c, b)

\* The places of which the ledger knows no eviction.
Unevicted(c) == {x \in DOMAIN c.ledger : c.ledger[x].evicted = NoStep}

\* X: the places given up without an eviction, by a recompute under way.
Books(c, now, X) ==
  /\ Queued(c, now)
  /\ Booked(c)
  /\ Unevicted(c) \subseteq HeldPlaces(c) \cup X

\* Later, and with more places given up, the books still stand.
LEMMA BooksWeaken ==
  ASSUME NEW c, CacheInv(c), NEW now \in Nat, NEW X, Books(c, now, X),
         NEW later \in Nat, now <= later, NEW Y, X \subseteq Y
  PROVE  Books(c, later, Y)
<1>1. \A b \in Resident(c) : c.blocks[b].touched \in Nat
  BY DEF CacheInv, CacheType, Resident, BlockType
<1>2. Queued(c, later)
  BY <1>1 DEF Books, Queued
<1> QED
  BY <1>2 DEF Books

\* free_block takes the block off the queue and leaves the ledger alone.
LEMMA FreeBlockBooks ==
  ASSUME NEW c, CacheInv(c), NEW b \in Resident(c), NEW at \in Nat,
         NEW now, NEW X, Books(c, now, X)
  PROVE  /\ Books(FreeBlock(c, b, at), now, X \cup {Place(c, b)})
         /\ HeldPlaces(FreeBlock(c, b, at)) = HeldPlaces(c) \ {Place(c, b)}
<1> DEFINE d == FreeBlock(c, b, at)
<1>1. d.ledger = c.ledger /\ CacheInv(d)
  BY FreeBlockInv
<1>2. /\ Resident(d) = Resident(c) \ {b}
      /\ \A a \in Resident(c) \ {b} : d.blocks[a] = c.blocks[a]
  <2>1. Covered(c, EmptyDict)
    BY DEF Covered, EmptyDict
  <2> QED
    BY <2>1, FreeBlockCovered
<1>3. d.freeQueue = RemoveFirst(c.freeQueue, b)
  BY DEF FreeBlock, CacheInv, CacheType, EmptyCache
<1> HIDE DEF d
<1>4. \A a \in Resident(d) : Place(d, a) = Place(c, a) /\ d.blocks[a] = c.blocks[a]
  BY <1>2 DEF Place
<1>5. Queued(d, now)
  <2> DEFINE s == c.freeQueue
             t == d.freeQueue
  <2>1. Lists(s, Resident(c))
    BY DEF Books, Queued
  <2>2. Lists(t, Resident(d)) /\ Follows(t, s)
    BY <1>2, <1>3, <2>1, RemoveLists
  <2>3. ASSUME NEW i \in 1 .. Len(t), NEW j \in 1 .. Len(t), i < j
        PROVE  d.blocks[t[i]].touched <= d.blocks[t[j]].touched
    <3>1. PICK k, l \in 1 .. Len(s) : k < l /\ s[k] = t[i] /\ s[l] = t[j]
      BY <2>2, <2>3 DEF Follows
    <3>2. c.blocks[s[k]].touched <= c.blocks[s[l]].touched
      BY <3>1 DEF Books, Queued
    <3>3. t[i] \in Resident(d) /\ t[j] \in Resident(d)
      BY <2>2 DEF Lists
    <3> QED
      BY <1>4, <3>1, <3>2, <3>3
  <2>4. \A a \in Resident(d) : d.blocks[a].touched <= now
    BY <1>2, <1>4 DEF Books, Queued
  <2> QED
    BY <2>2, <2>3, <2>4 DEF Queued
<1>6. Booked(d)
  BY <1>1, <1>2, <1>4 DEF Books, Booked, RowOf
<1>7. HeldPlaces(d) = HeldPlaces(c) \ {Place(c, b)}
  <2>1. \A a \in Resident(c) : a \in Resident(d) <=> Place(c, a) # Place(c, b)
    BY <1>2 DEF CacheInv, PlacesUnique
  <2> QED
    BY <1>2, <1>4, <2>1 DEF HeldPlaces
<1>8. Unevicted(d) = Unevicted(c)
  BY <1>1 DEF Unevicted
<1> QED
  BY <1>5, <1>6, <1>7, <1>8 DEF Books, d

\* An eviction is entered in the row of the place that is given up.
LEMMA EvictOneBooks ==
  ASSUME NEW c, CacheInv(c), Resident(c) # {}, NEW at \in Nat,
         NEW now, NEW X, Books(c, now, X)
  PROVE  Books(EvictOne(c, at), now, X)
<1> DEFINE b == Victim(c)
           f == FreeBlock(c, b, at)
           d == EvictOne(c, at)
<1>1. b \in Resident(c)
  BY VictimIsResident
<1> HIDE DEF b
<1>2. /\ CacheInv(f) /\ f.ledger = c.ledger
      /\ Books(f, now, X \cup {Place(c, b)})
      /\ HeldPlaces(f) = HeldPlaces(c) \ {Place(c, b)}
  BY <1>1, FreeBlockInv, FreeBlockBooks
<1> HIDE DEF f
<1>3. DOMAIN f = DOMAIN EmptyCache
  BY <1>2 DEF CacheInv, CacheType
<1>4. /\ d.blocks = f.blocks /\ d.freeQueue = f.freeQueue
      /\ d.ledger = [k \in DOMAIN f.ledger |->
                       IF k = Place(c, b) THEN [f.ledger[k] EXCEPT !.evicted = at]
                                          ELSE f.ledger[k]]
  BY <1>3 DEF EvictOne, EmptyCache, f, b
<1> HIDE DEF d
<1>5. /\ Resident(d) = Resident(f) /\ HeldPlaces(d) = HeldPlaces(f)
      /\ \A a : Place(d, a) = Place(f, a)
  BY <1>4 DEF Resident, HeldPlaces, Place
<1>6. Queued(d, now)
  BY <1>2, <1>4, <1>5 DEF Books, Queued
<1>7. Booked(d)
  <2> SUFFICES ASSUME NEW a \in Resident(d) PROVE RowOf(d, a)
    BY DEF Booked
  <2>1. RowOf(f, a)
    BY <1>2, <1>5 DEF Books, Booked
  <2>2. Place(f, a) # Place(c, b)
    BY <1>2, <1>5 DEF HeldPlaces
  <2>3. Place(d, a) \in DOMAIN d.ledger /\ d.ledger[Place(d, a)] = f.ledger[Place(f, a)]
    BY <1>4, <1>5, <2>1, <2>2 DEF RowOf
  <2> QED
    BY <1>4, <1>5, <2>1, <2>3 DEF RowOf
<1>8. Unevicted(d) \subseteq Unevicted(f) \ {Place(c, b)}
  <2> SUFFICES ASSUME NEW x \in Unevicted(d)
               PROVE  x \in Unevicted(f) /\ x # Place(c, b)
    OBVIOUS
  <2>1. x \in DOMAIN f.ledger /\ d.ledger[x].evicted = NoStep
    BY <1>4 DEF Unevicted
  <2>2. x # Place(c, b)
    <3>1. f.ledger[x] \in RowType
      BY <1>2, <2>1 DEF CacheInv, CacheType, IsDict
    <3>2. [f.ledger[x] EXCEPT !.evicted = at].evicted = at
      BY <3>1 DEF RowType
    <3>3. at # NoStep
      BY DEF NoStep
    <3> QED
      BY <1>4, <2>1, <3>2, <3>3
  <2> QED
    BY <1>4, <2>1, <2>2 DEF Unevicted
<1> QED
  BY <1>2, <1>5, <1>6, <1>7, <1>8 DEF Books, d

LEMMA MakeRoomBooks ==
  ASSUME NEW c, CacheInv(c), NEW at \in Nat, NEW now, NEW X, Books(c, now, X)
  PROVE  Books(MakeRoom(c, at), now, X)
<1>1. CASE c.freeBlocks # << >>
  BY <1>1 DEF MakeRoom
<1>2. CASE c.freeBlocks = << >>
  <2>1. 0 \in BlockId
    BY CapacityAssumption DEF BlockId
  <2>2. Len(c.freeBlocks) = 0
    BY <1>2, EmptySeq
  <2>3. Resident(c) # {}
    BY <2>1, <2>2 DEF CacheInv, Lists, Resident
  <2> QED
    BY <1>2, <2>3, EvictOneBooks DEF MakeRoom
<1> QED
  BY <1>1, <1>2

\* An insertion goes to the end of the queue and opens a new row.
LEMMA FillBooks ==
  ASSUME NEW c, CacheInv(c), c.freeBlocks # << >>,
         NEW acc, AcceptedType(acc), Covered(c, acc),
         NEW p \in PrefixId, NEW i \in Nat,
         \A a \in Resident(c) : Place(c, a) # <<p, i>>,
         NEW prio \in {-1, 0, 1, 2}, NEW now \in Nat, NEW X, Books(c, now, X)
  PROVE  Books(Fill(c, acc, p, i, prio, now), now, X \ {<<p, i>>})
<1> DEFINE b  == Head(c.freeBlocks)
           ks == ClaimIdsFor(acc, p, i)
           d  == Fill(c, acc, p, i, prio, now)
           e  == Entry(p, i, ks, prio, now)
           row == [block |-> b, protected |-> ks # {}, inserted |-> now,
                   evicted |-> NoStep]
<1>1. b \in BlockId /\ b \notin Resident(c)
  <2> DEFINE free == BlockId \ Resident(c)
  <2>1. Lists(c.freeBlocks, free)
    BY DEF CacheInv
  <2> HIDE DEF free
  <2>2. b \in BlockId /\ b \in free
    BY <2>1, PopLists
  <2> QED
    BY <2>2 DEF free
<1>2. c.blocks \in [BlockId -> BlockType] /\ DOMAIN c = DOMAIN EmptyCache
  BY DEF CacheInv, CacheType
<1>3. /\ d.blocks = [c.blocks EXCEPT ![b] = e]
      /\ d.freeQueue = Append(c.freeQueue, b)
      /\ d.ledger = Put(c.ledger, <<p, i>>, row)
  BY <1>2 DEF Fill, EmptyCache
<1>4. HeldPlaces(d) = HeldPlaces(c) \cup {<<p, i>>}
  BY FillInv
<1>5. /\ e.state = "resident" /\ e.owner = p /\ e.pos = i /\ e.claims = ks
      /\ e.touched = now
  BY DEF Entry
<1>6. /\ row.block = b /\ row.evicted = NoStep /\ (row.protected <=> ks # {})
  OBVIOUS
<1> HIDE DEF b, ks, d, e, row
<1>7. /\ \A a \in BlockId : d.blocks[a] = IF a = b THEN e ELSE c.blocks[a]
      /\ d.blocks[b] = e
  BY <1>1, <1>2, <1>3
<1>8. Resident(d) = Resident(c) \cup {b}
  BY <1>1, <1>5, <1>7 DEF Resident
<1>9. /\ \A a \in Resident(c) : a # b /\ Place(d, a) = Place(c, a) /\ d.blocks[a] = c.blocks[a]
      /\ Place(d, b) = <<p, i>>
  BY <1>1, <1>5, <1>7 DEF Place, Resident
<1>10. Queued(d, now)
  <2> DEFINE s == c.freeQueue
             t == d.freeQueue
  <2>1. Lists(s, Resident(c)) /\ s \in Seq(BlockId) /\ Len(s) \in Nat
    BY DEF Books, Queued, Lists
  <2>2. Lists(t, Resident(d))
    BY <1>1, <1>3, <1>8, <2>1, AppendLists
  <2>3. Len(t) = Len(s) + 1 /\ t[Len(s) + 1] = b /\ \A k \in 1 .. Len(s) : t[k] = s[k]
    BY <1>1, <1>3, <2>1, AppendProperties
  <2>4. \A k \in 1 .. Len(s) : s[k] \in Resident(c)
    BY <2>1 DEF Lists
  <2>5. \A a \in Resident(c) : d.blocks[a].touched = c.blocks[a].touched
                               /\ c.blocks[a].touched <= now
    BY <1>9 DEF Books, Queued
  <2>6. d.blocks[b].touched = now
    BY <1>5, <1>7
  <2> HIDE DEF t, s
  <2>7. ASSUME NEW k \in 1 .. Len(t), NEW l \in 1 .. Len(t), k < l
        PROVE  d.blocks[t[k]].touched <= d.blocks[t[l]].touched
    <3>1. k \in 1 .. Len(s) /\ (l \in 1 .. Len(s) \/ l = Len(s) + 1)
      BY <2>1, <2>3, <2>7
    <3>2. CASE l = Len(s) + 1
      BY <2>3, <2>4, <2>5, <2>6, <3>1, <3>2
    <3>3. CASE l \in 1 .. Len(s)
      <4>1. c.blocks[s[k]].touched <= c.blocks[s[l]].touched
        BY <2>7, <3>1, <3>3 DEF Books, Queued, s
      <4> QED
        BY <2>3, <2>4, <2>5, <3>1, <3>3, <4>1
    <3> QED
      BY <3>1, <3>2, <3>3
  <2>8. \A a \in Resident(d) : d.blocks[a].touched <= now
    BY <1>8, <2>5, <2>6
  <2> QED
    BY <2>2, <2>7, <2>8 DEF Queued, t
<1>11. /\ DOMAIN d.ledger = DOMAIN c.ledger \cup {<<p, i>>} /\ d.ledger[<<p, i>>] = row
       /\ \A x \in DOMAIN c.ledger : x # <<p, i>> => d.ledger[x] = c.ledger[x]
  BY <1>3 DEF Put
<1>12. Booked(d)
  <2> SUFFICES ASSUME NEW a \in Resident(d) PROVE RowOf(d, a)
    BY DEF Booked
  <2>1. CASE a = b
    BY <1>5, <1>6, <1>7, <1>9, <1>11, <2>1 DEF RowOf
  <2>2. CASE a # b
    <3>1. a \in Resident(c) /\ RowOf(c, a)
      BY <1>8, <2>2 DEF Books, Booked
    <3> QED
      BY <1>9, <1>11, <3>1 DEF RowOf
  <2> QED
    BY <2>1, <2>2
<1>13. Unevicted(d) \subseteq HeldPlaces(d) \cup (X \ {<<p, i>>})
  BY <1>4, <1>11 DEF Unevicted, Books
<1> QED
  BY <1>10, <1>12, <1>13 DEF Books, d

\* One round: what it brings in is no longer given up.
LEMMA InsertPositionBooks ==
  ASSUME NEW c, CacheInv(c),
         NEW acc, AcceptedType(acc), Covered(c, acc),
         NEW p \in PrefixId, NEW i \in Nat,
         NEW prio \in {-1, 0, 1, 2}, NEW now \in Nat, NEW X, Books(c, now, X)
  PROVE  Books(InsertPosition(c, acc, p, i, prio, now), now, X \ {<<p, i>>})
<1>1. CASE i \in ResidentPositions(c, p)
  <2>1. <<p, i>> \in HeldPlaces(c)
    BY <1>1 DEF ResidentPositions, HeldPlaces, Place, CacheInv, ResidentIndexed
  <2>2. Books(c, now, X \ {<<p, i>>})
    BY <2>1 DEF Books
  <2> QED
    BY <1>1, <2>2 DEF InsertPosition
<1>2. CASE i \notin ResidentPositions(c, p)
  <2> DEFINE m == MakeRoom(c, now)
  <2>1. /\ CacheInv(m) /\ Covered(m, acc) /\ m.freeBlocks # << >>
        /\ Resident(m) \subseteq Resident(c)
        /\ \A a \in Resident(m) : m.blocks[a] = c.blocks[a]
    BY MakeRoomInv
  <2>2. Books(m, now, X)
    BY MakeRoomBooks
  <2> HIDE DEF m
  <2>3. \A a \in Resident(c) : Place(c, a) # <<p, i>>
    BY <1>2 DEF ResidentPositions, Place, CacheInv, ResidentIndexed
  <2>4. \A a \in Resident(m) : Place(m, a) # <<p, i>>
    BY <2>1, <2>3 DEF Place
  <2>5. Books(Fill(m, acc, p, i, prio, now), now, X \ {<<p, i>>})
    BY <2>1, <2>2, <2>4, FillBooks
  <2> QED
    BY <1>2, <2>5 DEF InsertPosition, m
<1> QED
  BY <1>1, <1>2

\* materialize_prefix, by induction on its rounds.
LEMMA InsertLeadingBooks ==
  ASSUME NEW c, CacheInv(c),
         NEW acc, AcceptedType(acc), Covered(c, acc),
         NEW p \in PrefixId, NEW n \in Nat,
         NEW prio \in {-1, 0, 1, 2}, NEW now \in Nat, NEW X, Books(c, now, X)
  PROVE  Books(InsertLeading(c, acc, p, n, prio, now), now, X \ Lead(p, n))
<1>1. PICK g : Rounds(g, c, acc, p, n, prio, now)
  BY InsertLeadingRounds
<1>2. /\ g[0] = c /\ g[n] = InsertLeading(c, acc, p, n, prio, now)
      /\ \A i \in 0 .. n - 1 : g[i+1] = InsertPosition(g[i], acc, p, i, prio, now)
      /\ \A i \in 0 .. n : CacheInv(g[i]) /\ Covered(g[i], acc)
  BY <1>1 DEF Rounds
<1> DEFINE Good(i) == Books(g[i], now, X \ Lead(p, i))
           U == {i \in Nat : i <= n => Good(i)}
<1>3. 0 \in U
  <2>1. X \ Lead(p, 0) = X
    BY DEF Lead
  <2> QED
    BY <1>2, <2>1
<1>4. ASSUME NEW i \in U PROVE i + 1 \in U
  <2>1. SUFFICES ASSUME i + 1 <= n PROVE Good(i+1)
    OBVIOUS
  <2>2. Good(i) /\ i \in 0 .. n - 1 /\ i \in 0 .. n
    BY <2>1
  <2> DEFINE b == g[i]
             d == g[i+1]
             Y == X \ Lead(p, i)
  <2>3. /\ d = InsertPosition(b, acc, p, i, prio, now)
        /\ CacheInv(b) /\ Covered(b, acc) /\ Books(b, now, Y)
    BY <1>2, <2>2
  <2>4. Y \ {<<p, i>>} = X \ Lead(p, i+1)
    BY <2>2 DEF Lead
  <2> HIDE DEF b, d, Y
  <2>5. Books(d, now, Y \ {<<p, i>>})
    BY <2>2, <2>3, InsertPositionBooks
  <2> QED
    BY <2>4, <2>5 DEF d
<1>5. U = Nat
  <2> HIDE DEF U
  <2> QED
    BY <1>3, <1>4, NatInductionOnSets DEF U
<1>6. Good(n)
  <2> HIDE DEF Good
  <2> QED
    BY <1>5
<1> QED
  BY <1>2, <1>6

\* The places of p that are held.
OwnPlaces(c, p) == {x \in HeldPlaces(c) : x[1] = p}

\* Before a recompute the blocks of a prefix are freed, and the ledger is
\* not told.
LEMMA FreeOwnBooks ==
  ASSUME NEW c, CacheInv(c), NEW p \in PrefixId, NEW at \in Nat,
         NEW now, NEW Y, Books(c, now, Y)
  PROVE  Books(FreeOwn(c, p, at), now, Y \cup OwnPlaces(c, p))
<1> DEFINE own == Held(c.residentByPrefix, p)
           X   == Y \cup OwnPlaces(c, p)
           d   == FreeOwn(c, p, at)
<1>1. own = {b \in Resident(c) : c.blocks[b].owner = p}
  BY DEF CacheInv, ResidentIndexed
<1>1a. Covered(c, EmptyDict)
  BY DEF Covered, EmptyDict
<1> HIDE DEF own, d
<1>2. PICK g : /\ g[0] = c /\ g[Capacity] = d
               /\ \A i \in 0 .. Capacity - 1 :
                    g[i+1] = IF i \in own THEN FreeBlock(g[i], i, at) ELSE g[i]
               /\ \A i \in 0 .. Capacity :
                    /\ CacheInv(g[i]) /\ Covered(g[i], EmptyDict)
                    /\ Resident(g[i]) = Resident(c) \ {b \in own : b < i}
                    /\ \A b \in Resident(g[i]) : g[i].blocks[b] = c.blocks[b]
  BY <1>1a, FreeOwnRun DEF own, d
<1>3. \A b \in own : Place(c, b) \in X
  BY <1>1 DEF OwnPlaces, HeldPlaces, Place
<1>3a. Y \subseteq X
  OBVIOUS
<1> HIDE DEF X
<1> DEFINE Good(i) == Books(g[i], now, X)
           U == {i \in Nat : i <= Capacity => Good(i)}
<1>4. 0 \in U
  BY <1>2, <1>3a DEF Books
<1>5. ASSUME NEW i \in U PROVE i + 1 \in U
  <2>1. SUFFICES ASSUME i + 1 <= Capacity PROVE Good(i+1)
    OBVIOUS
  <2>2. Good(i) /\ i \in 0 .. Capacity - 1 /\ i \in 0 .. Capacity
    BY <2>1, CapacityAssumption
  <2>3. CASE i \notin own
    BY <1>2, <2>2, <2>3
  <2>4. CASE i \in own
    <3> DEFINE b == g[i]
    <3>1. g[i+1] = FreeBlock(b, i, at) /\ CacheInv(b)
      BY <1>2, <2>2, <2>4
    <3>2. i \in Resident(b) /\ b.blocks[i] = c.blocks[i]
      <4>1. i \in Resident(c) /\ i \notin {a \in own : a < i}
        BY <1>1, <2>2, <2>4
      <4> QED
        BY <1>2, <2>2, <4>1
    <3>3. Place(b, i) \in X
      BY <1>3, <2>4, <3>2 DEF Place
    <3>4. Books(b, now, X)
      BY <2>2
    <3> HIDE DEF b
    <3>5. Books(FreeBlock(b, i, at), now, X \cup {Place(b, i)})
      BY <3>1, <3>2, <3>4, FreeBlockBooks
    <3>6. X \cup {Place(b, i)} = X
      BY <3>3
    <3> QED
      BY <3>1, <3>5, <3>6
  <2> QED
    BY <2>3, <2>4
<1>6. U = Nat
  <2> HIDE DEF U
  <2> QED
    BY <1>4, <1>5, NatInductionOnSets DEF U
<1>7. Good(Capacity)
  <2> HIDE DEF Good
  <2> QED
    BY <1>6, CapacityAssumption
<1> QED
  BY <1>2, <1>7 DEF d, X

\* Protecting what is resident moves nothing.
LEMMA ProtectExistingBooks ==
  ASSUME NEW c, CacheInv(c), NEW k \in Claim, NEW p \in PrefixId, NEW n \in Nat,
         NEW now, NEW X, Books(c, now, X)
  PROVE  Books(ProtectExisting(c, k, p, n), now, X)
<1> DEFINE d  == ProtectExisting(c, k, p, n)
           bs == InRange(c, p, n)
<1>1. c.blocks \in [BlockId -> BlockType] /\ DOMAIN c = DOMAIN EmptyCache
  BY DEF CacheInv, CacheType
<1>2. /\ d.blocks = [b \in BlockId |-> IF b \in bs THEN Protected(c.blocks[b], k)
                                                  ELSE c.blocks[b]]
      /\ d.freeQueue = c.freeQueue /\ d.ledger = c.ledger
  <2> HIDE DEF bs
  <2> QED
    BY <1>1 DEF ProtectExisting, EmptyCache, bs
<1> HIDE DEF d
<1>3. \A b \in BlockId : /\ d.blocks[b].state = c.blocks[b].state
                         /\ d.blocks[b].owner = c.blocks[b].owner
                         /\ d.blocks[b].pos = c.blocks[b].pos
                         /\ d.blocks[b].touched = c.blocks[b].touched
                         /\ c.blocks[b].claims \subseteq d.blocks[b].claims
  <2> SUFFICES ASSUME NEW b \in BlockId
               PROVE  /\ d.blocks[b].state = c.blocks[b].state
                      /\ d.blocks[b].owner = c.blocks[b].owner
                      /\ d.blocks[b].pos = c.blocks[b].pos
                      /\ d.blocks[b].touched = c.blocks[b].touched
                      /\ c.blocks[b].claims \subseteq d.blocks[b].claims
    OBVIOUS
  <2> DEFINE x == c.blocks[b]
  <2>1. x \in BlockType
    BY <1>1
  <2>2. d.blocks[b] = IF b \in bs THEN Protected(x, k) ELSE x
    BY <1>2
  <2> HIDE DEF x, bs
  <2>3. /\ Protected(x, k).state = x.state /\ Protected(x, k).owner = x.owner
        /\ Protected(x, k).pos = x.pos /\ Protected(x, k).touched = x.touched
        /\ Protected(x, k).claims = x.claims \cup {k}
    BY <2>1 DEF Protected, BlockType
  <2> QED
    BY <2>2, <2>3 DEF x
<1>4. Resident(d) = Resident(c)
  BY <1>3 DEF Resident
<1>5. \A b \in Resident(c) : b \in BlockId /\ Place(d, b) = Place(c, b)
  BY <1>3 DEF Place, Resident
<1>6. Queued(d, now)
  <2>1. \A i \in 1 .. Len(c.freeQueue) : c.freeQueue[i] \in Resident(c)
    BY DEF Books, Queued, Lists
  <2> QED
    BY <1>2, <1>3, <1>4, <1>5, <2>1 DEF Books, Queued
<1>7. Booked(d)
  <2> SUFFICES ASSUME NEW b \in Resident(d) PROVE RowOf(d, b)
    BY DEF Booked
  <2>1. RowOf(c, b)
    BY <1>4 DEF Books, Booked
  <2>2. Place(d, b) = Place(c, b) /\ c.blocks[b].claims \subseteq d.blocks[b].claims
    BY <1>3, <1>4, <1>5
  <2> QED
    BY <1>2, <2>1, <2>2 DEF RowOf
<1>8. HeldPlaces(d) = HeldPlaces(c) /\ Unevicted(d) = Unevicted(c)
  BY <1>2, <1>4, <1>5 DEF HeldPlaces, Unevicted
<1> QED
  BY <1>6, <1>7, <1>8 DEF Books, d

LEMMA SettledBooks ==
  ASSUME NEW c, CacheInv(c), NEW now, NEW X, Books(c, now, X)
  PROVE  Books(Settled(c), now, X)
<1> DEFINE d == Settled(c)
<1>1. /\ d.blocks = c.blocks /\ d.freeQueue = c.freeQueue /\ d.ledger = c.ledger
  BY DEF Settled, CacheInv, CacheType, EmptyCache
<1> HIDE DEF d
<1>2. /\ Resident(d) = Resident(c) /\ HeldPlaces(d) = HeldPlaces(c)
      /\ \A a : Place(d, a) = Place(c, a)
  BY <1>1 DEF Resident, HeldPlaces, Place
<1>3. Queued(d, now)
  BY <1>1, <1>2 DEF Books, Queued
<1>4. Booked(d)
  BY <1>1, <1>2 DEF Books, Booked, RowOf
<1>5. Unevicted(d) = Unevicted(c)
  BY <1>1 DEF Unevicted
<1> QED
  BY <1>2, <1>3, <1>4, <1>5 DEF Books, d

LEMMA EmptyBooks == \A now, X : Books(EmptyCache, now, X)
<1> DEFINE e == EmptyCache
<1>1. /\ e.blocks = [b \in BlockId |-> Cleared(0)]
      /\ e.freeQueue = << >> /\ e.ledger = EmptyDict
  BY DEF EmptyCache
<1> HIDE DEF e
<1>2. Resident(e) = {}
  BY <1>1 DEF Resident, Cleared
<1>3. Lists(e.freeQueue, {}) /\ Len(e.freeQueue) = 0
  BY <1>1 DEF Lists
<1>4. Unevicted(e) = {}
  BY <1>1 DEF Unevicted, EmptyDict
<1>5. \A now : Queued(e, now)
  BY <1>2, <1>3 DEF Queued
<1>6. Booked(e)
  BY <1>2 DEF Booked
<1> QED
  BY <1>4, <1>5, <1>6 DEF Books, e

-----------------------------------------------------------------------------
(* The books of the runtime.                                               *)

\* A materialization keeps the books, up to the places given up before it
\* that it does not bring in.
LEMMA MaterializeBooks ==
  ASSUME IInv, NEW c, CacheInv(c), Covered(c, accepted),
         NEW p \in PrefixId, NEW n \in Nat, NEW prio \in {-1, 0, 1, 2},
         NEW X, Books(c, Now, X),
         cache' = Settled(InsertLeading(c, accepted, p, n, prio, Now))
  PROVE  Books(cache', Now, X \ Lead(p, n))
<1> DEFINE m == InsertLeading(c, accepted, p, n, prio, Now)
<1>1. Now \in Nat
  BY DEF IInv, Now
<1>2. CacheInv(m)
  BY <1>1, AcceptedIsTyped, InsertLeadingInv
<1>3. Books(m, Now, X \ Lead(p, n))
  BY <1>1, AcceptedIsTyped, InsertLeadingBooks
<1> HIDE DEF m
<1>4. Books(Settled(m), Now, X \ Lead(p, n))
  BY <1>2, <1>3, SettledBooks
<1> QED
  BY <1>4 DEF m

\* Every call keeps the books, if a recompute brings back in all that it
\* gives up, or what it gives up may stay out.
LEMMA NextBooks ==
  ASSUME IInv, NEW X, Books(cache, step, X),
         \A p \in DOMAIN prefixes : OwnPlaces(cache, p) \subseteq Lead(p, prefixes[p].count) \cup X,
         [Next]_vars
  PROVE  Books(cache', step', X)
<1>1. /\ CacheInv(cache) /\ Covered(cache, accepted) /\ step \in Nat /\ Now \in Nat
      /\ step <= Now
  BY StepAssumption DEF IInv, Now
<1>2. Books(cache, Now, X)
  BY <1>1, BooksWeaken
<1>3. ASSUME NEW p \in DOMAIN prefixes
      PROVE  p \in PrefixId /\ prefixes[p].count \in Nat
  BY DEF IInv, IsDict, Shape
<1>4. ASSUME NEW c, CacheInv(c), Covered(c, accepted),
             NEW p \in PrefixId, NEW n \in Nat, NEW prio \in {-1, 0, 1, 2},
             Books(c, Now, X \cup Lead(p, n)), step' = Now,
             cache' = Settled(InsertLeading(c, accepted, p, n, prio, Now))
      PROVE  Books(cache', step', X)
  <2>1. Books(cache', Now, (X \cup Lead(p, n)) \ Lead(p, n))
    BY <1>4, MaterializeBooks
  <2> DEFINE d == cache'
  <2>2. CacheInv(d)
    <3>1. CacheInv(InsertLeading(c, accepted, p, n, prio, Now))
          /\ Covered(InsertLeading(c, accepted, p, n, prio, Now), accepted)
      BY <1>1, <1>4, AcceptedIsTyped, InsertLeadingInv
    <3> QED
      BY <1>4, <3>1, SettledInv
  <2>3. Books(d, Now, (X \cup Lead(p, n)) \ Lead(p, n))
    BY <2>1
  <2> HIDE DEF d
  <2>4. (X \cup Lead(p, n)) \ Lead(p, n) \subseteq X /\ Now <= Now
    BY <1>1
  <2>5. Books(d, Now, X)
    BY <1>1, <2>2, <2>3, <2>4, BooksWeaken
  <2> QED
    BY <1>4, <2>5 DEF d
<1>5. ASSUME NEW p \in PrefixId, NEW n \in Nat, NEW prio \in {-1, 0, 1, 2}, step' = Now,
             cache' = Settled(InsertLeading(cache, accepted, p, n, prio, Now))
      PROVE  Books(cache', step', X)
  <2>1. X \subseteq X \cup Lead(p, n) /\ Now <= Now
    BY <1>1
  <2>2. Books(cache, Now, X \cup Lead(p, n))
    BY <1>1, <1>2, <2>1, BooksWeaken
  <2> QED
    BY <1>1, <1>4, <1>5, <2>2
<1>6. CASE UNCHANGED vars
  BY <1>6 DEF vars
<1>7. ASSUME NEW p \in Prefix, NEW shape \in ShapesOf[p], RegisterPrefix(p, shape)
      PROVE  Books(cache', step', X)
  BY <1>7 DEF RegisterPrefix
<1>8. ASSUME NEW k \in Claim, NEW n, AdmitClaim(k, n)
      PROVE  Books(cache', step', X)
  <2>1. ClaimedPrefix[k] \in PrefixId /\ n \in Nat /\ step' = step
    BY <1>8, ClaimAssumption DEF AdmitClaim, PrefixId, IInv, IsDict, Shape
  <2>2. Books(ProtectExisting(cache, k, ClaimedPrefix[k], n), step, X)
    BY <1>1, <2>1, ProtectExistingBooks
  <2> QED
    BY <1>8, <2>1, <2>2 DEF AdmitClaim
<1>9. ASSUME NEW p \in DOMAIN prefixes, Prefill(p)
      PROVE  Books(cache', step', X)
  BY <1>3, <1>5, <1>9 DEF Prefill, NextStep
<1>10. ASSUME NEW p \in DOMAIN prefixes, NEW d \in ActiveDecisions(p), ActivePrefill(p, d)
       PROVE  Books(cache', step', X)
  <2>1. d.blocks \in Nat /\ d.prio \in {-1, 0, 1, 2}
    BY <1>3, DecisionTyped
  <2>2. CASE d.decision = "cache_no_admit"
    BY <1>2, <1>10, <2>2 DEF ActivePrefill, NextStep
  <2>3. CASE d.decision # "cache_no_admit"
    BY <1>3, <1>5, <1>10, <2>1, <2>3 DEF ActivePrefill, NextStep
  <2> QED
    BY <2>2, <2>3
<1>11. ASSUME NEW p \in DOMAIN prefixes, NEW recompute \in BOOLEAN,
              ReturnPrefix(p, recompute)
       PROVE  Books(cache', step', X)
  <2>1. step' = Now
    BY <1>11 DEF ReturnPrefix, NextStep
  <2>2. CASE ~ recompute
    BY <1>2, <1>11, <2>1, <2>2 DEF ReturnPrefix
  <2>3. CASE recompute
    <3> DEFINE f == FreeOwn(cache, p, Now)
               n == prefixes[p].count
               Y == X \cup OwnPlaces(cache, p)
    <3>1. CacheInv(f) /\ Covered(f, accepted)
      BY <1>1, <1>3, FreeOwnInv
    <3>2. Books(f, Now, Y)
      BY <1>1, <1>2, <1>3, FreeOwnBooks
    <3>3. cache' = Settled(InsertLeading(f, accepted, p, n, 0, Now))
      BY <1>11, <2>3 DEF ReturnPrefix
    <3>4. Y \subseteq X \cup Lead(p, n) /\ Now <= Now
      BY <1>1
    <3> HIDE DEF f, Y
    <3>5. Books(f, Now, X \cup Lead(p, n))
      BY <1>1, <3>1, <3>2, <3>4, BooksWeaken
    <3> QED
      BY <1>3, <1>4, <2>1, <3>1, <3>3, <3>5
  <2> QED
    BY <2>2, <2>3
<1>12. ASSUME NEW n \in PressureSizes, Pressure(n)
       PROVE  Books(cache', step', X)
  <2> DEFINE p == <<"__pressure__", Now>>
  <2>1. n \in Nat /\ p \in PrefixId
    BY <1>1, SizeAssumption DEF PrefixId, PressureId
  <2>2. cache' = Settled(InsertLeading(cache, accepted, p, n, 0, Now)) /\ step' = Now
    BY <1>12 DEF Pressure, NextStep
  <2> HIDE DEF p
  <2> QED
    BY <1>5, <2>1, <2>2
<1>13. CASE Reset
  BY <1>13, EmptyBooks DEF Reset
<1> QED
  BY <1>6, <1>7, <1>8, <1>9, <1>10, <1>11, <1>12, <1>13 DEF Next

\* The books, whatever a recompute of a prefix that was registered with
\* another count leaves in the ledger.
RowsKept == Books(cache, step, PrefixId \X Nat)

LEMMA AlwaysRowsKept == Spec => []RowsKept
<1> DEFINE Anywhere == PrefixId \X Nat
<1>1. Init => RowsKept
  BY EmptyBooks DEF Init, RowsKept
<1>2. IInv /\ RowsKept /\ [Next]_vars => RowsKept'
  <2> SUFFICES ASSUME IInv, RowsKept, [Next]_vars PROVE RowsKept'
    OBVIOUS
  <2>1. \A x \in HeldPlaces(cache) : x \in Anywhere
    BY DEF HeldPlaces, Place, IInv, CacheInv, BlocksMarked, Resident
  <2>2. \A p \in DOMAIN prefixes :
          OwnPlaces(cache, p) \subseteq Lead(p, prefixes[p].count) \cup Anywhere
    BY <2>1 DEF OwnPlaces
  <2>3. Books(cache, step, Anywhere)
    BY DEF RowsKept
  <2> HIDE DEF Anywhere
  <2>4. Books(cache', step', Anywhere)
    BY <2>2, <2>3, NextBooks
  <2> QED
    BY <2>4
    DEF Anywhere, RowsKept, Books, Queued, Booked, RowOf, Unevicted, HeldPlaces, Place, Resident
<1> QED
  BY <1>1, <1>2, AlwaysIInv, PTL DEF Spec

\* free_queue lists the resident blocks once each, oldest first, whatever was
\* evicted, protected, recomputed or reset in between.
THEOREM QueueIsExact == Spec => []QueueListsResidents
<1>1. RowsKept => QueueListsResidents
  <2> SUFFICES ASSUME Queued(cache, step) PROVE QueueListsResidents
    BY DEF RowsKept, Books
  <2> DEFINE q == cache.freeQueue
  <2>1. /\ q \in Seq(BlockId) /\ DOMAIN q = 1 .. Len(q)
        /\ \A i, j \in 1 .. Len(q) : q[i] = q[j] => i = j
        /\ \A x : x \in Resident(cache) <=> \E i \in 1 .. Len(q) : q[i] = x
    BY DEF Queued, Lists
  <2>2. IsInjective(q)
    BY <2>1 DEF IsInjective
  <2>3. ToSet(q) = Resident(cache)
    BY <2>1 DEF ToSet
  <2> QED
    BY <2>1, <2>2, <2>3 DEF QueueListsResidents, Queued
<1> QED
  BY <1>1, AlwaysRowsKept, PTL

-----------------------------------------------------------------------------
(* The position ledger.                                                    *)

\* contiguous_surviving_blocks counts resident positions only: there are at
\* most Capacity of them, so some position up to Capacity is missing.
LEMMA ContiguousIsHeld ==
  ASSUME NEW c, CacheInv(c), NEW p \in PrefixId
  PROVE  /\ Contiguous(c, p) \in 0 .. Capacity
         /\ Contiguous(c, p) \notin ResidentPositions(c, p)
         /\ \A i \in Nat : i < Contiguous(c, p) => i \in ResidentPositions(c, p)
<1> DEFINE held == ResidentPositions(c, p)
           own  == Held(c.residentByPrefix, p)
           f    == [b \in own |-> c.blocks[b].pos]
<1>1. own \subseteq BlockId
  BY DEF CacheInv, ResidentIndexed, Resident
<1>2. IsFiniteSet(own) /\ Cardinality(own) <= Capacity /\ Cardinality(own) \in Nat
  <2>1. IsFiniteSet(BlockId) /\ Cardinality(BlockId) = Capacity
    BY FS_Interval, CapacityAssumption DEF BlockId
  <2> QED
    BY <1>1, <2>1, FS_Subset, FS_CardinalityType
<1>3. f \in Surjection(own, held)
  <2>1. held = {c.blocks[b].pos : b \in own}
    BY DEF ResidentPositions
  <2> QED
    BY <2>1 DEF Surjection
<1>4. IsFiniteSet(held) /\ Cardinality(held) <= Capacity /\ Cardinality(held) \in Nat
  <2>1. IsFiniteSet(held) /\ Cardinality(held) <= Cardinality(own)
    BY <1>2, <1>3, FS_Surjection
  <2> QED
    BY <1>2, <2>1, FS_CardinalityType, CapacityAssumption
<1> HIDE DEF held, own, f
<1>5. PICK j \in 0 .. Capacity : j \notin held
  <2>1. SUFFICES ASSUME 0 .. Capacity \subseteq held PROVE FALSE
    OBVIOUS
  <2>2. Cardinality(0 .. Capacity) = Capacity + 1
    BY FS_Interval, CapacityAssumption
  <2>3. Cardinality(0 .. Capacity) <= Cardinality(held)
    BY <1>4, <2>1, FS_Subset
  <2> QED
    BY <1>4, <2>2, <2>3, CapacityAssumption
<1> DEFINE T == {n \in Nat : n \notin held}
<1>6. PICK n \in T : \A m \in T : n <= m
  <2>1. T \in SUBSET Nat /\ T # {}
    BY <1>5, CapacityAssumption
  <2> HIDE DEF T
  <2> QED
    BY <2>1, LeastNatural
<1>7. n \in 0 .. Capacity /\ n \notin held /\ 0 .. n-1 \subseteq held
  BY <1>5, <1>6, CapacityAssumption
<1>8. Contiguous(c, p) = CHOOSE m \in 0 .. Capacity : m \notin held /\ 0 .. m-1 \subseteq held
  BY DEF Contiguous, held
<1> DEFINE k == Contiguous(c, p)
<1>9. k \in 0 .. Capacity /\ k \notin held /\ 0 .. k-1 \subseteq held
  BY <1>7, <1>8
<1> HIDE DEF k
<1>10. \A i \in Nat : i < k => i \in held
  BY <1>9, CapacityAssumption
<1> QED
  BY <1>9, <1>10 DEF k, held

\* A prefix is registered again with the block count it had.
KeptCounts == \A p \in Prefix : \A s, t \in ShapesOf[p] : s.count = t.count

\* Every held place is a position of a registered prefix.
Fits ==
  /\ \A x \in HeldPlaces(cache) : x[1] \in DOMAIN prefixes
  /\ \A p \in DOMAIN prefixes : OwnPlaces(cache, p) \subseteq Lead(p, prefixes[p].count)

Shaped == \A p \in Prefix \cap DOMAIN prefixes : prefixes[p] \in ShapesOf[p]

LEMMA NextShaped == IInv /\ Shaped /\ [Next]_vars => Shaped'
<1> SUFFICES ASSUME IInv, Shaped, [Next]_vars PROVE Shaped'
  OBVIOUS
<1>1. ASSUME NEW p \in Prefix, NEW shape \in ShapesOf[p], RegisterPrefix(p, shape)
      PROVE  Shaped'
  BY <1>1 DEF RegisterPrefix, Put, Shaped
<1>2. ASSUME NEW n \in PressureSizes, Pressure(n)
      PROVE  Shaped'
  <2>1. <<"__pressure__", Now>> \in PressureId
    BY DEF PressureId, Now, IInv
  <2>2. \A p \in Prefix \cap DOMAIN prefixes' : p \in DOMAIN prefixes /\ prefixes'[p] = prefixes[p]
    BY <1>2, <2>1, IdAssumption DEF Pressure, Put
  <2> QED
    BY <2>2 DEF Shaped
<1>3. CASE UNCHANGED prefixes
  BY <1>3 DEF Shaped
<1> QED
  BY <1>1, <1>2, <1>3
     DEF vars, Next, AdmitClaim, Prefill, ActivePrefill, ReturnPrefix, Reset

LEMMA NextFits ==
  ASSUME KeptCounts, IInv, Shaped, PressureIsFresh, Fits, [Next]_vars
  PROVE  Fits'
<1> DEFINE Fit(held) ==
             \A x \in held : /\ x[1] \in DOMAIN prefixes'
                             /\ x \in Lead(x[1], prefixes'[x[1]].count)
<1>1. ASSUME Fit(HeldPlaces(cache')) PROVE Fits'
  <2>1. HeldPlaces(cache)' = HeldPlaces(cache')
    BY DEF HeldPlaces, Place, Resident
  <2>2. \A p : OwnPlaces(cache, p)' = {x \in HeldPlaces(cache') : x[1] = p}
    BY <2>1 DEF OwnPlaces
  <2>3. \A p, n : Lead(p, n)' = Lead(p, n)
    BY DEF Lead
  <2> HIDE DEF Fit
  <2>4. \A x \in HeldPlaces(cache') : x[1] \in DOMAIN prefixes' /\ x \in Lead(x[1], prefixes'[x[1]].count)
    BY <1>1 DEF Fit
  <2>5. \A p \in DOMAIN prefixes' : {x \in HeldPlaces(cache') : x[1] = p} \subseteq Lead(p, prefixes'[p].count)
    BY <2>4
  <2>6. Fits' <=> /\ \A x \in HeldPlaces(cache') : x[1] \in DOMAIN prefixes'
                  /\ \A p \in DOMAIN prefixes' :
                       {x \in HeldPlaces(cache') : x[1] = p} \subseteq Lead(p, prefixes'[p].count)
    BY DEF Fits, OwnPlaces, HeldPlaces, Place, Resident, Lead
  <2> QED
    BY <2>4, <2>5, <2>6
<1>2. \A x \in HeldPlaces(cache) : /\ x[1] \in DOMAIN prefixes
                                   /\ x \in Lead(x[1], prefixes[x[1]].count)
  BY DEF Fits, OwnPlaces
<1>3. ASSUME prefixes' = prefixes, HeldPlaces(cache') \subseteq HeldPlaces(cache)
      PROVE  Fits'
  <2>1. Fit(HeldPlaces(cache'))
    BY <1>2, <1>3
  <2> QED
    BY <1>1, <2>1
<1>4. ASSUME NEW p \in DOMAIN prefixes
      PROVE  p \in PrefixId /\ prefixes[p].count \in Nat
  BY DEF IInv, IsDict, Shape
<1>5. ASSUME NEW c, CacheInv(c), Covered(c, accepted), HeldPlaces(c) \subseteq HeldPlaces(cache),
             NEW p \in DOMAIN prefixes, NEW n \in 0 .. prefixes[p].count,
             NEW prio \in {-1, 0, 1, 2}, prefixes' = prefixes,
             cache' = Settled(InsertLeading(c, accepted, p, n, prio, Now))
      PROVE  Fits'
  <2>1. n \in Nat
    BY <1>4
  <2>2. Allowed(HeldPlaces(cache'), HeldPlaces(c), p, n)
    BY <1>4, <1>5, <2>1, MaterializePlaces
  <2>3. HeldPlaces(cache') \subseteq HeldPlaces(c) \cup Lead(p, n)
    BY <2>2 DEF Allowed
  <2>4. \A x \in Lead(p, n) : x[1] = p /\ x \in Lead(p, prefixes[p].count)
    BY <1>4 DEF Lead
  <2>5. Fit(HeldPlaces(cache'))
    BY <1>2, <1>5, <2>3, <2>4
  <2> QED
    BY <1>1, <2>5
<1>6. CacheInv(cache) /\ Covered(cache, accepted) /\ Now \in Nat
  BY DEF IInv, Now
<1>7. CASE UNCHANGED vars
  BY <1>3, <1>7 DEF vars
<1>8. ASSUME NEW p \in Prefix, NEW shape \in ShapesOf[p], RegisterPrefix(p, shape)
      PROVE  Fits'
  <2>1. /\ DOMAIN prefixes' = DOMAIN prefixes \cup {p} /\ prefixes'[p] = shape
        /\ \A q \in DOMAIN prefixes : q # p => prefixes'[q] = prefixes[q]
        /\ cache' = cache
    BY <1>8 DEF RegisterPrefix, Put
  <2>2. p \in DOMAIN prefixes => prefixes[p].count = shape.count
    BY DEF KeptCounts, Shaped
  <2>3. \A q \in DOMAIN prefixes : q \in DOMAIN prefixes' /\ prefixes'[q].count = prefixes[q].count
    BY <2>1, <2>2
  <2>4. Fit(HeldPlaces(cache'))
    BY <1>2, <2>1, <2>3
  <2> QED
    BY <1>1, <2>4
<1>9. ASSUME NEW k \in Claim, NEW n, AdmitClaim(k, n)
      PROVE  Fits'
  <2>1. ClaimedPrefix[k] \in PrefixId /\ n \in Nat /\ prefixes' = prefixes
    BY <1>9, ClaimAssumption DEF AdmitClaim, PrefixId, IInv, IsDict, Shape
  <2>2. HeldPlaces(ProtectExisting(cache, k, ClaimedPrefix[k], n)) = HeldPlaces(cache)
    BY <1>6, <2>1, AdmissionKeepsPlaces
  <2> QED
    BY <1>3, <1>9, <2>1, <2>2 DEF AdmitClaim
<1>10. ASSUME NEW p \in DOMAIN prefixes, Prefill(p)
       PROVE  Fits'
  <2>1. prefixes[p].count \in 0 .. prefixes[p].count
    BY <1>4
  <2> QED
    BY <1>5, <1>6, <1>10, <2>1 DEF Prefill
<1>11. ASSUME NEW p \in DOMAIN prefixes, NEW d \in ActiveDecisions(p), ActivePrefill(p, d)
       PROVE  Fits'
  <2>1. d.blocks \in 0 .. prefixes[p].count /\ d.prio \in {-1, 0, 1, 2}
    BY <1>4, DecisionTyped
  <2>2. CASE d.decision = "cache_no_admit"
    BY <1>3, <1>11, <2>2 DEF ActivePrefill
  <2>3. CASE d.decision # "cache_no_admit"
    BY <1>5, <1>6, <1>11, <2>1, <2>3 DEF ActivePrefill
  <2> QED
    BY <2>2, <2>3
<1>12. ASSUME NEW p \in DOMAIN prefixes, NEW recompute \in BOOLEAN,
              ReturnPrefix(p, recompute)
       PROVE  Fits'
  <2>1. prefixes' = prefixes
    BY <1>12 DEF ReturnPrefix
  <2>2. CASE ~ recompute
    BY <1>3, <1>12, <2>1, <2>2 DEF ReturnPrefix
  <2>3. CASE recompute
    <3> DEFINE f == FreeOwn(cache, p, Now)
    <3>1. /\ CacheInv(f) /\ Covered(f, accepted)
          /\ HeldPlaces(f) \subseteq HeldPlaces(cache)
      BY <1>4, <1>6, FreeOwnInv
    <3>2. cache' = Settled(InsertLeading(f, accepted, p, prefixes[p].count, 0, Now))
      BY <1>12, <2>3 DEF ReturnPrefix
    <3>3. prefixes[p].count \in 0 .. prefixes[p].count
      BY <1>4
    <3> HIDE DEF f
    <3> QED
      BY <1>5, <2>1, <3>1, <3>2, <3>3
  <2> QED
    BY <2>2, <2>3
<1>13. ASSUME NEW n \in PressureSizes, Pressure(n)
       PROVE  Fits'
  <2> DEFINE p == <<"__pressure__", Now>>
  <2>1. n \in Nat /\ p \in PrefixId
    BY <1>6, SizeAssumption DEF PrefixId, PressureId
  <2>2. p \notin DOMAIN prefixes
    BY <1>6 DEF PressureIsFresh, Now, IInv
  <2> HIDE DEF p
  <2>3. cache' = Settled(InsertLeading(cache, accepted, p, n, 0, Now))
    BY <1>13 DEF Pressure, p
  <2>4. /\ DOMAIN prefixes' = DOMAIN prefixes \cup {p} /\ prefixes'[p].count = n
        /\ \A q \in DOMAIN prefixes \ {p} : prefixes'[q] = prefixes[q]
    BY <1>13 DEF Pressure, Put, p
  <2>5. Allowed(HeldPlaces(cache'), HeldPlaces(cache), p, n)
    BY <1>6, <2>1, <2>3, MaterializePlaces
  <2>6. HeldPlaces(cache') \subseteq HeldPlaces(cache) \cup Lead(p, n)
    BY <2>5 DEF Allowed
  <2>7. \A x \in Lead(p, n) : x[1] = p
    BY DEF Lead
  <2>8. Fit(HeldPlaces(cache'))
    BY <1>2, <2>2, <2>4, <2>6, <2>7
  <2> QED
    BY <1>1, <2>8
<1>14. CASE Reset
  <2>1. Resident(EmptyCache) = {}
    BY DEF EmptyCache, Cleared, Resident
  <2>2. HeldPlaces(cache') = {} /\ prefixes' = prefixes
    BY <1>14, <2>1 DEF Reset, HeldPlaces
  <2> QED
    BY <1>3, <2>2
<1> QED
  BY <1>7, <1>8, <1>9, <1>10, <1>11, <1>12, <1>13, <1>14 DEF Next

\* What the position ledger rests on.
LedgerInv == Books(cache, step, {}) /\ Fits /\ Shaped

LEMMA LedgerInvAgrees == IInv /\ LedgerInv => LedgerAgrees
<1> SUFFICES ASSUME IInv, LedgerInv,
                    NEW p \in DOMAIN prefixes, NEW i \in DOMAIN PositionLedger(p)
             PROVE  LET row == PositionLedger(p)[i]
                    IN  /\ row.survived <=> row.block # None /\ row.evicted = NoStep
                        /\ row.survived =>
                             /\ row.block \in Resident(cache)
                             /\ Place(cache, row.block) = <<p, i>>
                             /\ row.protected => cache.blocks[row.block].claims # {}
  BY DEF LedgerAgrees
<1> DEFINE x     == <<p, i>>
           known == x \in DOMAIN cache.ledger
           row   == PositionLedger(p)[i]
<1>1. p \in PrefixId /\ prefixes[p].count \in Nat /\ CacheInv(cache)
  BY DEF IInv, IsDict, Shape
<1>2. i \in 0 .. prefixes[p].count - 1 /\ i \in Nat
  BY <1>1 DEF PositionLedger
<1>3. /\ row.block = IF known THEN cache.ledger[x].block ELSE None
      /\ row.evicted = IF known THEN cache.ledger[x].evicted ELSE NoStep
      /\ row.protected <=> known /\ cache.ledger[x].protected
      /\ row.survived <=> i < Contiguous(cache, p) \/ i \in ResidentPositions(cache, p)
  BY <1>2 DEF PositionLedger
<1> HIDE DEF row
<1>4. row.survived <=> i \in ResidentPositions(cache, p)
  BY <1>1, <1>2, <1>3, ContiguousIsHeld
<1>5. i \in ResidentPositions(cache, p) <=> \E b \in Resident(cache) : Place(cache, b) = x
  BY <1>1 DEF ResidentPositions, Place, CacheInv, ResidentIndexed
<1>6. ASSUME NEW b \in Resident(cache), Place(cache, b) = x
      PROVE  /\ known /\ row.block = b /\ row.evicted = NoStep /\ b # None
             /\ row.protected => cache.blocks[b].claims # {}
  <2>1. RowOf(cache, b)
    BY DEF LedgerInv, Books, Booked
  <2>2. b # None
    BY IdAssumption DEF Resident
  <2> QED
    BY <1>3, <1>6, <2>1, <2>2 DEF RowOf
<1>7. ASSUME row.block # None, row.evicted = NoStep
      PROVE  \E b \in Resident(cache) : Place(cache, b) = x
  <2>1. x \in Unevicted(cache)
    BY <1>3, <1>7 DEF Unevicted
  <2>2. x \in HeldPlaces(cache)
    BY <2>1 DEF LedgerInv, Books
  <2> QED
    BY <2>2 DEF HeldPlaces
<1>8. row.survived <=> row.block # None /\ row.evicted = NoStep
  BY <1>4, <1>5, <1>6, <1>7
<1>9. ASSUME row.survived
      PROVE  /\ row.block \in Resident(cache) /\ Place(cache, row.block) = x
             /\ row.protected => cache.blocks[row.block].claims # {}
  <2>1. PICK b \in Resident(cache) : Place(cache, b) = x
    BY <1>4, <1>5, <1>9
  <2> QED
    BY <1>6, <2>1
<1> QED
  BY <1>8, <1>9 DEF row

\* The position ledger tells the truth about every position of every
\* prefix, if a prefix that is registered again keeps its block count: a
\* position survived exactly if it was inserted and no eviction is recorded.
THEOREM LedgerTellsTheTruth ==
  ASSUME KeptCounts
  PROVE  Spec => []LedgerAgrees
<1>1. Init => LedgerInv
  <2> SUFFICES ASSUME Init PROVE LedgerInv
    OBVIOUS
  <2>1. Resident(EmptyCache) = {}
    BY DEF EmptyCache, Cleared, Resident
  <2>2. HeldPlaces(cache) = {} /\ DOMAIN prefixes = {}
    BY <2>1 DEF Init, HeldPlaces, EmptyDict
  <2>3. Books(cache, step, {})
    BY EmptyBooks DEF Init
  <2> QED
    BY <2>2, <2>3 DEF LedgerInv, Fits, Shaped
<1>2. IInv /\ PressureIsFresh /\ LedgerInv /\ [Next]_vars => LedgerInv'
  <2> SUFFICES ASSUME IInv, PressureIsFresh, LedgerInv, [Next]_vars PROVE LedgerInv'
    OBVIOUS
  <2>1. Shaped'
    BY NextShaped DEF LedgerInv
  <2>2. Fits'
    BY NextFits DEF LedgerInv
  <2>3. Books(cache, step, {}) /\ \A p \in DOMAIN prefixes :
          OwnPlaces(cache, p) \subseteq Lead(p, prefixes[p].count) \cup {}
    BY DEF LedgerInv, Fits
  <2>4. Books(cache', step', {})
    BY <2>3, NextBooks
  <2>5. Books(cache, step, {})'
    BY <2>4 DEF Books, Queued, Booked, RowOf, Unevicted, HeldPlaces, Place, Resident
  <2> QED
    BY <2>1, <2>2, <2>5 DEF LedgerInv
<1> QED
  BY <1>1, <1>2, LedgerInvAgrees, AlwaysIInv, AlwaysPressureIsFresh, PTL DEF Spec

-----------------------------------------------------------------------------
(* The log: replaying the events of a call on the residency before it.     *)

\* held lists what is left of before after each of the events.
Replays(held, events, before) ==
  /\ held[0] = before /\ held[Len(events)] = Replay(events, before)
  /\ \A i \in 1 .. Len(events) : held[i] = Applied(events[i], held[i-1])

LEMMA ReplayRuns ==
  ASSUME NEW events, Len(events) \in Nat, NEW before
  PROVE  \E held : Replays(held, events, before)
<1> DEFINE n == Len(events)
           Run(g, m) == g = [i \in 0 .. m |-> IF i = 0 THEN before
                                              ELSE Applied(events[i], g[i-1])]
<1>1. \A m \in Nat : \E g : Run(g, m)
  <2> DEFINE T == {m \in Nat : \E g : Run(g, m)}
  <2>1. 0 \in T
    <3>1. Run([i \in 0 .. 0 |-> before], 0)
      OBVIOUS
    <3> QED
      BY <3>1
  <2>2. ASSUME NEW m \in T PROVE m + 1 \in T
    <3>1. PICK g : Run(g, m)
      BY <2>2
    <3> DEFINE h == [i \in 0 .. m+1 |-> IF i = m+1 THEN Applied(events[m+1], g[m]) ELSE g[i]]
    <3>2. \A i \in 0 .. m+1 : h[i] = IF i = 0 THEN before ELSE Applied(events[i], h[i-1])
      BY <3>1
    <3>3. h = [i \in 0 .. m+1 |-> h[i]]
      OBVIOUS
    <3> HIDE DEF h
    <3>4. Run(h, m+1)
      BY <3>2, <3>3
    <3>5. \E l : Run(l, m+1)
      BY <3>4
    <3> HIDE DEF Run
    <3> QED
      BY <3>5
  <2>3. T = Nat
    <3> HIDE DEF T
    <3> QED
      BY <2>1, <2>2, NatInductionOnSets DEF T
  <2> QED
    BY <2>3
<1> DEFINE g == CHOOSE l : Run(l, n)
<1>2. Run(g, n)
  BY <1>1
<1>3. Replay(events, before) = g[n]
  BY DEF Replay
<1> HIDE DEF g
<1>4. Replays(g, events, before)
  BY <1>2, <1>3 DEF Replays
<1> QED
  BY <1>4

\* One event more.
LEMMA ReplayAppend ==
  ASSUME NEW S, NEW s \in Seq(S), NEW e \in S, NEW before
  PROVE  Replay(Append(s, e), before) = Applied(e, Replay(s, before))
<1> DEFINE t == Append(s, e)
           n == Len(s)
<1>1. /\ n \in Nat /\ Len(t) = n + 1 /\ t[n+1] = e
      /\ \A i \in 1 .. n : t[i] = s[i]
  BY AppendProperties, LenProperties
<1> HIDE DEF t, n
<1>2. PICK g : Replays(g, s, before)
  BY <1>1, ReplayRuns DEF n
<1>2a. Len(t) \in Nat
  BY <1>1
<1>3. PICK h : Replays(h, t, before)
  BY <1>2a, ReplayRuns
<1> DEFINE T == {i \in Nat : i <= n => h[i] = g[i]}
<1>4. 0 \in T
  BY <1>2, <1>3 DEF Replays
<1>5. ASSUME NEW i \in T PROVE i + 1 \in T
  <2>1. CASE i + 1 <= n
    <3>1. i + 1 \in 1 .. n /\ i + 1 \in 1 .. Len(t) /\ h[i] = g[i] /\ (i + 1) - 1 = i
      BY <1>1, <2>1
    <3>2. g[i+1] = Applied(s[i+1], g[i])
      BY <1>2, <3>1 DEF Replays, n
    <3>3. h[i+1] = Applied(t[i+1], h[i])
      BY <1>3, <3>1 DEF Replays
    <3> QED
      BY <1>1, <3>1, <3>2, <3>3
  <2>2. CASE ~(i + 1 <= n)
    BY <2>2
  <2> QED
    BY <2>1, <2>2
<1>6. T = Nat
  <2> HIDE DEF T
  <2> QED
    BY <1>4, <1>5, NatInductionOnSets DEF T
<1>7. h[n] = g[n]
  BY <1>1, <1>6
<1>8. h[n+1] = Applied(t[n+1], h[n])
  <2>1. n + 1 \in 1 .. Len(t) /\ (n + 1) - 1 = n
    BY <1>1
  <2> QED
    BY <1>3, <2>1 DEF Replays
<1>9. h[n+1] = Replay(t, before) /\ g[n] = Replay(s, before)
  BY <1>1, <1>2, <1>3 DEF Replays, n
<1> QED
  BY <1>1, <1>7, <1>8, <1>9 DEF t

LEMMA ReplayNothing == \A before : Replay(<< >>, before) = before
<1> SUFFICES ASSUME NEW before PROVE Replay(<< >>, before) = before
  OBVIOUS
<1>1. Len(<< >>) = 0
  OBVIOUS
<1>2. PICK g : Replays(g, << >>, before)
  BY <1>1, ReplayRuns
<1> QED
  BY <1>1, <1>2 DEF Replays

\* The events of the call, with what it logged before the first of them,
\* account for what happened to the residency.
Logged(d, before, first) ==
  /\ \E S : first \in Seq(S) /\ d.events \in Seq(S)
  /\ Residency(d) = Replay(first \o d.events, before)

LEMMA LogsOneMore ==
  ASSUME NEW m, NEW before, NEW first, Logged(m, before, first),
         NEW d, NEW e, d.events = Append(m.events, e),
         Residency(d) = Applied(e, Residency(m))
  PROVE  Logged(d, before, first)
<1>1. PICK S0 : first \in Seq(S0) /\ m.events \in Seq(S0)
  BY DEF Logged
<1> DEFINE S == S0 \cup {e}
           s == first \o m.events
<1>2. first \in Seq(S) /\ m.events \in Seq(S) /\ e \in S
  BY <1>1
<1> HIDE DEF S
<1>3. s \in Seq(S) /\ d.events \in Seq(S)
  BY <1>2, AppendProperties, ConcatProperties
<1>4. first \o d.events = Append(s, e)
  BY <1>2, <1>3
<1>5. Residency(m) = Replay(s, before)
  BY DEF Logged
<1> HIDE DEF s
<1>6. Replay(Append(s, e), before) = Applied(e, Replay(s, before))
  BY <1>2, <1>3, ReplayAppend
<1> QED
  BY <1>2, <1>3, <1>4, <1>5, <1>6 DEF Logged

LEMMA EvictOneLogs ==
  ASSUME NEW m, CacheInv(m), Resident(m) # {}, NEW now \in Nat,
         NEW before, NEW first, Logged(m, before, first)
  PROVE  Logged(EvictOne(m, now), before, first)
<1> DEFINE v == Victim(m)
           f == FreeBlock(m, v, now)
           d == EvictOne(m, now)
           e == EvictEvent(m, v)
<1>1. v \in Resident(m)
  BY VictimIsResident
<1> HIDE DEF v
<1>2. CacheInv(f)
  BY <1>1, FreeBlockInv
<1>3. /\ Resident(f) = Resident(m) \ {v}
      /\ \A a \in Resident(m) \ {v} : f.blocks[a] = m.blocks[a]
  <2>1. Covered(m, EmptyDict)
    BY DEF Covered, EmptyDict
  <2> QED
    BY <1>1, <2>1, FreeBlockCovered
<1>4. f.events = m.events
  <2>1. DOMAIN m = DOMAIN EmptyCache
    BY DEF CacheInv, CacheType
  <2> QED
    BY <2>1 DEF FreeBlock, EmptyCache
<1> HIDE DEF f
<1>5. DOMAIN f = DOMAIN EmptyCache
  BY <1>2 DEF CacheInv, CacheType
<1>6. d.blocks = f.blocks /\ d.events = Append(m.events, e)
  BY <1>4, <1>5 DEF EvictOne, EmptyCache, f, v
<1> HIDE DEF d
<1>7. /\ Resident(d) = Resident(m) \ {v}
      /\ \A a \in Resident(d) : d.blocks[a] = m.blocks[a]
  BY <1>3, <1>6 DEF Resident
<1>8. /\ e.event = "evict" /\ e.block = v /\ e.prefix = m.blocks[v].owner
      /\ e.pos = m.blocks[v].pos
  BY DEF EvictEvent
<1> HIDE DEF e
<1>9. Residency(d) = Residency(m) \ {<<v, m.blocks[v].owner, m.blocks[v].pos>>}
  BY <1>1, <1>7 DEF Residency
<1>10. Applied(e, Residency(m)) = Residency(m) \ {<<v, m.blocks[v].owner, m.blocks[v].pos>>}
  BY <1>8 DEF Applied
<1>11. Logged(d, before, first)
  BY <1>6, <1>9, <1>10, LogsOneMore
<1> QED
  BY <1>11 DEF d

LEMMA FillLogs ==
  ASSUME NEW m, CacheInv(m), m.freeBlocks # << >>, NEW now,
         NEW acc, NEW p, NEW i, NEW prio,
         NEW before, NEW first, Logged(m, before, first)
  PROVE  Logged(Fill(m, acc, p, i, prio, now), before, first)
<1> DEFINE b  == Head(m.freeBlocks)
           ks == ClaimIdsFor(acc, p, i)
           d  == Fill(m, acc, p, i, prio, now)
           e  == [event |-> "insert", block |-> b, prefix |-> p, pos |-> i, claims |-> ks]
           entry == Entry(p, i, ks, prio, now)
<1>1. b \in BlockId /\ b \notin Resident(m)
  <2> DEFINE free == BlockId \ Resident(m)
  <2>1. Lists(m.freeBlocks, free)
    BY DEF CacheInv
  <2> HIDE DEF free
  <2>2. b \in BlockId /\ b \in free
    BY <2>1, PopLists
  <2> QED
    BY <2>2 DEF free
<1>2. m.blocks \in [BlockId -> BlockType] /\ DOMAIN m = DOMAIN EmptyCache
  BY DEF CacheInv, CacheType
<1>3. d.blocks = [m.blocks EXCEPT ![b] = entry] /\ d.events = Append(m.events, e)
  BY <1>2 DEF Fill, EmptyCache
<1>4. entry.state = "resident" /\ entry.owner = p /\ entry.pos = i
  BY DEF Entry
<1>5. e.event = "insert" /\ e.block = b /\ e.prefix = p /\ e.pos = i
  OBVIOUS
<1> HIDE DEF b, ks, d, e, entry
<1>6. /\ \A a \in BlockId : a # b => d.blocks[a] = m.blocks[a]
      /\ d.blocks[b] = entry
  BY <1>1, <1>2, <1>3
<1>7. Resident(d) = Resident(m) \cup {b}
  BY <1>1, <1>4, <1>6 DEF Resident
<1>8. \A a \in Resident(m) : d.blocks[a] = m.blocks[a]
  BY <1>1, <1>6 DEF Resident
<1>9. Residency(d) = Residency(m) \cup {<<b, p, i>>}
  BY <1>4, <1>6, <1>7, <1>8 DEF Residency
<1>10. Applied(e, Residency(m)) = Residency(m) \cup {<<b, p, i>>}
  BY <1>5 DEF Applied
<1>11. Logged(d, before, first)
  BY <1>3, <1>9, <1>10, LogsOneMore
<1> QED
  BY <1>11 DEF d

LEMMA InsertPositionLogs ==
  ASSUME NEW m, CacheInv(m), NEW now \in Nat,
         NEW acc, Covered(m, acc), NEW p, NEW i, NEW prio,
         NEW before, NEW first, Logged(m, before, first)
  PROVE  Logged(InsertPosition(m, acc, p, i, prio, now), before, first)
<1>1. CASE i \in ResidentPositions(m, p)
  BY <1>1 DEF InsertPosition
<1>2. CASE i \notin ResidentPositions(m, p)
  <2> DEFINE r == MakeRoom(m, now)
  <2>1. CacheInv(r) /\ r.freeBlocks # << >>
    BY MakeRoomInv
  <2>2. Logged(r, before, first)
    <3>1. CASE m.freeBlocks # << >>
      BY <3>1 DEF MakeRoom
    <3>2. CASE m.freeBlocks = << >>
      <4>1. 0 \in BlockId
        BY CapacityAssumption DEF BlockId
      <4>2. Len(m.freeBlocks) = 0
        BY <3>2, EmptySeq
      <4>3. Resident(m) # {}
        BY <4>1, <4>2 DEF CacheInv, Lists, Resident
      <4> QED
        BY <3>2, <4>3, EvictOneLogs DEF MakeRoom
    <3> QED
      BY <3>1, <3>2
  <2> HIDE DEF r
  <2>3. Logged(Fill(r, acc, p, i, prio, now), before, first)
    BY <2>1, <2>2, FillLogs
  <2> QED
    BY <1>2, <2>3 DEF InsertPosition, r
<1> QED
  BY <1>1, <1>2

\* A whole materialization, by induction on its rounds.
LEMMA InsertLeadingLogs ==
  ASSUME NEW c, CacheInv(c), NEW acc, AcceptedType(acc), Covered(c, acc),
         NEW p \in PrefixId, NEW n \in Nat, NEW prio \in {-1, 0, 1, 2}, NEW now \in Nat,
         NEW before, NEW first, Logged(c, before, first)
  PROVE  Logged(InsertLeading(c, acc, p, n, prio, now), before, first)
<1>1. PICK g : Rounds(g, c, acc, p, n, prio, now)
  BY InsertLeadingRounds
<1>2. /\ g[0] = c /\ g[n] = InsertLeading(c, acc, p, n, prio, now)
      /\ \A i \in 0 .. n - 1 : g[i+1] = InsertPosition(g[i], acc, p, i, prio, now)
      /\ \A i \in 0 .. n : CacheInv(g[i]) /\ Covered(g[i], acc)
  BY <1>1 DEF Rounds
<1> DEFINE T == {i \in Nat : i <= n => Logged(g[i], before, first)}
<1>3. 0 \in T
  BY <1>2
<1>4. ASSUME NEW i \in T PROVE i + 1 \in T
  <2>1. SUFFICES ASSUME i + 1 <= n PROVE Logged(g[i+1], before, first)
    OBVIOUS
  <2>2. i \in 0 .. n - 1 /\ i \in 0 .. n /\ Logged(g[i], before, first)
    BY <2>1
  <2>3. CacheInv(g[i]) /\ Covered(g[i], acc)
    BY <1>2, <2>2
  <2>4. g[i+1] = InsertPosition(g[i], acc, p, i, prio, now)
    BY <1>2, <2>2
  <2> QED
    BY <2>2, <2>3, <2>4, InsertPositionLogs
<1>5. T = Nat
  <2> HIDE DEF T
  <2> QED
    BY <1>3, <1>4, NatInductionOnSets DEF T
<1>6. Logged(g[n], before, first)
  BY <1>5
<1> QED
  BY <1>2, <1>6

-----------------------------------------------------------------------------
(* What the actions log.                                                   *)

\* A call of materialize_prefix, and what is logged before it.
Logs(p, n, prio, first) ==
  LET after == InsertLeading(cache, accepted, p, n, prio, Now)
  IN  cache' = Settled(after) /\ runtimeEvents' = first \o after.events

LEMMA MaterializeReplays ==
  ASSUME IInv, NEW p \in PrefixId, NEW n \in Nat, NEW prio \in {-1, 0, 1, 2},
         NEW S, NEW first \in Seq(S), Replay(first, Residency(cache)) = Residency(cache),
         Logs(p, n, prio, first)
  PROVE  Residency(cache') = Replay(runtimeEvents', Residency(cache))
<1> DEFINE m == InsertLeading(cache, accepted, p, n, prio, Now)
           R == Residency(cache)
<1>1. CacheInv(cache) /\ Covered(cache, accepted) /\ Now \in Nat /\ cache.events = << >>
  BY StepAssumption DEF IInv, Now
<1>2. AcceptedType(accepted)
  BY DEF IInv, AcceptedType, IsDict, PrefixId
<1>3. Logged(cache, R, first)
  <2>1. first \o cache.events = first /\ cache.events \in Seq(S)
    BY <1>1, ConcatEmptySeq
  <2> QED
    BY <2>1 DEF Logged
<1> HIDE DEF R
<1>4. Logged(m, R, first) /\ CacheInv(m)
  BY <1>1, <1>2, <1>3, InsertLeadingLogs, InsertLeadingInv
<1>5. cache' = Settled(m) /\ runtimeEvents' = first \o m.events
  BY DEF Logs
<1> HIDE DEF m
<1>6. Settled(m).blocks = m.blocks
  BY <1>4 DEF CacheInv, CacheType, Settled, EmptyCache
<1>7. Residency(cache') = Residency(m)
  BY <1>5, <1>6 DEF Residency, Resident
<1> QED
  BY <1>4, <1>5, <1>7 DEF Logged, R

\* One event that names no block.
LEMMA ReplayOne ==
  ASSUME NEW e, NEW before
  PROVE  Replay(<<e>>, before) = Applied(e, before)
<1>1. << >> \in Seq({e}) /\ Append(<< >>, e) = <<e>>
  OBVIOUS
<1>2. Replay(Append(<< >>, e), before) = Applied(e, Replay(<< >>, before))
  BY <1>1, ReplayAppend
<1> QED
  BY <1>1, <1>2, ReplayNothing

LEMMA NextReplays ==
  ASSUME IInv, Next, ~ \E p \in DOMAIN prefixes : ReturnPrefix(p, TRUE)
  PROVE  Residency(cache') = Replay(runtimeEvents', Residency(cache))
<1> DEFINE R == Residency(cache)
           Faithful == Residency(cache') = Replay(runtimeEvents', R)
<1>1. ASSUME NEW p \in DOMAIN prefixes
      PROVE  p \in PrefixId /\ prefixes[p].count \in Nat
  BY DEF IInv, IsDict, Shape
<1>2. ASSUME NEW e, e.event \notin {"insert", "evict", "reset"}
      PROVE  Replay(<<e>>, R) = R
  BY <1>2, ReplayOne DEF Applied
<1>3. ASSUME NEW p, NEW shape, RegisterPrefix(p, shape)
      PROVE  Faithful
  BY <1>3, ReplayNothing DEF RegisterPrefix
<1>4. ASSUME NEW k \in Claim, NEW n, AdmitClaim(k, n)
      PROVE  Faithful
  <2> DEFINE e == [event |-> "claim_decision", claim |-> k, blocks |-> n]
  <2>1. runtimeEvents' = <<e>> /\ e.event = "claim_decision"
    BY <1>4 DEF AdmitClaim
  <2> HIDE DEF e
  <2>2. Replay(runtimeEvents', R) = R
    BY <1>2, <2>1
  <2>3. Residency(cache') = R
    <3>1. ClaimedPrefix[k] \in PrefixId /\ n \in Nat
      BY <1>4, ClaimAssumption DEF AdmitClaim, PrefixId, IInv, IsDict, Shape
    <3>2. CacheInv(cache)
      BY DEF IInv
    <3> QED
      BY <1>4, <3>1, <3>2, AdmissionKeepsPlaces DEF AdmitClaim
  <2> QED
    BY <2>2, <2>3
<1>5. ASSUME NEW p \in PrefixId, NEW n \in Nat,
             LET after == InsertLeading(cache, accepted, p, n, 0, Now)
             IN  cache' = Settled(after) /\ runtimeEvents' = after.events
      PROVE  Faithful
  <2> DEFINE after == InsertLeading(cache, accepted, p, n, 0, Now)
  <2>1. \E S : after.events \in Seq(S)
    <3>1. Logged(cache, R, << >>)
      <4>1. << >> \in Seq({}) /\ cache.events = << >> /\ << >> \o << >> = << >>
        BY DEF IInv
      <4> QED
        BY <4>1, ReplayNothing DEF Logged
    <3>2. /\ CacheInv(cache) /\ Covered(cache, accepted) /\ Now \in Nat
          /\ AcceptedType(accepted)
      BY StepAssumption DEF IInv, Now, AcceptedType, IsDict, PrefixId
    <3> HIDE DEF R
    <3>3. Logged(after, R, << >>)
      BY <3>1, <3>2, InsertLeadingLogs
    <3> QED
      BY <3>3 DEF Logged
  <2>2. << >> \o after.events = after.events
    BY <2>1, ConcatEmptySeq
  <2>3. Logs(p, n, 0, << >>)
    BY <1>5, <2>2 DEF Logs
  <2>4. << >> \in Seq({})
    OBVIOUS
  <2> QED
    BY <2>3, <2>4, MaterializeReplays, ReplayNothing
<1>6. ASSUME NEW p \in DOMAIN prefixes, Prefill(p) PROVE Faithful
  BY <1>1, <1>5, <1>6 DEF Prefill
<1>7. ASSUME NEW p \in DOMAIN prefixes, NEW d \in ActiveDecisions(p), ActivePrefill(p, d)
      PROVE  Faithful
  <2> DEFINE e == [event |-> "active_prefill_decision", prefix |-> p,
                   decision |-> d.decision, blocks |-> d.blocks]
  <2>1. e.event = "active_prefill_decision"
    OBVIOUS
  <2>2. d.blocks \in Nat /\ d.prio \in {-1, 0, 1, 2}
    BY <1>1, DecisionTyped
  <2>3. CASE d.decision = "cache_no_admit"
    <3>1. runtimeEvents' = <<e>> /\ cache' = cache
      BY <1>7, <2>3 DEF ActivePrefill
    <3> HIDE DEF e
    <3> QED
      BY <1>2, <2>1, <3>1
  <2>4. CASE d.decision # "cache_no_admit"
    <3>1. Logs(p, d.blocks, d.prio, <<e>>)
      BY <1>7, <2>4 DEF ActivePrefill, Logs
    <3> HIDE DEF e
    <3>2. <<e>> \in Seq({e}) /\ Replay(<<e>>, R) = R
      BY <1>2, <2>1
    <3> QED
      BY <1>1, <2>2, <3>1, <3>2, MaterializeReplays
  <2> QED
    BY <2>3, <2>4
<1>8. ASSUME NEW p \in DOMAIN prefixes, ReturnPrefix(p, FALSE) PROVE Faithful
  <2> DEFINE e == [event |-> "return", prefix |-> p,
                   contiguous |-> Contiguous(cache, p), total |-> TotalSurviving(cache, p),
                   crossed |-> Crosses(cache, prefixes, p),
                   value |-> ValueFor(prefixes[p], Contiguous(cache, p))]
  <2>1. runtimeEvents' = <<e>> /\ cache' = cache /\ e.event = "return"
    BY <1>8 DEF ReturnPrefix
  <2> HIDE DEF e
  <2> QED
    BY <1>2, <2>1
<1>9. ASSUME NEW n \in PressureSizes, Pressure(n) PROVE Faithful
  <2> DEFINE p == <<"__pressure__", Now>>
  <2>1. n \in Nat /\ p \in PrefixId
    BY StepAssumption, SizeAssumption DEF PrefixId, PressureId, Now, IInv
  <2>2. LET after == InsertLeading(cache, accepted, p, n, 0, Now)
        IN  cache' = Settled(after) /\ runtimeEvents' = after.events
    BY <1>9 DEF Pressure
  <2> HIDE DEF p
  <2> QED
    BY <1>5, <2>1, <2>2
<1>10. CASE Reset
  <2> DEFINE e == [event |-> "reset"]
  <2>1. runtimeEvents' = <<e>> /\ cache' = EmptyCache /\ e.event = "reset"
    BY <1>10 DEF Reset
  <2> HIDE DEF e
  <2>2. Replay(<<e>>, R) = {}
    BY <2>1, ReplayOne DEF Applied
  <2>3. Residency(EmptyCache) = {}
    BY DEF EmptyCache, Cleared, Resident, Residency
  <2> QED
    BY <2>1, <2>2, <2>3
<1> QED
  BY <1>3, <1>4, <1>6, <1>7, <1>8, <1>9, <1>10 DEF Next

\* runtime_events is a faithful history: replayed on the residency before a
\* call, what the call logged gives the residency after it, unless the call
\* was a recompute.
THEOREM LogReplaysToResidency == Spec => EventsReplay
<1> DEFINE Recomputes == \E p \in DOMAIN prefixes : ReturnPrefix(p, TRUE)
           Faithful == Residency(cache') = Replay(runtimeEvents', Residency(cache))
<1>1. IInv /\ [Next]_vars => [(~ Recomputes) => Faithful]_vars
  <2> SUFFICES ASSUME IInv, Next, ~ Recomputes PROVE Faithful
    OBVIOUS
  <2> QED
    BY NextReplays
<1> QED
  BY <1>1, AlwaysIInv, PTL DEF Spec, EventsReplay

-----------------------------------------------------------------------------
(* What a materialization gives up, and what the ledger says of it.        *)

\* d is c after some insertions at the positions of p at the step now: a
\* block of c is as it was or was touched now; those that were ranked below
\* those that were not; and every place of another prefix that is not held
\* any more was entered in the ledger as evicted now.
Spent(d, c, now, p) ==
  /\ \A b \in Resident(c) : d.blocks[b] = c.blocks[b] \/ d.blocks[b].touched = now
  /\ \A a, b \in Resident(c) :
       d.blocks[a] = c.blocks[a] /\ d.blocks[b] # c.blocks[b] => EvictsBefore(c, b, a)
  /\ \A x \in HeldPlaces(c) :
       \/ x \in HeldPlaces(d) \/ x[1] = p
       \/ x \in DOMAIN d.ledger /\ d.ledger[x].evicted = now

\* Every block of c was touched before.
Older(c, now) == \A b \in Resident(c) : c.blocks[b].touched < now

LEMMA EvictOneSpent ==
  ASSUME NEW c, CacheInv(c), NEW now \in Nat, Older(c, now), NEW p,
         NEW m, CacheInv(m), Booked(m), Resident(m) # {}, Spent(m, c, now, p)
  PROVE  Spent(EvictOne(m, now), c, now, p)
<1> DEFINE v == Victim(m)
           f == FreeBlock(m, v, now)
           d == EvictOne(m, now)
<1>1. v \in Resident(m) /\ \A o \in Resident(m) \ {v} : EvictsBefore(m, v, o)
  BY VictimIsResident
<1> HIDE DEF v
<1>2. /\ CacheInv(f) /\ f.blocks = [m.blocks EXCEPT ![v] = Cleared(now)]
      /\ f.ledger = m.ledger
  BY <1>1, FreeBlockInv
<1>2a. /\ Resident(f) = Resident(m) \ {v}
       /\ \A a \in Resident(m) \ {v} : f.blocks[a] = m.blocks[a]
  <2>1. Covered(m, EmptyDict)
    BY DEF Covered, EmptyDict
  <2> QED
    BY <1>1, <2>1, FreeBlockCovered
<1> HIDE DEF f
<1>3. DOMAIN f = DOMAIN EmptyCache
  BY <1>2 DEF CacheInv, CacheType
<1>4. /\ d.blocks = f.blocks
      /\ d.ledger = [k \in DOMAIN f.ledger |->
                       IF k = Place(m, v) THEN [f.ledger[k] EXCEPT !.evicted = now]
                                          ELSE f.ledger[k]]
  BY <1>3 DEF EvictOne, EmptyCache, f, v
<1> HIDE DEF d
<1>5. /\ m.blocks \in [BlockId -> BlockType] /\ v \in BlockId
      /\ \A a \in BlockId : d.blocks[a] = IF a = v THEN Cleared(now) ELSE m.blocks[a]
  BY <1>1, <1>2, <1>4 DEF CacheInv, CacheType, Resident
<1>6. /\ Cleared(now).touched = now /\ Cleared(now).state = "free"
  BY DEF Cleared
<1>7. \A b \in Resident(c) : /\ b \in BlockId /\ c.blocks[b].state = "resident"
                             /\ c.blocks[b].touched < now /\ c.blocks[b].touched \in Nat
  BY DEF Resident, Older, CacheInv, CacheType, BlockType
<1>8. ASSUME NEW b \in Resident(c)
      PROVE  d.blocks[b] = c.blocks[b] \/ d.blocks[b].touched = now
  BY <1>5, <1>6, <1>7 DEF Spent
<1>9. ASSUME NEW a \in Resident(c), NEW b \in Resident(c),
             d.blocks[a] = c.blocks[a], d.blocks[b] # c.blocks[b]
      PROVE  EvictsBefore(c, b, a)
  <2>1. a # v /\ m.blocks[a] = c.blocks[a]
    BY <1>5, <1>6, <1>7, <1>9
  <2>2. CASE m.blocks[b] # c.blocks[b]
    BY <2>1, <2>2 DEF Spent
  <2>3. CASE m.blocks[b] = c.blocks[b]
    <3>1. b = v
      BY <1>5, <1>7, <1>9, <2>3
    <3>2. a \in Resident(m)
      BY <1>7, <2>1 DEF Resident
    <3>3. EvictsBefore(m, b, a)
      BY <1>1, <2>1, <3>1, <3>2
    <3> QED
      BY <2>1, <2>3, <3>3 DEF EvictsBefore
  <2> QED
    BY <2>2, <2>3
<1>10. ASSUME NEW x \in HeldPlaces(c)
       PROVE  \/ x \in HeldPlaces(d) \/ x[1] = p
              \/ x \in DOMAIN d.ledger /\ d.ledger[x].evicted = now
  <2>1. DOMAIN d.ledger = DOMAIN m.ledger
    BY <1>2, <1>4
  <2>2. CASE x = Place(m, v)
    <3>1. x \in DOMAIN m.ledger
      BY <1>1, <2>2 DEF Booked, RowOf
    <3>2. m.ledger[x] \in RowType
      BY <3>1 DEF CacheInv, CacheType, IsDict
    <3>3. d.ledger[x] = [m.ledger[x] EXCEPT !.evicted = now]
      BY <1>2, <1>4, <2>2, <3>1
    <3>4. d.ledger[x].evicted = now
      BY <3>2, <3>3 DEF RowType
    <3> QED
      BY <2>1, <3>1, <3>4
  <2>3. CASE x # Place(m, v) /\ x \in HeldPlaces(m)
    <3>1. PICK a \in Resident(m) : x = Place(m, a)
      BY <2>3 DEF HeldPlaces
    <3>2. a \in BlockId /\ a # v /\ d.blocks[a] = m.blocks[a]
      BY <1>5, <2>3, <3>1 DEF Resident
    <3>3. a \in Resident(d) /\ Place(d, a) = x
      BY <3>1, <3>2 DEF Resident, Place
    <3> QED
      BY <3>3 DEF HeldPlaces
  <2>4. CASE x # Place(m, v) /\ x \notin HeldPlaces(m)
    <3>1. x[1] = p \/ (x \in DOMAIN m.ledger /\ m.ledger[x].evicted = now)
      BY <2>4 DEF Spent
    <3>2. x \in DOMAIN m.ledger => d.ledger[x] = m.ledger[x]
      BY <1>2, <1>4, <2>4
    <3> QED
      BY <2>1, <3>1, <3>2
  <2> QED
    BY <2>2, <2>3, <2>4
<1> QED
  BY <1>8, <1>9, <1>10 DEF Spent, d

LEMMA FillSpent ==
  ASSUME NEW c, CacheInv(c), NEW now \in Nat, Older(c, now), NEW p \in PrefixId,
         NEW m, CacheInv(m), m.freeBlocks # << >>, Spent(m, c, now, p),
         NEW acc, NEW i \in Nat, NEW prio
  PROVE  Spent(Fill(m, acc, p, i, prio, now), c, now, p)
<1> DEFINE v  == Head(m.freeBlocks)
           ks == ClaimIdsFor(acc, p, i)
           d  == Fill(m, acc, p, i, prio, now)
           e  == Entry(p, i, ks, prio, now)
           row == [block |-> v, protected |-> ks # {}, inserted |-> now,
                   evicted |-> NoStep]
<1>1. v \in BlockId /\ v \notin Resident(m)
  <2> DEFINE free == BlockId \ Resident(m)
  <2>1. Lists(m.freeBlocks, free)
    BY DEF CacheInv
  <2> HIDE DEF free
  <2>2. v \in BlockId /\ v \in free
    BY <2>1, PopLists
  <2> QED
    BY <2>2 DEF free
<1>2. m.blocks \in [BlockId -> BlockType] /\ DOMAIN m = DOMAIN EmptyCache
  BY DEF CacheInv, CacheType
<1>3. /\ d.blocks = [m.blocks EXCEPT ![v] = e]
      /\ d.ledger = Put(m.ledger, <<p, i>>, row)
  BY <1>2 DEF Fill, EmptyCache
<1>4. e.touched = now
  BY DEF Entry
<1> HIDE DEF v, ks, d, e, row
<1>5. \A a \in BlockId : d.blocks[a] = IF a = v THEN e ELSE m.blocks[a]
  BY <1>1, <1>2, <1>3
<1>6. \A b \in Resident(c) : /\ b \in BlockId /\ c.blocks[b].state = "resident"
                             /\ c.blocks[b].touched < now /\ c.blocks[b].touched \in Nat
  BY DEF Resident, Older, CacheInv, CacheType, BlockType
<1>7. \A b \in Resident(c) : m.blocks[b] = c.blocks[b] => b # v
  BY <1>1, <1>6 DEF Resident
<1>8. \A b \in Resident(c) : d.blocks[b] = c.blocks[b] <=> m.blocks[b] = c.blocks[b]
  BY <1>4, <1>5, <1>6, <1>7
<1>9. ASSUME NEW b \in Resident(c)
      PROVE  d.blocks[b] = c.blocks[b] \/ d.blocks[b].touched = now
  BY <1>4, <1>5, <1>6 DEF Spent
<1>10. \A a, b \in Resident(c) :
         d.blocks[a] = c.blocks[a] /\ d.blocks[b] # c.blocks[b] => EvictsBefore(c, b, a)
  BY <1>8 DEF Spent
<1>11. ASSUME NEW x \in HeldPlaces(c)
       PROVE  \/ x \in HeldPlaces(d) \/ x[1] = p
              \/ x \in DOMAIN d.ledger /\ d.ledger[x].evicted = now
  <2>1. CASE x \in HeldPlaces(m)
    <3>1. PICK a \in Resident(m) : x = Place(m, a)
      BY <2>1 DEF HeldPlaces
    <3>2. a \in BlockId /\ d.blocks[a] = m.blocks[a]
      BY <1>1, <1>5, <3>1 DEF Resident
    <3>3. a \in Resident(d) /\ Place(d, a) = x
      BY <3>1, <3>2 DEF Resident, Place
    <3> QED
      BY <3>3 DEF HeldPlaces
  <2>2. CASE x \notin HeldPlaces(m) /\ x[1] # p
    <3>1. x \in DOMAIN m.ledger /\ m.ledger[x].evicted = now
      BY <2>2 DEF Spent
    <3>2. x # <<p, i>>
      BY <2>2
    <3>3. x \in DOMAIN d.ledger /\ d.ledger[x] = m.ledger[x]
      BY <1>3, <3>1, <3>2 DEF Put
    <3> QED
      BY <3>1, <3>3
  <2> QED
    BY <2>1, <2>2
<1> QED
  BY <1>9, <1>10, <1>11 DEF Spent, d

LEMMA InsertPositionSpent ==
  ASSUME NEW c, CacheInv(c), NEW now \in Nat, Older(c, now), NEW p \in PrefixId,
         NEW m, CacheInv(m), Booked(m), Spent(m, c, now, p),
         NEW acc, Covered(m, acc), NEW i \in Nat, NEW prio
  PROVE  Spent(InsertPosition(m, acc, p, i, prio, now), c, now, p)
<1>1. CASE i \in ResidentPositions(m, p)
  BY <1>1 DEF InsertPosition
<1>2. CASE i \notin ResidentPositions(m, p)
  <2> DEFINE r == MakeRoom(m, now)
  <2>1. CacheInv(r) /\ r.freeBlocks # << >>
    BY MakeRoomInv
  <2>2. Spent(r, c, now, p)
    <3>1. CASE m.freeBlocks # << >>
      BY <3>1 DEF MakeRoom
    <3>2. CASE m.freeBlocks = << >>
      <4>1. 0 \in BlockId
        BY CapacityAssumption DEF BlockId
      <4>2. Len(m.freeBlocks) = 0
        BY <3>2, EmptySeq
      <4>3. Resident(m) # {}
        BY <4>1, <4>2 DEF CacheInv, Lists, Resident
      <4> QED
        BY <3>2, <4>3, EvictOneSpent DEF MakeRoom
    <3> QED
      BY <3>1, <3>2
  <2> HIDE DEF r
  <2>3. Spent(Fill(r, acc, p, i, prio, now), c, now, p)
    BY <2>1, <2>2, FillSpent
  <2> QED
    BY <1>2, <2>3 DEF InsertPosition, r
<1> QED
  BY <1>1, <1>2

\* A whole materialization, by induction on its rounds.
LEMMA InsertLeadingSpent ==
  ASSUME NEW c, CacheInv(c), NEW now \in Nat, Older(c, now),
         NEW acc, AcceptedType(acc), Covered(c, acc),
         NEW p \in PrefixId, NEW n \in Nat, NEW prio \in {-1, 0, 1, 2},
         NEW X, Books(c, now, X)
  PROVE  Spent(InsertLeading(c, acc, p, n, prio, now), c, now, p)
<1>1. PICK g : Rounds(g, c, acc, p, n, prio, now)
  BY InsertLeadingRounds
<1>2. /\ g[0] = c /\ g[n] = InsertLeading(c, acc, p, n, prio, now)
      /\ \A i \in 0 .. n - 1 : g[i+1] = InsertPosition(g[i], acc, p, i, prio, now)
      /\ \A i \in 0 .. n : CacheInv(g[i]) /\ Covered(g[i], acc)
  BY <1>1 DEF Rounds
<1> DEFINE Good(i) == Spent(g[i], c, now, p) /\ \E Y : Books(g[i], now, Y)
           U == {i \in Nat : i <= n => Good(i)}
<1>3. 0 \in U
  <2>1. Spent(c, c, now, p)
    BY DEF Spent
  <2> QED
    BY <1>2, <2>1
<1>4. ASSUME NEW i \in U PROVE i + 1 \in U
  <2>1. SUFFICES ASSUME i + 1 <= n PROVE Good(i+1)
    OBVIOUS
  <2>2. Good(i) /\ i \in 0 .. n - 1 /\ i \in 0 .. n /\ i \in Nat
    BY <2>1
  <2> DEFINE m == g[i]
             d == g[i+1]
  <2>3. /\ d = InsertPosition(m, acc, p, i, prio, now)
        /\ CacheInv(m) /\ Covered(m, acc) /\ Spent(m, c, now, p)
    BY <1>2, <2>2
  <2>4. PICK Y : Books(m, now, Y)
    BY <2>2
  <2> HIDE DEF m, d
  <2>5. Booked(m)
    BY <2>4 DEF Books
  <2>6. Spent(d, c, now, p)
    BY <2>2, <2>3, <2>5, InsertPositionSpent
  <2>7. Books(d, now, Y \ {<<p, i>>})
    BY <2>2, <2>3, <2>4, InsertPositionBooks
  <2> QED
    BY <2>6, <2>7 DEF d
<1>5. U = Nat
  <2> HIDE DEF U
  <2> QED
    BY <1>3, <1>4, NatInductionOnSets DEF U
<1>6. Good(n)
  <2> HIDE DEF Good
  <2> QED
    BY <1>5
<1> QED
  BY <1>2, <1>6

-----------------------------------------------------------------------------
(* What a call of the runtime gives up.                                    *)

\* No block was touched by the call that comes next.
LEMMA OlderThanNow ==
  ASSUME IInv, RowsKept
  PROVE  Older(cache, Now)
<1>1. CacheInv(cache) /\ step \in Nat /\ Now \in Nat /\ step < Now
  BY StepAssumption DEF IInv, Now
<1>2. Books(cache, step, PrefixId \X Nat)
  BY DEF RowsKept
<1>3. \A b \in Resident(cache) : cache.blocks[b].touched \in Nat
  BY <1>1 DEF CacheInv, CacheType, Resident, BlockType
<1>4. \A b \in Resident(cache) : cache.blocks[b].touched <= step
  BY <1>2 DEF Books, Queued
<1> QED
  BY <1>1, <1>3, <1>4 DEF Older

LEMMA MaterializeSpent ==
  ASSUME IInv, RowsKept, NEW p \in PrefixId, NEW n \in Nat, NEW prio \in {-1, 0, 1, 2}
  PROVE  LET m == InsertLeading(cache, accepted, p, n, prio, Now)
         IN  /\ Older(cache, Now)
             /\ CacheInv(m) /\ Spent(m, cache, Now, p)
<1> DEFINE m == InsertLeading(cache, accepted, p, n, prio, Now)
<1>1. /\ CacheInv(cache) /\ Covered(cache, accepted) /\ step \in Nat /\ Now \in Nat
      /\ step <= Now /\ step < Now
  BY StepAssumption DEF IInv, Now
<1>2. Books(cache, step, PrefixId \X Nat)
  BY DEF RowsKept
<1>3. Older(cache, Now)
  BY OlderThanNow
<1>4. Books(cache, Now, PrefixId \X Nat)
  BY <1>1, <1>2, BooksWeaken
<1>5. CacheInv(m)
  BY <1>1, AcceptedIsTyped, InsertLeadingInv
<1>6. Spent(m, cache, Now, p)
  BY <1>1, <1>3, <1>4, AcceptedIsTyped, InsertLeadingSpent
<1> QED
  BY <1>3, <1>5, <1>6

\* The calls EvictionRespectsRank is about are materializations.
Materializes(p, n, prio) ==
  cache' = Settled(InsertLeading(cache, accepted, p, n, prio, Now))

LEMMA MaterializeRespectsRank ==
  ASSUME IInv, RowsKept, NEW p \in PrefixId, NEW n \in Nat, NEW prio \in {-1, 0, 1, 2},
         Materializes(p, n, prio)
  PROVE  \A b \in Lost : \A a \in Resident(cache) \ Lost : EvictsBefore(cache, b, a)
<1> DEFINE m == InsertLeading(cache, accepted, p, n, prio, Now)
<1>1. Older(cache, Now) /\ CacheInv(m) /\ Spent(m, cache, Now, p)
  BY MaterializeSpent
<1>2. cache' = Settled(m)
  BY DEF Materializes
<1> HIDE DEF m
<1>3. cache'.blocks = m.blocks
  BY <1>1, <1>2 DEF Settled, CacheInv, CacheType, EmptyCache
<1>4. \A b : Untouched(b) <=> /\ cache'.blocks[b].owner = cache.blocks[b].owner
                              /\ cache'.blocks[b].pos = cache.blocks[b].pos
                              /\ cache'.blocks[b].touched = cache.blocks[b].touched
  BY DEF Untouched, Place
<1>5. ASSUME NEW b \in Lost PROVE b \in Resident(cache) /\ m.blocks[b] # cache.blocks[b]
  BY <1>3, <1>4 DEF Lost
<1>6. ASSUME NEW a \in Resident(cache) \ Lost PROVE m.blocks[a] = cache.blocks[a]
  <2>1. cache'.blocks[a].touched = cache.blocks[a].touched
    BY <1>4 DEF Lost
  <2>2. cache.blocks[a].touched < Now /\ cache.blocks[a].touched \in Nat /\ Now \in Nat
    BY <1>1 DEF Older, IInv, CacheInv, CacheType, Resident, BlockType, Now
  <2>3. m.blocks[a].touched # Now
    BY <1>3, <2>1, <2>2
  <2> QED
    BY <1>1, <2>3 DEF Spent
<1> QED
  BY <1>1, <1>5, <1>6 DEF Spent

\* Within one call that inserts at whatever priority, every block that was
\* evicted ranked below every block that outlived the call.
THEOREM VictimsRankBelow == Spec => EvictionRespectsRank
<1> DEFINE Inserts ==
             \/ \E p \in DOMAIN prefixes :
                  Prefill(p) \/ \E d \in ActiveDecisions(p) : ActivePrefill(p, d)
             \/ \E n \in PressureSizes : Pressure(n)
           Ranked == \A b \in Lost : \A a \in Resident(cache) \ Lost : EvictsBefore(cache, b, a)
<1>1. IInv /\ RowsKept /\ [Next]_vars => [Inserts => Ranked]_vars
  <2> SUFFICES ASSUME IInv, RowsKept, Inserts PROVE Ranked
    OBVIOUS
  <2>1. ASSUME NEW p \in DOMAIN prefixes
        PROVE  p \in PrefixId /\ prefixes[p].count \in Nat
    BY DEF IInv, IsDict, Shape
  <2>2. ASSUME NEW p \in DOMAIN prefixes, Prefill(p) PROVE Ranked
    <3>1. Materializes(p, prefixes[p].count, 0)
      BY <2>2 DEF Prefill, Materializes
    <3> QED
      BY <2>1, <3>1, MaterializeRespectsRank
  <2>3. ASSUME NEW p \in DOMAIN prefixes, NEW d \in ActiveDecisions(p), ActivePrefill(p, d)
        PROVE  Ranked
    <3>1. d.blocks \in Nat /\ d.prio \in {-1, 0, 1, 2}
      BY <2>1, DecisionTyped
    <3>2. CASE d.decision = "cache_no_admit"
      <4>1. cache' = cache
        BY <2>3, <3>2 DEF ActivePrefill
      <4>2. Lost = {}
        BY <4>1 DEF Lost, Untouched, Place
      <4> QED
        BY <4>2
    <3>3. CASE d.decision # "cache_no_admit"
      <4>1. Materializes(p, d.blocks, d.prio)
        BY <2>3, <3>3 DEF ActivePrefill, Materializes
      <4> QED
        BY <2>1, <3>1, <4>1, MaterializeRespectsRank
    <3> QED
      BY <3>2, <3>3
  <2>4. ASSUME NEW n \in PressureSizes, Pressure(n) PROVE Ranked
    <3> DEFINE p == <<"__pressure__", Now>>
    <3>1. n \in Nat /\ p \in PrefixId
      BY SizeAssumption DEF PrefixId, PressureId, Now, IInv
    <3>2. Materializes(p, n, 0)
      BY <2>4 DEF Pressure, Materializes
    <3> HIDE DEF p
    <3> QED
      BY <3>1, <3>2, MaterializeRespectsRank
  <2> QED
    BY <2>2, <2>3, <2>4
<1> QED
  BY <1>1, AlwaysIInv, AlwaysRowsKept, PTL DEF Spec, EvictionRespectsRank

-----------------------------------------------------------------------------
(* The harm report.                                                        *)

LEMMA HarmIsNamed ==
  ASSUME IInv, RowsKept, NEW p \in DOMAIN prefixes, NEW d \in ActiveDecisions(p),
         ActivePrefill(p, d)
  PROVE  HarmNamesTheBreak'
<1>1. \A q \in DOMAIN prefixes :
        q \in PrefixId /\ prefixes[q].count \in Nat /\ prefixes[q].threshold \in Nat
  BY DEF IInv, IsDict, Shape
<1>2. d.blocks \in Nat /\ d.prio \in {-1, 0, 1, 2}
  BY <1>1, DecisionTyped
<1>3. prefixes' = prefixes
  BY DEF ActivePrefill
<1> DEFINE h == auditEvents'[1]
<1>4. CASE d.decision = "cache_no_admit"
  <2>1. auditEvents' = <<Harm(p, d.decision, cache, cache, Now)>>
    BY <1>4 DEF ActivePrefill
  <2>2. Harm(p, d.decision, cache, cache, Now).broken = {}
    BY DEF Harm
  <2>3. \A i \in DOMAIN auditEvents' : auditEvents'[i].broken = {}
    BY <2>1, <2>2
  <2> QED
    BY <2>3 DEF HarmNamesTheBreak
<1>5. CASE d.decision # "cache_no_admit"
  <2> DEFINE m == InsertLeading(cache, accepted, p, d.blocks, d.prio, Now)
  <2>1. auditEvents' = <<Harm(p, d.decision, cache, m, Now)>> /\ cache' = Settled(m)
    BY <1>5 DEF ActivePrefill
  <2>2. CacheInv(m) /\ Spent(m, cache, Now, p) /\ CacheInv(cache)
    BY <1>1, <1>2, MaterializeSpent DEF IInv
  <2> HIDE DEF m
  <2>3. /\ Harm(p, d.decision, cache, m, Now).broken =
             {q \in DOMAIN prefixes \ {p} : /\ Crosses(cache, prefixes, q)
                                            /\ ~ Crosses(m, prefixes, q)}
        /\ Harm(p, d.decision, cache, m, Now).moved =
             {q \in DOMAIN prefixes \ {p} : Contiguous(m, q) < Contiguous(cache, q)}
        /\ Harm(p, d.decision, cache, m, Now).evicted =
             {x \in DOMAIN m.ledger : /\ x[1] \in DOMAIN prefixes \ {p}
                                      /\ m.ledger[x].evicted = Now}
    BY DEF Harm
  <2>4. ASSUME NEW q \in Harm(p, d.decision, cache, m, Now).broken
        PROVE  /\ q \in Harm(p, d.decision, cache, m, Now).moved
               /\ <<q, Contiguous(m, q)>> \in Harm(p, d.decision, cache, m, Now).evicted
               /\ Contiguous(m, q) < prefixes[q].threshold
    <3>1. /\ q \in DOMAIN prefixes /\ q # p
          /\ Contiguous(cache, q) >= prefixes[q].threshold
          /\ ~ (Contiguous(m, q) >= prefixes[q].threshold)
      BY <2>3 DEF Crosses
    <3> DEFINE j == Contiguous(m, q)
               k == Contiguous(cache, q)
    <3>2. /\ j \in 0 .. Capacity /\ j \notin ResidentPositions(m, q)
          /\ k \in 0 .. Capacity
          /\ \A i \in Nat : i < k => i \in ResidentPositions(cache, q)
      BY <1>1, <2>2, <3>1, ContiguousIsHeld
    <3> HIDE DEF j, k
    <3>3. j \in Nat /\ j < k /\ j < prefixes[q].threshold
      BY <1>1, <3>1, <3>2, CapacityAssumption DEF j, k
    <3>4. j \in ResidentPositions(cache, q)
      BY <3>2, <3>3
    <3>5. <<q, j>> \in HeldPlaces(cache)
      BY <1>1, <2>2, <3>1, <3>4
      DEF ResidentPositions, HeldPlaces, Place, CacheInv, ResidentIndexed
    <3>6. <<q, j>> \notin HeldPlaces(m)
      BY <1>1, <2>2, <3>1, <3>2
      DEF ResidentPositions, HeldPlaces, Place, CacheInv, ResidentIndexed
    <3>7. <<q, j>> \in DOMAIN m.ledger /\ m.ledger[<<q, j>>].evicted = Now
      BY <2>2, <3>1, <3>5, <3>6 DEF Spent
    <3> QED
      BY <2>3, <3>1, <3>3, <3>7 DEF j, k
  <2>5. \A q : Contiguous(cache', q) = Contiguous(m, q)
    <3>1. cache'.residentByPrefix = m.residentByPrefix /\ cache'.blocks = m.blocks
      BY <2>1, <2>2 DEF Settled, CacheInv, CacheType, EmptyCache
    <3> QED
      BY <3>1 DEF Contiguous, ResidentPositions
  <2>6. \A i \in DOMAIN auditEvents' :
          auditEvents'[i] = Harm(p, d.decision, cache, m, Now)
    BY <2>1
  <2>7. \A q : Contiguous(cache, q)' = Contiguous(cache', q)
    BY DEF Contiguous, ResidentPositions, Held
  <2> DEFINE r == Harm(p, d.decision, cache, m, Now)
  <2> HIDE DEF r
  <2>8. \A i \in DOMAIN auditEvents' : \A q \in auditEvents'[i].broken :
          /\ q \in auditEvents'[i].moved
          /\ <<q, Contiguous(cache', q)>> \in auditEvents'[i].evicted
          /\ Contiguous(cache', q) < prefixes'[q].threshold
    BY <1>3, <2>4, <2>5, <2>6
  <2> QED
    BY <2>7, <2>8 DEF HarmNamesTheBreak
<1> QED
  BY <1>4, <1>5

\* Whatever prefix breaks in an active prefill: the report names the evicted
\* position that broke it.
THEOREM BreaksAreNamed == Spec => []HarmNamesTheBreak
<1>1. Init => HarmNamesTheBreak
  BY DEF Init, HarmNamesTheBreak
<1>2. IInv /\ RowsKept /\ HarmNamesTheBreak /\ [Next]_vars => HarmNamesTheBreak'
  <2> SUFFICES ASSUME IInv, RowsKept, HarmNamesTheBreak, [Next]_vars
               PROVE  HarmNamesTheBreak'
    OBVIOUS
  <2>1. ASSUME auditEvents' = << >> PROVE HarmNamesTheBreak'
    BY <2>1 DEF HarmNamesTheBreak
  <2>2. CASE UNCHANGED vars
    BY <2>2 DEF vars, HarmNamesTheBreak, Contiguous, ResidentPositions, Held
  <2>3. ASSUME NEW p \in DOMAIN prefixes, NEW recompute \in BOOLEAN,
               ReturnPrefix(p, recompute)
        PROVE  HarmNamesTheBreak'
    <3>1. \A i \in DOMAIN auditEvents' : auditEvents'[i].event = "failure_label"
      BY <2>3 DEF ReturnPrefix
    <3> QED
      BY <3>1 DEF HarmNamesTheBreak
  <2> QED
    BY <2>1, <2>2, <2>3, HarmIsNamed
    DEF Next, RegisterPrefix, AdmitClaim, Prefill, Pressure, Reset
<1> QED
  BY <1>1, <1>2, AlwaysIInv, AlwaysRowsKept, PTL DEF Spec

-----------------------------------------------------------------------------
(* Low priorities yield.                                                   *)

\* The blocks of c that rank above x and are gone from d.
Gone(d, c, x) == {b \in Resident(c) : d.blocks[b] # c.blocks[b] /\ c.blocks[b].prio > x}

\* One at most; and then a block that ranks no higher than x is there to be
\* evicted before the next.
Yields(d, c, x) ==
  \/ Gone(d, c, x) = {}
  \/ /\ \E v : Gone(d, c, x) \subseteq {v}
     /\ \E r \in Resident(d) : d.blocks[r].prio <= x

\* What an eviction adds to the blocks that are gone.
LEMMA EvictOneYields ==
  ASSUME NEW c, CacheInv(c), NEW now \in Nat, NEW x \in {-1, 0, 1, 2},
         NEW m, CacheInv(m), Resident(m) # {}, Yields(m, c, x)
  PROVE  \E v : Gone(EvictOne(m, now), c, x) \subseteq {v}
<1> DEFINE v == Victim(m)
           f == FreeBlock(m, v, now)
           d == EvictOne(m, now)
<1>1. v \in Resident(m) /\ \A o \in Resident(m) \ {v} : EvictsBefore(m, v, o)
  BY VictimIsResident
<1> HIDE DEF v
<1>2. CacheInv(f) /\ f.blocks = [m.blocks EXCEPT ![v] = Cleared(now)]
  BY <1>1, FreeBlockInv
<1> HIDE DEF f
<1>3. DOMAIN f = DOMAIN EmptyCache
  BY <1>2 DEF CacheInv, CacheType
<1>4. d.blocks = f.blocks
  BY <1>3 DEF EvictOne, EmptyCache, f, v
<1> HIDE DEF d
<1>5. m.blocks \in [BlockId -> BlockType] /\ c.blocks \in [BlockId -> BlockType]
  BY DEF CacheInv, CacheType
<1>6. \A a \in BlockId : a # v => d.blocks[a] = m.blocks[a]
  BY <1>2, <1>4, <1>5
<1>7. Gone(d, c, x) \subseteq Gone(m, c, x) \cup {v}
  BY <1>6 DEF Gone, Resident
<1>8. CASE Gone(m, c, x) = {}
  BY <1>7, <1>8 DEF d
<1>9. CASE Gone(m, c, x) # {}
  <2>1. PICK r \in Resident(m) : m.blocks[r].prio <= x
    BY <1>9 DEF Yields
  <2>2. m.blocks[v].prio \in Int /\ m.blocks[r].prio \in Int
    BY <1>1, <1>5 DEF Resident, BlockType
  <2>3. m.blocks[v].prio <= x
    <3>1. CASE v = r
      BY <2>1, <3>1
    <3>2. CASE v # r
      BY <1>1, <2>1, <2>2, <3>2 DEF EvictsBefore
    <3> QED
      BY <3>1, <3>2
  <2>4. ASSUME NEW b \in Gone(d, c, x) PROVE b \in Gone(m, c, x)
    <3>1. b \in Resident(c) /\ c.blocks[b].prio > x /\ c.blocks[b].prio \in Int
      BY <1>5 DEF Gone, Resident, BlockType
    <3>2. ASSUME m.blocks[b] = c.blocks[b] PROVE FALSE
      <4>1. b # v
        BY <2>2, <2>3, <3>1, <3>2
      <4> QED
        BY <1>6, <3>1, <3>2, <4>1 DEF Gone, Resident
    <3> QED
      BY <3>1, <3>2 DEF Gone
  <2>5. PICK w : Gone(m, c, x) \subseteq {w}
    BY <1>9 DEF Yields
  <2> QED
    BY <2>4, <2>5 DEF d
<1> QED
  BY <1>8, <1>9

LEMMA InsertPositionYields ==
  ASSUME NEW c, CacheInv(c), NEW now \in Nat, NEW p \in PrefixId, NEW x \in {-1, 0, 1, 2},
         NEW m, CacheInv(m), Yields(m, c, x),
         NEW acc, AcceptedType(acc), Covered(m, acc), NEW i \in Nat,
         ClaimIdsFor(acc, p, i) = {}
  PROVE  Yields(InsertPosition(m, acc, p, i, x, now), c, x)
<1>1. CASE i \in ResidentPositions(m, p)
  BY <1>1 DEF InsertPosition
<1>2. CASE i \notin ResidentPositions(m, p)
  <2> DEFINE r == MakeRoom(m, now)
  <2>1. CacheInv(r) /\ r.freeBlocks # << >>
    BY MakeRoomInv
  <2>2. \E w : Gone(r, c, x) \subseteq {w}
    <3>1. CASE m.freeBlocks # << >>
      BY <3>1 DEF MakeRoom, Yields
    <3>2. CASE m.freeBlocks = << >>
      <4>1. 0 \in BlockId
        BY CapacityAssumption DEF BlockId
      <4>2. Len(m.freeBlocks) = 0
        BY <3>2, EmptySeq
      <4>3. Resident(m) # {}
        BY <4>1, <4>2 DEF CacheInv, Lists, Resident
      <4> QED
        BY <3>2, <4>3, EvictOneYields DEF MakeRoom
    <3> QED
      BY <3>1, <3>2
  <2> HIDE DEF r
  <2> DEFINE v == Head(r.freeBlocks)
             e == Entry(p, i, {}, x, now)
             d == Fill(r, acc, p, i, x, now)
  <2>3. v \in BlockId /\ v \notin Resident(r)
    <3> DEFINE free == BlockId \ Resident(r)
    <3>1. Lists(r.freeBlocks, free)
      BY <2>1 DEF CacheInv
    <3> HIDE DEF free
    <3>2. v \in BlockId /\ v \in free
      BY <2>1, <3>1, PopLists
    <3> QED
      BY <3>2 DEF free
  <2>4. r.blocks \in [BlockId -> BlockType] /\ DOMAIN r = DOMAIN EmptyCache
    BY <2>1 DEF CacheInv, CacheType
  <2>5. d.blocks = [r.blocks EXCEPT ![v] = e]
    BY <2>4 DEF Fill, EmptyCache
  <2>6. e.state = "resident" /\ e.prio = x
    BY DEF Entry
  <2> HIDE DEF v, e, d
  <2>7. \A a \in BlockId : d.blocks[a] = IF a = v THEN e ELSE r.blocks[a]
    BY <2>3, <2>4, <2>5
  <2>8. v \in Resident(d) /\ d.blocks[v].prio <= x
    BY <2>3, <2>6, <2>7 DEF Resident
  <2>9. Gone(d, c, x) \subseteq Gone(r, c, x)
    BY <2>3, <2>7 DEF Gone, Resident
  <2>10. Yields(d, c, x)
    BY <2>2, <2>8, <2>9 DEF Yields
  <2> QED
    BY <1>2, <2>10 DEF InsertPosition, r, d
<1> QED
  BY <1>1, <1>2

LEMMA InsertLeadingYields ==
  ASSUME NEW c, CacheInv(c), NEW now \in Nat,
         NEW acc, AcceptedType(acc), Covered(c, acc),
         NEW p \in PrefixId, NEW n \in Nat, NEW x \in {-1, 0, 1, 2},
         \A i \in Nat : ClaimIdsFor(acc, p, i) = {}
  PROVE  Yields(InsertLeading(c, acc, p, n, x, now), c, x)
<1>1. PICK g : Rounds(g, c, acc, p, n, x, now)
  BY InsertLeadingRounds
<1>2. /\ g[0] = c /\ g[n] = InsertLeading(c, acc, p, n, x, now)
      /\ \A i \in 0 .. n - 1 : g[i+1] = InsertPosition(g[i], acc, p, i, x, now)
      /\ \A i \in 0 .. n : CacheInv(g[i]) /\ Covered(g[i], acc)
  BY <1>1 DEF Rounds
<1> DEFINE Good(i) == Yields(g[i], c, x)
           U == {i \in Nat : i <= n => Good(i)}
<1>3. 0 \in U
  <2>1. Gone(c, c, x) = {}
    BY DEF Gone
  <2> QED
    BY <1>2, <2>1 DEF Yields
<1>4. ASSUME NEW i \in U PROVE i + 1 \in U
  <2>1. SUFFICES ASSUME i + 1 <= n PROVE Good(i+1)
    OBVIOUS
  <2>2. Good(i) /\ i \in 0 .. n - 1 /\ i \in 0 .. n /\ i \in Nat
    BY <2>1
  <2> DEFINE m == g[i]
             d == g[i+1]
  <2>3. /\ d = InsertPosition(m, acc, p, i, x, now)
        /\ CacheInv(m) /\ Covered(m, acc) /\ Yields(m, c, x)
    BY <1>2, <2>2
  <2> HIDE DEF m, d
  <2>4. Yields(d, c, x)
    BY <2>2, <2>3, InsertPositionYields
  <2> QED
    BY <2>4 DEF d
<1>5. U = Nat
  <2> HIDE DEF U
  <2> QED
    BY <1>3, <1>4, NatInductionOnSets DEF U
<1>6. Good(n)
  <2> HIDE DEF Good
  <2> QED
    BY <1>5
<1> QED
  BY <1>2, <1>6

LEMMA MaterializeYields ==
  ASSUME IInv, RowsKept, NEW p \in PrefixId, NEW n \in Nat, NEW x \in {-1, 0, 1, 2},
         Materializes(p, n, x), Unclaimed(p)
  PROVE  Cardinality({b \in Lost : cache.blocks[b].prio > x}) <= 1
<1> DEFINE m == InsertLeading(cache, accepted, p, n, x, Now)
           S == {b \in Lost : cache.blocks[b].prio > x}
<1>1. /\ CacheInv(cache) /\ Covered(cache, accepted) /\ Now \in Nat
  BY DEF IInv, Now
<1>2. \A i \in Nat : ClaimIdsFor(accepted, p, i) = {}
  BY DEF ClaimIdsFor, Unclaimed
<1>3. CacheInv(m) /\ Yields(m, cache, x)
  <2>1. CacheInv(m)
    BY <1>1, AcceptedIsTyped, InsertLeadingInv
  <2>2. Yields(m, cache, x)
    BY <1>1, <1>2, AcceptedIsTyped, InsertLeadingYields
  <2> QED
    BY <2>1, <2>2
<1>4. cache' = Settled(m)
  BY DEF Materializes
<1> HIDE DEF m
<1>5. cache'.blocks = m.blocks
  BY <1>3, <1>4 DEF Settled, CacheInv, CacheType, EmptyCache
<1>6. S \subseteq Gone(m, cache, x)
  BY <1>5 DEF Lost, Untouched, Place, Gone
<1>7. PICK v : Gone(m, cache, x) \subseteq {v}
  BY <1>3 DEF Yields
<1>8. IsFiniteSet({v}) /\ Cardinality({v}) = 1
  BY FS_Singleton
<1>9. S \subseteq {v}
  BY <1>6, <1>7
<1> HIDE DEF S
<1>10. Cardinality(S) <= 1
  BY <1>8, <1>9, FS_Subset
<1> QED
  BY <1>10 DEF S

\* However many unclaimed blocks a call inserts: it costs the blocks that
\* rank above them one at most.
THEOREM PressureCostsOneBlock == Spec => LowPriorityYields
<1> DEFINE Few(x) == Cardinality({b \in Lost : cache.blocks[b].prio > x}) <= 1
           Few0   == Cardinality({b \in Lost : cache.blocks[b].prio > 0}) <= 1
           AllFew ==
             /\ (\E n \in PressureSizes : Pressure(n)) => Few0
             /\ \A p \in DOMAIN prefixes : Unclaimed(p) =>
                  /\ Prefill(p) => Few0
                  /\ \A d \in ActiveDecisions(p) : ActivePrefill(p, d) => Few(d.prio)
<1>1. IInv /\ RowsKept /\ [Next]_vars => [AllFew]_vars
  <2> SUFFICES ASSUME IInv, RowsKept PROVE AllFew
    OBVIOUS
  <2>1. ASSUME NEW p \in DOMAIN prefixes
        PROVE  p \in PrefixId /\ prefixes[p].count \in Nat
    BY DEF IInv, IsDict, Shape
  <2>2. ASSUME NEW p \in DOMAIN prefixes, Unclaimed(p), Prefill(p) PROVE Few0
    <3>1. Materializes(p, prefixes[p].count, 0)
      BY <2>2 DEF Prefill, Materializes
    <3> QED
      BY <2>1, <2>2, <3>1, MaterializeYields
  <2>3. ASSUME NEW p \in DOMAIN prefixes, Unclaimed(p), NEW d \in ActiveDecisions(p),
               ActivePrefill(p, d)
        PROVE  Few(d.prio)
    <3>1. d.blocks \in Nat /\ d.prio \in {-1, 0, 1, 2}
      BY <2>1, DecisionTyped
    <3>2. CASE d.decision = "cache_no_admit"
      <4>1. cache' = cache
        BY <2>3, <3>2 DEF ActivePrefill
      <4>2. Lost = {}
        BY <4>1 DEF Lost, Untouched, Place
      <4>3. {b \in Lost : cache.blocks[b].prio > d.prio} = {}
        BY <4>2
      <4> QED
        BY <4>3, FS_EmptySet
    <3>3. CASE d.decision # "cache_no_admit"
      <4>1. Materializes(p, d.blocks, d.prio)
        BY <2>3, <3>3 DEF ActivePrefill, Materializes
      <4> QED
        BY <2>1, <2>3, <3>1, <4>1, MaterializeYields
    <3> QED
      BY <3>2, <3>3
  <2>4. ASSUME NEW n \in PressureSizes, Pressure(n) PROVE Few0
    <3> DEFINE p == <<"__pressure__", Now>>
    <3>1. n \in Nat /\ p \in PrefixId
      BY SizeAssumption DEF PrefixId, PressureId, Now, IInv
    <3>2. Materializes(p, n, 0)
      BY <2>4 DEF Pressure, Materializes
    <3>3. p \in PressureId /\ \A k \in DOMAIN accepted : accepted[k].prefix \in Prefix
      BY DEF PressureId, Now, IInv, IsDict
    <3> HIDE DEF p
    <3>4. Unclaimed(p)
      BY <3>3, IdAssumption DEF Unclaimed
    <3> QED
      BY <3>1, <3>2, <3>4, MaterializeYields
  <2> QED
    BY <2>2, <2>3, <2>4
<1> QED
  BY <1>1, AlwaysIInv, AlwaysRowsKept, PTL DEF Spec, LowPriorityYields

-----------------------------------------------------------------------------
(* Insertions of a prefix of which nothing is resident.                    *)

High(c) == {b \in Resident(c) : c.blocks[b].prio > 0}

\* m is c, of which p holds nothing, with the leading i places of p and
\* perhaps fewer of the others.
Filling(m, c, now, p, i) ==
  /\ \A j \in Nat : j < i => <<p, j>> \in HeldPlaces(m)
  /\ \A b \in Resident(m) :
       IF m.blocks[b].owner = p
         THEN m.blocks[b].pos < i /\ m.blocks[b].touched = now /\ m.blocks[b].prio >= 0
         ELSE b \in Resident(c) /\ m.blocks[b] = c.blocks[b]

\* Among more blocks than the own and the highly ranked ones fill, some
\* block of another prefix ranks low.
LEMMA LowBlockExists ==
  ASSUME NEW c, CacheInv(c), NEW now \in Nat, NEW p \in PrefixId, NEW n \in Nat,
         n + Cardinality(High(c)) <= Capacity,
         NEW m, CacheInv(m), Resident(m) = BlockId,
         NEW i \in Nat, i < n, Filling(m, c, now, p, i)
  PROVE  \E o \in Resident(m) : m.blocks[o].owner # p /\ ~ (m.blocks[o].prio > 0)
<1> SUFFICES ASSUME \A o \in BlockId : m.blocks[o].owner = p \/ m.blocks[o].prio > 0
             PROVE  FALSE
  OBVIOUS
<1> DEFINE Own == {b \in BlockId : m.blocks[b].owner = p}
           Top == High(c)
           f   == [b \in Own |-> m.blocks[b].pos]
<1>1. IsFiniteSet(BlockId) /\ Cardinality(BlockId) = Capacity
  BY FS_Interval, CapacityAssumption DEF BlockId
<1>2. BlockId \subseteq Own \cup Top
  BY DEF Filling, High
<1>3. f \in Injection(Own, 0 .. i - 1)
  <2>1. \A b \in Own : m.blocks[b].pos \in 0 .. i - 1
    BY DEF Filling, CacheInv, BlocksMarked, Resident
  <2>2. \A a, b \in Own : m.blocks[a].pos = m.blocks[b].pos => a = b
    BY DEF CacheInv, PlacesUnique, Place
  <2> QED
    BY <2>1, <2>2 DEF Injection, IsInjective
<1>4. IsFiniteSet(0 .. i - 1) /\ Cardinality(0 .. i - 1) <= i
  <2>1. 0 \in Int /\ i - 1 \in Int
    OBVIOUS
  <2>2. IsFiniteSet(0 .. i - 1)
    BY <2>1, FS_Interval
  <2>3. Cardinality(0 .. i - 1) = IF 0 > i - 1 THEN 0 ELSE (i - 1) - 0 + 1
    BY <2>1, FS_Interval
  <2> QED
    BY <2>2, <2>3
<1>5. Top \in SUBSET BlockId
  BY DEF High, Resident
<1>6. IsFiniteSet(Own) /\ IsFiniteSet(Top)
  BY <1>1, <1>5, FS_Subset
<1>6a. /\ Cardinality(Own) \in Nat /\ Cardinality(Top) \in Nat
       /\ Cardinality(0 .. i - 1) \in Nat
  BY <1>4, <1>6, FS_CardinalityType
<1> HIDE DEF Own, Top, f
<1>7. Cardinality(Own) <= Cardinality(0 .. i - 1)
  BY <1>3, <1>4, FS_Injection
<1>8. /\ IsFiniteSet(Own \cup Top)
      /\ Cardinality(Own \cup Top) <= Cardinality(Own) + Cardinality(Top)
  <2>1. /\ IsFiniteSet(Own \cup Top) /\ IsFiniteSet(Own \cap Top)
        /\ Cardinality(Own \cup Top) =
             Cardinality(Own) + Cardinality(Top) - Cardinality(Own \cap Top)
    BY <1>6, FS_Union, FS_Intersection
  <2>2. Cardinality(Own \cap Top) \in Nat
    BY <2>1, FS_CardinalityType
  <2> QED
    BY <1>6a, <2>1, <2>2
<1>9. Cardinality(BlockId) <= Cardinality(Own \cup Top) /\ Cardinality(Own \cup Top) \in Nat
  BY <1>2, <1>8, FS_Subset, FS_CardinalityType
<1>10. n + Cardinality(Top) <= Capacity
  BY DEF Top
<1> QED
  BY <1>1, <1>4, <1>6a, <1>7, <1>8, <1>9, <1>10, CapacityAssumption

\* One round.
LEMMA InsertPositionFills ==
  ASSUME NEW c, CacheInv(c), NEW now \in Nat, Older(c, now),
         NEW p \in PrefixId, NEW n \in Nat, n + Cardinality(High(c)) <= Capacity,
         NEW m, CacheInv(m), NEW i \in Nat, i < n, Filling(m, c, now, p, i),
         NEW acc, AcceptedType(acc), Covered(m, acc)
  PROVE  Filling(InsertPosition(m, acc, p, i, 0, now), c, now, p, i + 1)
<1>0. i \notin ResidentPositions(m, p)
  <2>1. \A b \in Held(m.residentByPrefix, p) : m.blocks[b].pos < i /\ m.blocks[b].pos \in Nat
    BY DEF Filling, CacheInv, ResidentIndexed, BlocksMarked, Resident
  <2> QED
    BY <2>1 DEF ResidentPositions
<1> DEFINE r == MakeRoom(m, now)
<1>1. /\ CacheInv(r) /\ r.freeBlocks # << >> /\ Covered(r, acc)
      /\ Resident(r) \subseteq Resident(m)
      /\ \A a \in Resident(r) : r.blocks[a] = m.blocks[a]
  BY MakeRoomInv
<1>2. \A a \in Resident(m) : m.blocks[a].owner = p => a \in Resident(r)
  <2>1. CASE m.freeBlocks # << >>
    BY <2>1 DEF MakeRoom
  <2>2. CASE m.freeBlocks = << >>
    <3>1. 0 \in BlockId
      BY CapacityAssumption DEF BlockId
    <3>2. Len(m.freeBlocks) = 0
      BY <2>2, EmptySeq
    <3>3. Resident(m) = BlockId /\ Resident(m) # {}
      BY <3>1, <3>2 DEF CacheInv, Lists, Resident
    <3> DEFINE v == Victim(m)
    <3>4. v \in Resident(m) /\ \A o \in Resident(m) \ {v} : EvictsBefore(m, v, o)
      BY <3>3, VictimIsResident
    <3> HIDE DEF v
    <3>5. PICK o \in Resident(m) : m.blocks[o].owner # p /\ ~ (m.blocks[o].prio > 0)
      BY <3>3, LowBlockExists
    <3>6. m.blocks[o].touched < now
      BY <3>5 DEF Filling, Older
    <3>7. m.blocks[v].owner # p
      <4> SUFFICES ASSUME m.blocks[v].owner = p PROVE FALSE
        OBVIOUS
      <4>1. m.blocks[v].touched = now /\ m.blocks[v].prio >= 0
        BY <3>4 DEF Filling
      <4>2. /\ m.blocks[v].prio \in Int /\ m.blocks[o].prio \in Int
            /\ m.blocks[o].touched \in Nat
        <5>1. m.blocks \in [BlockId -> BlockType]
          BY DEF CacheInv, CacheType
        <5>2. v \in BlockId /\ o \in BlockId
          BY <3>4, <3>5 DEF Resident
        <5>3. m.blocks[v] \in BlockType /\ m.blocks[o] \in BlockType
          BY <5>1, <5>2
        <5> QED
          BY <5>3 DEF BlockType
      <4>3. EvictsBefore(m, v, o)
        BY <3>4, <3>5
      <4> QED
        BY <3>5, <3>6, <4>1, <4>2, <4>3 DEF EvictsBefore
    <3>8. Resident(r) = Resident(m) \ {v}
      <4> USE DEF v
      <4> DEFINE f == FreeBlock(m, v, now)
      <4>1. CacheInv(f)
        BY <3>4, FreeBlockInv
      <4>2. Resident(f) = Resident(m) \ {v}
        <5>1. Covered(m, EmptyDict)
          BY DEF Covered, EmptyDict
        <5> QED
          BY <3>4, <5>1, FreeBlockCovered
      <4>3. r.blocks = f.blocks
        BY <2>2, <4>1 DEF MakeRoom, EvictOne, EmptyCache, CacheInv, CacheType
      <4> HIDE DEF f, r, v
      <4> QED
        BY <4>2, <4>3 DEF Resident
    <3> QED
      BY <3>7, <3>8
  <2> QED
    BY <2>1, <2>2
<1> HIDE DEF r
<1> DEFINE v  == Head(r.freeBlocks)
           ks == ClaimIdsFor(acc, p, i)
           e  == Entry(p, i, ks, 0, now)
           d  == Fill(r, acc, p, i, 0, now)
<1>3. v \in BlockId /\ v \notin Resident(r)
  <2> DEFINE free == BlockId \ Resident(r)
  <2>1. Lists(r.freeBlocks, free)
    BY <1>1 DEF CacheInv
  <2> HIDE DEF free
  <2>2. v \in BlockId /\ v \in free
    BY <1>1, <2>1, PopLists
  <2> QED
    BY <2>2 DEF free
<1>4. r.blocks \in [BlockId -> BlockType] /\ DOMAIN r = DOMAIN EmptyCache
  BY <1>1 DEF CacheInv, CacheType
<1>5. d.blocks = [r.blocks EXCEPT ![v] = e]
  BY <1>4 DEF Fill, EmptyCache
<1>6. /\ e.state = "resident" /\ e.owner = p /\ e.pos = i /\ e.touched = now
      /\ e.prio >= 0
  <2> HIDE DEF ks
  <2> QED
    BY DEF Entry
<1> HIDE DEF v, ks, e, d
<1>7. \A a \in BlockId : d.blocks[a] = IF a = v THEN e ELSE r.blocks[a]
  BY <1>3, <1>4, <1>5
<1>8. Resident(d) = Resident(r) \cup {v}
  BY <1>3, <1>6, <1>7 DEF Resident
<1>9. \A a \in Resident(r) : a # v /\ d.blocks[a] = m.blocks[a]
  BY <1>1, <1>3, <1>7 DEF Resident
<1>10. ASSUME NEW j \in Nat, j < i + 1 PROVE <<p, j>> \in HeldPlaces(d)
  <2>1. CASE j = i
    BY <1>3, <1>6, <1>7, <1>8, <2>1 DEF HeldPlaces, Place
  <2>2. CASE j # i
    <3>1. j < i
      BY <1>10, <2>2
    <3>2. PICK a \in Resident(m) : <<p, j>> = Place(m, a)
      BY <3>1 DEF Filling, HeldPlaces
    <3>3. a \in Resident(r)
      BY <1>2, <3>2 DEF Place
    <3>4. a \in Resident(d) /\ Place(d, a) = <<p, j>>
      BY <1>8, <1>9, <3>2, <3>3 DEF Place
    <3> QED
      BY <3>4 DEF HeldPlaces
  <2> QED
    BY <2>1, <2>2
<1>11. ASSUME NEW b \in Resident(d)
       PROVE  IF d.blocks[b].owner = p
                THEN /\ d.blocks[b].pos < i + 1 /\ d.blocks[b].touched = now
                     /\ d.blocks[b].prio >= 0
                ELSE b \in Resident(c) /\ d.blocks[b] = c.blocks[b]
  <2>1. CASE b = v
    BY <1>3, <1>6, <1>7, <2>1
  <2>2. CASE b # v
    <3>1. b \in Resident(m) /\ d.blocks[b] = m.blocks[b] /\ b \in BlockId
      BY <1>1, <1>8, <1>9, <2>2 DEF Resident
    <3>2. m.blocks[b].pos \in Int
      BY <3>1 DEF CacheInv, CacheType, BlockType, NoPosition
    <3> QED
      BY <3>1, <3>2 DEF Filling
  <2> QED
    BY <2>1, <2>2
<1>12. Filling(d, c, now, p, i + 1)
  BY <1>10, <1>11 DEF Filling
<1> QED
  BY <1>0, <1>12 DEF InsertPosition, d, r

LEMMA InsertLeadingFills ==
  ASSUME NEW c, CacheInv(c), NEW now \in Nat, Older(c, now),
         NEW p \in PrefixId, NEW n \in Nat, n + Cardinality(High(c)) <= Capacity,
         \A b \in Resident(c) : c.blocks[b].owner # p,
         NEW acc, AcceptedType(acc), Covered(c, acc)
  PROVE  Filling(InsertLeading(c, acc, p, n, 0, now), c, now, p, n)
<1>1. PICK g : Rounds(g, c, acc, p, n, 0, now)
  BY InsertLeadingRounds
<1>2. /\ g[0] = c /\ g[n] = InsertLeading(c, acc, p, n, 0, now)
      /\ \A i \in 0 .. n - 1 : g[i+1] = InsertPosition(g[i], acc, p, i, 0, now)
      /\ \A i \in 0 .. n : CacheInv(g[i]) /\ Covered(g[i], acc)
  BY <1>1 DEF Rounds
<1> DEFINE Good(i) == Filling(g[i], c, now, p, i)
           U == {i \in Nat : i <= n => Good(i)}
<1>3. 0 \in U
  BY <1>2 DEF Filling
<1>4. ASSUME NEW i \in U PROVE i + 1 \in U
  <2>1. SUFFICES ASSUME i + 1 <= n PROVE Good(i+1)
    OBVIOUS
  <2>2. Good(i) /\ i \in 0 .. n - 1 /\ i \in 0 .. n /\ i \in Nat /\ i < n
    BY <2>1
  <2> DEFINE m == g[i]
             d == g[i+1]
  <2>3. /\ d = InsertPosition(m, acc, p, i, 0, now)
        /\ CacheInv(m) /\ Covered(m, acc) /\ Filling(m, c, now, p, i)
    BY <1>2, <2>2
  <2> HIDE DEF m, d
  <2>4. Filling(d, c, now, p, i + 1)
    BY <2>2, <2>3, InsertPositionFills
  <2> QED
    BY <2>4 DEF d
<1>5. U = Nat
  <2> HIDE DEF U
  <2> QED
    BY <1>3, <1>4, NatInductionOnSets DEF U
<1>6. Good(n)
  <2> HIDE DEF Good
  <2> QED
    BY <1>5
<1> QED
  BY <1>2, <1>6

\* Leading places that are held are surviving blocks.
LEMMA FilledIsContiguous ==
  ASSUME NEW c, CacheInv(c), NEW p \in PrefixId, NEW n \in Nat,
         \A j \in Nat : j < n => <<p, j>> \in HeldPlaces(c)
  PROVE  Contiguous(c, p) >= n
<1>1. /\ Contiguous(c, p) \in Nat
      /\ Contiguous(c, p) \notin ResidentPositions(c, p)
  BY ContiguousIsHeld, CapacityAssumption
<1> SUFFICES ASSUME Contiguous(c, p) < n PROVE FALSE
  BY <1>1
<1>2. PICK b \in Resident(c) : Place(c, b) = <<p, Contiguous(c, p)>>
  BY <1>1 DEF HeldPlaces
<1>3. c.blocks[b].owner = p /\ c.blocks[b].pos = Contiguous(c, p)
  BY <1>2 DEF Place
<1>4. b \in Held(c.residentByPrefix, p)
  BY <1>3 DEF CacheInv, ResidentIndexed
<1> QED
  BY <1>1, <1>3, <1>4 DEF ResidentPositions

\* A call that inserts the leading n blocks of p into c, which holds nothing
\* of p.
LEMMA InsertedInFull ==
  ASSUME IInv, NEW c, CacheInv(c), Covered(c, accepted), Older(c, Now),
         NEW p \in PrefixId, NEW n \in Nat, n + Cardinality(High(c)) <= Capacity,
         \A b \in Resident(c) : c.blocks[b].owner # p,
         cache' = Settled(InsertLeading(c, accepted, p, n, 0, Now))
  PROVE  Contiguous(cache', p) >= n
<1> DEFINE m == InsertLeading(c, accepted, p, n, 0, Now)
<1>1. AcceptedType(accepted) /\ Now \in Nat
  BY AcceptedIsTyped DEF IInv, Now
<1>2. CacheInv(m) /\ Covered(m, accepted)
  BY <1>1, InsertLeadingInv
<1>3. Filling(m, c, Now, p, n)
  BY <1>1, InsertLeadingFills
<1> HIDE DEF m
<1> DEFINE d == Settled(m)
<1>4. CacheInv(d) /\ HeldPlaces(d) = HeldPlaces(m)
  BY <1>2, SettledInv
<1>5. cache' = d
  BY DEF m
<1> HIDE DEF d
<1>6. \A j \in Nat : j < n => <<p, j>> \in HeldPlaces(d)
  BY <1>3, <1>4 DEF Filling
<1>7. Contiguous(d, p) >= n
  BY <1>4, <1>6, FilledIsContiguous
<1> QED
  BY <1>5, <1>7 DEF Contiguous, ResidentPositions, Held

\* A prefix that is recomputed, or prefilled when none of it is resident,
\* ends up resident in full if it fits beside the blocks of others that rank
\* above priority 0.
THEOREM FreshInsertionsFill == Spec => FreshInsertionIsComplete
<1> DEFINE Others(p) == {b \in Resident(cache) :
                           cache.blocks[b].owner # p /\ cache.blocks[b].prio > 0}
           Complete ==
             \A p \in DOMAIN prefixes :
               /\ ReturnPrefix(p, TRUE) \/ (Prefill(p) /\ ResidentPositions(cache, p) = {})
               /\ prefixes[p].count + Cardinality(Others(p)) <= Capacity
               => FullyResident(cache', p)
<1>1. IInv /\ RowsKept /\ [Next]_vars => [Complete]_vars
  <2> SUFFICES ASSUME IInv, RowsKept,
                      NEW p \in DOMAIN prefixes,
                      ReturnPrefix(p, TRUE) \/ (Prefill(p) /\ ResidentPositions(cache, p) = {}),
                      prefixes[p].count + Cardinality(Others(p)) <= Capacity
               PROVE  FullyResident(cache', p)
    OBVIOUS
  <2> DEFINE n == prefixes[p].count
  <2>1. /\ CacheInv(cache) /\ Covered(cache, accepted) /\ Now \in Nat
        /\ p \in PrefixId /\ n \in Nat
    BY DEF IInv, Now, IsDict, Shape
  <2>2. Older(cache, Now)
    BY OlderThanNow
  <2>3. Held(cache.residentByPrefix, p) = {b \in Resident(cache) : cache.blocks[b].owner = p}
    BY <2>1 DEF CacheInv, ResidentIndexed
  <2>4. CASE Prefill(p) /\ ResidentPositions(cache, p) = {}
    <3>1. \A b \in Resident(cache) : cache.blocks[b].owner # p
      BY <2>3, <2>4 DEF ResidentPositions
    <3>2. High(cache) = Others(p)
      BY <3>1 DEF High
    <3>3. cache' = Settled(InsertLeading(cache, accepted, p, n, 0, Now))
      BY <2>4 DEF Prefill
    <3>4. n + Cardinality(High(cache)) <= Capacity
      BY <3>2
    <3> HIDE DEF n
    <3>5. Contiguous(cache', p) >= n
      BY <2>1, <2>2, <3>1, <3>3, <3>4, InsertedInFull
    <3> QED
      BY <3>5 DEF FullyResident, n
  <2>5. CASE ReturnPrefix(p, TRUE)
    <3> DEFINE c == FreeOwn(cache, p, Now)
    <3>1. /\ CacheInv(c) /\ Covered(c, accepted)
          /\ Resident(c) = Resident(cache) \ Held(cache.residentByPrefix, p)
          /\ \A b \in Resident(c) : c.blocks[b] = cache.blocks[b]
      BY <2>1, FreeOwnInv
    <3>2. cache' = Settled(InsertLeading(c, accepted, p, n, 0, Now))
      BY <2>5 DEF ReturnPrefix
    <3> HIDE DEF c
    <3>3. \A b \in Resident(c) : b \in Resident(cache) /\ c.blocks[b].owner # p
      BY <2>3, <3>1
    <3>4. Older(c, Now)
      BY <2>2, <3>1, <3>3 DEF Older
    <3>5. High(c) = Others(p)
      BY <2>3, <3>1 DEF High
    <3>6. n + Cardinality(High(c)) <= Capacity
      BY <3>5
    <3> HIDE DEF n
    <3>7. Contiguous(cache', p) >= n
      BY <2>1, <3>1, <3>2, <3>3, <3>4, <3>6, InsertedInFull
    <3> QED
      BY <3>7 DEF FullyResident, n
  <2> QED
    BY <2>4, <2>5
<1> QED
  BY <1>1, AlwaysIInv, AlwaysRowsKept, PTL DEF Spec, FreshInsertionIsComplete
=============================================================================
