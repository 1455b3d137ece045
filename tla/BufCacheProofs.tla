--------------------------- MODULE BufCacheProofs ---------------------------
(***************************************************************************)
(* The rings of the buffer cache stay rings, and the free list stays the   *)
(* list of the unlocked buffers, for any number of buffers, hash queues    *)
(* and blocks, as long as the user leaves the lock bit to the program.     *)
(*                                                                         *)
(* Then the rings as queues: a ring of pointers has one tour of its        *)
(* buffers, and the list primitives change it as the operators on          *)
(* sequences do.  From this follow that a search of a hash queue meets     *)
(* every buffer of it, that no two buffers hold one block, and that the    *)
(* pointers implement the queue of BlockCache.                             *)
(***************************************************************************)
EXTENDS BufCache, TLAPS, FiniteSetTheorems, CommonLemmas

-----------------------------------------------------------------------------
(* The list primitives of getblk.c, on any ring with any set of heads.     *)
Heads(heads) == heads \cap Buf = {} /\ NULL \notin Buf \cup heads

(* An empty ring is sound, and holds no buffer.                            *)
LEMMA EmptySound ==
  ASSUME NEW heads, Heads(heads)
  PROVE  /\ LinksTypeOK(Empty(heads), heads) /\ RingSound(Empty(heads), heads)
         /\ \A q \in Buf : ~Linked(Empty(heads), q)
<1> DEFINE link == [x \in Buf \cup heads |-> IF x \in heads THEN x ELSE NULL]
<1>1. /\ link \in [Buf \cup heads -> Buf \cup heads \cup {NULL}]
      /\ \A x \in heads : link[x] = x /\ x # NULL
      /\ \A q \in Buf : link[q] = NULL
  BY DEF Heads
<1>2. Empty(heads) = [fp |-> link, bp |-> link]
  BY DEF Empty
<1> HIDE DEF link
<1> QED
  BY <1>1, <1>2 DEF LinksTypeOK, RingSound, Linked

(* insert_bottom(): a buffer outside the ring joins it, nothing else does. *)
LEMMA InsertBottomSound ==
  ASSUME NEW heads, Heads(heads), NEW r, LinksTypeOK(r, heads), RingSound(r, heads),
         NEW h \in heads, NEW p \in Buf, ~Linked(r, p)
  PROVE  /\ LinksTypeOK(InsertBottom(r, h, p), heads)
         /\ RingSound(InsertBottom(r, h, p), heads)
         /\ \A q \in Buf : Linked(InsertBottom(r, h, p), q) <=> q = p \/ Linked(r, q)
<1> DEFINE N == Buf \cup heads
           t == r.bp[h]
           f == [r.fp EXCEPT ![p] = h, ![t] = p]
           b == [r.bp EXCEPT ![p] = t, ![h] = p]
<1>1. /\ r.fp \in [N -> N \cup {NULL}] /\ r.bp \in [N -> N \cup {NULL}]
      /\ h \in N /\ p \in N /\ h # p /\ NULL \notin N /\ h # NULL
      /\ h \notin Buf
  BY DEF LinksTypeOK, Heads
<1>2. r.fp[p] = NULL /\ r.bp[p] = NULL
  BY <1>1 DEF Linked, RingSound
<1>3. t \in N /\ r.fp[t] = h
  BY <1>1 DEF RingSound
<1>4. t # p
  BY <1>1, <1>2, <1>3
<1>5. /\ f \in [N -> N \cup {NULL}] /\ b \in [N -> N \cup {NULL}]
      /\ f[t] = p /\ f[p] = h /\ b[h] = p /\ b[p] = t
      /\ \A x \in N : x # t /\ x # p => f[x] = r.fp[x]
      /\ \A x \in N : x # h /\ x # p => b[x] = r.bp[x]
  BY <1>1, <1>3, <1>4
<1>6. InsertBottom(r, h, p) = [fp |-> f, bp |-> b]
  BY DEF InsertBottom
<1>7. \A x \in N : x # p =>
        \/ x \in Buf /\ r.fp[x] = NULL /\ r.bp[x] = NULL
        \/ /\ r.fp[x] \in N /\ r.fp[x] # p /\ r.bp[r.fp[x]] = x
           /\ r.bp[x] \in N /\ r.bp[x] # p /\ r.fp[r.bp[x]] = x
  BY <1>1, <1>2 DEF RingSound
<1> HIDE DEF f, b, t, N
<1>8. ASSUME NEW x \in N
      PROVE  \/ x \in Buf /\ f[x] = NULL /\ b[x] = NULL
             \/ /\ f[x] \in N /\ b[f[x]] = x
                /\ b[x] \in N /\ f[b[x]] = x
  <2>1. CASE x = p
    BY <1>1, <1>3, <1>5, <2>1
  <2>2. CASE x = t /\ t = h
    BY <1>1, <1>3, <1>5, <2>2
  <2>3. CASE x = t /\ t # h
    BY <1>1, <1>3, <1>4, <1>5, <1>7, <2>3
  <2>4. CASE x = h /\ t # h
    BY <1>1, <1>3, <1>4, <1>5, <1>7, <2>4 DEF t
  <2>5. CASE x # p /\ x # t /\ x # h
    BY <1>1, <1>3, <1>4, <1>5, <1>7, <2>5 DEF t
  <2> QED
    BY <2>1, <2>2, <2>3, <2>4, <2>5
<1>9. \A q \in Buf : f[q] # NULL <=> q = p \/ r.fp[q] # NULL
  <2>1. \A q \in Buf : q \in N
    BY DEF N
  <2> QED
    BY <1>1, <1>3, <1>5, <2>1
<1>10. \A x \in heads : f[x] # NULL /\ b[x] # NULL
  <2>1. \A x \in heads : x \in N /\ x \notin Buf
    BY DEF N, Heads
  <2> QED
    BY <1>1, <1>8, <2>1
<1> QED
  BY <1>5, <1>6, <1>8, <1>9, <1>10 DEF LinksTypeOK, RingSound, Linked, N

(* insert_head(): likewise, on the other side of the head.                 *)
LEMMA InsertHeadSound ==
  ASSUME NEW heads, Heads(heads), NEW r, LinksTypeOK(r, heads), RingSound(r, heads),
         NEW h \in heads, NEW p \in Buf, ~Linked(r, p)
  PROVE  /\ LinksTypeOK(InsertHead(r, h, p), heads)
         /\ RingSound(InsertHead(r, h, p), heads)
         /\ \A q \in Buf : Linked(InsertHead(r, h, p), q) <=> q = p \/ Linked(r, q)
<1> DEFINE N == Buf \cup heads
           t == r.fp[h]
           f == [r.fp EXCEPT ![p] = t, ![h] = p]
           b == [r.bp EXCEPT ![p] = h, ![t] = p]
<1>1. /\ r.fp \in [N -> N \cup {NULL}] /\ r.bp \in [N -> N \cup {NULL}]
      /\ h \in N /\ p \in N /\ h # p /\ NULL \notin N /\ h # NULL
      /\ h \notin Buf
  BY DEF LinksTypeOK, Heads
<1>2. r.fp[p] = NULL /\ r.bp[p] = NULL
  BY <1>1 DEF Linked, RingSound
<1>3. t \in N /\ r.bp[t] = h
  BY <1>1 DEF RingSound
<1>4. t # p
  BY <1>1, <1>2, <1>3
<1>5. /\ f \in [N -> N \cup {NULL}] /\ b \in [N -> N \cup {NULL}]
      /\ b[t] = p /\ b[p] = h /\ f[h] = p /\ f[p] = t
      /\ \A x \in N : x # t /\ x # p => b[x] = r.bp[x]
      /\ \A x \in N : x # h /\ x # p => f[x] = r.fp[x]
  BY <1>1, <1>3, <1>4
<1>6. InsertHead(r, h, p) = [fp |-> f, bp |-> b]
  BY DEF InsertHead
<1>7. \A x \in N : x # p =>
        \/ x \in Buf /\ r.fp[x] = NULL /\ r.bp[x] = NULL
        \/ /\ r.fp[x] \in N /\ r.fp[x] # p /\ r.bp[r.fp[x]] = x
           /\ r.bp[x] \in N /\ r.bp[x] # p /\ r.fp[r.bp[x]] = x
  BY <1>1, <1>2 DEF RingSound
<1> HIDE DEF f, b, t, N
<1>8. ASSUME NEW x \in N
      PROVE  \/ x \in Buf /\ f[x] = NULL /\ b[x] = NULL
             \/ /\ f[x] \in N /\ b[f[x]] = x
                /\ b[x] \in N /\ f[b[x]] = x
  <2>1. CASE x = p
    BY <1>1, <1>3, <1>5, <2>1
  <2>2. CASE x = t /\ t = h
    BY <1>1, <1>3, <1>5, <2>2
  <2>3. CASE x = t /\ t # h
    BY <1>1, <1>3, <1>4, <1>5, <1>7, <2>3
  <2>4. CASE x = h /\ t # h
    BY <1>1, <1>3, <1>4, <1>5, <1>7, <2>4 DEF t
  <2>5. CASE x # p /\ x # t /\ x # h
    BY <1>1, <1>3, <1>4, <1>5, <1>7, <2>5 DEF t
  <2> QED
    BY <2>1, <2>2, <2>3, <2>4, <2>5
<1>9. \A q \in Buf : f[q] # NULL <=> q = p \/ r.fp[q] # NULL
  <2>1. \A q \in Buf : q \in N /\ q # h
    BY <1>1 DEF N
  <2> QED
    BY <1>1, <1>3, <1>5, <2>1
<1>10. \A x \in heads : f[x] # NULL /\ b[x] # NULL
  <2>1. \A x \in heads : x \in N /\ x \notin Buf
    BY DEF N, Heads
  <2> QED
    BY <1>1, <1>8, <2>1
<1> QED
  BY <1>5, <1>6, <1>8, <1>9, <1>10 DEF LinksTypeOK, RingSound, Linked, N

(* remove_buffer(): a buffer of the ring leaves it, and nothing else does. *)
LEMMA RemoveSound ==
  ASSUME NEW heads, Heads(heads), NEW r, LinksTypeOK(r, heads), RingSound(r, heads),
         NEW p \in Buf, Linked(r, p)
  PROVE  /\ LinksTypeOK(Remove(r, p), heads)
         /\ RingSound(Remove(r, p), heads)
         /\ \A q \in Buf : Linked(Remove(r, p), q) <=> q # p /\ Linked(r, q)
<1> DEFINE N == Buf \cup heads
           s == r.fp[p]
           t == r.bp[p]
           f == [r.fp EXCEPT ![t] = s, ![p] = NULL]
           b == [r.bp EXCEPT ![s] = t, ![p] = NULL]
<1>1. /\ r.fp \in [N -> N \cup {NULL}] /\ r.bp \in [N -> N \cup {NULL}]
      /\ p \in N /\ NULL \notin N
  BY DEF LinksTypeOK, Heads
<1>2. s \in N /\ t \in N /\ r.bp[s] = p /\ r.fp[t] = p
  BY <1>1 DEF Linked, RingSound
<1>3. /\ f \in [N -> N \cup {NULL}] /\ b \in [N -> N \cup {NULL}]
      /\ f[p] = NULL /\ b[p] = NULL
      /\ t # p => f[t] = s
      /\ s # p => b[s] = t
      /\ \A x \in N : x # t /\ x # p => f[x] = r.fp[x]
      /\ \A x \in N : x # s /\ x # p => b[x] = r.bp[x]
  BY <1>1, <1>2
<1>4. Remove(r, p) = [fp |-> f, bp |-> b]
  BY DEF Remove
<1>5. \A x \in N :
        \/ x \in Buf /\ r.fp[x] = NULL /\ r.bp[x] = NULL
        \/ /\ r.fp[x] \in N /\ r.bp[r.fp[x]] = x
           /\ r.bp[x] \in N /\ r.fp[r.bp[x]] = x
  BY DEF RingSound
<1>6. s # p <=> t # p
  BY <1>1, <1>2
<1> HIDE DEF f, b, N
<1>7. ASSUME NEW x \in N, x # p
      PROVE  \/ x \in Buf /\ f[x] = NULL /\ b[x] = NULL
             \/ /\ f[x] \in N /\ b[f[x]] = x
                /\ b[x] \in N /\ f[b[x]] = x
  <2>1. \/ x \in Buf /\ r.fp[x] = NULL /\ r.bp[x] = NULL
        \/ /\ r.fp[x] \in N /\ r.bp[r.fp[x]] = x
           /\ r.bp[x] \in N /\ r.fp[r.bp[x]] = x
    BY <1>5
  <2>2. CASE x = s /\ x = t
    BY <1>1, <1>2, <1>3, <1>7, <2>2
  <2>3. CASE x = s /\ x # t
    BY <1>1, <1>2, <1>3, <1>5, <1>6, <1>7, <2>1, <2>3
  <2>4. CASE x = t /\ x # s
    BY <1>1, <1>2, <1>3, <1>5, <1>6, <1>7, <2>1, <2>4
  <2>5. CASE x # t /\ x # s
    <3>1. f[x] = r.fp[x] /\ b[x] = r.bp[x]
      BY <1>3, <1>7, <2>5
    <3>2. (r.fp[x] # p /\ r.bp[x] # p) \/ r.fp[x] = NULL
      BY <1>1, <1>2, <2>1, <2>5
    <3>3. r.fp[x] # s /\ r.bp[x] # t
      BY <1>1, <1>2, <1>7, <2>1
    <3> QED
      BY <1>1, <1>3, <2>1, <3>1, <3>2, <3>3
  <2> QED
    BY <2>2, <2>3, <2>4, <2>5
<1>8. \A q \in Buf : f[q] # NULL <=> q # p /\ r.fp[q] # NULL
  <2>1. \A q \in Buf : q \in N
    BY DEF N
  <2>2. \A q \in Buf : q # p /\ q = t => f[q] = s /\ s # NULL /\ r.fp[q] # NULL
    BY <1>1, <1>2, <1>3
  <2> QED
    BY <1>1, <1>3, <2>1, <2>2
<1>9. \A x \in heads : f[x] # NULL /\ b[x] # NULL
  <2>1. \A x \in heads : x \in N /\ x \notin Buf /\ x # p
    BY DEF N, Heads
  <2> QED
    BY <1>1, <1>7, <2>1
<1> QED
  BY <1>3, <1>4, <1>7, <1>8, <1>9 DEF LinksTypeOK, RingSound, Linked, N

-----------------------------------------------------------------------------
(* The constants, in the form the steps below need them.                   *)
LEMMA HeadsApart ==
  Heads(HashHead) /\ Heads({FreeHead}) /\ FreeHead \notin Buf
<1>1. /\ Buf \cap HashHead = {} /\ FreeHead \notin Buf
      /\ NULL \notin Buf \cup HashHead \cup {FreeHead}
  BY BufAssumption, Zenon DEF BufAssumption
<1> QED
  BY <1>1 DEF Heads

LEMMA HashInRange == \A b \in Blk : Hash(b) \in HashHead
<1>1. NHASH \in Nat \ {0} /\ Blk \subseteq Nat
  BY BufAssumption, Zenon DEF BufAssumption
<1>2. \A b, n \in Nat : n # 0 => b % n \in 0 .. n - 1
  OBVIOUS
<1> QED
  BY <1>1, <1>2 DEF Hash, HashHead

LEMMA ListsTyped ==
  /\ Len(HashList) \in Nat \ {0} /\ Len(FreeList) \in Nat
  /\ \A i \in 1 .. Len(HashList) : HashList[i] \in Blk
  /\ \A i \in 1 .. Len(FreeList) : FreeList[i] \in Blk
  /\ DOMAIN FreeList = 1 .. Len(FreeList)
  /\ \A i, j \in DOMAIN FreeList : FreeList[i] = FreeList[j] => i = j
  /\ NoBlk \notin Blk /\ Settable \subseteq Flag
<1>1. /\ HashList \in Seq(Blk) \ {<<>>} /\ FreeList \in Seq(Blk)
      /\ \A i, j \in DOMAIN FreeList : FreeList[i] = FreeList[j] => i = j
      /\ NoBlk \notin Blk /\ Settable \subseteq Flag
  BY BufAssumption, Zenon DEF BufAssumption
<1> QED
  BY <1>1

-----------------------------------------------------------------------------
(* The conjuncts of BufInv that are about one buffer at a time.            *)
LEMMA AllLinksTold ==
  ASSUME TypeOK, BufInv
  PROVE  /\ LinksTypeOK(hash, HashHead) /\ RingSound(hash, HashHead)
         /\ LinksTypeOK(free, {FreeHead}) /\ RingSound(free, {FreeHead})
         /\ \A q \in Buf : Linked(free, q) <=> Linked(hash, q) /\ "L" \notin stat[q]
         /\ \A q \in Buf : Linked(hash, q) <=> blkno[q] # NoBlk
BY DEF TypeOK, BufInv, FreeIfUnlocked, CardsLinked

(* init_proc() leaves empty rings and nothing else.                        *)
LEMMA FreshSound ==
  /\ LinksTypeOK(Fresh.hash, HashHead) /\ RingSound(Fresh.hash, HashHead)
  /\ LinksTypeOK(Fresh.free, {FreeHead}) /\ RingSound(Fresh.free, {FreeHead})
  /\ \A q \in Buf : ~Linked(Fresh.hash, q) /\ ~Linked(Fresh.free, q)
  /\ Fresh.blkno \in [Buf -> Blk \cup {NoBlk}] /\ Fresh.stat \in [Buf -> SUBSET Flag]
  /\ \A q \in Buf : Fresh.blkno[q] = NoBlk
<1>1. /\ Fresh.hash = Empty(HashHead) /\ Fresh.free = Empty({FreeHead})
      /\ Fresh.blkno = [p \in Buf |-> NoBlk] /\ Fresh.stat = [p \in Buf |-> {}]
  BY DEF Fresh
<1> QED
  BY <1>1, HeadsApart, EmptySound

LEMMA InitSound == Init => TypeOK /\ BufInv
<1> SUFFICES ASSUME Init PROVE TypeOK /\ BufInv
  OBVIOUS
<1>1. /\ hash = Fresh.hash /\ free = Fresh.free
      /\ blkno = Fresh.blkno /\ stat = Fresh.stat /\ ini = 0 /\ want = NoBlk
  BY DEF Init
<1>2. ini \in 0 .. Len(HashList) + Len(FreeList)
  BY <1>1, ListsTyped
<1> QED
  BY <1>1, <1>2, FreshSound
  DEF TypeOK, BufInv, FreeIfUnlocked, CardsLinked, FreedOnce

LEMMA InitProcSound ==
  ASSUME TypeOK, BufInv, InitProc
  PROVE  TypeOK' /\ BufInv'
<1>1. /\ hash' = Fresh.hash /\ free' = Fresh.free
      /\ blkno' = Fresh.blkno /\ stat' = Fresh.stat /\ ini' = 0 /\ want' = want
  BY DEF InitProc
<1>2. ini' \in 0 .. Len(HashList) + Len(FreeList)
  BY <1>1, ListsTyped
<1> QED
  BY <1>1, <1>2, FreshSound
  DEF TypeOK, BufInv, FreeIfUnlocked, CardsLinked, FreedOnce

LEMMA MakeCardSound ==
  ASSUME TypeOK, BufInv, NEW p \in Buf, MakeCard(p)
  PROVE  TypeOK' /\ BufInv'
<1> DEFINE b == HashList[ini + 1]
<1>1. /\ ini \in Nat /\ ini < Len(HashList) /\ ini' = ini + 1
      /\ ini' \in 0 .. Len(HashList) + Len(FreeList)
      /\ b \in Blk
  BY ListsTyped DEF MakeCard, TypeOK
<1>2. /\ ~Linked(hash, p) /\ hash' = InsertBottom(hash, Hash(b), p)
      /\ free' = free /\ want' = want
      /\ blkno' = [blkno EXCEPT ![p] = b]
      /\ stat' = [stat EXCEPT ![p] = {"V", "L"}]
  BY DEF MakeCard
<1>3. /\ LinksTypeOK(hash', HashHead) /\ RingSound(hash', HashHead)
      /\ \A q \in Buf : Linked(hash', q) <=> q = p \/ Linked(hash, q)
  BY <1>1, <1>2, AllLinksTold, HeadsApart, HashInRange, InsertBottomSound
<1>4. blkno' \in [Buf -> Blk \cup {NoBlk}] /\ stat' \in [Buf -> SUBSET Flag]
  BY <1>1, <1>2 DEF TypeOK, Flag
<1>5. \A q \in Buf : /\ q = p => blkno'[q] = b /\ stat'[q] = {"V", "L"}
                     /\ q # p => blkno'[q] = blkno[q] /\ stat'[q] = stat[q]
  BY <1>2 DEF TypeOK
<1>6. CardsLinked'
  BY <1>1, <1>3, <1>5, AllLinksTold, ListsTyped DEF CardsLinked
<1>7. \A q \in Buf : Linked(free', q) <=> Linked(hash', q) /\ "L" \notin stat'[q]
  BY <1>2, <1>3, <1>5, AllLinksTold
<1>8. \A q \in Buf : ~Linked(free', q)
  <2>1. \A i \in DOMAIN FreeList : ~(i <= ini - Len(HashList))
    BY <1>1, ListsTyped
  <2>2. ini < Len(HashList) + Len(FreeList)
    BY <1>1, ListsTyped
  <2> QED
    BY <1>2, <2>1, <2>2 DEF BufInv, FreedOnce
<1> QED
  BY <1>1, <1>2, <1>3, <1>4, <1>6, <1>7, <1>8, AllLinksTold
  DEF TypeOK, BufInv, FreeIfUnlocked, FreedOnce

LEMMA FreeCardSound ==
  ASSUME TypeOK, BufInv, NEW p \in Buf, FreeCard(p)
  PROVE  TypeOK' /\ BufInv'
<1> DEFINE k == ini - Len(HashList) + 1
<1>1. /\ ini \in Nat /\ Len(HashList) <= ini /\ ini < Len(HashList) + Len(FreeList)
      /\ ini' = ini + 1 /\ ini' \in 0 .. Len(HashList) + Len(FreeList)
      /\ k \in DOMAIN FreeList /\ FreeList[k] \in Blk
  BY ListsTyped DEF FreeCard, TypeOK
<1>2. /\ blkno[p] = FreeList[k]
      /\ free' = InsertBottom(free, FreeHead, p)
      /\ hash' = hash /\ blkno' = blkno /\ want' = want
      /\ stat' = [stat EXCEPT ![p] = stat[p] \ {"L"}]
  BY DEF FreeCard, IsFound
<1>3. Linked(hash, p)
  BY <1>1, <1>2, AllLinksTold, ListsTyped
<1>4. ~Linked(free, p)
  <2> SUFFICES ASSUME Linked(free, p) PROVE FALSE
    OBVIOUS
  <2>1. PICK i \in DOMAIN FreeList : i <= ini - Len(HashList) /\ blkno[p] = FreeList[i]
    BY <1>1 DEF BufInv, FreedOnce
  <2>2. i = k
    BY <1>1, <1>2, <2>1, ListsTyped
  <2> QED
    BY <1>1, <2>1, <2>2, ListsTyped
<1>5. /\ LinksTypeOK(free', {FreeHead}) /\ RingSound(free', {FreeHead})
      /\ \A q \in Buf : Linked(free', q) <=> q = p \/ Linked(free, q)
  BY <1>2, <1>4, AllLinksTold, HeadsApart, InsertBottomSound
<1>6. /\ stat' \in [Buf -> SUBSET Flag]
      /\ \A q \in Buf : "L" \notin stat'[q] <=> q = p \/ "L" \notin stat[q]
  BY <1>2 DEF TypeOK
<1>7. \A q \in Buf : Linked(free', q) <=> Linked(hash', q) /\ "L" \notin stat'[q]
  BY <1>2, <1>3, <1>5, <1>6, AllLinksTold
<1>8. FreedOnce'
  <2> SUFFICES ASSUME NEW q \in Buf, Linked(free', q)
               PROVE  \E i \in DOMAIN FreeList :
                        i <= ini' - Len(HashList) /\ blkno'[q] = FreeList[i]
    BY DEF FreedOnce
  <2>1. CASE q = p
    BY <1>1, <1>2, <2>1, ListsTyped
  <2>2. CASE q # p
    <3>1. PICK i \in DOMAIN FreeList : i <= ini - Len(HashList) /\ blkno[q] = FreeList[i]
      BY <1>1, <1>5, <2>2 DEF BufInv, FreedOnce
    <3>2. i <= ini' - Len(HashList)
      BY <1>1, <3>1, ListsTyped
    <3> QED
      BY <1>2, <3>1, <3>2
  <2> QED
    BY <2>1, <2>2
<1> QED
  BY <1>1, <1>2, <1>5, <1>6, <1>7, <1>8, AllLinksTold
  DEF TypeOK, BufInv, FreeIfUnlocked, CardsLinked

-----------------------------------------------------------------------------
(* Commands only change what the free list and the lock bits say together; *)
(* insert_to_initlist() is over.                                           *)
LEMMA CommandSound ==
  ASSUME TypeOK, BufInv, Ready, ini' = ini, want' \in Blk \cup {NoBlk},
         LinksTypeOK(free', {FreeHead}), RingSound(free', {FreeHead}),
         LinksTypeOK(hash', HashHead), RingSound(hash', HashHead),
         stat' \in [Buf -> SUBSET Flag], blkno' \in [Buf -> Blk \cup {NoBlk}],
         \A q \in Buf : Linked(free', q) <=> Linked(hash', q) /\ "L" \notin stat'[q],
         \A q \in Buf : Linked(hash', q) <=> blkno'[q] # NoBlk
  PROVE  TypeOK' /\ BufInv'
<1>1. ini' \in 0 .. Len(HashList) + Len(FreeList)
  BY DEF TypeOK
<1>2. FreedOnce'
  BY ListsTyped DEF FreedOnce, Ready
<1> QED
  BY <1>1, <1>2 DEF TypeOK, BufInv, FreeIfUnlocked, CardsLinked

(* A block that hash_search() finds is in a hash queue.                    *)
LEMMA FoundLinked ==
  ASSUME TypeOK, BufInv, NEW b \in Blk, NEW p \in Buf, IsFound(b, p)
  PROVE  Linked(hash, p)
BY AllLinksTold, ListsTyped DEF IsFound

(* What the free list's head points to is in the free list.                *)
LEMMA FirstFreeLinked ==
  ASSUME TypeOK, BufInv, NEW p \in Buf, FirstFree = p
  PROVE  Linked(free, p)
<1>1. free.bp[p] = FreeHead
  BY HeadsApart, AllLinksTold DEF FirstFree, RingSound, LinksTypeOK
<1> QED
  BY <1>1, HeadsApart, AllLinksTold DEF RingSound, Linked, Heads

LEMMA BusySound ==
  ASSUME TypeOK, BufInv, NEW b \in Blk, NEW p \in Buf, GetblkBusy(b, p)
  PROVE  TypeOK' /\ BufInv'
<1>1. /\ Ready /\ ini' = ini /\ want' = NoBlk
      /\ hash' = hash /\ free' = free /\ blkno' = blkno
      /\ stat' = [stat EXCEPT ![p] = stat[p] \cup {"W"}]
  BY DEF GetblkBusy, Asked
<1>2. /\ stat' \in [Buf -> SUBSET Flag]
      /\ \A q \in Buf : "L" \in stat'[q] <=> "L" \in stat[q]
  BY <1>1 DEF TypeOK, Flag
<1>3. blkno' \in [Buf -> Blk \cup {NoBlk}]
  BY <1>1 DEF TypeOK
<1> QED
  BY <1>1, <1>2, <1>3, AllLinksTold, CommandSound

LEMMA HitSound ==
  ASSUME TypeOK, BufInv, NEW b \in Blk, NEW p \in Buf, GetblkHit(b, p)
  PROVE  TypeOK' /\ BufInv'
<1>1. /\ Ready /\ ini' = ini /\ want' = NoBlk /\ Linked(free, p)
      /\ hash' = hash /\ free' = Remove(free, p) /\ blkno' = blkno
      /\ stat' = [stat EXCEPT ![p] = stat[p] \cup {"L"}]
  BY DEF GetblkHit, Asked
<1>2. /\ LinksTypeOK(free', {FreeHead}) /\ RingSound(free', {FreeHead})
      /\ \A q \in Buf : Linked(free', q) <=> q # p /\ Linked(free, q)
  BY <1>1, AllLinksTold, HeadsApart, RemoveSound
<1>3. /\ stat' \in [Buf -> SUBSET Flag]
      /\ \A q \in Buf : "L" \in stat'[q] <=> q = p \/ "L" \in stat[q]
  BY <1>1 DEF TypeOK, Flag
<1>4. blkno' \in [Buf -> Blk \cup {NoBlk}]
  BY <1>1 DEF TypeOK
<1> QED
  BY <1>1, <1>2, <1>3, <1>4, AllLinksTold, CommandSound

LEMMA FlushSound ==
  ASSUME TypeOK, BufInv, NEW b \in Blk, NEW p \in Buf, GetblkFlush(b, p)
  PROVE  TypeOK' /\ BufInv'
<1>1. /\ Ready /\ ini' = ini /\ want' \in Blk \cup {NoBlk} /\ Linked(free, p)
      /\ hash' = hash /\ free' = Remove(free, p) /\ blkno' = blkno
      /\ stat' = [stat EXCEPT ![p] = WriteStarted(p)]
  BY FirstFreeLinked DEF GetblkFlush, Asked
<1>2. /\ LinksTypeOK(free', {FreeHead}) /\ RingSound(free', {FreeHead})
      /\ \A q \in Buf : Linked(free', q) <=> q # p /\ Linked(free, q)
  BY <1>1, AllLinksTold, HeadsApart, RemoveSound
<1>3. /\ stat' \in [Buf -> SUBSET Flag]
      /\ \A q \in Buf : "L" \in stat'[q] <=> q = p \/ "L" \in stat[q]
  BY <1>1 DEF TypeOK, Flag, WriteStarted
<1>4. blkno' \in [Buf -> Blk \cup {NoBlk}]
  BY <1>1 DEF TypeOK
<1> QED
  BY <1>1, <1>2, <1>3, <1>4, AllLinksTold, CommandSound

LEMMA ReplaceSound ==
  ASSUME TypeOK, BufInv, NEW b \in Blk, NEW p \in Buf, GetblkReplace(b, p)
  PROVE  TypeOK' /\ BufInv'
<1> DEFINE out == Remove(hash, p)
<1>1. /\ Ready /\ ini' = ini /\ want' = NoBlk /\ Linked(free, p)
      /\ hash' = InsertBottom(out, Hash(b), p) /\ free' = Remove(free, p)
      /\ blkno' = [blkno EXCEPT ![p] = b]
      /\ stat' = [stat EXCEPT ![p] = (stat[p] \cup {"L"}) \ {"V", "K"}]
  BY FirstFreeLinked DEF GetblkReplace, Asked
<1>2. /\ LinksTypeOK(free', {FreeHead}) /\ RingSound(free', {FreeHead})
      /\ \A q \in Buf : Linked(free', q) <=> q # p /\ Linked(free, q)
  BY <1>1, AllLinksTold, HeadsApart, RemoveSound
<1>3. /\ LinksTypeOK(out, HashHead) /\ RingSound(out, HashHead)
      /\ \A q \in Buf : Linked(out, q) <=> q # p /\ Linked(hash, q)
  BY <1>1, AllLinksTold, HeadsApart, RemoveSound
<1> HIDE DEF out
<1>4. /\ LinksTypeOK(hash', HashHead) /\ RingSound(hash', HashHead)
      /\ \A q \in Buf : Linked(hash', q) <=> q = p \/ Linked(out, q)
  BY <1>1, <1>3, HeadsApart, HashInRange, InsertBottomSound
<1>5. /\ stat' \in [Buf -> SUBSET Flag]
      /\ \A q \in Buf : "L" \in stat'[q] <=> q = p \/ "L" \in stat[q]
  BY <1>1 DEF TypeOK, Flag
<1>6. /\ blkno' \in [Buf -> Blk \cup {NoBlk}]
      /\ \A q \in Buf : blkno'[q] = IF q = p THEN b ELSE blkno[q]
  BY <1>1 DEF TypeOK
<1>7. \A q \in Buf : Linked(hash', q) <=> blkno'[q] # NoBlk
  BY <1>3, <1>4, <1>6, AllLinksTold, ListsTyped
<1>8. \A q \in Buf : Linked(free', q) <=> Linked(hash', q) /\ "L" \notin stat'[q]
  BY <1>2, <1>3, <1>4, <1>5, AllLinksTold
<1> QED
  BY <1>1, <1>2, <1>4, <1>5, <1>6, <1>7, <1>8, CommandSound

LEMMA BrelseSound ==
  ASSUME TypeOK, BufInv, NEW b \in Blk, NEW p \in Buf, Brelse(b, p)
  PROVE  TypeOK' /\ BufInv'
<1>1. /\ Ready /\ ini' = ini /\ want' = want /\ IsFound(b, p) /\ "L" \in stat[p]
      /\ hash' = hash /\ blkno' = blkno
      /\ free' = InsertBottom(free, FreeHead, p) \/ free' = InsertHead(free, FreeHead, p)
      /\ \/ stat' = [stat EXCEPT ![p] = stat[p] \ Released]
         \/ stat' = [stat EXCEPT ![p] = stat[p] \ (Released \cup {"O", "D"})]
  BY DEF Brelse, Idle
<1>2. Linked(hash, p) /\ ~Linked(free, p)
  BY <1>1, FoundLinked, AllLinksTold
<1>3. /\ LinksTypeOK(free', {FreeHead}) /\ RingSound(free', {FreeHead})
      /\ \A q \in Buf : Linked(free', q) <=> q = p \/ Linked(free, q)
  <2>1. CASE free' = InsertBottom(free, FreeHead, p)
    BY <1>2, <2>1, AllLinksTold, HeadsApart, InsertBottomSound
  <2>2. CASE free' = InsertHead(free, FreeHead, p)
    BY <1>2, <2>2, AllLinksTold, HeadsApart, InsertHeadSound
  <2> QED
    BY <1>1, <2>1, <2>2
<1>4. /\ stat' \in [Buf -> SUBSET Flag]
      /\ \A q \in Buf : "L" \notin stat'[q] <=> q = p \/ "L" \notin stat[q]
  BY <1>1 DEF TypeOK, Flag, Released
<1>5. blkno' \in [Buf -> Blk \cup {NoBlk}] /\ want' \in Blk \cup {NoBlk}
  BY <1>1 DEF TypeOK
<1>6. \A q \in Buf : Linked(free', q) <=> Linked(hash', q) /\ "L" \notin stat'[q]
  BY <1>1, <1>2, <1>3, <1>4, AllLinksTold
<1> QED
  BY <1>1, <1>3, <1>4, <1>5, <1>6, AllLinksTold, CommandSound

LEMMA SetResetSound ==
  ASSUME "L" \notin Settable, TypeOK, BufInv,
         NEW b \in Blk, NEW p \in Buf, SetReset(b, p)
  PROVE  TypeOK' /\ BufInv'
<1>1. /\ Ready /\ ini' = ini /\ want' = want
      /\ hash' = hash /\ blkno' = blkno /\ free' = free
  BY DEF SetReset, Idle
<1>2. PICK f \in Settable : \/ stat' = [stat EXCEPT ![p] = stat[p] \cup {f}]
                           \/ stat' = [stat EXCEPT ![p] = stat[p] \ {f}]
  BY DEF SetReset
<1>3. f # "L" /\ f \in Flag
  BY <1>2, ListsTyped
<1>4. /\ stat' \in [Buf -> SUBSET Flag]
      /\ \A q \in Buf : "L" \in stat'[q] <=> "L" \in stat[q]
  BY <1>2, <1>3 DEF TypeOK
<1>5. blkno' \in [Buf -> Blk \cup {NoBlk}] /\ want' \in Blk \cup {NoBlk}
  BY <1>1 DEF TypeOK
<1> QED
  BY <1>1, <1>4, <1>5, AllLinksTold, CommandSound

LEMMA NextSound ==
  ASSUME "L" \notin Settable, TypeOK, BufInv, [Next]_vars
  PROVE  TypeOK' /\ BufInv'
<1>1. ASSUME NEW p \in Buf, MakeCard(p) \/ FreeCard(p) PROVE TypeOK' /\ BufInv'
  BY <1>1, MakeCardSound, FreeCardSound
<1>2. CASE InitProc
  BY <1>2, InitProcSound
<1>3. ASSUME NEW b \in Blk, GetblkNone(b) PROVE TypeOK' /\ BufInv'
  <2>1. /\ Ready /\ ini' = ini /\ want' = NoBlk /\ hash' = hash /\ free' = free
        /\ blkno' = blkno /\ stat' = stat
    BY <1>3 DEF GetblkNone, Asked
  <2>2. blkno' \in [Buf -> Blk \cup {NoBlk}] /\ stat' \in [Buf -> SUBSET Flag]
    BY <2>1 DEF TypeOK
  <2> QED
    BY <2>1, <2>2, AllLinksTold, CommandSound
<1>4. ASSUME NEW b \in Blk, NEW p \in Buf, Getblk(b, p) PROVE TypeOK' /\ BufInv'
  BY <1>4, BusySound, HitSound, FlushSound, ReplaceSound DEF Getblk
<1>5. ASSUME NEW b \in Blk, NEW p \in Buf, Command(b, p) PROVE TypeOK' /\ BufInv'
  BY <1>5, BrelseSound, SetResetSound DEF Command
<1>6. CASE UNCHANGED vars
  BY <1>6 DEF vars, TypeOK, BufInv, FreeIfUnlocked, CardsLinked, FreedOnce
<1> QED
  BY <1>1, <1>2, <1>3, <1>4, <1>5, <1>6 DEF Next

LEMMA BufInvariant ==
  ASSUME "L" \notin Settable
  PROVE  Spec => [](TypeOK /\ BufInv)
<1>1. TypeOK /\ BufInv /\ [Next]_vars => TypeOK' /\ BufInv'
  BY NextSound
<1> QED
  BY <1>1, InitSound, PTL DEF Spec

(* Only the scenario of getblk() that replaces a buffer gives it a block,  *)
(* once insert_to_initlist() is over.                                      *)
LEMMA BlockChange ==
  ASSUME TypeOK, BufInv, [Next]_vars, Ready, ini' = ini,
         NEW p \in Buf, blkno'[p] # blkno[p]
  PROVE  "L" \notin stat[p]
<1>1. PICK b \in Blk, q \in Buf : GetblkReplace(b, q)
  <2>1. ini = Len(HashList) + Len(FreeList) /\ ini \in Nat
    BY ListsTyped DEF Ready
  <2>2. ~InitProc
    BY <2>1, ListsTyped DEF InitProc
  <2>3. ASSUME NEW q \in Buf, MakeCard(q) \/ FreeCard(q) PROVE FALSE
    BY <2>1, <2>3 DEF MakeCard, FreeCard
  <2>4. ASSUME UNCHANGED blkno PROVE FALSE
    BY <2>4
  <2>5. ASSUME NEW b \in Blk, GetblkNone(b) PROVE FALSE
    BY <2>5 DEF GetblkNone
  <2>6. ASSUME NEW b \in Blk, NEW q \in Buf, Getblk(b, q) \/ Command(b, q)
        PROVE  GetblkReplace(b, q)
    BY <2>6 DEF Getblk, GetblkBusy, GetblkHit, GetblkFlush, Command, Brelse, SetReset
  <2> QED
    BY <2>2, <2>3, <2>4, <2>5, <2>6 DEF Next, vars
<1>2. q = p
  BY <1>1 DEF GetblkReplace, TypeOK
<1>3. Linked(free, p)
  BY <1>1, <1>2, FirstFreeLinked DEF GetblkReplace
<1> QED
  BY <1>3, AllLinksTold

-----------------------------------------------------------------------------
(* Where set and reset leave L alone, the free list holds exactly the      *)
(* unlocked buffers and every ring closes, so remove_buffer() never        *)
(* follows a NULL pointer and brelse() never inserts a buffer twice.       *)
THEOREM FreeListSound ==
  ASSUME "L" \notin Settable
  PROVE  Spec => []FreeIfUnlocked
<1>1. BufInv => FreeIfUnlocked
  BY DEF BufInv
<1> QED
  BY <1>1, BufInvariant, PTL

(* Then, too, no pointer ever leads anywhere but to a buffer, to a head or *)
(* to NULL, and a head's pointers never to NULL.                           *)
THEOREM CacheTypeCorrect ==
  ASSUME "L" \notin Settable
  PROVE  Spec => []TypeOK
BY BufInvariant, PTL

(* No buffer is given to another block while it is held.                   *)
THEOREM HeldKeptForBlock ==
  ASSUME "L" \notin Settable
  PROVE  Spec => HeldKeepsBlock
<1>1. TypeOK /\ BufInv /\ [Next]_vars
      => [Ready /\ ini' = ini =>
            \A p \in Buf : "L" \in stat[p] => blkno'[p] = blkno[p]]_vars
  BY BlockChange
<1> QED
  BY <1>1, BufInvariant, PTL DEF Spec, HeldKeepsBlock

(* A mark for a sleeper stands only on a buffer that is held: brelse()     *)
(* leaves none, and no command takes the lock away with the mark on.       *)
(* insert_to_initlist() unlocks its buffers before anybody can ask for one. *)
NoneAsked == ~Ready => \A p \in Buf : "W" \notin stat[p]

LEMMA NextWaited ==
  ASSUME {"L", "W"} \cap Settable = {}, TypeOK, BufInv, WaitedIsHeld, NoneAsked, [Next]_vars
  PROVE  WaitedIsHeld' /\ NoneAsked'
<1> USE DEF WaitedIsHeld, NoneAsked, Ready, TypeOK
<1>1. ASSUME NEW p \in Buf, MakeCard(p) PROVE WaitedIsHeld' /\ NoneAsked'
  <2>1. ~Ready
    BY <1>1, ListsTyped DEF MakeCard
  <2> QED
    BY <1>1, <2>1 DEF MakeCard
<1>2. ASSUME NEW p \in Buf, FreeCard(p) PROVE WaitedIsHeld' /\ NoneAsked'
  <2>1. ~Ready
    BY <1>2, ListsTyped DEF FreeCard
  <2> QED
    BY <1>2, <2>1 DEF FreeCard
<1>3. CASE InitProc
  BY <1>3 DEF InitProc, Fresh
<1>4. ASSUME NEW b \in Blk, NEW p \in Buf, Getblk(b, p) PROVE WaitedIsHeld' /\ NoneAsked'
  <2>1. CASE GetblkBusy(b, p)
    BY <2>1 DEF GetblkBusy, Asked
  <2>2. CASE GetblkHit(b, p)
    BY <2>2 DEF GetblkHit, Asked
  <2>3. CASE GetblkFlush(b, p)
    BY <2>3 DEF GetblkFlush, WriteStarted, Asked
  <2>4. CASE GetblkReplace(b, p)
    BY <2>4 DEF GetblkReplace, Asked
  <2> QED
    BY <1>4, <2>1, <2>2, <2>3, <2>4 DEF Getblk
<1>5. ASSUME NEW b \in Blk, NEW p \in Buf, Brelse(b, p) PROVE WaitedIsHeld' /\ NoneAsked'
  BY <1>5 DEF Brelse, Released, Idle
<1>6. ASSUME NEW b \in Blk, NEW p \in Buf, SetReset(b, p) PROVE WaitedIsHeld' /\ NoneAsked'
  BY <1>6 DEF SetReset, Idle
<1>7. ASSUME UNCHANGED <<stat, ini>> PROVE WaitedIsHeld' /\ NoneAsked'
  BY <1>7
<1> QED
  BY <1>1, <1>2, <1>3, <1>4, <1>5, <1>6, <1>7 DEF Next, Command, GetblkNone, vars

THEOREM SleepersAreWoken ==
  ASSUME {"L", "W"} \cap Settable = {}
  PROVE  Spec => []WaitedIsHeld
<1>1. "L" \notin Settable
  OBVIOUS
<1>2. Init => WaitedIsHeld /\ NoneAsked
  BY DEF Init, Fresh, WaitedIsHeld, NoneAsked
<1>3. TypeOK /\ BufInv /\ WaitedIsHeld /\ NoneAsked /\ [Next]_vars
      => WaitedIsHeld' /\ NoneAsked'
  BY NextWaited
<1> QED
  BY <1>1, <1>2, <1>3, BufInvariant, PTL DEF Spec

-----------------------------------------------------------------------------
(* The tour of a ring: s[1] to s[n] are the buffers that fp leads to, one  *)
(* after the other, from the head h back to it.                            *)
Tour(r, h, s, n) ==
  /\ n \in Nat /\ s \in [0 .. n + 1 -> Buf \cup {h}]
  /\ s[0] = h /\ s[n + 1] = h
  /\ \A i \in 1 .. n : s[i] \in Buf
  /\ \A i, j \in 1 .. n : s[i] = s[j] => i = j
  /\ \A i \in 0 .. n : r.fp[s[i]] = s[i + 1]

Meets(s, n, p) == \E i \in 1 .. n : s[i] = p

(* An empty ring.                                                          *)
LEMMA EmptyTour ==
  ASSUME NEW heads, Heads(heads), NEW h \in heads
  PROVE  Tour(Empty(heads), h, [i \in 0 .. 1 |-> h], 0)
<1>1. Empty(heads).fp[h] = h
  BY DEF Empty
<1> QED
  BY <1>1 DEF Tour

(* A tour is kept where the fp pointers along it are.                      *)
LEMMA TourKept ==
  ASSUME NEW r, NEW q, NEW h, NEW s, NEW n, Tour(r, h, s, n),
         \A i \in 0 .. n : q.fp[s[i]] = r.fp[s[i]]
  PROVE  Tour(q, h, s, n)
BY DEF Tour

(* The last buffer of the tour is the one before the head.                 *)
LEMMA TourEnds ==
  ASSUME NEW heads, Heads(heads), NEW r, LinksTypeOK(r, heads), RingSound(r, heads),
         NEW h \in heads, NEW s, NEW n, Tour(r, h, s, n)
  PROVE  /\ s[n] = r.bp[h] /\ s[n] \in Buf \cup {h} /\ r.fp[s[n]] = h
         /\ \A i \in 0 .. n : s[i] \in Buf \cup {h} /\ r.fp[s[i]] # NULL
         /\ \A i \in 1 .. n : Linked(r, s[i])
<1>1. n \in Nat /\ s[n + 1] = h /\ r.fp[s[n]] = s[n + 1] /\ s[n] \in Buf \cup {h}
  BY DEF Tour
<1>2. r.bp[r.fp[s[n]]] = s[n]
  BY <1>1 DEF RingSound, Heads
<1>3. \A i \in 0 .. n : i + 1 \in 0 .. n + 1 /\ i \in 0 .. n + 1
  BY <1>1
<1>4. \A i \in 0 .. n : s[i] \in Buf \cup {h} /\ r.fp[s[i]] # NULL
  BY <1>3 DEF Tour, Heads
<1>5. \A i \in 1 .. n : i \in 0 .. n /\ s[i] \in Buf
  BY <1>1 DEF Tour
<1> QED
  BY <1>1, <1>2, <1>4, <1>5 DEF Linked

(* insert_bottom() makes the tour one longer, at its end.                  *)
LEMMA TourAppended ==
  ASSUME NEW heads, Heads(heads), NEW r, LinksTypeOK(r, heads), RingSound(r, heads),
         NEW h \in heads, NEW s, NEW n, Tour(r, h, s, n),
         NEW p \in Buf, ~Linked(r, p)
  PROVE  \E t : /\ Tour(InsertBottom(r, h, p), h, t, n + 1)
                /\ \A i \in 1 .. n : t[i] = s[i]
                /\ t[n + 1] = p
<1> DEFINE t == [i \in 0 .. n + 2 |-> IF i <= n THEN s[i]
                                      ELSE IF i = n + 1 THEN p ELSE h]
           N == Buf \cup heads
           f == InsertBottom(r, h, p).fp
<1>1. n \in Nat /\ n + 1 \in Nat /\ (n + 1) + 1 = n + 2 /\ h \in N /\ p \in N
  BY DEF Tour
<1>2. s[n] = r.bp[h] /\ s[n] \in N
  BY <1>1, TourEnds
<1>3. f = [r.fp EXCEPT ![p] = h, ![s[n]] = p]
  BY <1>2 DEF InsertBottom
<1>4. r.fp \in [N -> N \cup {NULL}]
  BY DEF LinksTypeOK
<1>5. p # h /\ \A i \in 0 .. n : s[i] # p /\ s[i] \in N
  BY TourEnds DEF Linked, Heads
<1>6. f[p] = h /\ f[s[n]] = p /\ \A x \in N : x # p /\ x # s[n] => f[x] = r.fp[x]
  BY <1>1, <1>2, <1>3, <1>4, <1>5
<1>7. \A i \in 0 .. n - 1 : s[i] # s[n]
  <2> SUFFICES ASSUME NEW i \in 0 .. n - 1, s[i] = s[n] PROVE FALSE
    OBVIOUS
  <2>1. i + 1 \in 1 .. n /\ i \in 0 .. n /\ n \in 0 .. n
    BY <1>1
  <2>2. s[i + 1] = h /\ s[i + 1] \in Buf
    BY <2>1 DEF Tour
  <2> QED
    BY <2>2 DEF Heads
<1> HIDE DEF f, N
<1>8. /\ t \in [0 .. (n + 1) + 1 -> Buf \cup {h}]
      /\ t[0] = h /\ t[(n + 1) + 1] = h /\ t[n + 1] = p
      /\ \A i \in 0 .. n : t[i] = s[i]
  <2>1. \A i \in 0 .. n : s[i] \in Buf \cup {h}
    BY <1>1 DEF Tour
  <2>2. s[0] = h
    BY DEF Tour
  <2> QED
    BY <1>1, <2>1, <2>2
<1> HIDE DEF t
<1>9. \A i \in 1 .. n + 1 : i \in 1 .. n \/ i = n + 1
  BY <1>1
<1>10. /\ \A i \in 1 .. n + 1 : t[i] \in Buf
       /\ \A i, j \in 1 .. n + 1 : t[i] = t[j] => i = j
  <2>1. \A i \in 1 .. n : t[i] = s[i] /\ s[i] \in Buf /\ s[i] # p
    BY <1>1, <1>5, <1>8 DEF Tour
  <2>2. \A i, j \in 1 .. n : s[i] = s[j] => i = j
    BY DEF Tour
  <2> QED
    BY <1>8, <1>9, <2>1, <2>2
<1>11. ASSUME NEW i \in 0 .. n + 1 PROVE f[t[i]] = t[i + 1]
  <2>1. CASE i = n + 1
    BY <1>6, <1>8, <2>1
  <2>2. CASE i = n
    BY <1>1, <1>6, <1>8, <2>2
  <2>3. CASE i \in 0 .. n - 1
    <3>1. i \in 0 .. n /\ i + 1 \in 0 .. n
      BY <1>1, <2>3
    <3>2. f[s[i]] = r.fp[s[i]]
      BY <1>5, <1>6, <1>7, <2>3, <3>1
    <3>3. r.fp[s[i]] = s[i + 1]
      BY <3>1 DEF Tour
    <3> QED
      BY <1>8, <3>1, <3>2, <3>3
  <2> QED
    BY <1>1, <2>1, <2>2, <2>3
<1>12. Tour(InsertBottom(r, h, p), h, t, n + 1)
  BY <1>1, <1>8, <1>10, <1>11 DEF Tour, f
<1>13. \A i \in 1 .. n : t[i] = s[i]
  BY <1>1, <1>8
<1> QED
  BY <1>8, <1>12, <1>13

(* insert_head() makes it one longer at its front.                         *)
LEMMA TourPrepended ==
  ASSUME NEW heads, Heads(heads), NEW r, LinksTypeOK(r, heads), RingSound(r, heads),
         NEW h \in heads, NEW s, NEW n, Tour(r, h, s, n),
         NEW p \in Buf, ~Linked(r, p)
  PROVE  \E t : /\ Tour(InsertHead(r, h, p), h, t, n + 1)
                /\ t[1] = p
                /\ \A i \in 1 .. n : t[i + 1] = s[i]
<1> DEFINE t == [i \in 0 .. n + 2 |-> IF i = 0 THEN h
                                      ELSE IF i = 1 THEN p ELSE s[i - 1]]
           N == Buf \cup heads
           f == InsertHead(r, h, p).fp
<1>1. n \in Nat /\ n + 1 \in Nat /\ (n + 1) + 1 = n + 2 /\ h \in N /\ p \in N
  BY DEF Tour
<1>2. s[0] = h /\ s[1] = r.fp[h]
  BY <1>1 DEF Tour
<1>3. f = [r.fp EXCEPT ![p] = s[1], ![h] = p]
  BY <1>2 DEF InsertHead
<1>4. r.fp \in [N -> N \cup {NULL}]
  BY DEF LinksTypeOK
<1>5. p # h /\ \A i \in 0 .. n : s[i] # p /\ s[i] \in N
  BY TourEnds DEF Linked, Heads
<1>6. f[p] = s[1] /\ f[h] = p /\ \A x \in N : x # p /\ x # h => f[x] = r.fp[x]
  BY <1>1, <1>3, <1>4, <1>5
<1>7. \A i \in 1 .. n : s[i] \in Buf /\ s[i] # h
  BY DEF Tour, Heads
<1> HIDE DEF f, N
<1>8. /\ t \in [0 .. (n + 1) + 1 -> Buf \cup {h}]
      /\ t[0] = h /\ t[1] = p
      /\ \A i \in 1 .. n + 2 : i # 1 => t[i] = s[i - 1]
  <2>1. \A i \in 0 .. n + 1 : s[i] \in Buf \cup {h}
    BY <1>1 DEF Tour
  <2>2. \A i \in 0 .. n + 2 : i = 0 \/ i = 1 \/ i - 1 \in 0 .. n + 1
    BY <1>1
  <2> QED
    BY <1>1, <2>1, <2>2
<1> HIDE DEF t
<1>9. t[(n + 1) + 1] = h
  <2>1. n + 2 \in 1 .. n + 2 /\ n + 2 # 1 /\ (n + 2) - 1 = n + 1
    BY <1>1
  <2>2. s[n + 1] = h
    BY DEF Tour
  <2> QED
    BY <1>1, <1>8, <2>1, <2>2
<1>10. ASSUME NEW i \in 1 .. n PROVE t[i + 1] = s[i]
  <2>1. i + 1 \in 1 .. n + 2 /\ i + 1 # 1 /\ (i + 1) - 1 = i
    BY <1>1
  <2> QED
    BY <1>8, <2>1
<1>11. ASSUME NEW i \in 1 .. n + 1 PROVE i = 1 \/ (i - 1 \in 1 .. n /\ t[i] = s[i - 1])
  <2>1. i \in 1 .. n + 2
    BY <1>1
  <2> QED
    BY <1>1, <1>8, <2>1
<1>12. /\ \A i \in 1 .. n + 1 : t[i] \in Buf
       /\ \A i, j \in 1 .. n + 1 : t[i] = t[j] => i = j
  <2>1. \A i \in 1 .. n : s[i] # p
    BY <1>1, <1>5
  <2>2. \A i, j \in 1 .. n : s[i] = s[j] => i = j
    BY DEF Tour
  <2>3. ASSUME NEW i \in 1 .. n + 1, NEW j \in 1 .. n + 1, t[i] = t[j] PROVE i = j
    <3>1. CASE i = 1 \/ j = 1
      BY <1>8, <1>11, <2>1, <2>3, <3>1
    <3>2. CASE i # 1 /\ j # 1
      <4>1. /\ i - 1 \in 1 .. n /\ j - 1 \in 1 .. n
            /\ s[i - 1] = s[j - 1]
        BY <1>11, <2>3, <3>2
      <4> DEFINE a == i - 1
                 b == j - 1
      <4>2. a = b
        BY <2>2, <4>1
      <4> QED
        BY <1>1, <4>2
    <3> QED
      BY <3>1, <3>2
  <2> QED
    BY <1>7, <1>8, <1>11, <2>3
<1>13. ASSUME NEW i \in 0 .. n + 1 PROVE f[t[i]] = t[i + 1]
  <2>1. CASE i = 0
    BY <1>6, <1>8, <2>1
  <2>2. CASE i = 1
    <3>1. 2 \in 1 .. n + 2 /\ 2 # 1 /\ 2 - 1 = 1
      BY <1>1
    <3>2. t[2] = s[1]
      BY <1>8, <3>1
    <3> QED
      BY <1>6, <1>8, <2>2, <3>2
  <2>3. CASE i \in 2 .. n + 1
    <3>1. i - 1 \in 1 .. n /\ (i - 1) + 1 = i /\ i \in 1 .. n + 2 /\ i + 1 \in 1 .. n + 2
          /\ (i + 1) - 1 = i /\ i + 1 # 1 /\ i # 1 /\ i - 1 \in 0 .. n
      BY <1>1, <2>3
    <3>2. t[i] = s[i - 1] /\ t[i + 1] = s[i]
      BY <1>8, <3>1
    <3> DEFINE k == i - 1
    <3>3. k \in 1 .. n /\ k \in 0 .. n /\ k + 1 = i
      BY <3>1
    <3> HIDE DEF k
    <3>4. r.fp[s[k]] = s[k + 1]
      BY <3>3 DEF Tour
    <3>5. f[s[k]] = r.fp[s[k]]
      BY <1>5, <1>6, <1>7, <3>3
    <3> QED
      BY <3>2, <3>3, <3>4, <3>5 DEF k
  <2> QED
    BY <1>1, <2>1, <2>2, <2>3
<1>14. Tour(InsertHead(r, h, p), h, t, n + 1)
  BY <1>1, <1>8, <1>9, <1>12, <1>13 DEF Tour, f
<1> QED
  BY <1>8, <1>10, <1>14

(* remove_buffer() takes the k-th buffer out of the tour.                  *)
LEMMA TourShortened ==
  ASSUME NEW heads, Heads(heads), NEW r, LinksTypeOK(r, heads), RingSound(r, heads),
         NEW h \in heads, NEW s, NEW n, Tour(r, h, s, n), NEW k \in 1 .. n
  PROVE  \E t : /\ Tour(Remove(r, s[k]), h, t, n - 1)
                /\ \A i \in 1 .. n - 1 : t[i] = IF i < k THEN s[i] ELSE s[i + 1]
<1> DEFINE t == [i \in 0 .. n |-> IF i < k THEN s[i] ELSE s[i + 1]]
           N == Buf \cup heads
           p == s[k]
           f == Remove(r, p).fp
<1>1. /\ n \in Nat /\ k \in Nat /\ n - 1 \in Nat /\ (n - 1) + 1 = n
      /\ k - 1 \in 0 .. n /\ (k - 1) + 1 = k /\ k \in 0 .. n /\ h \in N /\ p \in Buf
  BY DEF Tour
<1>2. \A i \in 0 .. n : s[i] \in N /\ r.fp[s[i]] = s[i + 1]
  BY TourEnds DEF Tour
<1>3. r.fp[s[k - 1]] = p /\ r.fp[p] = s[k + 1] /\ s[k - 1] \in N
  <2> DEFINE j == k - 1
  <2>1. j \in 0 .. n /\ j + 1 = k
    BY <1>1
  <2> HIDE DEF j
  <2>2. r.fp[s[j]] = p /\ s[j] \in N
    BY <1>2, <2>1
  <2> QED
    BY <1>1, <1>2, <2>2 DEF j
<1>4. r.bp[p] = s[k - 1]
  <2>1. r.bp[r.fp[s[k - 1]]] = s[k - 1]
    BY <1>1, <1>3 DEF RingSound, Heads
  <2> QED
    BY <1>3, <2>1
<1>5. f = [r.fp EXCEPT ![s[k - 1]] = s[k + 1], ![p] = NULL]
  BY <1>3, <1>4 DEF Remove
<1>6. r.fp \in [N -> N \cup {NULL}]
  BY DEF LinksTypeOK
<1>7. \A i \in 0 .. n : i # k => s[i] # p
  <2>1. \A i \in 1 .. n : s[i] = s[k] => i = k
    BY DEF Tour
  <2>2. s[0] # p
    BY <1>1 DEF Tour, Heads
  <2> QED
    BY <1>1, <2>1, <2>2
<1>8. \A i \in 0 .. n : i # k - 1 => s[i] # s[k - 1]
  <2> SUFFICES ASSUME NEW i \in 0 .. n, i # k - 1, s[i] = s[k - 1] PROVE FALSE
    OBVIOUS
  <2>1. s[i + 1] = p /\ i + 1 # k
    BY <1>1, <1>2, <1>3
  <2>2. i + 1 \in 0 .. n \/ i + 1 = n + 1
    BY <1>1
  <2>3. s[n + 1] # p
    BY <1>1 DEF Tour, Heads
  <2> QED
    BY <1>7, <2>1, <2>2, <2>3
<1>9. /\ f[s[k - 1]] = s[k + 1]
      /\ \A i \in 0 .. n : i # k /\ i # k - 1 => f[s[i]] = s[i + 1]
  <2>1. p \in N /\ s[k - 1] # p
    BY <1>1, <1>7
  <2>2. f[s[k - 1]] = s[k + 1] /\ \A x \in N : x # p /\ x # s[k - 1] => f[x] = r.fp[x]
    BY <1>3, <1>5, <1>6, <2>1
  <2> QED
    BY <1>2, <1>7, <1>8, <2>2
<1> HIDE DEF f, N, p
<1>10. /\ \A i \in 0 .. n : i < k => t[i] = s[i]
       /\ \A i \in 0 .. n : ~(i < k) => t[i] = s[i + 1]
       /\ DOMAIN t = 0 .. n
  OBVIOUS
<1>11. t = [i \in 0 .. n |-> t[i]]
  OBVIOUS
<1> HIDE DEF t
<1>12. \A i \in 0 .. n : t[i] \in Buf \cup {h}
  <2>1. \A i \in 0 .. n : i + 1 \in 0 .. n + 1 /\ i \in 0 .. n + 1
    BY <1>1
  <2> QED
    BY <1>10, <2>1 DEF Tour
<1>13. t[0] = h /\ t[n] = h
  BY <1>1, <1>10 DEF Tour
<1>14. /\ \A i \in 1 .. n - 1 : t[i] \in Buf
       /\ \A i, j \in 1 .. n - 1 : t[i] = t[j] => i = j
  <2>1. \A i \in 1 .. n - 1 : i \in 0 .. n /\ i \in 1 .. n /\ i + 1 \in 1 .. n
    BY <1>1
  <2>2. \A i \in 1 .. n : s[i] \in Buf
    BY DEF Tour
  <2>3. ASSUME NEW i \in 1 .. n - 1, NEW j \in 1 .. n - 1, t[i] = t[j] PROVE i = j
    <3>1. PICK a \in 1 .. n : t[i] = s[a] /\ a = IF i < k THEN i ELSE i + 1
      BY <1>10, <2>1
    <3>2. PICK b \in 1 .. n : t[j] = s[b] /\ b = IF j < k THEN j ELSE j + 1
      BY <1>10, <2>1
    <3>3. a = b
      BY <2>3, <3>1, <3>2 DEF Tour
    <3> QED
      BY <1>1, <3>1, <3>2, <3>3
  <2> QED
    BY <1>10, <2>1, <2>2, <2>3
<1>15. ASSUME NEW i \in 0 .. n - 1 PROVE f[t[i]] = t[i + 1]
  <2>1. i \in 0 .. n /\ i + 1 \in 0 .. n
    BY <1>1
  <2>2. CASE i + 1 < k
    <3>1. i < k /\ i # k /\ i # k - 1
      BY <1>1, <2>2
    <3> QED
      BY <1>9, <1>10, <2>1, <2>2, <3>1
  <2>3. CASE i + 1 = k
    <3>1. i < k /\ i = k - 1 /\ ~(i + 1 < k)
      BY <1>1, <2>3
    <3>2. t[i] = s[k - 1]
      BY <1>10, <2>1, <3>1
    <3>3. t[i + 1] = s[(i + 1) + 1]
      BY <1>10, <2>1, <3>1
    <3> QED
      BY <1>9, <2>3, <3>2, <3>3
  <2>4. CASE ~(i < k)
    <3>1. ~(i + 1 < k) /\ i + 1 # k /\ i + 1 # k - 1
      BY <1>1, <2>4
    <3> DEFINE j == i + 1
    <3>2. t[i] = s[j] /\ j \in 0 .. n /\ j # k /\ j # k - 1
      BY <1>10, <2>1, <2>4, <3>1
    <3>3. t[j] = s[j + 1]
      BY <1>10, <2>1, <3>1
    <3> HIDE DEF j
    <3>4. f[s[j]] = s[j + 1]
      BY <1>9, <3>2
    <3> QED
      BY <3>2, <3>3, <3>4 DEF j
  <2> QED
    BY <1>1, <2>2, <2>3, <2>4
<1>16. Tour(Remove(r, p), h, t, n - 1)
  <2>1. t \in [0 .. (n - 1) + 1 -> Buf \cup {h}]
    BY <1>1, <1>11, <1>12
  <2> QED
    BY <1>1, <1>13, <1>14, <1>15, <2>1 DEF Tour, f
<1>17. \A i \in 1 .. n - 1 : t[i] = IF i < k THEN s[i] ELSE s[i + 1]
  <2>1. \A i \in 1 .. n - 1 : i \in 0 .. n
    BY <1>1
  <2> QED
    BY <1>10, <2>1
<1> QED
  BY <1>16, <1>17 DEF p

(* What the primitives do in one ring leaves the tours of the others.      *)
LEMMA OtherAppended ==
  ASSUME NEW heads, Heads(heads), NEW r, LinksTypeOK(r, heads), RingSound(r, heads),
         NEW h \in heads, NEW s, NEW n, Tour(r, h, s, n),
         NEW p \in Buf, ~Linked(r, p), NEW g \in heads, g # h
  PROVE  Tour(InsertBottom(r, g, p), h, s, n)
<1> DEFINE N == Buf \cup heads
           f == InsertBottom(r, g, p).fp
<1>1. /\ r.fp \in [N -> N \cup {NULL}] /\ r.fp[r.bp[g]] = g
      /\ r.bp[g] \in N
  BY DEF LinksTypeOK, RingSound, Heads
<1>2. \A i \in 0 .. n : s[i] \in N /\ s[i] # p
  BY TourEnds DEF Linked, Heads
<1>3. ASSUME NEW i \in 0 .. n PROVE s[i] # r.bp[g]
  <2> SUFFICES ASSUME s[i] = r.bp[g] PROVE FALSE
    OBVIOUS
  <2>1. s[i + 1] = g
    BY <1>1 DEF Tour
  <2>2. i + 1 \in 0 .. n + 1
    BY DEF Tour
  <2> QED
    BY <2>1, <2>2 DEF Tour, Heads
<1>4. f = [r.fp EXCEPT ![p] = g, ![r.bp[g]] = p]
  BY DEF InsertBottom
<1>5. \A i \in 0 .. n : f[s[i]] = r.fp[s[i]]
  BY <1>1, <1>2, <1>3, <1>4
<1> QED
  BY <1>5, TourKept

LEMMA OtherShortened ==
  ASSUME NEW heads, Heads(heads), NEW r, LinksTypeOK(r, heads), RingSound(r, heads),
         NEW h \in heads, NEW s, NEW n, Tour(r, h, s, n),
         NEW p \in Buf, Linked(r, p), ~Meets(s, n, p)
  PROVE  Tour(Remove(r, p), h, s, n)
<1> DEFINE N == Buf \cup heads
           f == Remove(r, p).fp
<1>1. /\ r.fp \in [N -> N \cup {NULL}] /\ r.fp[r.bp[p]] = p
      /\ r.bp[p] \in N
  BY DEF LinksTypeOK, RingSound, Heads, Linked
<1>2. \A i \in 0 .. n + 1 : s[i] # p
  <2>1. s[0] # p /\ s[n + 1] # p /\ n \in Nat
    BY DEF Tour, Heads
  <2>2. \A i \in 0 .. n + 1 : i = 0 \/ i = n + 1 \/ i \in 1 .. n
    BY <2>1
  <2> QED
    BY <2>1, <2>2 DEF Meets
<1>3. \A i \in 0 .. n : s[i] \in N /\ i \in 0 .. n + 1 /\ i + 1 \in 0 .. n + 1
  BY TourEnds DEF Tour
<1>4. ASSUME NEW i \in 0 .. n PROVE s[i] # r.bp[p]
  <2> SUFFICES ASSUME s[i] = r.bp[p] PROVE FALSE
    OBVIOUS
  <2>1. s[i + 1] = p
    BY <1>1 DEF Tour
  <2> QED
    BY <1>2, <1>3, <2>1
<1>5. f = [r.fp EXCEPT ![r.bp[p]] = r.fp[p], ![p] = NULL]
  BY DEF Remove
<1>6. \A i \in 0 .. n : f[s[i]] = r.fp[s[i]]
  BY <1>1, <1>2, <1>3, <1>4, <1>5
<1> QED
  BY <1>6, TourKept

(* A tour meets no more buffers than there are.                            *)
LEMMA TourFits ==
  ASSUME NEW r, NEW h, NEW s, NEW n, Tour(r, h, s, n)
  PROVE  n \in Nat /\ Cardinality(Buf) \in Nat /\ n <= Cardinality(Buf)
<1>1. IsFiniteSet(Buf)
  BY BufAssumption, Zenon DEF BufAssumption
<1> DEFINE u == [i \in 1 .. n |-> s[i]]
<1>2. n \in Nat /\ u \in [1 .. n -> Buf] /\ \A i, j \in 1 .. n : u[i] = u[j] => i = j
  BY DEF Tour
<1>3. IsFiniteSet(1 .. n) /\ Cardinality(1 .. n) = n
  BY <1>2, FS_Interval
<1> HIDE DEF u
<1>4. Cardinality(Buf) \in Nat
  BY <1>1, FS_CardinalityType
<1>5. ~(Cardinality(Buf) < n)
  <2> SUFFICES ASSUME Cardinality(Buf) < Cardinality(1 .. n) PROVE FALSE
    BY <1>3
  <2>1. \E i, j \in 1 .. n : i # j /\ u[i] = u[j]
    BY <1>1, <1>2, <1>3, FS_PigeonHole
  <2> QED
    BY <1>2, <2>1
<1> QED
  BY <1>2, <1>4, <1>5

(* The walk of hash_search() and print_hash() is the tour, and then stays  *)
(* at the head.                                                            *)
WalkOf(r, h) ==
  CHOOSE w : w = [n \in Nat |->
    IF n = 0 THEN h
    ELSE LET x == w[n - 1]
         IN  IF n > 1 /\ x \notin Buf THEN x ELSE r.fp[x]]

LEMMA WalkIsWalkOf == ASSUME NEW r, NEW h PROVE Walk(r, h) = WalkOf(r, h)
BY DEF Walk, WalkOf

LEMMA WalkIsTour ==
  ASSUME NEW r, NEW h, h \notin Buf, NEW s, NEW n, Tour(r, h, s, n)
  PROVE  /\ \A i \in 0 .. n + 1 : Walk(r, h)[i] = s[i]
         /\ \A i \in Nat : i > n => Walk(r, h)[i] = h
<1> DEFINE G(w) == [i \in Nat |->
                      IF i = 0 THEN h
                      ELSE LET x == w[i - 1]
                           IN  IF i > 1 /\ x \notin Buf THEN x ELSE r.fp[x]]
           g == [i \in Nat |-> IF i <= n THEN s[i] ELSE h]
<1>1. n \in Nat /\ s[0] = h /\ s[n + 1] = h
  BY DEF Tour
<1>2. g = G(g)
  <2>1. ASSUME NEW i \in Nat PROVE g[i] = G(g)[i]
    <3>1. CASE i = 0
      BY <1>1, <3>1
    <3>2. CASE i # 0 /\ i <= n + 1
      <4> DEFINE j == i - 1
      <4>1. j \in Nat /\ j \in 0 .. n /\ j + 1 = i
        BY <1>1, <3>2
      <4>2. g[j] = s[j] /\ g[i] = s[i]
        BY <1>1, <3>2, <4>1
      <4>3. i > 1 => s[j] \in Buf
        BY <4>1 DEF Tour
      <4>4. r.fp[s[j]] = s[j + 1]
        BY <4>1 DEF Tour
      <4>5. G(g)[i] = IF i > 1 /\ g[j] \notin Buf THEN g[j] ELSE r.fp[g[j]]
        BY <3>2
      <4> HIDE DEF j, g, G
      <4> QED
        BY <4>1, <4>2, <4>3, <4>4, <4>5
    <3>3. CASE i > n + 1
      <4> DEFINE j == i - 1
      <4>1. j \in Nat /\ j > n /\ i > 1
        BY <1>1, <3>3
      <4>2. g[j] = h /\ g[i] = h
        BY <1>1, <3>3, <4>1
      <4>3. G(g)[i] = IF i > 1 /\ g[j] \notin Buf THEN g[j] ELSE r.fp[g[j]]
        BY <3>3, <4>1
      <4> HIDE DEF j, g, G
      <4> QED
        BY <4>1, <4>2, <4>3
    <3> QED
      BY <1>1, <3>1, <3>2, <3>3
  <2> QED
    BY <2>1
<1> DEFINE w == CHOOSE f : f = G(f)
<1>3. w = G(w)
  <2> HIDE DEF G
  <2> QED
    BY <1>2
<1>4. Walk(r, h) = w
  BY WalkIsWalkOf DEF WalkOf
<1>5. w[0] = h
  <2> HIDE DEF w
  <2> QED
    BY <1>3
<1>6. ASSUME NEW i \in Nat
      PROVE  w[i + 1] = IF i + 1 > 1 /\ w[i] \notin Buf THEN w[i] ELSE r.fp[w[i]]
  <2> HIDE DEF w
  <2>1. i + 1 \in Nat /\ i + 1 # 0 /\ (i + 1) - 1 = i
    OBVIOUS
  <2> DEFINE j == i + 1
  <2>2. G(w)[j] = IF j > 1 /\ w[j - 1] \notin Buf THEN w[j - 1] ELSE r.fp[w[j - 1]]
    BY <2>1
  <2> QED
    BY <1>3, <2>1, <2>2
<1> HIDE DEF w, G, g
<1>7. \A i \in Nat : i \in 0 .. n + 1 => w[i] = s[i]
  <2> DEFINE T == {i \in Nat : i \in 0 .. n + 1 => w[i] = s[i]}
  <2>1. 0 \in T
    BY <1>1, <1>5
  <2>2. ASSUME NEW i \in Nat, i \in T PROVE i + 1 \in T
    <3> SUFFICES ASSUME i + 1 \in 0 .. n + 1 PROVE w[i + 1] = s[i + 1]
      OBVIOUS
    <3>1. i \in 0 .. n + 1 /\ i \in 0 .. n /\ w[i] = s[i]
      BY <1>1, <2>2
    <3>2. r.fp[s[i]] = s[i + 1]
      BY <3>1 DEF Tour
    <3>3. i + 1 > 1 => s[i] \in Buf
      BY <3>1 DEF Tour
    <3> QED
      BY <1>6, <3>1, <3>2, <3>3
  <2> HIDE DEF T
  <2>3. \A i \in Nat : i \in T
    BY <2>1, <2>2, NaturalSteps
  <2> QED
    BY <2>3 DEF T
<1>8. \A i \in Nat : i > n => w[i] = h
  <2> DEFINE T == {i \in Nat : i > n => w[i] = h}
  <2>1. 0 \in T
    BY <1>1
  <2>2. ASSUME NEW i \in Nat, i \in T PROVE i + 1 \in T
    <3>1. CASE i > n
      <4>1. w[i] = h /\ i + 1 > 1
        BY <1>1, <2>2, <3>1
      <4> QED
        BY <1>6, <4>1
    <3>2. CASE i = n
      <4>1. n + 1 \in 0 .. n + 1 /\ n + 1 \in Nat
        BY <1>1
      <4> QED
        BY <1>1, <1>7, <3>2, <4>1
    <3>3. CASE i < n
      BY <1>1, <3>3
    <3> QED
      BY <1>1, <3>1, <3>2, <3>3
  <2> HIDE DEF T
  <2>3. \A i \in Nat : i \in T
    BY <2>1, <2>2, NaturalSteps
  <2> QED
    BY <2>3 DEF T
<1>9. \A i \in 0 .. n + 1 : i \in Nat
  BY <1>1
<1> QED
  BY <1>4, <1>7, <1>8, <1>9

-----------------------------------------------------------------------------
(* A ring whose tour meets exactly the buffers of the set S.               *)
Toured(r, h, S) ==
  \E n \in 0 .. Cardinality(Buf) : \E s \in [0 .. n + 1 -> Buf \cup {h}] :
    Tour(r, h, s, n) /\ \A p \in Buf : Meets(s, n, p) <=> p \in S

LEMMA TouredBy ==
  ASSUME NEW r, NEW h, NEW S, NEW s, NEW n, Tour(r, h, s, n),
         \A p \in Buf : Meets(s, n, p) <=> p \in S
  PROVE  Toured(r, h, S)
<1>1. n \in 0 .. Cardinality(Buf)
  BY TourFits
<1>2. s \in [0 .. n + 1 -> Buf \cup {h}]
  BY DEF Tour
<1> QED
  BY <1>1, <1>2 DEF Toured

LEMMA TouredEmpty ==
  ASSUME NEW heads, Heads(heads), NEW h \in heads
  PROVE  Toured(Empty(heads), h, {})
<1>1. Tour(Empty(heads), h, [i \in 0 .. 1 |-> h], 0)
  BY EmptyTour
<1>2. \A p \in Buf : ~Meets([i \in 0 .. 1 |-> h], 0, p)
  BY DEF Meets
<1> QED
  BY <1>1, <1>2, TouredBy

LEMMA TouredInserted ==
  ASSUME NEW heads, Heads(heads), NEW r, LinksTypeOK(r, heads), RingSound(r, heads),
         NEW h \in heads, NEW S, Toured(r, h, S), NEW p \in Buf, ~Linked(r, p)
  PROVE  /\ Toured(InsertBottom(r, h, p), h, S \cup {p})
         /\ Toured(InsertHead(r, h, p), h, S \cup {p})
         /\ \A g \in heads : g # h => Toured(InsertBottom(r, g, p), h, S)
<1>1. PICK n, s : Tour(r, h, s, n) /\ \A q \in Buf : Meets(s, n, q) <=> q \in S
  BY DEF Toured
<1>2. n \in Nat
  BY <1>1 DEF Tour
<1>3. Toured(InsertBottom(r, h, p), h, S \cup {p})
  <2>1. PICK t : /\ Tour(InsertBottom(r, h, p), h, t, n + 1)
                 /\ \A i \in 1 .. n : t[i] = s[i]
                 /\ t[n + 1] = p
    BY <1>1, TourAppended
  <2>2. \A i \in 1 .. n + 1 : i \in 1 .. n \/ i = n + 1
    BY <1>2
  <2>3. n + 1 \in 1 .. n + 1 /\ \A i \in 1 .. n : i \in 1 .. n + 1
    BY <1>2
  <2>4. \A q \in Buf : Meets(t, n + 1, q) <=> q \in S \cup {p}
    BY <1>1, <2>1, <2>2, <2>3 DEF Meets
  <2> QED
    BY <2>1, <2>4, TouredBy
<1>4. Toured(InsertHead(r, h, p), h, S \cup {p})
  <2>1. PICK t : /\ Tour(InsertHead(r, h, p), h, t, n + 1)
                 /\ t[1] = p
                 /\ \A i \in 1 .. n : t[i + 1] = s[i]
    BY <1>1, TourPrepended
  <2>2. \A i \in 1 .. n + 1 : i = 1 \/ \E j \in 1 .. n : i = j + 1
    <3> SUFFICES ASSUME NEW i \in 1 .. n + 1, i # 1 PROVE \E j \in 1 .. n : i = j + 1
      OBVIOUS
    <3>1. i - 1 \in 1 .. n /\ i = (i - 1) + 1
      BY <1>2
    <3> QED
      BY <3>1
  <2>3. 1 \in 1 .. n + 1 /\ \A i \in 1 .. n : i + 1 \in 1 .. n + 1
    BY <1>2
  <2>4. \A q \in Buf : Meets(t, n + 1, q) <=> q \in S \cup {p}
    <3>1. ASSUME NEW q \in Buf, Meets(t, n + 1, q) PROVE q \in S \cup {p}
      <4>1. PICK i \in 1 .. n + 1 : t[i] = q
        BY <3>1 DEF Meets
      <4>2. CASE i = 1
        BY <2>1, <4>1, <4>2
      <4>3. CASE i # 1
        <5>1. PICK j \in 1 .. n : i = j + 1
          BY <2>2, <4>3
        <5>2. s[j] = q
          BY <2>1, <4>1, <5>1
        <5> QED
          BY <1>1, <5>2 DEF Meets
      <4> QED
        BY <4>2, <4>3
    <3>2. ASSUME NEW q \in Buf, q \in S \cup {p} PROVE Meets(t, n + 1, q)
      <4>1. CASE q = p
        BY <2>1, <2>3, <4>1 DEF Meets
      <4>2. CASE q \in S
        <5>1. PICK j \in 1 .. n : s[j] = q
          BY <1>1, <4>2 DEF Meets
        <5>2. t[j + 1] = q /\ j + 1 \in 1 .. n + 1
          BY <2>1, <2>3, <5>1
        <5> QED
          BY <5>2 DEF Meets
      <4> QED
        BY <3>2, <4>1, <4>2
    <3> QED
      BY <3>1, <3>2
  <2> QED
    BY <2>1, <2>4, TouredBy
<1>5. ASSUME NEW g \in heads, g # h PROVE Toured(InsertBottom(r, g, p), h, S)
  BY <1>1, <1>5, OtherAppended, TouredBy
<1> QED
  BY <1>3, <1>4, <1>5

LEMMA TouredRemoved ==
  ASSUME NEW heads, Heads(heads), NEW r, LinksTypeOK(r, heads), RingSound(r, heads),
         NEW h \in heads, NEW S, Toured(r, h, S), NEW p \in Buf, Linked(r, p)
  PROVE  Toured(Remove(r, p), h, S \ {p})
<1>1. PICK n, s : Tour(r, h, s, n) /\ \A q \in Buf : Meets(s, n, q) <=> q \in S
  BY DEF Toured
<1>2. n \in Nat
  BY <1>1 DEF Tour
<1>3. CASE p \notin S
  <2>1. Tour(Remove(r, p), h, s, n)
    BY <1>1, <1>3, OtherShortened
  <2>2. \A q \in Buf : Meets(s, n, q) <=> q \in S \ {p}
    BY <1>1, <1>3
  <2> QED
    BY <2>1, <2>2, TouredBy
<1>4. CASE p \in S
  <2>1. PICK k \in 1 .. n : s[k] = p
    BY <1>1, <1>4 DEF Meets
  <2>2. PICK t : /\ Tour(Remove(r, p), h, t, n - 1)
                 /\ \A i \in 1 .. n - 1 : t[i] = IF i < k THEN s[i] ELSE s[i + 1]
    BY <1>1, <2>1, TourShortened
  <2>3. \A i, j \in 1 .. n : s[i] = s[j] => i = j
    BY <1>1 DEF Tour
  <2>4. ASSUME NEW q \in Buf, Meets(t, n - 1, q) PROVE q \in S \ {p}
    <3>1. PICK i \in 1 .. n - 1 : t[i] = q
      BY <2>4 DEF Meets
    <3>2. PICK j \in 1 .. n : q = s[j] /\ j = IF i < k THEN i ELSE i + 1
      <4>1. i \in 1 .. n /\ i + 1 \in 1 .. n
        BY <1>2
      <4> QED
        BY <2>2, <3>1, <4>1
    <3>3. j # k
      BY <1>2, <3>2
    <3>4. q # p
      BY <2>1, <2>3, <3>2, <3>3
    <3> QED
      BY <1>1, <3>2, <3>4 DEF Meets
  <2>5. ASSUME NEW q \in Buf, q \in S \ {p} PROVE Meets(t, n - 1, q)
    <3>1. PICK j \in 1 .. n : s[j] = q
      BY <1>1, <2>5 DEF Meets
    <3>2. j # k
      BY <2>1, <2>5, <3>1
    <3>3. CASE j < k
      <4>1. j \in 1 .. n - 1
        BY <1>2, <3>3
      <4> QED
        BY <2>2, <3>1, <3>3, <4>1 DEF Meets
    <3>4. CASE j > k
      <4> DEFINE i == j - 1
      <4>1. i \in 1 .. n - 1 /\ ~(i < k) /\ i + 1 = j
        BY <1>2, <3>4
      <4> HIDE DEF i
      <4>2. t[i] = q
        BY <2>2, <3>1, <4>1
      <4> QED
        BY <4>1, <4>2 DEF Meets
    <3> QED
      BY <3>2, <3>3, <3>4
  <2>6. \A q \in Buf : Meets(t, n - 1, q) <=> q \in S \ {p}
    BY <2>4, <2>5
  <2> QED
    BY <2>2, <2>6, TouredBy
<1> QED
  BY <1>3, <1>4

(* OnWalk and IsFound along a tour.                                        *)
LEMMA TouredWalk ==
  ASSUME NEW r, NEW h, h \notin Buf, NEW S \in SUBSET Buf, Toured(r, h, S)
  PROVE  /\ OnWalk(r, h) = S
         /\ Walk(r, h)[Cardinality(Buf) + 1] = h
<1>1. PICK n, s : Tour(r, h, s, n) /\ \A q \in Buf : Meets(s, n, q) <=> q \in S
  BY DEF Toured
<1> DEFINE C == Cardinality(Buf)
           w == Walk(r, h)
<1>2. n \in Nat /\ C \in Nat /\ n <= C
  BY <1>1, TourFits
<1>3. /\ \A i \in 0 .. n + 1 : w[i] = s[i]
      /\ \A i \in Nat : i > n => w[i] = h
  BY <1>1, WalkIsTour
<1> HIDE DEF w, C
<1>4. w[C + 1] = h
  BY <1>2, <1>3
<1>5. ASSUME NEW p \in S PROVE \E i \in 1 .. C : w[i] = p
  <2>1. PICK i \in 1 .. n : s[i] = p
    BY <1>1 DEF Meets
  <2>2. i \in 1 .. C /\ i \in 0 .. n + 1
    BY <1>2
  <2> QED
    BY <1>3, <2>1, <2>2
<1>6. ASSUME NEW i \in 1 .. C, w[i] \in Buf PROVE w[i] \in S
  <2>1. i \in 1 .. n
    BY <1>2, <1>3, <1>6
  <2>2. w[i] = s[i]
    BY <1>2, <1>3, <2>1
  <2> QED
    BY <1>1, <1>6, <2>1, <2>2 DEF Meets
<1>7. OnWalk(r, h) = S
  BY <1>5, <1>6 DEF OnWalk, w, C
<1> QED
  BY <1>4, <1>7 DEF w, C

-----------------------------------------------------------------------------
(* What makes QueuesComplete and OneBufferPerBlock inductive.              *)
HashQueues ==
  \A h \in HashHead :
    Toured(hash, h, {p \in Buf : Linked(hash, p) /\ Hash(blkno[p]) = h})

FreeRing == Toured(free, FreeHead, {p \in Buf : Linked(free, p)})

(* insert_to_initlist() makes one buffer of each entry of hash_list.       *)
MadeOnce ==
  ini < Len(HashList) =>
    \A p \in Buf : Linked(hash, p) =>
      \E i \in 1 .. Len(HashList) : i <= ini /\ blkno[p] = HashList[i]

QueueInv == HashQueues /\ FreeRing /\ OneBufferPerBlock /\ MadeOnce

(* hash_search() finds every block that some buffer of the queues has.     *)
LEMMA SearchFinds ==
  ASSUME TypeOK, HashQueues, NEW b \in Blk, NotFound(b), NEW p \in Buf, Linked(hash, p)
  PROVE  blkno[p] # b
<1> SUFFICES ASSUME blkno[p] = b PROVE FALSE
  OBVIOUS
<1> DEFINE h == Hash(b)
           w == Walk(hash, h)
<1>1. h \in HashHead /\ h \notin Buf
  BY HashInRange, HeadsApart DEF Heads
<1>2. PICK n, s : /\ Tour(hash, h, s, n)
                  /\ \A q \in Buf : Meets(s, n, q) <=>
                       q \in {x \in Buf : Linked(hash, x) /\ Hash(blkno[x]) = h}
  BY <1>1 DEF HashQueues, Toured
<1>3. n \in Nat /\ Cardinality(Buf) \in Nat /\ n <= Cardinality(Buf)
  BY <1>2, TourFits
<1>4. \A i \in 1 .. n : w[i] = s[i] /\ s[i] \in Buf
  <2>1. \A i \in 0 .. n + 1 : w[i] = s[i]
    BY <1>1, <1>2, WalkIsTour
  <2> HIDE DEF w
  <2> QED
    BY <1>2, <1>3, <2>1 DEF Tour
<1> HIDE DEF w
<1> DEFINE T == {i \in 1 .. n : blkno[s[i]] = b}
<1>5. T # {}
  <2>1. Meets(s, n, p)
    BY <1>2
  <2> QED
    BY <2>1 DEF Meets
<1>6. PICK i \in T : \A j \in T : i <= j
  <2>1. T \subseteq Nat
    OBVIOUS
  <2> QED
    BY <1>5, <2>1, LeastNatural
<1>7. i \in 1 .. Cardinality(Buf)
  BY <1>3, <1>6
<1>8. \A m \in 1 .. i - 1 : w[m] \in Buf /\ blkno[w[m]] # b
  <2> SUFFICES ASSUME NEW m \in 1 .. i - 1 PROVE w[m] \in Buf /\ blkno[w[m]] # b
    OBVIOUS
  <2>1. m \in 1 .. n /\ ~(i <= m)
    BY <1>3, <1>6
  <2> QED
    BY <1>4, <1>6, <2>1
<1>9. w[i] = s[i] /\ s[i] \in Buf /\ blkno[s[i]] = b
  BY <1>4, <1>6
<1>10. IsFound(b, s[i])
  BY <1>7, <1>8, <1>9 DEF IsFound, w
<1> QED
  BY <1>9, <1>10 DEF NotFound

(* What a primitive does to one hash queue, seen in all of them.           *)
LEMMA QueueJoined ==
  ASSUME TypeOK, BufInv, HashQueues, NEW b \in Blk, NEW p \in Buf, ~Linked(hash, p),
         hash' = InsertBottom(hash, Hash(b), p), blkno' = [blkno EXCEPT ![p] = b]
  PROVE  HashQueues'
<1> DEFINE Q(h) == {q \in Buf : Linked(hash, q) /\ Hash(blkno[q]) = h}
           R(h) == {q \in Buf : Linked(hash', q) /\ Hash(blkno'[q]) = h}
<1>1. \A q \in Buf : Linked(hash', q) <=> q = p \/ Linked(hash, q)
  BY HeadsApart, HashInRange, AllLinksTold, InsertBottomSound
<1>2. \A q \in Buf : blkno'[q] = IF q = p THEN b ELSE blkno[q]
  BY DEF TypeOK
<1>3. ASSUME NEW h \in HashHead PROVE Toured(hash', h, R(h))
  <2>1. Toured(hash, h, Q(h))
    BY DEF HashQueues
  <2>2. CASE h = Hash(b)
    <3>1. R(h) = Q(h) \cup {p}
      BY <1>1, <1>2, <2>2
    <3> HIDE DEF R, Q
    <3> QED
      BY <2>1, <2>2, <3>1, HeadsApart, AllLinksTold, TouredInserted
  <2>3. CASE h # Hash(b)
    <3>1. R(h) = Q(h)
      BY <1>1, <1>2, <2>3
    <3>2. Hash(b) \in HashHead
      BY HashInRange
    <3> HIDE DEF R, Q
    <3> QED
      BY <2>1, <2>3, <3>1, <3>2, HeadsApart, AllLinksTold, TouredInserted
  <2> QED
    BY <2>2, <2>3
<1> QED
  BY <1>3 DEF HashQueues

LEMMA FreeJoined ==
  ASSUME TypeOK, BufInv, FreeRing, NEW p \in Buf, ~Linked(free, p),
         free' = InsertBottom(free, FreeHead, p) \/ free' = InsertHead(free, FreeHead, p)
  PROVE  FreeRing'
<1> DEFINE S == {q \in Buf : Linked(free, q)}
<1>1. \A q \in Buf : Linked(free', q) <=> q = p \/ Linked(free, q)
  BY HeadsApart, AllLinksTold, InsertBottomSound, InsertHeadSound
<1>2. {q \in Buf : Linked(free', q)} = S \cup {p}
  BY <1>1
<1>3. Toured(free, FreeHead, S)
  BY DEF FreeRing
<1> HIDE DEF S
<1>4. Toured(free', FreeHead, S \cup {p})
  BY <1>3, HeadsApart, AllLinksTold, TouredInserted
<1> QED
  BY <1>2, <1>4 DEF FreeRing

LEMMA FreeLeft ==
  ASSUME TypeOK, BufInv, FreeRing, NEW p \in Buf, Linked(free, p),
         free' = Remove(free, p)
  PROVE  FreeRing'
<1> DEFINE S == {q \in Buf : Linked(free, q)}
<1>1. \A q \in Buf : Linked(free', q) <=> q # p /\ Linked(free, q)
  BY HeadsApart, AllLinksTold, RemoveSound
<1>2. {q \in Buf : Linked(free', q)} = S \ {p}
  BY <1>1
<1>3. Toured(free, FreeHead, S)
  BY DEF FreeRing
<1> HIDE DEF S
<1>4. Toured(free', FreeHead, S \ {p})
  BY <1>3, HeadsApart, AllLinksTold, TouredRemoved
<1> QED
  BY <1>2, <1>4 DEF FreeRing

(* Commands that leave the hash queues alone.                              *)
LEMMA QueuesAlone ==
  ASSUME QueueInv, UNCHANGED <<hash, blkno>>, FreeRing',
         ini' = ini \/ ~(ini' < Len(HashList))
  PROVE  QueueInv'
<1>1. HashQueues' /\ OneBufferPerBlock'
  BY DEF QueueInv, HashQueues, OneBufferPerBlock
<1>2. MadeOnce'
  <2>1. CASE ini' = ini
    BY <2>1 DEF QueueInv, MadeOnce
  <2>2. CASE ~(ini' < Len(HashList))
    BY <2>2 DEF MadeOnce
  <2> QED
    BY <2>1, <2>2
<1> QED
  BY <1>1, <1>2 DEF QueueInv

LEMMA FreshTours ==
  /\ \A h \in HashHead : Toured(Fresh.hash, h, {})
  /\ Toured(Fresh.free, FreeHead, {})
<1>1. Fresh.hash = Empty(HashHead) /\ Fresh.free = Empty({FreeHead})
  BY DEF Fresh
<1> QED
  BY <1>1, HeadsApart, TouredEmpty

LEMMA InitQueues == ASSUME Init PROVE QueueInv
<1>1. hash = Fresh.hash /\ free = Fresh.free
  BY DEF Init
<1>2. \A q \in Buf : ~Linked(hash, q) /\ ~Linked(free, q)
  BY <1>1, FreshSound
<1>3. /\ \A h \in HashHead : {p \in Buf : Linked(hash, p) /\ Hash(blkno[p]) = h} = {}
      /\ {p \in Buf : Linked(free, p)} = {}
  BY <1>2
<1>4. HashQueues /\ FreeRing
  BY <1>1, <1>3, FreshTours DEF HashQueues, FreeRing
<1> QED
  BY <1>2, <1>4 DEF QueueInv, OneBufferPerBlock, MadeOnce

LEMMA InitProcQueues == ASSUME InitProc PROVE QueueInv'
<1>1. hash' = Fresh.hash /\ free' = Fresh.free
  BY DEF InitProc
<1>2. \A q \in Buf : ~Linked(hash', q) /\ ~Linked(free', q)
  BY <1>1, FreshSound
<1>3. /\ \A h \in HashHead : {p \in Buf : Linked(hash', p) /\ Hash(blkno'[p]) = h} = {}
      /\ {p \in Buf : Linked(free', p)} = {}
  BY <1>2
<1>4. HashQueues' /\ FreeRing'
  BY <1>1, <1>3, FreshTours DEF HashQueues, FreeRing
<1> QED
  BY <1>2, <1>4 DEF QueueInv, OneBufferPerBlock, MadeOnce

LEMMA MakeCardQueues ==
  ASSUME TypeOK, BufInv, QueueInv, NEW p \in Buf, MakeCard(p)
  PROVE  QueueInv'
<1> DEFINE b == HashList[ini + 1]
<1>1. /\ ini \in Nat /\ ini < Len(HashList) /\ ini' = ini + 1
      /\ ini + 1 \in 1 .. Len(HashList) /\ b \in Blk
  BY ListsTyped DEF MakeCard, TypeOK
<1>2. /\ ~Linked(hash, p) /\ hash' = InsertBottom(hash, Hash(b), p)
      /\ free' = free /\ blkno' = [blkno EXCEPT ![p] = b]
  BY DEF MakeCard
<1>3. \A q \in Buf : Linked(hash', q) <=> q = p \/ Linked(hash, q)
  BY <1>1, <1>2, HeadsApart, HashInRange, AllLinksTold, InsertBottomSound
<1>4. \A q \in Buf : blkno'[q] = IF q = p THEN b ELSE blkno[q]
  BY <1>2 DEF TypeOK
<1>5. \A q \in Buf : Linked(hash, q) => blkno[q] # b
  <2> SUFFICES ASSUME NEW q \in Buf, Linked(hash, q), blkno[q] = b PROVE FALSE
    OBVIOUS
  <2>1. PICK i \in 1 .. Len(HashList) : i <= ini /\ blkno[q] = HashList[i]
    BY <1>1 DEF QueueInv, MadeOnce
  <2>2. /\ HashList \in Seq(Blk)
        /\ \A j, k \in DOMAIN HashList : HashList[j] = HashList[k] => j = k
    BY BufAssumption, Zenon DEF BufAssumption
  <2>3. DOMAIN HashList = 1 .. Len(HashList)
    BY <2>2
  <2>4. i = ini + 1
    BY <1>1, <2>1, <2>2, <2>3
  <2> QED
    BY <1>1, <2>1, <2>4
<1>6. HashQueues'
  BY <1>1, <1>2, QueueJoined DEF QueueInv
<1>7. FreeRing'
  BY <1>2 DEF QueueInv, FreeRing
<1>8. \A q \in Buf : Linked(hash, q) <=> blkno[q] # NoBlk
  BY AllLinksTold
<1>9. OneBufferPerBlock'
  <2>1. \A q, x \in Buf : blkno[q] = blkno[x] /\ Linked(hash, q) => q = x
    BY DEF QueueInv, OneBufferPerBlock
  <2> QED
    BY <1>1, <1>2, <1>3, <1>4, <1>5, <1>8, <2>1, ListsTyped DEF OneBufferPerBlock
<1>10. MadeOnce'
  <2> SUFFICES ASSUME NEW q \in Buf, Linked(hash', q)
               PROVE  \E i \in 1 .. Len(HashList) : i <= ini' /\ blkno'[q] = HashList[i]
    BY DEF MadeOnce
  <2>1. CASE q = p
    BY <1>1, <1>4, <2>1
  <2>2. CASE q # p
    <3>1. PICK i \in 1 .. Len(HashList) : i <= ini /\ blkno[q] = HashList[i]
      BY <1>1, <1>3, <2>2 DEF QueueInv, MadeOnce
    <3>2. i <= ini'
      BY <1>1, <3>1
    <3> QED
      BY <1>4, <2>2, <3>1, <3>2
  <2> QED
    BY <2>1, <2>2
<1> QED
  BY <1>6, <1>7, <1>9, <1>10 DEF QueueInv

LEMMA ReplaceQueues ==
  ASSUME TypeOK, BufInv, QueueInv, NEW b \in Blk, NEW p \in Buf, GetblkReplace(b, p)
  PROVE  QueueInv'
<1> DEFINE out == Remove(hash, p)
           Q(h) == {q \in Buf : Linked(hash, q) /\ Hash(blkno[q]) = h}
           R(h) == {q \in Buf : Linked(hash', q) /\ Hash(blkno'[q]) = h}
<1>1. /\ Ready /\ ini' = ini /\ NotFound(b) /\ Linked(free, p)
      /\ hash' = InsertBottom(out, Hash(b), p) /\ free' = Remove(free, p)
      /\ blkno' = [blkno EXCEPT ![p] = b]
  BY FirstFreeLinked DEF GetblkReplace, Asked
<1>2. Linked(hash, p)
  BY <1>1, AllLinksTold
<1>3. /\ LinksTypeOK(out, HashHead) /\ RingSound(out, HashHead)
      /\ \A q \in Buf : Linked(out, q) <=> q # p /\ Linked(hash, q)
  BY <1>2, AllLinksTold, HeadsApart, RemoveSound
<1>4. ASSUME NEW h \in HashHead PROVE Toured(out, h, Q(h) \ {p})
  <2>1. Toured(hash, h, Q(h))
    BY DEF QueueInv, HashQueues
  <2> HIDE DEF Q
  <2> QED
    BY <1>2, <2>1, AllLinksTold, HeadsApart, TouredRemoved
<1> HIDE DEF out
<1>5. \A q \in Buf : Linked(hash', q) <=> q = p \/ Linked(hash, q)
  <2>1. \A q \in Buf : Linked(hash', q) <=> q = p \/ Linked(out, q)
    BY <1>1, <1>3, HeadsApart, HashInRange, InsertBottomSound
  <2> QED
    BY <1>3, <2>1
<1>6. \A q \in Buf : blkno'[q] = IF q = p THEN b ELSE blkno[q]
  BY <1>1 DEF TypeOK
<1>7. ASSUME NEW h \in HashHead PROVE Toured(hash', h, R(h))
  <2>1. CASE h = Hash(b)
    <3> DEFINE S == Q(h) \ {p}
    <3>1. R(h) = S \cup {p}
      BY <1>5, <1>6, <2>1
    <3>2. ~Linked(out, p) /\ Toured(out, h, S)
      BY <1>3, <1>4
    <3> HIDE DEF Q, R, S
    <3>3. Toured(InsertBottom(out, h, p), h, S \cup {p})
      BY <1>3, <3>2, HeadsApart, TouredInserted
    <3> QED
      BY <1>1, <2>1, <3>1, <3>3
  <2>2. CASE h # Hash(b)
    <3>1. R(h) = Q(h) \ {p}
      BY <1>5, <1>6, <2>2
    <3>2. ~Linked(out, p) /\ Hash(b) \in HashHead
      BY <1>3, HashInRange
    <3> HIDE DEF Q, R
    <3> QED
      BY <1>1, <1>3, <1>4, <2>2, <3>1, <3>2, HeadsApart, TouredInserted
  <2> QED
    BY <2>1, <2>2
<1>8. HashQueues'
  BY <1>7 DEF HashQueues
<1>9. FreeRing'
  BY <1>1, FreeLeft DEF QueueInv
<1>10. \A q \in Buf : Linked(hash, q) => blkno[q] # b
  BY <1>1, SearchFinds DEF QueueInv
<1>11. OneBufferPerBlock'
  <2>1. \A q, x \in Buf : blkno[q] = blkno[x] /\ Linked(hash, q) => q = x
    BY DEF QueueInv, OneBufferPerBlock
  <2>2. \A q \in Buf : Linked(hash, q) <=> blkno[q] # NoBlk
    BY AllLinksTold
  <2> QED
    BY <1>5, <1>6, <1>10, <2>1, <2>2, ListsTyped DEF OneBufferPerBlock
<1>12. MadeOnce'
  <2>1. ~(ini' < Len(HashList))
    BY <1>1, ListsTyped DEF Ready
  <2> QED
    BY <2>1 DEF MadeOnce
<1> QED
  BY <1>8, <1>9, <1>11, <1>12 DEF QueueInv

(* insert_to_initlist() frees a buffer that is not free yet.               *)
LEMMA FreedLater ==
  ASSUME TypeOK, BufInv, NEW p \in Buf, FreeCard(p)
  PROVE  ~Linked(free, p)
<1> SUFFICES ASSUME Linked(free, p) PROVE FALSE
  OBVIOUS
<1> DEFINE k == ini - Len(HashList) + 1
<1>1. /\ ini \in Nat /\ Len(HashList) <= ini /\ ini < Len(HashList) + Len(FreeList)
      /\ k \in DOMAIN FreeList /\ blkno[p] = FreeList[k]
  BY ListsTyped DEF FreeCard, IsFound, TypeOK
<1>2. PICK i \in DOMAIN FreeList : i <= ini - Len(HashList) /\ blkno[p] = FreeList[i]
  BY <1>1 DEF BufInv, FreedOnce
<1>3. i = k
  BY <1>1, <1>2, ListsTyped
<1> QED
  BY <1>1, <1>2, <1>3, ListsTyped

LEMMA NextQueues ==
  ASSUME TypeOK, BufInv, QueueInv, [Next]_vars
  PROVE  QueueInv'
<1>1. ASSUME NEW p \in Buf, MakeCard(p) PROVE QueueInv'
  BY <1>1, MakeCardQueues
<1>2. ASSUME NEW p \in Buf, FreeCard(p) PROVE QueueInv'
  <2>1. /\ ini' = ini + 1 /\ Len(HashList) <= ini /\ ini \in Nat
        /\ UNCHANGED <<hash, blkno>> /\ free' = InsertBottom(free, FreeHead, p)
    BY <1>2, ListsTyped DEF FreeCard, TypeOK
  <2>2. ~(ini' < Len(HashList))
    BY <2>1, ListsTyped
  <2>3. ~Linked(free, p)
    BY <1>2, FreedLater
  <2>4. FreeRing'
    BY <2>1, <2>3, FreeJoined DEF QueueInv
  <2> QED
    BY <2>1, <2>2, <2>4, QueuesAlone
<1>3. CASE InitProc
  BY <1>3, InitProcQueues
<1>4. ASSUME NEW b \in Blk, NEW p \in Buf, GetblkBusy(b, p) \/ SetReset(b, p)
      PROVE  QueueInv'
  <2>1. UNCHANGED <<hash, blkno, free>> /\ ini' = ini
    BY <1>4 DEF GetblkBusy, SetReset
  <2>2. FreeRing'
    BY <2>1 DEF QueueInv, FreeRing
  <2> QED
    BY <2>1, <2>2, QueuesAlone
<1>5. ASSUME NEW b \in Blk, GetblkNone(b) PROVE QueueInv'
  <2>1. UNCHANGED <<hash, blkno, free>> /\ ini' = ini
    BY <1>5 DEF GetblkNone
  <2>2. FreeRing'
    BY <2>1 DEF QueueInv, FreeRing
  <2> QED
    BY <2>1, <2>2, QueuesAlone
<1>6. ASSUME NEW b \in Blk, NEW p \in Buf, GetblkHit(b, p) \/ GetblkFlush(b, p)
      PROVE  QueueInv'
  <2>1. UNCHANGED <<hash, blkno>> /\ ini' = ini /\ free' = Remove(free, p)
    BY <1>6 DEF GetblkHit, GetblkFlush
  <2>2. Linked(free, p)
    BY <1>6, FirstFreeLinked DEF GetblkHit, GetblkFlush
  <2>3. FreeRing'
    BY <2>1, <2>2, FreeLeft DEF QueueInv
  <2> QED
    BY <2>1, <2>3, QueuesAlone
<1>7. ASSUME NEW b \in Blk, NEW p \in Buf, GetblkReplace(b, p) PROVE QueueInv'
  BY <1>7, ReplaceQueues
<1>8. ASSUME NEW b \in Blk, NEW p \in Buf, Brelse(b, p) PROVE QueueInv'
  <2>1. /\ UNCHANGED <<hash, blkno>> /\ ini' = ini
        /\ free' = InsertBottom(free, FreeHead, p) \/ free' = InsertHead(free, FreeHead, p)
        /\ "L" \in stat[p]
    BY <1>8 DEF Brelse
  <2>2. ~Linked(free, p)
    BY <2>1, AllLinksTold
  <2>3. FreeRing'
    BY <2>1, <2>2, FreeJoined DEF QueueInv
  <2> QED
    BY <2>1, <2>3, QueuesAlone
<1>9. CASE UNCHANGED vars
  <2>1. UNCHANGED <<hash, blkno, free>> /\ ini' = ini
    BY <1>9 DEF vars
  <2>2. FreeRing'
    BY <2>1 DEF QueueInv, FreeRing
  <2> QED
    BY <2>1, <2>2, QueuesAlone
<1> QED
  BY <1>1, <1>2, <1>3, <1>4, <1>5, <1>6, <1>7, <1>8, <1>9 DEF Next, Getblk, Command

LEMMA QueuesInvariant ==
  ASSUME "L" \notin Settable
  PROVE  Spec => [](TypeOK /\ BufInv /\ QueueInv)
<1>1. Init => QueueInv
  BY InitQueues
<1>2. TypeOK /\ BufInv /\ QueueInv /\ [Next]_vars => QueueInv'
  BY NextQueues
<1> QED
  BY <1>1, <1>2, BufInvariant, PTL DEF Spec

(* Whatever was replaced, released and reset meanwhile, the walk along a   *)
(* hash queue is finite, comes back to its head and meets exactly the      *)
(* buffers whose block number belongs there: hash_search() finds a block   *)
(* whenever some buffer has it (getblk.c, proc.c), if no command touches L.*)
THEOREM QueuesStayComplete ==
  ASSUME "L" \notin Settable
  PROVE  Spec => []QueuesComplete
<1>1. ASSUME QueueInv PROVE QueuesComplete
  <2> SUFFICES ASSUME NEW h \in HashHead
      PROVE  /\ OnWalk(hash, h) = {p \in Buf : Linked(hash, p) /\ Hash(blkno[p]) = h}
             /\ Walk(hash, h)[Cardinality(Buf) + 1] = h
    BY DEF QueuesComplete
  <2> DEFINE S == {p \in Buf : Linked(hash, p) /\ Hash(blkno[p]) = h}
  <2>1. Toured(hash, h, S) /\ h \notin Buf /\ S \in SUBSET Buf
    BY <1>1, HeadsApart DEF QueueInv, HashQueues, Heads
  <2> HIDE DEF S
  <2>2. OnWalk(hash, h) = S /\ Walk(hash, h)[Cardinality(Buf) + 1] = h
    BY <2>1, TouredWalk
  <2> QED
    BY <2>2 DEF S
<1> QED
  BY <1>1, QueuesInvariant, PTL

(* getblk() never gives a block to a second buffer: it searches before it  *)
(* replaces, the search is complete, and hash_list has no block twice.     *)
(* Again for commands that leave L alone.                                  *)
THEOREM OneBufferForBlock ==
  ASSUME "L" \notin Settable
  PROVE  Spec => []OneBufferPerBlock
<1>1. QueueInv => OneBufferPerBlock
  BY DEF QueueInv
<1> QED
  BY <1>1, QueuesInvariant, PTL

-----------------------------------------------------------------------------
(* The free list as the queue of BlockCache: the tour is the queue.        *)
IsQueue(q, s, n) ==
  q \in Seq(Buf) /\ Len(q) = n /\ \A i \in 1 .. n : q[i] = s[i]

LEMMA TourIsQueue ==
  ASSUME NEW r, NEW h, h \notin Buf, NEW s, NEW n, Tour(r, h, s, n)
  PROVE  IsQueue(QueueAlong(r, h), s, n)
<1> DEFINE w == Walk(r, h)
           C == Cardinality(Buf)
           Ends(k) == w[k + 1] = h /\ \A m \in 1 .. k : w[m] \in Buf
           last == CHOOSE k \in 0 .. C : Ends(k)
<1>1. n \in Nat /\ C \in Nat /\ n <= C
  BY TourFits
<1>2. /\ \A i \in 0 .. n + 1 : w[i] = s[i]
      /\ \A i \in Nat : i > n => w[i] = h
  BY WalkIsTour
<1>3. \A i \in 1 .. n : s[i] \in Buf
  BY DEF Tour
<1> HIDE DEF w, C
<1>4. \A i \in 1 .. n : w[i] = s[i] /\ w[i] \in Buf
  BY <1>1, <1>2, <1>3
<1>5. n \in 0 .. C /\ Ends(n)
  BY <1>1, <1>2, <1>4
<1>6. \A k \in 0 .. C : Ends(k) => k = n
  <2> SUFFICES ASSUME NEW k \in 0 .. C, Ends(k), k # n PROVE FALSE
    OBVIOUS
  <2>1. CASE k < n
    <3>1. k + 1 \in 1 .. n
      BY <1>1, <2>1
    <3> QED
      BY <1>4, <3>1
  <2>2. CASE k > n
    <3>1. n + 1 \in 1 .. k /\ n + 1 \in Nat /\ n + 1 > n
      BY <1>1, <2>2
    <3>2. w[n + 1] = h
      BY <1>2, <3>1
    <3> QED
      BY <3>1, <3>2
  <2> QED
    BY <1>1, <2>1, <2>2
<1>7. last = n
  <2> HIDE DEF Ends
  <2> QED
    BY <1>5, <1>6
<1>8. QueueAlong(r, h) = [m \in 1 .. n |-> w[m]]
  <2>1. QueueAlong(r, h) = [m \in 1 .. last |-> w[m]]
    BY DEF QueueAlong, w, C
  <2> QED
    BY <1>7, <2>1
<1> QED
  BY <1>1, <1>4, <1>8 DEF IsQueue

LEMMA QueueAppended ==
  ASSUME TypeOK, BufInv, FreeRing, NEW p \in Buf, ~Linked(free, p),
         free' = InsertBottom(free, FreeHead, p)
  PROVE  FreeQueue' = Append(FreeQueue, p)
<1>1. PICK n, s : Tour(free, FreeHead, s, n)
  BY DEF FreeRing, Toured
<1>2. PICK t : /\ Tour(free', FreeHead, t, n + 1)
               /\ \A i \in 1 .. n : t[i] = s[i]
               /\ t[n + 1] = p
  BY <1>1, HeadsApart, AllLinksTold, TourAppended
<1>3. IsQueue(FreeQueue, s, n) /\ IsQueue(FreeQueue', t, n + 1)
  BY <1>1, <1>2, HeadsApart, TourIsQueue DEF FreeQueue
<1> DEFINE q == FreeQueue
           u == FreeQueue'
<1>4. /\ q \in Seq(Buf) /\ u \in Seq(Buf) /\ n \in Nat /\ Len(q) = n /\ Len(u) = n + 1
      /\ \A i \in 1 .. n : q[i] = s[i]
      /\ \A i \in 1 .. n + 1 : u[i] = t[i]
  BY <1>1, <1>3, TourFits DEF IsQueue
<1> HIDE DEF q, u
<1>5. /\ Append(q, p) \in Seq(Buf) /\ Len(Append(q, p)) = n + 1
      /\ \A i \in 1 .. n : Append(q, p)[i] = q[i]
      /\ Append(q, p)[n + 1] = p
  BY <1>4, AppendProperties
<1>6. \A i \in 1 .. n + 1 : u[i] = Append(q, p)[i]
  <2>1. \A i \in 1 .. n + 1 : i \in 1 .. n \/ i = n + 1
    BY <1>4
  <2> QED
    BY <1>2, <1>4, <1>5, <2>1
<1>7. u = Append(q, p)
  BY <1>4, <1>5, <1>6, SameSequence
<1> QED
  BY <1>7 DEF q, u

LEMMA QueuePrepended ==
  ASSUME TypeOK, BufInv, FreeRing, NEW p \in Buf, ~Linked(free, p),
         free' = InsertHead(free, FreeHead, p)
  PROVE  FreeQueue' = <<p>> \o FreeQueue
<1>1. PICK n, s : Tour(free, FreeHead, s, n)
  BY DEF FreeRing, Toured
<1>2. PICK t : /\ Tour(free', FreeHead, t, n + 1)
               /\ t[1] = p
               /\ \A i \in 1 .. n : t[i + 1] = s[i]
  BY <1>1, HeadsApart, AllLinksTold, TourPrepended
<1>3. IsQueue(FreeQueue, s, n) /\ IsQueue(FreeQueue', t, n + 1)
  BY <1>1, <1>2, HeadsApart, TourIsQueue DEF FreeQueue
<1> DEFINE q == FreeQueue
           u == FreeQueue'
           one == <<p>>
<1>4. /\ q \in Seq(Buf) /\ u \in Seq(Buf) /\ n \in Nat /\ Len(q) = n /\ Len(u) = n + 1
      /\ \A i \in 1 .. n : q[i] = s[i]
      /\ \A i \in 1 .. n + 1 : u[i] = t[i]
  BY <1>1, <1>3, TourFits DEF IsQueue
<1>5. one \in Seq(Buf) /\ Len(one) = 1 /\ one[1] = p
  OBVIOUS
<1> HIDE DEF q, u, one
<1>6. /\ one \o q \in Seq(Buf) /\ Len(one \o q) = Len(one) + Len(q)
      /\ \A i \in 1 .. Len(one) + Len(q) :
           (one \o q)[i] = IF i <= Len(one) THEN one[i] ELSE q[i - Len(one)]
  BY <1>4, <1>5, ConcatProperties
<1>7. Len(one \o q) = n + 1
  BY <1>4, <1>5, <1>6
<1>8. ASSUME NEW i \in 1 .. n + 1 PROVE u[i] = (one \o q)[i]
  <2>1. (one \o q)[i] = IF i <= 1 THEN one[i] ELSE q[i - 1]
    <3>1. i \in 1 .. Len(one) + Len(q)
      BY <1>4, <1>5
    <3> QED
      BY <1>5, <1>6, <3>1
  <2>2. CASE i = 1
    BY <1>2, <1>4, <1>5, <2>1, <2>2
  <2>3. CASE i # 1
    <3> DEFINE j == i - 1
    <3>1. j \in 1 .. n /\ j + 1 = i /\ ~(i <= 1)
      BY <1>4, <2>3
    <3>2. (one \o q)[i] = q[j]
      BY <2>1, <3>1
    <3> HIDE DEF j
    <3>3. t[j + 1] = s[j] /\ q[j] = s[j]
      BY <1>2, <1>4, <3>1
    <3> QED
      BY <1>4, <3>1, <3>2, <3>3
  <2> QED
    BY <2>2, <2>3
<1>9. u = one \o q
  BY <1>4, <1>6, <1>7, <1>8, SameSequence
<1> QED
  BY <1>9 DEF q, u, one

LEMMA QueueShortened ==
  ASSUME TypeOK, BufInv, FreeRing, NEW p \in Buf, Linked(free, p),
         free' = Remove(free, p)
  PROVE  /\ \E i \in DOMAIN FreeQueue :
              FreeQueue[i] = p /\ FreeQueue' = Cache!RemoveAt(FreeQueue, i)
         /\ FirstFree = p =>
              FreeQueue # <<>> /\ Head(FreeQueue) = p /\ FreeQueue' = Tail(FreeQueue)
<1>1. PICK n, s : /\ Tour(free, FreeHead, s, n)
                  /\ \A q \in Buf : Meets(s, n, q) <=> q \in {x \in Buf : Linked(free, x)}
  BY DEF FreeRing, Toured
<1>2. PICK k \in 1 .. n : s[k] = p
  BY <1>1 DEF Meets
<1>3. PICK t : /\ Tour(free', FreeHead, t, n - 1)
               /\ \A i \in 1 .. n - 1 : t[i] = IF i < k THEN s[i] ELSE s[i + 1]
  BY <1>1, <1>2, HeadsApart, AllLinksTold, TourShortened
<1>4. IsQueue(FreeQueue, s, n) /\ IsQueue(FreeQueue', t, n - 1)
  BY <1>1, <1>3, HeadsApart, TourIsQueue DEF FreeQueue
<1> DEFINE q == FreeQueue
           u == FreeQueue'
           rest == SubSeq(q, 1, k - 1) \o SubSeq(q, k + 1, Len(q))
<1>5. /\ q \in Seq(Buf) /\ u \in Seq(Buf) /\ n \in Nat /\ Len(q) = n /\ Len(u) = n - 1
      /\ \A i \in 1 .. n : q[i] = s[i]
      /\ \A i \in 1 .. n - 1 : u[i] = t[i]
  BY <1>1, <1>4, TourFits DEF IsQueue
<1> HIDE DEF q, u
<1>6. k \in 1 .. Len(q) /\ DOMAIN q = 1 .. n
  BY <1>5
<1>7. /\ rest \in Seq(Buf) /\ Len(rest) = Len(q) - 1
      /\ \A i \in 1 .. Len(q) - 1 : rest[i] = IF i < k THEN q[i] ELSE q[i + 1]
  BY <1>5, <1>6, ElementGone
<1> HIDE DEF rest
<1>8. ASSUME NEW i \in 1 .. n - 1 PROVE u[i] = rest[i]
  <2>1. i \in 1 .. n /\ i + 1 \in 1 .. n /\ i \in 1 .. Len(q) - 1
    BY <1>5
  <2>2. q[i] = s[i] /\ q[i + 1] = s[i + 1]
    BY <1>5, <2>1
  <2> QED
    BY <1>3, <1>5, <1>7, <2>1, <2>2
<1>9. u = rest
  <2>1. Len(rest) = n - 1
    BY <1>5, <1>7
  <2> QED
    BY <1>5, <1>7, <1>8, <2>1, SameSequence
<1>10. \E i \in DOMAIN q : q[i] = p /\ u = Cache!RemoveAt(q, i)
  <2>1. u = Cache!RemoveAt(q, k)
    BY <1>9 DEF Cache!RemoveAt, rest
  <2> QED
    BY <1>2, <1>5, <1>6, <2>1
<1>11. ASSUME FirstFree = p PROVE q # <<>> /\ Head(q) = p /\ u = Tail(q)
  <2>1. 0 \in 0 .. n /\ 1 \in 1 .. n
    BY <1>2, <1>5
  <2>2. s[1] = p
    BY <1>1, <1>11, <2>1 DEF Tour, FirstFree
  <2>3. k = 1
    BY <1>1, <1>2, <2>1, <2>2 DEF Tour
  <2>4. q # <<>> /\ Head(q) = p
    BY <1>5, <2>1, <2>2
  <2>5. /\ Tail(q) \in Seq(Buf) /\ Len(Tail(q)) = n - 1
        /\ \A i \in 1 .. n - 1 : Tail(q)[i] = q[i + 1]
    BY <1>5, <2>4, HeadTailProperties
  <2>6. \A i \in 1 .. n - 1 : u[i] = Tail(q)[i]
    BY <1>5, <1>7, <1>9, <2>3, <2>5
  <2> QED
    BY <1>5, <2>4, <2>5, <2>6, SameSequence
<1> QED
  BY <1>10, <1>11 DEF q, u

(* The queue holds the buffers of the free list.                           *)
LEMMA IdleIsFree ==
  ASSUME FreeRing, NEW p \in Buf
  PROVE  Cache!IsIdle(p) <=> Linked(free, p)
<1>1. PICK n, s : /\ Tour(free, FreeHead, s, n)
                  /\ \A q \in Buf : Meets(s, n, q) <=> q \in {x \in Buf : Linked(free, x)}
  BY DEF FreeRing, Toured
<1>2. IsQueue(FreeQueue, s, n)
  BY <1>1, HeadsApart, TourIsQueue DEF FreeQueue
<1>3. DOMAIN FreeQueue = 1 .. n /\ \A i \in 1 .. n : FreeQueue[i] = s[i]
  BY <1>2 DEF IsQueue
<1> QED
  BY <1>1, <1>3 DEF Cache!IsIdle, Meets

(* A buffer is in the cache as long as it has a block.                     *)
LEMMA CachedIsLinked ==
  ASSUME TypeOK, BufInv, NEW b \in Blk, \A q \in Buf : Linked(hash, q) => blkno[q] # b
  PROVE  ~Cache!Cached(b)
BY AllLinksTold, ListsTyped DEF Cache!Cached

LEMMA InsertionLoads ==
  ASSUME TypeOK, BufInv, QueueInv, NEW p \in Buf, MakeCard(p)
  PROVE  Cache!CacheNext
<1> DEFINE b == HashList[ini + 1]
<1>1. /\ ini \in Nat /\ ini < Len(HashList)
      /\ ini + 1 \in 1 .. Len(HashList) /\ b \in Blk
  BY ListsTyped DEF MakeCard, TypeOK
<1>2. /\ ~Linked(hash, p) /\ free' = free /\ blkno' = [blkno EXCEPT ![p] = b]
  BY DEF MakeCard
<1>3. \A q \in Buf : Linked(hash, q) => blkno[q] # b
  <2> SUFFICES ASSUME NEW q \in Buf, Linked(hash, q), blkno[q] = b PROVE FALSE
    OBVIOUS
  <2>1. PICK i \in 1 .. Len(HashList) : i <= ini /\ blkno[q] = HashList[i]
    BY <1>1 DEF QueueInv, MadeOnce
  <2>2. /\ HashList \in Seq(Blk)
        /\ \A j, k \in DOMAIN HashList : HashList[j] = HashList[k] => j = k
    BY BufAssumption, Zenon DEF BufAssumption
  <2>3. DOMAIN HashList = 1 .. Len(HashList)
    BY <2>2
  <2>4. i = ini + 1
    BY <1>1, <2>1, <2>2, <2>3
  <2> QED
    BY <1>1, <2>1, <2>4
<1>4. ~Cache!Cached(b)
  BY <1>1, <1>3, CachedIsLinked
<1>5. blkno[p] = NoBlk
  BY <1>2, AllLinksTold
<1>6. FreeQueue' = FreeQueue
  BY <1>2 DEF FreeQueue, QueueAlong, Walk
<1>7. Cache!Load(p, b)
  BY <1>2, <1>4, <1>5, <1>6 DEF Cache!Load
<1>8. blkno' # blkno
  <2>1. blkno'[p] = b
    BY <1>2 DEF TypeOK
  <2> QED
    BY <1>1, <1>5, <2>1, ListsTyped
<1> QED
  BY <1>1, <1>7, <1>8 DEF Cache!CacheNext

(* A longer or a shorter queue is another one.                             *)
LEMMA QueueDiffers ==
  ASSUME NEW q \in Seq(Buf), NEW p \in Buf
  PROVE  /\ Append(q, p) # q /\ <<p>> \o q # q
         /\ \A i \in DOMAIN q : Cache!RemoveAt(q, i) # q
<1>1. Len(Append(q, p)) = Len(q) + 1
  BY AppendProperties
<1>2. Len(<<p>> \o q) = 1 + Len(q)
  BY <<p>> \in Seq(Buf), Len(<<p>>) = 1, ConcatProperties
<1>3. ASSUME NEW i \in DOMAIN q PROVE Len(Cache!RemoveAt(q, i)) = Len(q) - 1
  <2>1. i \in 1 .. Len(q)
    OBVIOUS
  <2> QED
    BY <2>1, ElementGone DEF Cache!RemoveAt
<1>4. Len(q) \in Nat
  OBVIOUS
<1> QED
  BY <1>1, <1>2, <1>3, <1>4

LEMMA FreeQueueTyped == ASSUME FreeRing PROVE FreeQueue \in Seq(Buf)
<1>1. PICK n, s : Tour(free, FreeHead, s, n)
  BY DEF FreeRing, Toured
<1>2. IsQueue(FreeQueue, s, n)
  BY <1>1, HeadsApart, TourIsQueue DEF FreeQueue
<1> QED
  BY <1>2 DEF IsQueue

LEMMA ReleaseGivesBack ==
  ASSUME TypeOK, BufInv, QueueInv, NEW p \in Buf, Linked(hash, p), ~Linked(free, p),
         \/ (Ready => Good(p)) /\ free' = InsertBottom(free, FreeHead, p)
         \/ Ready /\ ~Good(p) /\ free' = InsertHead(free, FreeHead, p),
         blkno' = blkno
  PROVE  Cache!CacheNext
<1>1. blkno[p] # NoBlk
  BY AllLinksTold
<1>2. ~Cache!IsIdle(p)
  BY IdleIsFree DEF QueueInv
<1>3. \/ (Ready => Good(p)) /\ FreeQueue' = Append(FreeQueue, p)
      \/ ~(Ready => Good(p)) /\ FreeQueue' = <<p>> \o FreeQueue
  BY QueueAppended, QueuePrepended DEF QueueInv
<1>4. FreeQueue' # FreeQueue
  BY <1>3, FreeQueueTyped, QueueDiffers DEF QueueInv
<1>5. Cache!GiveBack(p)
  BY <1>1, <1>2, <1>3 DEF Cache!GiveBack
<1> QED
  BY <1>4, <1>5 DEF Cache!CacheNext

LEMMA RemovalHolds ==
  ASSUME TypeOK, BufInv, QueueInv, NEW p \in Buf, Linked(free, p),
         free' = Remove(free, p), blkno' = blkno
  PROVE  Cache!CacheNext
<1>1. \E i \in DOMAIN FreeQueue :
        FreeQueue[i] = p /\ FreeQueue' = Cache!RemoveAt(FreeQueue, i)
  BY QueueShortened DEF QueueInv
<1>2. FreeQueue' # FreeQueue
  BY <1>1, FreeQueueTyped, QueueDiffers DEF QueueInv
<1>3. Cache!Hold(p)
  BY <1>1 DEF Cache!Hold
<1> QED
  BY <1>2, <1>3 DEF Cache!CacheNext

LEMMA ReplacementReplaces ==
  ASSUME TypeOK, BufInv, QueueInv, NEW b \in Blk, NEW p \in Buf, GetblkReplace(b, p)
  PROVE  Cache!CacheNext
<1>1. /\ NotFound(b) /\ FirstFree = p /\ Linked(free, p)
      /\ free' = Remove(free, p) /\ blkno' = [blkno EXCEPT ![p] = b]
  BY FirstFreeLinked DEF GetblkReplace
<1>2. FreeQueue # <<>> /\ Head(FreeQueue) = p /\ FreeQueue' = Tail(FreeQueue)
  BY <1>1, QueueShortened DEF QueueInv
<1>3. \A q \in Buf : Linked(hash, q) => blkno[q] # b
  BY <1>1, SearchFinds DEF QueueInv
<1>4. ~Cache!Cached(b)
  BY <1>3, CachedIsLinked
<1>5. Cache!Replace(b)
  BY <1>1, <1>2, <1>4 DEF Cache!Replace
<1>6. blkno' # blkno
  <2>1. blkno'[p] = b
    BY <1>1 DEF TypeOK
  <2> QED
    BY <1>4, <2>1 DEF Cache!Cached
<1> QED
  BY <1>5, <1>6 DEF Cache!CacheNext

(* init_proc() forgets everything.                                         *)
LEMMA FreshIsEmpty == QueueAlong(Fresh.free, FreeHead) = <<>>
<1> DEFINE s == [i \in 0 .. 1 |-> FreeHead]
<1>1. Fresh.free = Empty({FreeHead})
  BY DEF Fresh
<1>2. Tour(Fresh.free, FreeHead, s, 0)
  BY <1>1, HeadsApart, EmptyTour
<1> HIDE DEF s
<1>3. IsQueue(QueueAlong(Fresh.free, FreeHead), s, 0)
  BY <1>2, HeadsApart, TourIsQueue
<1> QED
  BY <1>3 DEF IsQueue

LEMMA CacheStep ==
  ASSUME TypeOK, BufInv, QueueInv, [Next]_vars
  PROVE  [Cache!CacheNext]_<<blkno, FreeQueue>>
<1> DEFINE Same == UNCHANGED <<free, blkno>>
<1>1. Same => UNCHANGED <<blkno, FreeQueue>>
  BY DEF FreeQueue, QueueAlong, Walk
<1>2. ASSUME NEW p \in Buf, MakeCard(p) PROVE Cache!CacheNext
  BY <1>2, InsertionLoads
<1>3. ASSUME NEW p \in Buf, FreeCard(p) PROVE Cache!CacheNext
  <2>1. /\ blkno' = blkno /\ free' = InsertBottom(free, FreeHead, p)
        /\ Linked(hash, p)
    <3>1. ini - Len(HashList) + 1 \in DOMAIN FreeList
      BY <1>3, ListsTyped DEF FreeCard, TypeOK
    <3>2. FreeList[ini - Len(HashList) + 1] \in Blk
      BY <3>1, ListsTyped
    <3> QED
      BY <1>3, <3>2, FoundLinked DEF FreeCard
  <2>2. ~Linked(free, p)
    BY <1>3, FreedLater
  <2>3. ~Ready
    BY <1>3, ListsTyped DEF FreeCard, Ready, TypeOK
  <2> QED
    BY <2>1, <2>2, <2>3, ReleaseGivesBack
<1>4. ASSUME InitProc PROVE Cache!CacheNext
  <2>1. free' = Fresh.free /\ blkno' = [p \in Buf |-> NoBlk]
    BY <1>4 DEF InitProc, Fresh
  <2>2. FreeQueue' = QueueAlong(Fresh.free, FreeHead)
    BY <2>1 DEF FreeQueue, QueueAlong, Walk
  <2>3. FreeQueue' = <<>>
    BY <2>2, FreshIsEmpty
  <2> QED
    BY <2>1, <2>3 DEF Cache!CacheNext, Cache!Forget
<1>5. ASSUME NEW b \in Blk, NEW p \in Buf, GetblkBusy(b, p) \/ SetReset(b, p)
      PROVE  Same
  BY <1>5 DEF GetblkBusy, SetReset
<1>6. ASSUME NEW b \in Blk, GetblkNone(b) PROVE Same
  BY <1>6 DEF GetblkNone
<1>7. ASSUME NEW b \in Blk, NEW p \in Buf, GetblkHit(b, p) \/ GetblkFlush(b, p)
      PROVE  Cache!CacheNext
  <2>1. blkno' = blkno /\ free' = Remove(free, p) /\ Linked(free, p)
    BY <1>7, FirstFreeLinked DEF GetblkHit, GetblkFlush
  <2> QED
    BY <2>1, RemovalHolds
<1>8. ASSUME NEW b \in Blk, NEW p \in Buf, GetblkReplace(b, p) PROVE Cache!CacheNext
  BY <1>8, ReplacementReplaces
<1>9. ASSUME NEW b \in Blk, NEW p \in Buf, Brelse(b, p) PROVE Cache!CacheNext
  <2>1. /\ blkno' = blkno /\ IsFound(b, p) /\ "L" \in stat[p]
        /\ \/ (Ready => Good(p)) /\ free' = InsertBottom(free, FreeHead, p)
           \/ Ready /\ ~Good(p) /\ free' = InsertHead(free, FreeHead, p)
    BY <1>9 DEF Brelse, Idle
  <2>2. Linked(hash, p) /\ ~Linked(free, p)
    BY <2>1, FoundLinked, AllLinksTold
  <2> QED
    BY <2>1, <2>2, ReleaseGivesBack
<1>10. UNCHANGED vars => Same
  BY DEF vars
<1> HIDE DEF Same
<1>11. Cache!CacheNext \/ Same
  <2>1. ASSUME NEW b \in Blk, NEW p \in Buf, Getblk(b, p) \/ Command(b, p)
        PROVE  Cache!CacheNext \/ Same
    BY <1>5, <1>7, <1>8, <1>9, <2>1 DEF Getblk, Command
  <2> QED
    BY <1>2, <1>3, <1>4, <1>6, <1>10, <2>1 DEF Next
<1> QED
  BY <1>1, <1>11

(* The rings, the searches and the lock bits of the program implement the  *)
(* cache of BlockCache: a map that never has a block twice, and a queue of *)
(* idle buffers from whose front buffers are taken for new blocks, as long *)
(* as no command locks or unlocks behind the back of getblk().             *)
THEOREM CacheImplemented ==
  ASSUME "L" \notin Settable
  PROVE  Spec => ImplementsCache
<1>1. Init => Cache!CacheInit
  <2> SUFFICES ASSUME Init PROVE Cache!CacheInit
    OBVIOUS
  <2>1. free = Fresh.free /\ blkno = [p \in Buf |-> NoBlk]
    BY DEF Init, Fresh
  <2>2. FreeQueue = <<>>
    BY <2>1, FreshIsEmpty DEF FreeQueue
  <2> QED
    BY <2>1, <2>2 DEF Cache!CacheInit
<1>2. TypeOK /\ BufInv /\ QueueInv /\ [Next]_vars
      => [Cache!CacheNext]_<<blkno, FreeQueue>>
  BY CacheStep
<1>3. Spec => Cache!CacheSpec
  BY <1>1, <1>2, QueuesInvariant, PTL DEF Spec, Cache!CacheSpec
<1> QED
  BY <1>3 DEF ImplementsCache
=============================================================================
