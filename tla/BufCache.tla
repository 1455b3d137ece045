------------------------------ MODULE BufCache ------------------------------
(***************************************************************************)
(* ex-2: the buffer cache of a Unix kernel as a program of commands.  Two  *)
(* families of doubly linked rings run through the same buffers: one hash  *)
(* queue per hash value, and the free list.  The pointers are modelled as  *)
(* they are; one step is one command, except that each pass through the    *)
(* loop of getblk() and each buffer of insert_to_initlist() is a step.     *)
(***************************************************************************)
EXTENDS Integers, Sequences, FiniteSets

CONSTANTS
  Buf,        \* the buffers init allocates
  NHASH,      \* number of hash queues
  Blk,        \* block numbers the user may name
  NoBlk,      \* not a block number
  HashList,   \* hash_list of insert_to_initlist(): the blocks at the start
  FreeList,   \* free_list: those of them that start out free
  Settable,   \* the letters the user gives to set and reset
  FreeHead, NULL

Flag == {"L", "V", "D", "K", "W", "O"}
HashHead == 0 .. NHASH - 1          \* the elements of hash_head[]

BufAssumption ==
  /\ IsFiniteSet(Buf) /\ NHASH \in Nat \ {0} /\ Blk \subseteq Nat /\ NoBlk \notin Blk
  /\ HashList \in Seq(Blk) \ {<<>>} /\ FreeList \in Seq(Blk)
  /\ \A i, j \in DOMAIN HashList : HashList[i] = HashList[j] => i = j
  /\ \A i, j \in DOMAIN FreeList : FreeList[i] = FreeList[j] => i = j
  /\ Settable \subseteq Flag
  /\ Buf \cap HashHead = {} /\ FreeHead \notin Buf
  /\ NULL \notin Buf \cup HashHead \cup {FreeHead}

ASSUME BufAssumption

VARIABLES
  hash, free,   \* rings: fp and bp of every buffer and of their heads
  blkno, stat,  \* fields of a buffer, stat as the set of its bits
  ini,          \* iterations of insert_to_initlist() done
  want          \* the block the loop of getblk() is at, or NoBlk

vars == <<hash, free, blkno, stat, ini, want>>

-----------------------------------------------------------------------------
(* The list primitives.  A head's neighbours are itself in an empty ring.  *)
Empty(heads) ==
  LET link == [x \in Buf \cup heads |-> IF x \in heads THEN x ELSE NULL]
  IN  [fp |-> link, bp |-> link]

InsertHead(r, h, p) ==
  [fp |-> [r.fp EXCEPT ![p] = r.fp[h], ![h] = p],
   bp |-> [r.bp EXCEPT ![p] = h, ![r.fp[h]] = p]]

InsertBottomOneWay(r, h, p) ==
  [fp |-> [r.fp EXCEPT ![p] = h, ![r.bp[h]] = p],
   bp |-> [r.bp EXCEPT ![p] = r.bp[h]]]

InsertBottom(r, h, p) ==
  [fp |-> [r.fp EXCEPT ![p] = h, ![r.bp[h]] = p],
   bp |-> [r.bp EXCEPT ![p] = r.bp[h], ![h] = p]]

RemoveClearsFirst(r, p) ==
  [fp |-> [r.fp EXCEPT ![r.bp[p]] = NULL, ![p] = NULL],
   bp |-> [r.bp EXCEPT ![r.fp[p]] = r.bp[p], ![p] = NULL]]

Remove(r, p) ==
  [fp |-> [r.fp EXCEPT ![r.bp[p]] = r.fp[p], ![p] = NULL],
   bp |-> [r.bp EXCEPT ![r.fp[p]] = r.bp[p], ![p] = NULL]]

Linked(r, p) == r.fp[p] # NULL

Hash(b) == b % NHASH

(* The n-th element of the walk along fp from the head h, until it is back *)
(* at the head or runs into NULL.                                          *)
Walk(r, h) ==
  LET w[n \in Nat] ==
        IF n = 0 THEN h
        ELSE LET x == w[n - 1]
             IN  IF n > 1 /\ x \notin Buf THEN x ELSE r.fp[x]
  IN  w

(* hash_search(): the first buffer of the walk with the block number.      *)
IsFound(b, p) ==
  /\ blkno[p] = b
  /\ LET w == Walk(hash, Hash(b))
     IN  \E n \in 1 .. Cardinality(Buf) :
           w[n] = p /\ \A m \in 1 .. n - 1 : w[m] \in Buf /\ blkno[w[m]] # b

NotFirst(b) == \A p \in Buf : hash.fp[Hash(b)] = p => blkno[p] # b

NotFound(b) == \A p \in Buf : ~IsFound(b, p)

-----------------------------------------------------------------------------
(* init_proc() forgets all buffers and makes new ones: main() calls it     *)
(* first, the command init again.                                          *)
Fresh ==
  [hash  |-> Empty(HashHead), free |-> Empty({FreeHead}),
   blkno |-> [p \in Buf |-> NoBlk], stat |-> [p \in Buf |-> {}]]

Init ==
  /\ hash = Fresh.hash /\ free = Fresh.free
  /\ blkno = Fresh.blkno /\ stat = Fresh.stat
  /\ ini = 0 /\ want = NoBlk

MakeCard(p) ==
  /\ ini < Len(HashList)
  /\ ~Linked(hash, p)
  /\ LET b == HashList[ini + 1]
     IN  /\ blkno' = [blkno EXCEPT ![p] = b]
         /\ stat' = [stat EXCEPT ![p] = {"V", "L"}]
         /\ hash' = InsertBottom(hash, Hash(b), p)
  /\ ini' = ini + 1
  /\ UNCHANGED <<free, want>>

FreeCard(p) ==
  /\ Len(HashList) <= ini /\ ini < Len(HashList) + Len(FreeList)
  /\ IsFound(FreeList[ini - Len(HashList) + 1], p)
  /\ stat' = [stat EXCEPT ![p] = @ \ {"L"}]
  /\ free' = InsertBottom(free, FreeHead, p)
  /\ ini' = ini + 1
  /\ UNCHANGED <<hash, blkno, want>>

Ready == ini = Len(HashList) + Len(FreeList)
Idle == Ready /\ want = NoBlk

InitProc ==
  /\ Idle
  /\ hash' = Fresh.hash /\ free' = Fresh.free
  /\ blkno' = Fresh.blkno /\ stat' = Fresh.stat
  /\ ini' = 0 /\ UNCHANGED want

-----------------------------------------------------------------------------
(* getblk(b): a pass through its loop, the first or a later one.           *)
LastFree == free.bp[FreeHead]
FirstFree == free.fp[FreeHead]

Asked(b) == Ready /\ want \in {NoBlk, b}

(* Scenario 5: the caller has to wait for the buffer.                      *)
GetblkBusy(b, p) ==
  /\ Asked(b) /\ IsFound(b, p) /\ "L" \in stat[p]
  /\ stat' = [stat EXCEPT ![p] = @ \cup {"W"}]
  /\ want' = NoBlk
  /\ UNCHANGED <<hash, free, blkno, ini>>

(* Scenario 1.  Where set and reset changed L, the buffer may be in no     *)
(* free list: following its NULL pointers ends the program.                *)
GetblkHit(b, p) ==
  /\ Asked(b) /\ IsFound(b, p) /\ "L" \notin stat[p]
  /\ Linked(free, p)
  /\ stat' = [stat EXCEPT ![p] = @ \cup {"L"}]
  /\ free' = Remove(free, p)
  /\ want' = NoBlk
  /\ UNCHANGED <<hash, blkno, ini>>

(* Scenario 4: the caller has to wait for any buffer.                      *)
GetblkNone(b) ==
  /\ Asked(b) /\ NotFound(b) /\ FirstFree = FreeHead
  /\ want' = NoBlk
  /\ UNCHANGED <<hash, free, blkno, stat, ini>>

(* Scenario 3: the first free buffer awaits its delayed write; the write   *)
(* is started and the next one tried.  "continue" evaluates the condition  *)
(* of the loop on the first of the remaining free buffers or on the head,  *)
(* whose blkno is 0.                                                       *)
BlknoOf(x) == IF x = FreeHead THEN 0 ELSE blkno[x]

NeedsWrite(p) == "D" \in stat[p]

WriteStarted(p) == (stat[p] \cup {"L", "K", "O"}) \ {"D"}

GetblkFlushInPlace(b, p) ==
  /\ Asked(b) /\ FirstFree = p /\ NotFound(b)
  /\ NeedsWrite(p)
  /\ stat' = [stat EXCEPT ![p] = @ \cup {"K", "O"}]
  /\ want' = IF BlknoOf(free.fp[p]) # b THEN b ELSE NoBlk
  /\ UNCHANGED <<hash, free, blkno, ini>>

GetblkFlush(b, p) ==
  /\ Asked(b) /\ FirstFree = p /\ NotFound(b)
  /\ NeedsWrite(p)
  /\ stat' = [stat EXCEPT ![p] = WriteStarted(p)]
  /\ free' = Remove(free, p)
  /\ want' = IF BlknoOf(free.fp[p]) # b THEN b ELSE NoBlk
  /\ UNCHANGED <<hash, blkno, ini>>

(* Scenario 2: the first free buffer is given to the block.                *)
GetblkReplaceInQueue(b, p) ==
  /\ Asked(b) /\ FirstFree = p /\ NotFound(b)
  /\ ~NeedsWrite(p)
  /\ stat' = [stat EXCEPT ![p] = (@ \cup {"L"}) \ {"V", "K"}]
  /\ blkno' = [blkno EXCEPT ![p] = b]
  /\ free' = Remove(free, p)
  /\ want' = NoBlk
  /\ UNCHANGED <<hash, ini>>

GetblkReplace(b, p) ==
  /\ Asked(b) /\ FirstFree = p /\ NotFound(b)
  /\ ~NeedsWrite(p)
  /\ stat' = [stat EXCEPT ![p] = (@ \cup {"L"}) \ {"V", "K"}]
  /\ blkno' = [blkno EXCEPT ![p] = b]
  /\ free' = Remove(free, p)
  /\ hash' = InsertBottom(Remove(hash, p), Hash(b), p)
  /\ want' = NoBlk
  /\ UNCHANGED ini

Getblk(b, p) == \/ GetblkBusy(b, p) \/ GetblkHit(b, p)
                \/ GetblkFlush(b, p) \/ GetblkReplace(b, p)

-----------------------------------------------------------------------------
(* brelse(b): a buffer with good data goes to the end of the free list;    *)
(* any other to the front, and what was to be written is forgotten.        *)
Good(p) == "V" \in stat[p] /\ "O" \notin stat[p]

ReleasedUnheard == {"L"}
Released == {"L", "W"}

BrelseAny(b, p) ==
  /\ Idle /\ IsFound(b, p)
  /\ stat' = [stat EXCEPT ![p] = @ \ Released]
  /\ free' = InsertBottom(free, FreeHead, p)
  /\ UNCHANGED <<hash, blkno, ini, want>>

Brelse(b, p) ==
  /\ Idle /\ IsFound(b, p) /\ "L" \in stat[p]
  /\ \/ /\ Good(p)
        /\ stat' = [stat EXCEPT ![p] = @ \ Released]
        /\ free' = InsertBottom(free, FreeHead, p)
     \/ /\ ~Good(p)
        /\ stat' = [stat EXCEPT ![p] = @ \ (Released \cup {"O", "D"})]
        /\ free' = InsertHead(free, FreeHead, p)
  /\ UNCHANGED <<hash, blkno, ini, want>>

(* set and reset change the bit, and nothing else.  (Where it already is   *)
(* as asked, nothing happens.)                                             *)
SetReset(b, p) ==
  /\ Idle /\ IsFound(b, p)
  /\ \/ \E f \in Settable \ stat[p] : stat' = [stat EXCEPT ![p] = @ \cup {f}]
     \/ \E f \in Settable \cap stat[p] : stat' = [stat EXCEPT ![p] = @ \ {f}]
  /\ UNCHANGED <<hash, free, blkno, ini, want>>

Command(b, p) == Brelse(b, p) \/ SetReset(b, p)

Next ==
  \/ \E p \in Buf : MakeCard(p) \/ FreeCard(p)
  \/ InitProc
  \/ \E b \in Blk : GetblkNone(b) \/ \E p \in Buf : Getblk(b, p) \/ Command(b, p)

Spec == Init /\ [][Next]_vars

(* getblk() runs on until it returns.                                      *)
GetblkStep == want # NoBlk /\ \E b \in Blk : GetblkNone(b) \/ \E p \in Buf : Getblk(b, p)

FairSpec == Spec /\ WF_vars(GetblkStep)

-----------------------------------------------------------------------------
LinksTypeOK(r, heads) ==
  /\ r = [fp |-> r.fp, bp |-> r.bp]
  /\ \A h \in heads : r.fp[h] # NULL /\ r.bp[h] # NULL
  /\ r.fp \in [Buf \cup heads -> Buf \cup heads \cup {NULL}]
  /\ r.bp \in [Buf \cup heads -> Buf \cup heads \cup {NULL}]

TypeOK ==
  /\ LinksTypeOK(hash, HashHead) /\ LinksTypeOK(free, {FreeHead})
  /\ blkno \in [Buf -> Blk \cup {NoBlk}] /\ stat \in [Buf -> SUBSET Flag]
  /\ ini \in 0 .. Len(HashList) + Len(FreeList)
  /\ want \in Blk \cup {NoBlk}

(* In a ring fp and bp undo each other, and a buffer outside it has        *)
(* neither: no list primitive ever follows NULL.                           *)
RingSound(r, heads) ==
  \A x \in Buf \cup heads :
    \/ x \in Buf /\ r.fp[x] = NULL /\ r.bp[x] = NULL
    \/ /\ r.fp[x] \in Buf \cup heads /\ r.bp[r.fp[x]] = x
       /\ r.bp[x] \in Buf \cup heads /\ r.fp[r.bp[x]] = x

(* The two families of rings tell the same story as the lock bits: a       *)
(* buffer of the cache is in the free list exactly while nobody holds it.  *)
FreeIfUnlocked ==
  /\ RingSound(hash, HashHead) /\ RingSound(free, {FreeHead})
  /\ \A p \in Buf :
       Linked(free, p) <=> Linked(hash, p) /\ "L" \notin stat[p]

(* What makes it inductive: the buffers with a block are those in a hash   *)
(* queue, and insert_to_initlist() frees no buffer twice.                  *)
CardsLinked == \A p \in Buf : Linked(hash, p) <=> blkno[p] # NoBlk

FreedOnce ==
  ini < Len(HashList) + Len(FreeList) =>
    \A p \in Buf : Linked(free, p) =>
      \E i \in DOMAIN FreeList : i <= ini - Len(HashList) /\ blkno[p] = FreeList[i]

BufInv == FreeIfUnlocked /\ CardsLinked /\ FreedOnce

(* A walk along a hash queue ends and meets exactly the buffers whose      *)
(* block belongs there, so hash_search() finds a block if it is cached.    *)
OnWalk(r, h) == {Walk(r, h)[n] : n \in 1 .. Cardinality(Buf)} \cap Buf

QueuesComplete ==
  \A h \in HashHead :
    /\ OnWalk(hash, h) = {p \in Buf : Linked(hash, p) /\ Hash(blkno[p]) = h}
    /\ Walk(hash, h)[Cardinality(Buf) + 1] = h

(* No block is in two buffers, whatever was replaced meanwhile.            *)
OneBufferPerBlock ==
  \A p, q \in Buf : blkno[p] = blkno[q] /\ Linked(hash, p) => p = q

(* A buffer keeps its block as long as it is held.                         *)
HeldKeepsBlock ==
  [][Ready /\ ini' = ini =>
       \A p \in Buf : "L" \in stat[p] => blkno'[p] = blkno[p]]_vars

(* Who sleeps on a buffer (getblk.c:131) has somebody to be woken by: the  *)
(* buffer is held, and when brelse() has unlocked it no mark is left to be *)
(* found by the next holder, whatever block the buffer is given to.        *)
WaitedIsHeld == \A p \in Buf : "W" \in stat[p] => "L" \in stat[p]

(* The loop of getblk() ends, however many free buffers await a write.     *)
GetblkEnds == \A b \in Blk : want = b ~> want = NoBlk

(* The pointers implement a cache with a queue of idle buffers: those that *)
(* the walk from the head of the free list meets before it is back there.  *)
(* brelse() puts a buffer last if its data are good, and first otherwise;  *)
(* insert_to_initlist(), which makes good ones only, puts all of them last.*)
QueueAlong(r, h) ==
  LET w == Walk(r, h)
      n == CHOOSE k \in 0 .. Cardinality(Buf) :
             w[k + 1] = h /\ \A m \in 1 .. k : w[m] \in Buf
  IN  [m \in 1 .. n |-> w[m]]

FreeQueue == QueueAlong(free, FreeHead)

Cache == INSTANCE BlockCache WITH
           block <- blkno,
           idle  <- FreeQueue,
           good  <- {p \in Buf : Ready => Good(p)}

ImplementsCache == Cache!CacheSpec
=============================================================================
