----------------------------- MODULE BlockCache -----------------------------
(***************************************************************************)
(* What the buffer cache promises: a map from buffers to blocks that never *)
(* has a block twice, and a queue of idle buffers from whose front buffers *)
(* are taken for new blocks.  Buffers that are not idle are held.          *)
(***************************************************************************)
EXTENDS Sequences, SequencesExt

CONSTANTS Buf, Blk, NoBlk

VARIABLES block, idle,
          good         \* the buffers whose data are of use: the user's affair

IsIdle(p) == \E i \in DOMAIN idle : idle[i] = p
Cached(b) == \E p \in Buf : block[p] = b

CacheInit == block = [p \in Buf |-> NoBlk] /\ idle = <<>>

(* A buffer is filled for the first time, and held.                        *)
Load(p, b) ==
  /\ block[p] = NoBlk /\ ~Cached(b)
  /\ block' = [block EXCEPT ![p] = b]
  /\ UNCHANGED idle

(* An idle buffer is held again, with the block it has.                    *)
Hold(p) ==
  /\ UNCHANGED block
  /\ \E i \in DOMAIN idle : idle[i] = p /\ idle' = RemoveAt(idle, i)

(* The buffer that is idle for longest is given to a block not cached.     *)
Replace(b) ==
  /\ idle # <<>> /\ ~Cached(b)
  /\ block' = [block EXCEPT ![Head(idle)] = b]
  /\ idle' = Tail(idle)

(* A held buffer becomes idle: last in the queue, or first if its data are *)
(* of no use.                                                              *)
GiveBack(p) ==
  /\ block[p] # NoBlk /\ ~IsIdle(p)
  /\ UNCHANGED block
  /\ \/ p \in good    /\ idle' = Append(idle, p)
     \/ p \notin good /\ idle' = <<p>> \o idle

(* All is forgotten.                                                       *)
Forget ==
  /\ block' = [p \in Buf |-> NoBlk]
  /\ idle' = <<>>

CacheNext ==
  \/ Forget
  \/ /\ block' # block
     /\ \E b \in Blk : Replace(b) \/ \E p \in Buf : Load(p, b)
  \/ /\ idle' # idle
     /\ \E p \in Buf : Hold(p) \/ GiveBack(p)

CacheSpec == CacheInit /\ [][CacheNext]_<<block, idle>>
=============================================================================
