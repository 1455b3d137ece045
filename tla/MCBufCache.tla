----------------------------- MODULE MCBufCache -----------------------------
(* BufCache with the bounds of its configurations.                         *)
EXTENDS BufCache, TLC

(* Three buffers in two queues; the blocks 0 and 2 share one.              *)
ThreeBlocks == <<0, 2, 1>>
TwoFree == <<1, 0>>

(* Two buffers, both free.                                               *)
TwoBlocks == <<0, 1>>
BothFree == <<1, 0>>

Symmetry == Permutations(Buf)
=============================================================================
