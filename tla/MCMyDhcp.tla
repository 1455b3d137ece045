------------------------------ MODULE MCMyDhcp ------------------------------
(* MyDhcp with the bounds of its configurations.                           *)
EXTENDS MyDhcp, TLC

Symmetry == Permutations(Client) \cup Permutations(Addr)
=============================================================================
