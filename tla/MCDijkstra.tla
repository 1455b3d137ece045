----------------------------- MODULE MCDijkstra -----------------------------
(* Dijkstra with the matrices of its configurations.                       *)
EXTENDS Dijkstra

(* Every matrix of three nodes whose costs are 0, 1, 2 or INF = 3, and     *)
(* some with an entry above INF.                                           *)
Small == [0 .. 2 -> [0 .. 2 -> 0 .. 3]]
TooLarge == {[i \in 0 .. 2 |-> [j \in 0 .. 2 |-> IF i = j THEN 0 ELSE c]] : c \in {4, 5}}
SmallMatrices == Small \cup TooLarge
=============================================================================
