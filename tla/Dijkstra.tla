------------------------------ MODULE Dijkstra ------------------------------
(***************************************************************************)
(* ex-1/dijkstra.c: shortest routes from every node of a fixed network.    *)
(* One step per iteration of the loop of dijkstra(); main() calls it once  *)
(* per root and never clears dist and prev in between.                     *)
(***************************************************************************)
EXTENDS Integers, FiniteSets

CONSTANTS
  NNODE,    \* number of nodes
  INF,      \* the cost that stands for "no link"
  Costs     \* the matrices the program may be compiled with

Node == 0 .. NNODE - 1

(* main() checks the upper bound INF itself; that no cost is negative it   *)
(* takes from the table.                                                   *)
DijkstraAssumption ==
  /\ NNODE \in Nat \ {0} /\ INF \in Nat \ {0}
  /\ Costs \subseteq [Node -> [Node -> Nat]]

ASSUME DijkstraAssumption

VARIABLES
  cost,     \* the matrix of this program
  pc,       \* "check", "main" (between two roots), "loop", "end"
  root,     \* the root main() is at
  cnt,      \* iterations of dijkstra() done
  dist, prev,
  sptSet    \* the nodes whose entry of sptSet[] is TRUE

vars == <<cost, pc, root, cnt, dist, prev, sptSet>>

Init ==
  /\ cost \in Costs
  /\ pc = "check" /\ root = 0 /\ cnt = 0 /\ sptSet = {}
  /\ dist = [v \in Node |-> 0] /\ prev = [v \in Node |-> 0]

(* One zero in every row, wherever it stands, and nothing above INF.       *)
Accepted ==
  \A i \in Node : /\ \A j \in Node : cost[i][j] <= INF
                  /\ Cardinality({j \in Node : cost[i][j] = 0}) = 1

Check ==
  /\ pc = "check"
  /\ pc' = IF Accepted THEN "main" ELSE "end"
  /\ UNCHANGED <<cost, root, cnt, dist, prev, sptSet>>

DistKept(r) == [v \in Node |-> IF v = r THEN 0 ELSE dist[v]]

DistFrom(r) == [v \in Node |-> IF v = r THEN 0 ELSE INF]

StartKeepsPrev ==
  /\ pc = "main" /\ root \in Node
  /\ dist' = DistFrom(root)
  /\ sptSet' = {} /\ cnt' = 0 /\ pc' = "loop"
  /\ UNCHANGED <<cost, root, prev>>

Start ==
  /\ pc = "main" /\ root \in Node
  /\ dist' = DistFrom(root)
  /\ prev' = [prev EXCEPT ![root] = root]
  /\ sptSet' = {} /\ cnt' = 0 /\ pc' = "loop"
  /\ UNCHANGED <<cost, root>>

(* What minDistance() returns: of the nodes not in sptSet with the least   *)
(* dist, and dist no more than INF, the one with the greatest index.       *)
Before(u, v) == dist[u] < dist[v] \/ (dist[u] = dist[v] /\ v <= u)

IsMinStrict(u) == /\ u \notin sptSet /\ dist[u] < INF
                  /\ \A v \in Node \ sptSet : Before(u, v)

IsMin(u) == /\ u \notin sptSet /\ dist[u] <= INF
            /\ \A v \in Node \ sptSet : Before(u, v)

Improves(u, v) == v \notin sptSet \cup {u} /\ dist[u] + cost[u][v] < dist[v]

FirstPrev(u) ==
  [v \in Node |-> IF Improves(u, v) /\ dist[v] = INF THEN u ELSE prev[v]]

NewPrev(u) == [v \in Node |-> IF Improves(u, v) THEN u ELSE prev[v]]

OneLess == NNODE - 2

Iterations == NNODE - 1

(* An index out of range (minDistance() returned INF) would be a write     *)
(* outside sptSet[]: no step is defined for it, see IndexInBounds.         *)
Settle(u) ==
  /\ pc = "loop" /\ cnt < Iterations
  /\ IsMin(u)
  /\ sptSet' = sptSet \cup {u}
  /\ dist' = [v \in Node |-> IF Improves(u, v) THEN dist[u] + cost[u][v] ELSE dist[v]]
  /\ prev' = NewPrev(u)
  /\ cnt' = cnt + 1
  /\ UNCHANGED <<cost, pc, root>>

Answered == pc = "loop" /\ cnt = Iterations

(* The answer is printed and main() goes on to the next root.              *)
PrintRoot ==
  /\ Answered
  /\ root' = root + 1
  /\ pc' = IF root + 1 < NNODE THEN "main" ELSE "end"
  /\ UNCHANGED <<cost, cnt, dist, prev, sptSet>>

Next == Check \/ Start \/ (\E u \in Node : Settle(u)) \/ PrintRoot

Spec == Init /\ [][Next]_vars

-----------------------------------------------------------------------------
TypeOK ==
  /\ cost \in Costs
  /\ pc \in {"check", "main", "loop", "end"}
  /\ root \in 0 .. NNODE /\ (pc # "end" => root \in Node)
  /\ cnt \in 0 .. NNODE - 1
  /\ dist \in [Node -> 0 .. INF] /\ prev \in [Node -> Node]
  /\ sptSet \subseteq Node

(* minDistance() never falls through its loop and returns INF as an index: *)
(* there is a node for every iteration, the unreachable ones included.     *)
IndexInBounds ==
  pc = "loop" /\ cnt < Iterations => \E u \in Node : IsMin(u)

(* Nodes are settled in the order of their distance: nothing the loop has  *)
(* yet to reach is nearer than what it has settled.                        *)
SettledFirst ==
  pc = "loop" => \A s \in sptSet, v \in Node \ sptSet : dist[s] <= dist[v]

(* No link can shorten an answer, not even one that leaves the node which  *)
(* the NNODE - 1 iterations leave unsettled.                               *)
NoShortcut ==
  Answered => \A u, v \in Node : dist[v] <= dist[u] + cost[u][v]

(* The printed predecessor of a node that can be reached is one step back  *)
(* on a route of the printed length, although prev still holds what the    *)
(* roots before this one left in it.                                       *)
PrevTight ==
  Answered => \A v \in Node \ {root} :
    dist[v] < INF => prev[v] # v /\ dist[v] = dist[prev[v]] + cost[prev[v]][v]

(* ... and going back from there, the root is reached: zero-cost links     *)
(* make no cycle of predecessors.                                          *)
Back[k \in Nat] ==
  IF k = 0 THEN [v \in Node |-> v] ELSE [v \in Node |-> prev[Back[k - 1][v]]]

PrevReachesRoot ==
  Answered => \A v \in Node : dist[v] < INF => Back[NNODE - 1][v] = root

(* The answer is the length of a shortest walk, or INF if there is none    *)
(* shorter than INF.  ShortestIn[k] is the definition: walks of k links.   *)
ShortestIn[k \in Nat] ==
  IF k = 0 THEN [v \in Node |-> IF v = root THEN 0 ELSE INF]
  ELSE [v \in Node |->
         LET d == ShortestIn[k - 1]
             ways == {INF, d[v]} \cup {d[u] + cost[u][v] : u \in Node}
         IN  CHOOSE m \in ways : \A w \in ways : m <= w]

DistShortest == Answered => dist = ShortestIn[NNODE - 1]

(* What makes SettledFirst, NoShortcut and PrevTight inductive.            *)
LoopInv ==
  pc = "loop" =>
    /\ dist[root] = 0
    /\ Cardinality(sptSet) = cnt
    /\ \A s \in sptSet, v \in Node : dist[v] <= dist[s] + cost[s][v]
    /\ \A v \in Node \ {root} : dist[v] < INF =>
         /\ prev[v] \in sptSet /\ prev[v] # v
         /\ dist[v] = dist[prev[v]] + cost[prev[v]][v]

RouteInv == SettledFirst /\ LoopInv
=============================================================================
