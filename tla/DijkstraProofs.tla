--------------------------- MODULE DijkstraProofs ---------------------------
(***************************************************************************)
(* What dijkstra() answers, for every number of nodes and every table of   *)
(* natural costs: nodes are settled nearest first, the answers are the     *)
(* lengths of shortest walks, and the predecessors printed with them lead  *)
(* back to the root.  Induction is over natural numbers that a set holds.  *)
(***************************************************************************)
EXTENDS Dijkstra, TLAPS, FiniteSetTheorems, CommonLemmas

(* The sizes are positive, and a cost is a natural number.                 *)
LEMMA SizesPositive ==
  NNODE \in Nat /\ NNODE >= 1 /\ INF \in Nat /\ INF >= 1
<1>1. NNODE \in Nat \ {0} /\ INF \in Nat \ {0}
  BY DijkstraAssumption, Zenon DEF DijkstraAssumption
<1> QED
  BY <1>1

LEMMA CostsNatural ==
  ASSUME cost \in Costs
  PROVE  \A u, v \in Node : cost[u][v] \in Nat
<1>1. cost \in [Node -> [Node -> Nat]]
  BY DijkstraAssumption, Zenon DEF DijkstraAssumption
<1> QED
  BY <1>1

LEMMA NodesFinite == IsFiniteSet(Node) /\ Cardinality(Node) = NNODE
BY SizesPositive, FS_Interval DEF Node

-----------------------------------------------------------------------------
LEMMA InitTyped == Init => TypeOK
BY SizesPositive DEF Init, TypeOK, Node

(* A distance only ever decreases, so it stays within 0 .. INF.            *)
LEMMA SettleTyped ==
  ASSUME TypeOK, NEW u \in Node, Settle(u)
  PROVE  TypeOK'
<1>1. \A v \in Node : cost[u][v] \in Nat
  BY CostsNatural DEF TypeOK
<1>2. dist' \in [Node -> 0 .. INF]
  <2>1. \A v \in Node : dist[v] \in 0 .. INF
    BY DEF TypeOK
  <2>2. ASSUME NEW v \in Node, Improves(u, v)
        PROVE  dist[u] + cost[u][v] \in 0 .. INF
    BY <1>1, <2>1, <2>2, SizesPositive DEF Improves
  <2> QED
    BY <2>1, <2>2 DEF Settle
<1>3. prev' \in [Node -> Node]
  BY DEF TypeOK, Settle, NewPrev
<1>4. cnt' \in 0 .. NNODE - 1
  BY SizesPositive DEF TypeOK, Settle, Iterations
<1> QED
  BY <1>2, <1>3, <1>4 DEF TypeOK, Settle

LEMMA NextTyped == TypeOK /\ [Next]_vars => TypeOK'
<1> SUFFICES ASSUME TypeOK, [Next]_vars PROVE TypeOK'
  OBVIOUS
<1>1. CASE Check
  BY <1>1 DEF Check, TypeOK
<1>2. CASE Start
  <2>1. dist' \in [Node -> 0 .. INF]
    BY <1>2, SizesPositive DEF Start, DistFrom
  <2>2. prev' \in [Node -> Node]
    BY <1>2 DEF Start, TypeOK
  <2>3. cnt' \in 0 .. NNODE - 1 /\ root' \in 0 .. NNODE /\ root' \in Node
    BY <1>2, SizesPositive DEF Start, TypeOK
  <2> QED
    BY <1>2, <2>1, <2>2, <2>3 DEF Start, TypeOK
<1>3. ASSUME NEW u \in Node, Settle(u) PROVE TypeOK'
  BY <1>3, SettleTyped
<1>4. CASE PrintRoot
  <2>1. root \in Node
    BY <1>4 DEF PrintRoot, Answered, TypeOK
  <2>2. root' \in 0 .. NNODE /\ (pc' # "end" => root' \in Node)
    BY <1>4, <2>1, SizesPositive DEF PrintRoot, Node
  <2> QED
    BY <1>4, <2>2 DEF PrintRoot, TypeOK
<1>5. CASE UNCHANGED vars
  BY <1>5 DEF vars, TypeOK
<1> QED
  BY <1>1, <1>2, <1>3, <1>4, <1>5 DEF Next

(* main() and dijkstra() keep every variable in its range, whatever the    *)
(* table; in particular no distance exceeds INF (lines 48 to 118).         *)
THEOREM TypeCorrect == Spec => []TypeOK
<1> QED
  BY InitTyped, NextTyped, PTL DEF Spec

-----------------------------------------------------------------------------
(* Start: nothing is settled, and only the root has a distance.            *)
LEMMA StartKeepsRoutes ==
  ASSUME TypeOK, Start
  PROVE  RouteInv'
<1>1. /\ sptSet' = {} /\ cnt' = 0 /\ root' = root /\ root \in Node
      /\ dist' = [v \in Node |-> IF v = root THEN 0 ELSE INF]
  BY DEF Start, DistFrom
<1>2. Cardinality(sptSet') = cnt'
  BY <1>1, FS_EmptySet
<1>3. dist'[root'] = 0 /\ \A v \in Node \ {root'} : ~(dist'[v] < INF)
  BY <1>1, SizesPositive
<1> QED
  BY <1>1, <1>2, <1>3 DEF RouteInv, SettledFirst, LoopInv

(* An iteration: the new node is no farther than what stays unsettled, and *)
(* a node that stays unsettled is either as it was or a link away from it. *)
LEMMA SettleKeepsRoutes ==
  ASSUME TypeOK, RouteInv, NEW u \in Node, Settle(u)
  PROVE  RouteInv'
<1>1. /\ pc = "loop" /\ u \notin sptSet
      /\ sptSet' = sptSet \cup {u} /\ cnt' = cnt + 1
      /\ cost' = cost /\ root' = root
      /\ dist' = [v \in Node |->
                   IF Improves(u, v) THEN dist[u] + cost[u][v] ELSE dist[v]]
      /\ prev' = [v \in Node |-> IF Improves(u, v) THEN u ELSE prev[v]]
  BY DEF Settle, IsMin, NewPrev
<1>2. \A v \in Node : dist[v] \in Nat /\ dist[v] <= INF
  BY SizesPositive DEF TypeOK
<1>3. \A v, w \in Node : cost[v][w] \in Nat
  BY CostsNatural DEF TypeOK
<1>4. \A v \in Node \ sptSet : dist[u] <= dist[v]
  BY <1>2 DEF Settle, IsMin, Before
<1>5. /\ \A s \in sptSet, v \in Node \ sptSet : dist[s] <= dist[v]
      /\ dist[root] = 0 /\ Cardinality(sptSet) = cnt
      /\ \A s \in sptSet, v \in Node : dist[v] <= dist[s] + cost[s][v]
      /\ \A v \in Node \ {root} : dist[v] < INF =>
           /\ prev[v] \in sptSet /\ prev[v] # v
           /\ dist[v] = dist[prev[v]] + cost[prev[v]][v]
  BY <1>1 DEF RouteInv, SettledFirst, LoopInv
<1>6. sptSet \subseteq Node /\ root \in Node
  BY <1>1 DEF TypeOK
<1>7. \A s \in sptSet' : dist'[s] = dist[s]
  BY <1>1, <1>6 DEF Improves
<1>8. \A v \in Node : dist'[v] \in Nat /\ dist'[v] <= dist[v]
  BY <1>1, <1>2, <1>3 DEF Improves
<1>9. \A v \in Node \ sptSet' : dist[u] <= dist'[v]
  <2> SUFFICES ASSUME NEW v \in Node \ sptSet' PROVE dist[u] <= dist'[v]
    OBVIOUS
  <2>1. CASE Improves(u, v)
    BY <1>1, <1>2, <1>3, <2>1
  <2>2. CASE ~Improves(u, v)
    BY <1>1, <1>4, <2>2
  <2> QED
    BY <2>1, <2>2
<1>10. \A s \in sptSet', v \in Node \ sptSet' : dist'[s] <= dist'[v]
  <2> SUFFICES ASSUME NEW s \in sptSet', NEW v \in Node \ sptSet'
               PROVE  dist'[s] <= dist'[v]
    OBVIOUS
  <2>1. CASE s = u
    BY <1>7, <1>9, <2>1
  <2>2. CASE s \in sptSet
    <3>1. dist[s] <= dist[u]
      BY <1>1, <1>5, <2>2
    <3> QED
      BY <1>2, <1>6, <1>7, <1>8, <1>9, <2>2, <3>1
  <2> QED
    BY <1>1, <2>1, <2>2
<1>11. Cardinality(sptSet') = cnt'
  <2>1. IsFiniteSet(sptSet)
    BY <1>6, NodesFinite, FS_Subset
  <2> QED
    BY <1>1, <1>5, <2>1, FS_AddElement
<1>12. \A s \in sptSet', v \in Node : dist'[v] <= dist'[s] + cost'[s][v]
  <2> SUFFICES ASSUME NEW s \in sptSet', NEW v \in Node
               PROVE  dist'[v] <= dist[s] + cost[s][v]
    BY <1>1, <1>7
  <2>1. CASE s \in sptSet
    <3>1. dist[v] <= dist[s] + cost[s][v]
      BY <1>5, <2>1
    <3> QED
      BY <1>2, <1>3, <1>6, <1>8, <2>1, <3>1
  <2>2. CASE s = u /\ v \in sptSet'
    <3>1. dist[v] <= dist[u]
      BY <1>1, <1>2, <1>5, <2>2
    <3> QED
      BY <1>2, <1>3, <1>8, <2>2, <3>1
  <2>3. CASE s = u /\ v \notin sptSet'
    BY <1>1, <1>2, <1>3, <2>3 DEF Improves
  <2> QED
    BY <1>1, <2>1, <2>2, <2>3
<1>13. dist'[root'] = 0
  BY <1>1, <1>2, <1>5, <1>6, <1>8
<1>14. ASSUME NEW v \in Node \ {root}, dist'[v] < INF
       PROVE  /\ prev'[v] \in sptSet' /\ prev'[v] # v
              /\ dist'[v] = dist'[prev'[v]] + cost'[prev'[v]][v]
  <2>1. CASE Improves(u, v)
    <3>1. prev'[v] = u /\ dist'[v] = dist[u] + cost[u][v] /\ v # u
      BY <1>1, <2>1 DEF Improves
    <3> QED
      BY <1>1, <1>7, <3>1
  <2>2. CASE ~Improves(u, v)
    <3>1. prev'[v] = prev[v] /\ dist'[v] = dist[v]
      BY <1>1, <2>2
    <3>2. /\ prev[v] \in sptSet /\ prev[v] # v
          /\ dist[v] = dist[prev[v]] + cost[prev[v]][v]
      BY <1>5, <1>14, <3>1
    <3>3. prev[v] \in sptSet' /\ dist'[prev[v]] = dist[prev[v]]
      BY <1>1, <1>7, <3>2
    <3> QED
      BY <1>1, <3>1, <3>2, <3>3
  <2> QED
    BY <2>1, <2>2
<1> QED
  BY <1>1, <1>10, <1>11, <1>12, <1>13, <1>14 DEF RouteInv, SettledFirst, LoopInv

LEMMA NextKeepsRoutes == TypeOK /\ RouteInv /\ [Next]_vars => RouteInv'
<1> SUFFICES ASSUME TypeOK, RouteInv, [Next]_vars PROVE RouteInv'
  OBVIOUS
<1>1. CASE Check
  BY <1>1 DEF Check, RouteInv, SettledFirst, LoopInv
<1>2. CASE Start
  BY <1>2, StartKeepsRoutes
<1>3. ASSUME NEW u \in Node, Settle(u) PROVE RouteInv'
  BY <1>3, SettleKeepsRoutes
<1>4. CASE PrintRoot
  BY <1>4 DEF PrintRoot, RouteInv, SettledFirst, LoopInv
<1>5. CASE UNCHANGED vars
  BY <1>5 DEF vars, RouteInv, SettledFirst, LoopInv
<1> QED
  BY <1>1, <1>2, <1>3, <1>4, <1>5 DEF Next

LEMMA RoutesInvariant == Spec => [](TypeOK /\ RouteInv)
<1>1. Init => RouteInv
  BY DEF Init, RouteInv, SettledFirst, LoopInv
<1> QED
  BY <1>1, InitTyped, NextTyped, NextKeepsRoutes, PTL DEF Spec

(* Nodes are settled nearest first: minDistance() and the relaxation never *)
(* bring a node below one that is settled (lines 65 to 80).                *)
THEOREM NearestFirst == Spec => []SettledFirst
<1>1. RouteInv => SettledFirst
  BY DEF RouteInv
<1> QED
  BY <1>1, RoutesInvariant, PTL

(* NNODE - 1 iterations are enough: of the one node they leave unsettled,  *)
(* no link shortens anything.                                              *)
LEMMA OneUnsettled ==
  ASSUME TypeOK, RouteInv, Answered,
         NEW u \in Node \ sptSet, NEW v \in Node \ sptSet
  PROVE  u = v
<1> SUFFICES ASSUME u # v PROVE FALSE
  OBVIOUS
<1>1. /\ sptSet \subseteq Node /\ IsFiniteSet(sptSet)
      /\ Cardinality(sptSet) = NNODE - 1
  BY NodesFinite, FS_Subset DEF TypeOK, RouteInv, LoopInv, Answered, Iterations
<1>2. /\ IsFiniteSet(sptSet \cup {u})
      /\ Cardinality(sptSet \cup {u}) = NNODE
  BY <1>1, FS_AddElement, SizesPositive
<1>3. Cardinality((sptSet \cup {u}) \cup {v}) = NNODE + 1
  BY <1>2, FS_AddElement
<1>4. (sptSet \cup {u}) \cup {v} \subseteq Node
  BY <1>1
<1>5. Cardinality((sptSet \cup {u}) \cup {v}) <= NNODE
  BY <1>4, NodesFinite, FS_Subset
<1> QED
  BY <1>3, <1>5, SizesPositive

(* The answers are shortest distances in the sense of the Bellman          *)
(* equations: no link shortens one.                                        *)
THEOREM AnswersShortest == Spec => []NoShortcut
<1>1. ASSUME TypeOK, RouteInv PROVE NoShortcut
  <2> SUFFICES ASSUME Answered, NEW u \in Node, NEW v \in Node
               PROVE  dist[v] <= dist[u] + cost[u][v]
    BY DEF NoShortcut
  <2>1. pc = "loop"
    BY DEF Answered
  <2>2. dist[u] \in Nat /\ dist[v] \in Nat /\ cost[u][v] \in Nat
    BY <1>1, CostsNatural DEF TypeOK
  <2>3. CASE u \in sptSet
    BY <1>1, <2>1, <2>3 DEF RouteInv, LoopInv
  <2>4. CASE u \notin sptSet /\ v \in sptSet
    <3>1. dist[v] <= dist[u]
      BY <1>1, <2>1, <2>4 DEF RouteInv, SettledFirst
    <3> QED
      BY <2>2, <3>1
  <2>5. CASE u \notin sptSet /\ v \notin sptSet
    <3>1. u = v
      BY <1>1, <2>5, OneUnsettled
    <3> QED
      BY <2>2, <3>1
  <2> QED
    BY <2>3, <2>4, <2>5
<1> QED
  BY <1>1, RoutesInvariant, PTL

(* ... and attained: every predecessor that is printed with a distance     *)
(* below INF is one link nearer to the root, and was set for this root.    *)
THEOREM PredecessorsTight == Spec => []PrevTight
<1>1. RouteInv => PrevTight
  BY DEF RouteInv, LoopInv, PrevTight, Answered
<1> QED
  BY <1>1, RoutesInvariant, PTL

-----------------------------------------------------------------------------
(* As long as there is an iteration to do, a node is left for it, and the  *)
(* search finds one: the nearest, and of these the last.                   *)
LEMMA SomeNodeIsMin ==
  ASSUME TypeOK, RouteInv, pc = "loop", cnt < Iterations
  PROVE  \E u \in Node : IsMin(u)
<1> DEFINE Left == Node \ sptSet
           Dists == {dist[v] : v \in Left}
<1>1. \A v \in Node : dist[v] \in Nat /\ dist[v] <= INF /\ v \in Nat /\ v <= NNODE - 1
  <2>1. \A v \in Node : dist[v] \in 0 .. INF
    BY DEF TypeOK
  <2>2. \A v \in Node : v \in Nat /\ v <= NNODE - 1
    BY SizesPositive DEF Node
  <2> QED
    BY <2>1, <2>2, SizesPositive
<1>2. Left # {}
  <2> SUFFICES ASSUME Left = {} PROVE FALSE
    OBVIOUS
  <2>1. sptSet = Node
    BY DEF TypeOK
  <2>2. cnt = NNODE
    BY <2>1, NodesFinite DEF RouteInv, LoopInv
  <2> QED
    BY <2>2, SizesPositive DEF Iterations
<1>3. Dists \subseteq Nat /\ Dists # {}
  BY <1>1, <1>2
<1>4. PICK d \in Dists : \A e \in Dists : d <= e
  BY <1>3, LeastNatural
<1> DEFINE Near == {v \in Left : dist[v] = d}
           FromTop == {NNODE - 1 - v : v \in Near}
<1>5. FromTop \subseteq Nat /\ FromTop # {}
  BY <1>1, <1>4, SizesPositive
<1>6. PICK t \in FromTop : \A e \in FromTop : t <= e
  <2> HIDE DEF FromTop
  <2> QED
    BY <1>5, LeastNatural
<1>7. PICK u \in Near : t = NNODE - 1 - u
  BY <1>6
<1>8. ASSUME NEW v \in Near PROVE v <= u
  <2>1. NNODE - 1 - v \in FromTop
    OBVIOUS
  <2>2. NNODE - 1 - u <= NNODE - 1 - v
    BY <1>6, <1>7, <2>1
  <2>3. u \in Nat /\ v \in Nat
    BY <1>1, <1>7
  <2> QED
    BY <2>2, <2>3, SizesPositive
<1>9. ASSUME NEW v \in Left PROVE Before(u, v)
  <2>1. dist[u] = d /\ d <= dist[v] /\ dist[v] \in Nat /\ d \in Nat
    BY <1>1, <1>4, <1>7
  <2>2. CASE dist[v] = d
    BY <1>8, <2>1, <2>2 DEF Before
  <2>3. CASE dist[v] # d
    BY <2>1, <2>3 DEF Before
  <2> QED
    BY <2>2, <2>3
<1> QED
  BY <1>1, <1>7, <1>9 DEF IsMin

(* minDistance() never returns INF as an index: the nodes it may choose    *)
(* from are not used up, and no distance exceeds INF (lines 28 to 43).     *)
THEOREM NoIndexOutside == Spec => []IndexInBounds
<1>1. TypeOK /\ RouteInv => IndexInBounds
  BY SomeNodeIsMin DEF IndexInBounds
<1> QED
  BY <1>1, RoutesInvariant, PTL

-----------------------------------------------------------------------------
(* The shortest walks of at most k links, as a function of the matrix and  *)
(* the root.                                                               *)
Ways(c, d, v) == {INF, d[v]} \cup {d[u] + c[u][v] : u \in Node}

LeastWay(c, d, v) == CHOOSE m \in Ways(c, d, v) : \A w \in Ways(c, d, v) : m <= w

ShortOf(c, r) ==
  CHOOSE f : f = [k \in Nat |->
    IF k = 0 THEN [v \in Node |-> IF v = r THEN 0 ELSE INF]
    ELSE [v \in Node |-> LeastWay(c, f[k - 1], v)]]

LEMMA ShortestIsShortOf == ShortestIn = ShortOf(cost, root)
BY DEF ShortestIn, ShortOf, LeastWay, Ways

LEMMA LeastWayIsLeast ==
  ASSUME NEW c \in [Node -> [Node -> Nat]], NEW d \in [Node -> Nat], NEW v \in Node
  PROVE  /\ LeastWay(c, d, v) \in Nat
         /\ LeastWay(c, d, v) \in Ways(c, d, v)
         /\ \A w \in Ways(c, d, v) : LeastWay(c, d, v) <= w
<1>1. Ways(c, d, v) \subseteq Nat /\ Ways(c, d, v) # {}
  BY SizesPositive DEF Ways
<1>2. \E m \in Ways(c, d, v) : \A w \in Ways(c, d, v) : m <= w
  BY <1>1, LeastNatural
<1> QED
  BY <1>1, <1>2 DEF LeastWay

LEMMA ShortOfSteps ==
  ASSUME NEW c \in [Node -> [Node -> Nat]], NEW r \in Node
  PROVE  /\ \A k \in Nat : ShortOf(c, r)[k] \in [Node -> Nat]
         /\ ShortOf(c, r)[0] = [v \in Node |-> IF v = r THEN 0 ELSE INF]
         /\ \A k \in Nat : \A v \in Node :
              ShortOf(c, r)[k + 1][v] = LeastWay(c, ShortOf(c, r)[k], v)
<1> DEFINE S == [Node -> Nat]
           a == [v \in Node |-> IF v = r THEN 0 ELSE INF]
           F == [d \in S |-> [v \in Node |-> LeastWay(c, d, v)]]
           G(f) == [k \in Nat |-> IF k = 0 THEN a
                                  ELSE [v \in Node |-> LeastWay(c, f[k - 1], v)]]
<1>1. a \in S
  BY SizesPositive
<1>2. F \in [S -> S]
  BY LeastWayIsLeast
<1> HIDE DEF F
<1>3. PICK g \in [Nat -> S] : g[0] = a /\ \A k \in Nat : g[k + 1] = F[g[k]]
  <2>1. Orbits(S, a, F) # {}
    BY <1>1, <1>2, Repeated
  <2> HIDE DEF S, a
  <2> QED
    BY <2>1 DEF Orbits
<1>4. \A k \in Nat : g[k + 1] = [v \in Node |-> LeastWay(c, g[k], v)]
  BY <1>3 DEF F
<1>5. g = G(g)
  <2>1. ASSUME NEW k \in Nat PROVE g[k] = G(g)[k]
    <3>1. CASE k = 0
      BY <1>3, <3>1
    <3>2. CASE k # 0
      <4>1. k - 1 \in Nat /\ (k - 1) + 1 = k
        BY <3>2
      <4>2. g[(k - 1) + 1] = [v \in Node |-> LeastWay(c, g[k - 1], v)]
        BY <1>4, <4>1
      <4> QED
        BY <3>2, <4>1, <4>2
    <3> QED
      BY <3>1, <3>2
  <2> QED
    BY <1>3, <2>1
<1> DEFINE s == CHOOSE f : f = G(f)
<1>6. s = G(s)
  <2> HIDE DEF G
  <2> QED
    BY <1>5
<1>7. ShortOf(c, r) = s
  BY DEF ShortOf
<1> HIDE DEF s
<1>8. s[0] = a
  BY <1>6
<1>9. ASSUME NEW k \in Nat PROVE s[k + 1] = [v \in Node |-> LeastWay(c, s[k], v)]
  <2>1. k + 1 \in Nat /\ k + 1 # 0 /\ (k + 1) - 1 = k
    OBVIOUS
  <2> DEFINE j == k + 1
  <2>2. G(s)[j] = [v \in Node |-> LeastWay(c, s[j - 1], v)]
    BY <2>1
  <2> QED
    BY <1>6, <2>1, <2>2
<1> DEFINE T == {k \in Nat : s[k] \in S}
<1>10. \A k \in Nat : k \in T
  <2>1. 0 \in T
    BY <1>1, <1>8
  <2>2. ASSUME NEW k \in Nat, k \in T PROVE k + 1 \in T
    <3>1. s[k] \in [Node -> Nat]
      BY <2>2
    <3>2. \A v \in Node : LeastWay(c, s[k], v) \in Nat
      BY <3>1, LeastWayIsLeast
    <3>3. s[k + 1] \in [Node -> Nat]
      BY <1>9, <3>2
    <3> QED
      BY <3>3
  <2> HIDE DEF T
  <2> QED
    BY <2>1, <2>2, NaturalSteps
<1>11. \A k \in Nat : s[k] \in [Node -> Nat]
  BY <1>10
<1>12. \A k \in Nat : \A v \in Node : s[k + 1][v] = LeastWay(c, s[k], v)
  BY <1>9
<1> QED
  BY <1>7, <1>8, <1>11, <1>12

-----------------------------------------------------------------------------
(* After cnt iterations no distance is below the shortest walk of at most  *)
(* cnt links: what the loop assumes is always a walk that exists.          *)
WalkInv ==
  pc = "loop" => \A v \in Node : ShortOf(cost, root)[cnt][v] <= dist[v]

LEMMA WalkLonger ==
  ASSUME NEW c \in [Node -> [Node -> Nat]], NEW r \in Node, NEW k \in Nat,
         NEW v \in Node
  PROVE  /\ ShortOf(c, r)[k + 1][v] <= ShortOf(c, r)[k][v]
         /\ \A u \in Node :
              ShortOf(c, r)[k + 1][v] <= ShortOf(c, r)[k][u] + c[u][v]
         /\ \/ ShortOf(c, r)[k + 1][v] \in {INF, ShortOf(c, r)[k][v]}
            \/ \E u \in Node :
                 ShortOf(c, r)[k + 1][v] = ShortOf(c, r)[k][u] + c[u][v]
<1> DEFINE d == ShortOf(c, r)[k]
<1>1. d \in [Node -> Nat]
  BY ShortOfSteps
<1>2. ShortOf(c, r)[k + 1][v] = LeastWay(c, d, v)
  <2>1. \A j \in Nat : \A w \in Node :
          ShortOf(c, r)[j + 1][w] = LeastWay(c, ShortOf(c, r)[j], w)
    BY ShortOfSteps, Zenon
  <2> QED
    BY <2>1, Zenon
<1> HIDE DEF d
<1>3. /\ LeastWay(c, d, v) \in Ways(c, d, v)
      /\ \A w \in Ways(c, d, v) : LeastWay(c, d, v) <= w
  BY <1>1, LeastWayIsLeast
<1>4. /\ LeastWay(c, d, v) <= d[v]
      /\ \A u \in Node : LeastWay(c, d, v) <= d[u] + c[u][v]
      /\ \/ LeastWay(c, d, v) \in {INF, d[v]}
         \/ \E u \in Node : LeastWay(c, d, v) = d[u] + c[u][v]
  BY <1>3 DEF Ways
<1> QED
  BY <1>2, <1>4 DEF d

LEMMA CostTable == ASSUME TypeOK PROVE cost \in [Node -> [Node -> Nat]]
BY DijkstraAssumption, Zenon DEF DijkstraAssumption, TypeOK

LEMMA WalkKept ==
  ASSUME TypeOK, WalkInv, NEW u \in Node, Settle(u)
  PROVE  WalkInv'
<1> DEFINE W == ShortOf(cost, root)
<1>1. /\ pc = "loop" /\ cost' = cost /\ root' = root /\ cnt' = cnt + 1
      /\ \A v \in Node : dist'[v] = IF Improves(u, v) THEN dist[u] + cost[u][v]
                                                      ELSE dist[v]
  BY DEF Settle
<1>2. cost \in [Node -> [Node -> Nat]] /\ root \in Node /\ cnt \in Nat
  BY <1>1, CostTable, SizesPositive DEF TypeOK
<1>3. \A v \in Node : W[cnt][v] <= dist[v]
  BY <1>1 DEF WalkInv
<1>4. /\ \A v \in Node : W[cnt + 1][v] <= W[cnt][v]
      /\ \A v \in Node : W[cnt + 1][v] <= W[cnt][u] + cost[u][v]
  BY <1>2, WalkLonger
<1>5. \A v \in Node : /\ W[cnt][v] \in Nat /\ W[cnt + 1][v] \in Nat
                      /\ dist[v] \in Nat /\ cost[u][v] \in Nat
  <2>1. W[cnt] \in [Node -> Nat] /\ W[cnt + 1] \in [Node -> Nat]
    <3>1. cnt + 1 \in Nat
      BY <1>2
    <3> QED
      BY <1>2, <3>1, ShortOfSteps
  <2>2. \A v \in Node : dist[v] \in Nat
    BY SizesPositive DEF TypeOK
  <2> QED
    BY <1>2, <2>1, <2>2
<1> HIDE DEF W
<1>6. ASSUME NEW v \in Node PROVE W[cnt + 1][v] <= dist'[v]
  <2>1. CASE Improves(u, v)
    <3>1. dist'[v] = dist[u] + cost[u][v]
      BY <1>1, <2>1
    <3>2. W[cnt + 1][v] <= W[cnt][u] + cost[u][v] /\ W[cnt][u] <= dist[u]
      BY <1>3, <1>4
    <3> QED
      BY <1>5, <3>1, <3>2
  <2>2. CASE ~Improves(u, v)
    <3>1. dist'[v] = dist[v]
      BY <1>1, <2>2
    <3>2. W[cnt + 1][v] <= W[cnt][v] /\ W[cnt][v] <= dist[v]
      BY <1>3, <1>4
    <3> QED
      BY <1>5, <3>1, <3>2
  <2> QED
    BY <2>1, <2>2
<1>7. \A v \in Node : ShortOf(cost', root')[cnt'][v] <= dist'[v]
  BY <1>1, <1>6 DEF W
<1> QED
  BY <1>7 DEF WalkInv

LEMMA NextKeepsWalks == TypeOK /\ WalkInv /\ [Next]_vars => WalkInv'
<1> SUFFICES ASSUME TypeOK, WalkInv, [Next]_vars PROVE WalkInv'
  OBVIOUS
<1>1. CASE Check
  BY <1>1 DEF Check, WalkInv
<1>2. CASE Start
  <2>1. /\ root' \in Node /\ cost' \in [Node -> [Node -> Nat]] /\ cnt' = 0
        /\ dist' = [v \in Node |-> IF v = root' THEN 0 ELSE INF]
    BY <1>2, CostTable DEF Start, DistFrom
  <2>2. ShortOf(cost', root')[cnt'] = dist'
    BY <2>1, ShortOfSteps
  <2>3. \A v \in Node : dist'[v] <= dist'[v]
    BY <2>1, SizesPositive
  <2> QED
    BY <2>2, <2>3 DEF WalkInv
<1>3. ASSUME NEW u \in Node, Settle(u) PROVE WalkInv'
  BY <1>3, WalkKept
<1>4. CASE PrintRoot
  BY <1>4 DEF PrintRoot, WalkInv
<1>5. CASE UNCHANGED vars
  BY <1>5 DEF vars, WalkInv
<1> QED
  BY <1>1, <1>2, <1>3, <1>4, <1>5 DEF Next

(* No walk of any length is shorter than an answer: links shorten nothing, *)
(* one after the other.                                                    *)
LEMMA AnswersBelowWalks ==
  ASSUME TypeOK, RouteInv, NoShortcut, Answered
  PROVE  \A k \in Nat : \A v \in Node : dist[v] <= ShortOf(cost, root)[k][v]
<1> DEFINE W == ShortOf(cost, root)
           T == {k \in Nat : \A v \in Node : dist[v] <= W[k][v]}
<1>1. cost \in [Node -> [Node -> Nat]] /\ root \in Node /\ pc = "loop"
  BY CostTable DEF TypeOK, Answered
<1>2. \A v \in Node : dist[v] \in Nat /\ dist[v] <= INF
  BY SizesPositive DEF TypeOK
<1>3. dist[root] = 0
  BY <1>1 DEF RouteInv, LoopInv
<1>4. 0 \in T
  <2>1. W[0] = [v \in Node |-> IF v = root THEN 0 ELSE INF]
    BY <1>1, ShortOfSteps
  <2> HIDE DEF W
  <2>2. \A v \in Node : dist[v] <= W[0][v]
    BY <1>2, <1>3, <2>1
  <2> QED
    BY <2>2
<1>5. ASSUME NEW k \in Nat, k \in T PROVE k + 1 \in T
  <2> SUFFICES ASSUME NEW v \in Node PROVE dist[v] <= W[k + 1][v]
    OBVIOUS
  <2>1. \/ W[k + 1][v] \in {INF, W[k][v]}
        \/ \E u \in Node : W[k + 1][v] = W[k][u] + cost[u][v]
    BY <1>1, WalkLonger
  <2>2. W[k] \in [Node -> Nat]
    BY <1>1, ShortOfSteps
  <2>3. \A u \in Node : dist[u] <= W[k][u]
    BY <1>5
  <2> HIDE DEF W, T
  <2>4. CASE W[k + 1][v] \in {INF, W[k][v]}
    BY <1>2, <2>3, <2>4
  <2>5. ASSUME NEW u \in Node, W[k + 1][v] = W[k][u] + cost[u][v]
        PROVE  dist[v] <= W[k + 1][v]
    <3>1. dist[v] <= dist[u] + cost[u][v] /\ dist[u] <= W[k][u]
      BY <2>3 DEF NoShortcut
    <3>2. cost[u][v] \in Nat /\ W[k][u] \in Nat
      BY <1>1, <2>2
    <3> QED
      BY <1>2, <2>5, <3>1, <3>2
  <2> QED
    BY <2>1, <2>4, <2>5
<1> HIDE DEF T
<1>6. \A k \in Nat : k \in T
  BY <1>4, <1>5, NaturalSteps
<1> QED
  BY <1>6 DEF T

(* What is printed for a root is, for every node, the length of a shortest *)
(* walk from it, or INF if none is shorter than INF (lines 48 to 82).      *)
THEOREM AnswersAreDistances == Spec => []DistShortest
<1>1. Spec => []WalkInv
  <2>1. Init => WalkInv
    BY DEF Init, WalkInv
  <2> QED
    BY <2>1, NextKeepsWalks, TypeCorrect, PTL DEF Spec
<1>2. ASSUME TypeOK, RouteInv, WalkInv, NoShortcut PROVE DistShortest
  <2> SUFFICES ASSUME Answered PROVE dist = ShortestIn[NNODE - 1]
    BY DEF DistShortest
  <2> DEFINE W == ShortOf(cost, root)
  <2>1. pc = "loop" /\ cnt = NNODE - 1 /\ NNODE - 1 \in Nat
    BY SizesPositive DEF Answered, Iterations
  <2>2. cost \in [Node -> [Node -> Nat]] /\ root \in Node
    BY <1>2, <2>1, CostTable DEF TypeOK
  <2>3. W[NNODE - 1] \in [Node -> Nat]
    BY <2>1, <2>2, ShortOfSteps
  <2>4. \A v \in Node : dist[v] <= W[NNODE - 1][v] /\ W[NNODE - 1][v] <= dist[v]
    BY <1>2, <2>1, AnswersBelowWalks DEF WalkInv
  <2>5. dist \in [Node -> Nat]
    BY <1>2, SizesPositive DEF TypeOK
  <2> HIDE DEF W
  <2>6. dist = W[NNODE - 1]
    <3>1. \A v \in Node : dist[v] = W[NNODE - 1][v]
      BY <2>3, <2>4, <2>5
    <3> QED
      BY <2>3, <2>5, <3>1
  <2> QED
    BY <2>6, ShortestIsShortOf DEF W
<1> QED
  BY <1>1, <1>2, RoutesInvariant, AnswersShortest, PTL

-----------------------------------------------------------------------------
(* Going back k times along the predecessors p.                            *)
BackOf(p) ==
  CHOOSE f : f = [k \in Nat |->
    IF k = 0 THEN [v \in Node |-> v] ELSE [v \in Node |-> p[f[k - 1][v]]]]

LEMMA BackIsBackOf == Back = BackOf(prev)
BY DEF Back, BackOf

LEMMA BackOfSteps ==
  ASSUME NEW p \in [Node -> Node]
  PROVE  /\ \A k \in Nat : \A v \in Node : BackOf(p)[k][v] \in Node
         /\ \A v \in Node : BackOf(p)[0][v] = v
         /\ \A k \in Nat : \A v \in Node : BackOf(p)[k + 1][v] = p[BackOf(p)[k][v]]
<1> DEFINE S == [Node -> Node]
           a == [v \in Node |-> v]
           F == [d \in S |-> [v \in Node |-> p[d[v]]]]
           G(f) == [k \in Nat |-> IF k = 0 THEN a ELSE [v \in Node |-> p[f[k - 1][v]]]]
<1>1. a \in S
  OBVIOUS
<1>2. F \in [S -> S]
  OBVIOUS
<1> HIDE DEF F
<1>3. PICK g \in [Nat -> S] : g[0] = a /\ \A k \in Nat : g[k + 1] = F[g[k]]
  <2>1. Orbits(S, a, F) # {}
    BY <1>1, <1>2, Repeated
  <2> HIDE DEF S, a
  <2> QED
    BY <2>1 DEF Orbits
<1>4. \A k \in Nat : g[k + 1] = [v \in Node |-> p[g[k][v]]]
  BY <1>3 DEF F
<1>5. g = G(g)
  <2>1. ASSUME NEW k \in Nat PROVE g[k] = G(g)[k]
    <3>1. CASE k = 0
      BY <1>3, <3>1
    <3>2. CASE k # 0
      <4>1. k - 1 \in Nat /\ (k - 1) + 1 = k
        BY <3>2
      <4>2. g[(k - 1) + 1] = [v \in Node |-> p[g[k - 1][v]]]
        BY <1>4, <4>1
      <4> QED
        BY <3>2, <4>1, <4>2
    <3> QED
      BY <3>1, <3>2
  <2> QED
    BY <1>3, <2>1
<1> DEFINE s == CHOOSE f : f = G(f)
<1>6. s = G(s)
  <2> HIDE DEF G
  <2> QED
    BY <1>5
<1>7. BackOf(p) = s
  BY DEF BackOf
<1> HIDE DEF s
<1>8. s[0] = a
  BY <1>6
<1>9. ASSUME NEW k \in Nat PROVE s[k + 1] = [v \in Node |-> p[s[k][v]]]
  <2>1. k + 1 \in Nat /\ k + 1 # 0 /\ (k + 1) - 1 = k
    OBVIOUS
  <2> DEFINE j == k + 1
  <2>2. G(s)[j] = [v \in Node |-> p[s[j - 1][v]]]
    BY <2>1, ZenonT(60)
  <2> QED
    BY <1>6, <2>1, <2>2
<1>10. \A k \in Nat : \A v \in Node : s[k + 1][v] = p[s[k][v]]
  BY <1>9
<1>11. \A k \in Nat : \A v \in Node : s[k][v] \in Node
  <2> DEFINE T == {k \in Nat : \A v \in Node : s[k][v] \in Node}
  <2>1. 0 \in T
    BY <1>8
  <2>2. ASSUME NEW k \in Nat, k \in T PROVE k + 1 \in T
    <3>1. \A v \in Node : s[k][v] \in Node
      BY <2>2
    <3>2. \A v \in Node : s[k + 1][v] = p[s[k][v]]
      BY <1>10
    <3>3. \A v \in Node : s[k + 1][v] \in Node
      BY <3>1, <3>2
    <3> QED
      BY <3>3
  <2> HIDE DEF T
  <2>3. \A k \in Nat : k \in T
    BY <2>1, <2>2, NaturalSteps
  <2> QED
    BY <2>3 DEF T
<1> QED
  BY <1>7, <1>8, <1>10, <1>11

(* The first step back may be taken first.                                 *)
LEMMA FirstStepBack ==
  ASSUME NEW p \in [Node -> Node], NEW v \in Node
  PROVE  \A k \in Nat : BackOf(p)[k + 1][v] = BackOf(p)[k][p[v]]
<1> DEFINE T == {k \in Nat : BackOf(p)[k + 1][v] = BackOf(p)[k][p[v]]}
<1>1. /\ \A k \in Nat : \A w \in Node : BackOf(p)[k][w] \in Node
      /\ \A w \in Node : BackOf(p)[0][w] = w
      /\ \A k \in Nat : \A w \in Node : BackOf(p)[k + 1][w] = p[BackOf(p)[k][w]]
  BY BackOfSteps, Zenon
<1>2. 0 \in T
  <2>1. BackOf(p)[0 + 1][v] = p[BackOf(p)[0][v]]
    BY <1>1
  <2> QED
    BY <1>1, <2>1
<1>3. ASSUME NEW k \in Nat, k \in T PROVE k + 1 \in T
  <2>1. k + 1 \in Nat /\ p[v] \in Node
    OBVIOUS
  <2>2. BackOf(p)[(k + 1) + 1][v] = p[BackOf(p)[k + 1][v]]
    BY <1>1, <2>1, Zenon
  <2>3. BackOf(p)[k + 1][p[v]] = p[BackOf(p)[k][p[v]]]
    BY <1>1, <2>1, Zenon
  <2>4. BackOf(p)[k + 1][v] = BackOf(p)[k][p[v]]
    BY <1>3
  <2>5. BackOf(p)[(k + 1) + 1][v] = BackOf(p)[k + 1][p[v]]
    BY <2>2, <2>3, <2>4
  <2> QED
    BY <2>1, <2>5
<1> HIDE DEF T
<1>4. \A k \in Nat : k \in T
  BY <1>2, <1>3, NaturalSteps
<1> QED
  BY <1>4 DEF T

(* Predecessors that agree on a set they do not leave agree all the way.   *)
LEMMA SameWayBack ==
  ASSUME NEW p \in [Node -> Node], NEW q \in [Node -> Node],
         NEW C, C \subseteq Node, \A w \in C : p[w] \in C /\ q[w] = p[w],
         NEW v \in C
  PROVE  \A k \in Nat : BackOf(q)[k][v] = BackOf(p)[k][v]
<1> DEFINE T == {k \in Nat : BackOf(p)[k][v] \in C /\ BackOf(q)[k][v] = BackOf(p)[k][v]}
<1>1. /\ BackOf(p)[0][v] = v /\ BackOf(q)[0][v] = v
      /\ \A k \in Nat : BackOf(p)[k + 1][v] = p[BackOf(p)[k][v]]
      /\ \A k \in Nat : BackOf(q)[k + 1][v] = q[BackOf(q)[k][v]]
  <2>1. /\ \A w \in Node : BackOf(p)[0][w] = w
        /\ \A k \in Nat : \A w \in Node : BackOf(p)[k + 1][w] = p[BackOf(p)[k][w]]
    BY BackOfSteps, Zenon
  <2>2. /\ \A w \in Node : BackOf(q)[0][w] = w
        /\ \A k \in Nat : \A w \in Node : BackOf(q)[k + 1][w] = q[BackOf(q)[k][w]]
    BY BackOfSteps, Zenon
  <2>3. v \in Node
    OBVIOUS
  <2> QED
    BY <2>1, <2>2, <2>3, Zenon
<1>2. 0 \in T
  BY <1>1
<1>3. ASSUME NEW k \in Nat, k \in T PROVE k + 1 \in T
  <2>1. BackOf(p)[k][v] \in C /\ BackOf(q)[k][v] = BackOf(p)[k][v]
    BY <1>3
  <2>2. BackOf(p)[k + 1][v] = p[BackOf(p)[k][v]]
    BY <1>1, Zenon
  <2>3. BackOf(q)[k + 1][v] = q[BackOf(q)[k][v]]
    BY <1>1, Zenon
  <2>4. BackOf(p)[k + 1][v] \in C /\ BackOf(q)[k + 1][v] = BackOf(p)[k + 1][v]
    BY <2>1, <2>2, <2>3
  <2> QED
    BY <2>4
<1> HIDE DEF T
<1>4. \A k \in Nat : k \in T
  BY <1>2, <1>3, NaturalSteps
<1> QED
  BY <1>4 DEF T

(* After cnt iterations, the root is at most cnt predecessors back.        *)
BackInv ==
  pc = "loop" =>
    /\ prev[root] = root
    /\ \A v \in Node : dist[v] < INF => BackOf(prev)[cnt][v] = root

(* An iteration changes no predecessor on the way back from the nodes it   *)
(* does not improve, and puts the others one step behind the node settled. *)
LEMMA BackKept ==
  ASSUME TypeOK, RouteInv, BackInv, NEW u \in Node, Settle(u)
  PROVE  BackInv'
<1>1. /\ pc = "loop" /\ cost' = cost /\ root' = root /\ cnt' = cnt + 1
      /\ \A v \in Node : dist'[v] = IF Improves(u, v) THEN dist[u] + cost[u][v]
                                                      ELSE dist[v]
      /\ \A v \in Node : prev'[v] = IF Improves(u, v) THEN u ELSE prev[v]
  BY DEF Settle, NewPrev
<1>2. prev \in [Node -> Node] /\ root \in Node /\ cnt \in Nat
  BY <1>1, SizesPositive DEF TypeOK
<1>3. prev' \in [Node -> Node]
  BY SettleTyped DEF TypeOK
<1>4. /\ \A v \in Node : dist[v] \in Nat /\ dist[v] <= INF
      /\ \A v, w \in Node : cost[v][w] \in Nat
  BY SizesPositive, CostsNatural DEF TypeOK
<1>5. /\ dist[root] = 0
      /\ \A v \in Node \ {root} : dist[v] < INF =>
           /\ prev[v] \in sptSet
           /\ dist[v] = dist[prev[v]] + cost[prev[v]][v]
  BY <1>1 DEF RouteInv, LoopInv
<1>6. /\ prev[root] = root
      /\ \A v \in Node : dist[v] < INF => BackOf(prev)[cnt][v] = root
  BY <1>1 DEF BackInv
<1> DEFINE C == {w \in Node : dist[w] < INF /\ ~Improves(u, w)}
<1>7. root \in C
  <2>1. ~Improves(u, root)
    BY <1>2, <1>4, <1>5 DEF Improves
  <2> QED
    BY <1>2, <1>5, <2>1, SizesPositive
<1>8. ASSUME NEW w \in C PROVE prev[w] \in C /\ prev'[w] = prev[w]
  <2>1. prev'[w] = prev[w]
    BY <1>1
  <2>2. CASE w = root
    BY <1>6, <1>7, <2>1, <2>2
  <2>3. CASE w # root
    <3>1. prev[w] \in sptSet /\ dist[w] = dist[prev[w]] + cost[prev[w]][w]
      BY <1>5, <2>3
    <3>2. prev[w] \in Node
      BY <1>2
    <3>3. dist[prev[w]] < INF
      <4>1. dist[w] < INF /\ dist[w] \in Nat /\ dist[prev[w]] \in Nat
        BY <1>4, <3>2
      <4>2. cost[prev[w]][w] \in Nat
        BY <1>4, <3>2
      <4> QED
        BY <3>1, <4>1, <4>2, SizesPositive
    <3>4. ~Improves(u, prev[w])
      BY <3>1 DEF Improves
    <3> QED
      BY <2>1, <3>2, <3>3, <3>4
  <2> QED
    BY <2>2, <2>3
<1>9. ASSUME NEW v \in C PROVE BackOf(prev')[cnt][v] = root
  <2>1. C \subseteq Node /\ dist[v] < INF /\ v \in Node
    OBVIOUS
  <2>2. \A w \in C : prev[w] \in C /\ prev'[w] = prev[w]
    BY <1>8
  <2> HIDE DEF C
  <2>3. \A k \in Nat : BackOf(prev')[k][v] = BackOf(prev)[k][v]
    BY <1>2, <1>3, <2>1, <2>2, SameWayBack
  <2> QED
    BY <1>2, <1>6, <2>1, <2>3
<1>10. prev'[root] = root
  BY <1>6, <1>7, <1>8
<1>11. ASSUME NEW v \in Node, dist'[v] < INF
       PROVE  BackOf(prev')[cnt + 1][v] = root
  <2>1. CASE Improves(u, v)
    <3>1. u \in C
      <4>1. dist[u] + cost[u][v] < dist[v] /\ ~Improves(u, u)
        BY <2>1 DEF Improves
      <4>2. dist[u] \in Nat /\ dist[v] \in Nat /\ dist[v] <= INF /\ cost[u][v] \in Nat
        BY <1>4
      <4>3. dist[u] < INF
        BY <4>1, <4>2, SizesPositive
      <4> QED
        BY <4>1, <4>3
    <3>2. prev'[v] = u
      BY <1>1, <2>1
    <3>3. BackOf(prev')[cnt + 1][v] = BackOf(prev')[cnt][prev'[v]]
      BY <1>2, <1>3, FirstStepBack
    <3>4. BackOf(prev')[cnt][u] = root
      BY <1>9, <3>1
    <3> QED
      BY <3>2, <3>3, <3>4
  <2>2. CASE ~Improves(u, v)
    <3>1. v \in C
      BY <1>1, <1>11, <2>2
    <3>2. BackOf(prev')[cnt][v] = root
      BY <1>9, <3>1
    <3>3. \A k \in Nat : \A w \in Node :
            BackOf(prev')[k + 1][w] = prev'[BackOf(prev')[k][w]]
      BY <1>3, BackOfSteps, Zenon
    <3>4. BackOf(prev')[cnt + 1][v] = prev'[BackOf(prev')[cnt][v]]
      BY <1>2, <3>3, Zenon
    <3> QED
      BY <1>10, <3>2, <3>4
  <2> QED
    BY <2>1, <2>2
<1>12. \A v \in Node : dist'[v] < INF => BackOf(prev')[cnt'][v] = root'
  BY <1>1, <1>11
<1> QED
  BY <1>1, <1>10, <1>12 DEF BackInv

LEMMA NextKeepsBack == TypeOK /\ RouteInv /\ BackInv /\ [Next]_vars => BackInv'
<1> SUFFICES ASSUME TypeOK, RouteInv, BackInv, [Next]_vars PROVE BackInv'
  OBVIOUS
<1>1. CASE Check
  BY <1>1 DEF Check, BackInv
<1>2. CASE Start
  <2>1. /\ root' = root /\ root \in Node /\ cnt' = 0 /\ prev'[root] = root
        /\ prev' \in [Node -> Node]
        /\ \A v \in Node : dist'[v] < INF => v = root
    <3>1. /\ root' = root /\ root \in Node /\ cnt' = 0
          /\ prev' = [prev EXCEPT ![root] = root]
          /\ dist' = [v \in Node |-> IF v = root THEN 0 ELSE INF]
      BY <1>2 DEF Start, DistFrom
    <3>2. prev'[root] = root /\ prev' \in [Node -> Node]
      BY <3>1 DEF TypeOK
    <3>3. \A v \in Node : dist'[v] < INF => v = root
      BY <3>1, SizesPositive
    <3> QED
      BY <3>1, <3>2, <3>3
  <2>2. \A v \in Node : BackOf(prev')[0][v] = v
    BY <2>1, BackOfSteps, Zenon
  <2> QED
    BY <2>1, <2>2 DEF BackInv
<1>3. ASSUME NEW u \in Node, Settle(u) PROVE BackInv'
  BY <1>3, BackKept
<1>4. CASE PrintRoot
  BY <1>4 DEF PrintRoot, BackInv
<1>5. CASE UNCHANGED vars
  BY <1>5 DEF vars, BackInv
<1> QED
  BY <1>1, <1>2, <1>3, <1>4, <1>5 DEF Next

(* The predecessors printed with an answer lead back to the root, within   *)
(* the number of nodes: zero-cost links close no cycle (lines 72 to 80).   *)
THEOREM WayBack == Spec => []PrevReachesRoot
<1>1. Spec => []BackInv
  <2>1. Init => BackInv
    BY DEF Init, BackInv
  <2> QED
    BY <2>1, NextKeepsBack, RoutesInvariant, PTL DEF Spec
<1>2. BackInv => PrevReachesRoot
  BY BackIsBackOf DEF BackInv, PrevReachesRoot, Answered, Iterations
<1> QED
  BY <1>1, <1>2, PTL
=============================================================================
