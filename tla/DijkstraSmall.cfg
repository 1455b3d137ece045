\* Three nodes, every matrix of small costs: asymmetric links, zeros off the
\* diagonal, unreachable nodes, routes as long as INF, rejected tables.
SPECIFICATION Spec
CONSTANTS
  NNODE = 3
  INF = 3
  Costs <- SmallMatrices
INVARIANTS IndexInBounds NoShortcut DistShortest PrevTight PrevReachesRoot
CHECK_DEADLOCK FALSE
