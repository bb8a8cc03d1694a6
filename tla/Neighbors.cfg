CONSTANTS
  nodeA = nodeA
  nodeB = nodeB
  nodeC = nodeC
  Neighbor = {nodeA, nodeB, nodeC}
  HELLO_INTERVAL = 4
  ALLOWED_HELLO_LOSS = 3
  MAX_NB = 2
SPECIFICATION Spec
SYMMETRY Order
INVARIANTS TypeOK GoneInTime
PROPERTIES HeardIsKept AllReported
