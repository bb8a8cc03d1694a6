CONSTANTS
  nodeS = nodeS
  nodeA = nodeA
  nodeB = nodeB
  nodeC = nodeC
  nodeD = nodeD
  Node = {nodeS, nodeA, nodeB, nodeD}
  Link <- Diamond
  Zero = zero
  Junk = junk
  MaxPaths = 3
  LenDiff = 1
  RREQ_RETRIES = 3
  Calm = TRUE
  MaxBid = 1
  Traffic <- FromSAB
  Suspects = {nodeD}
  Events = {"neighbor", "trust", "lose"}
  MaxEvents = 5
  MaxData = 3
SPECIFICATION Spec
\* The traffic is finite: once it is delivered the network may fall silent.
CHECK_DEADLOCK FALSE
ACTION_CONSTRAINT Story
INVARIANTS LoopFree
