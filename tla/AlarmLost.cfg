CONSTANTS
  nodeS = nodeS
  nodeA = nodeA
  nodeB = nodeB
  nodeC = nodeC
  nodeD = nodeD
  Node = {nodeS, nodeA, nodeB, nodeD}
  Link <- Line
  Zero = zero
  Junk = junk
  MaxPaths = 3
  LenDiff = 1
  RREQ_RETRIES = 3
  Calm = TRUE
  MaxBid = 1
  Traffic <- FromS
  Suspects = {nodeD}
  Events = {"trust"}
  MaxEvents = 1
  MaxData = 2
SPECIFICATION Spec
\* The traffic is finite: once it is delivered the network may fall silent.
CHECK_DEADLOCK FALSE
INVARIANTS PrecursorsTold
