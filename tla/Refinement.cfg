CONSTANTS
  nodeS = nodeS
  nodeA = nodeA
  nodeB = nodeB
  nodeC = nodeC
  nodeD = nodeD
  Node = {nodeS, nodeA, nodeB, nodeD}
  Link <- Diamond
  Zero = zero
  Junk = junk
  MaxPaths = 3
  LenDiff = 1
  RREQ_RETRIES = 3
  Calm = TRUE
  MaxBid = 1
  Traffic <- FromS
  Suspects = {nodeA, nodeD}
  Events = {"trust", "expire", "neighbor"}
  MaxEvents = 2
  MaxData = 2
  self = nodeA
  dest = nodeD
  MaxSeqno = 4
  MaxHops = 1
SPECIFICATION Spec
\* The traffic is finite: once it is delivered the network may fall silent.
CHECK_DEADLOCK FALSE
INVARIANTS InBounds
PROPERTIES EntryImplementsRouteEntry
