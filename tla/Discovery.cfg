CONSTANTS
  nodeS = nodeS
  nodeA = nodeA
  nodeB = nodeB
  nodeC = nodeC
  nodeD = nodeD
  Node = {nodeS, nodeA, nodeB, nodeC, nodeD}
  Link <- Crossed
  Zero = zero
  Junk = junk
  MaxPaths = 3
  LenDiff = 1
  RREQ_RETRIES = 3
  Calm = TRUE
  MaxBid = 1
  Traffic <- FromS
  Suspects = {}
  Events = {}
  MaxEvents = 0
  MaxData = 1
SPECIFICATION FairSpec
\* The traffic is finite: once it is delivered the network may fall silent.
CHECK_DEADLOCK FALSE
INVARIANTS EndToEndDisjoint
PROPERTIES AllDelivered
