CONSTANTS
  nodeS = nodeS
  nodeA = nodeA
  nodeB = nodeB
  nodeC = nodeC
  nodeD = nodeD
  Node = {nodeS, nodeA, nodeD}
  Link <- Triangle
  Zero = zero
  Junk = junk
  MaxPaths = 3
  LenDiff = 1
  RREQ_RETRIES = 3
  Calm = FALSE
  MaxBid = 1
  Traffic <- FromSA
  Suspects = {}
  Events = {"forget"}
  MaxEvents = 1
  MaxData = 2
SPECIFICATION Spec
\* The traffic is finite: once it is delivered the network may fall silent.
CHECK_DEADLOCK FALSE
INVARIANTS LoopFree
PROPERTIES AdvertisedFinal
