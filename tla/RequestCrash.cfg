CONSTANTS
  nodeS = nodeS
  nodeA = nodeA
  nodeB = nodeB
  nodeC = nodeC
  nodeD = nodeD
  Node = {nodeS, nodeA, nodeD}
  Link <- Chain
  Zero = zero
  Junk = junk
  MaxPaths = 3
  LenDiff = 1
  RREQ_RETRIES = 3
  Calm = TRUE
  MaxBid = 2
  Traffic <- FromSAtoS
  Suspects = {nodeS}
  Events = {"trust", "lose"}
  MaxEvents = 3
  MaxData = 3
SPECIFICATION Spec
\* The traffic is finite: once it is delivered the network may fall silent.
CHECK_DEADLOCK FALSE
INVARIANTS NoCrash
