CONSTANTS
  nodeS = nodeS
  nodeA = nodeA
  nodeB = nodeB
  nodeC = nodeC
  nodeD = nodeD
  Node = {nodeS, nodeA, nodeB, nodeD}
  Link <- Diamond
  Zero = zero
  Junk = junk
  MaxPaths = 3
  LenDiff = 1
  RREQ_RETRIES = 1
  Calm = TRUE
  MaxBid = 2
  Traffic <- FromS
  Suspects = {nodeA, nodeB, nodeD}
  Events = {"lose", "neighbor", "expire", "trust"}
  MaxEvents = 2
  MaxData = 3
SPECIFICATION Spec
\* The traffic is finite: once it is delivered the network may fall silent.
CHECK_DEADLOCK FALSE
SYMMETRY Relays2
INVARIANTS TypeOK HopsWithinDiameter RouteOrder SeqnoIssued UpSeqnoEven NoDanglingRoute PrecursorsTold OneCopy ErrorsFit
PROPERTIES DistrustedAvoided
