CONSTANTS
  nodeA = nodeA
  nodeB = nodeB
  Neighbor = {nodeA, nodeB}
  NextHop = {nodeA}
  Capacity <- Arrays
  Enough <- Minima
  TrustThreshold = 700
  Delivery = {512, 1142}
  Opinions = {1000}
  GoodOpinions = {1000}
  Met = {2}
  MaxRcoms = 1
  MaxPackets = 4
  MaxWindows = 2
SPECIFICATION Spec
CONSTRAINT WindowBound
INVARIANTS TypeOK HonestTrusted DropperDistrusted EachJudgedOnce
