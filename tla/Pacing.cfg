CONSTANTS
  destD = destD
  destE = destE
  Dest = {destD, destE}
  Limit = 2
  RREQ_RETRIES = 3
  MAX_RREQ_TIMEOUT = 100
  TTL_START = 5
  TTL_INCREMENT = 2
  TTL_THRESHOLD = 7
  NETWORK_DIAMETER = 30
  NODE_TRAVERSAL_TIME = 3
  FREQUENCY = 50
  INFINITY2 = 255
  Quantum = 25
  Latency = 75
  Distances <- Moving
  MaxLost = 3
SPECIFICATION Spec
INVARIANTS TypeOK WaitBounded NoneWaitForUp ReachableNotGivenUp SearchesAfresh
