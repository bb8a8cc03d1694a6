CONSTANTS
  packet1 = packet1
  packet2 = packet2
  packet3 = packet3
  packet4 = packet4
  addrD = addrD
  addrE = addrE
  Packet = {packet1, packet2, packet3, packet4}
  Addr = {addrD, addrE}
  daddr <- OneForE
  NULL = null
  Limit = 3
  Timeout = 1
  MaxNow = 2
SPECIFICATION FairSpec
\* The clock stops at MaxNow; calls go on.
INVARIANTS TypeOK ListRepresents OldestFirst
PROPERTIES ImplementsPacketBuffer CallsReturn
