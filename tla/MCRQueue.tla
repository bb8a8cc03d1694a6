------------------------------ MODULE MCRQueue ------------------------------
(* A buffer shared by the packets for two destinations. *)
EXTENDS RQueue, TLC

CONSTANTS packet1, packet2, packet3, packet4, addrD, addrE

\* Three packets for addrD and one for addrE.
OneForE == [x \in Packet |-> IF x = packet4 THEN addrE ELSE addrD]

\* The packets for addrD are interchangeable.
SameAddr == Permutations({packet1, packet2, packet3})
=============================================================================
