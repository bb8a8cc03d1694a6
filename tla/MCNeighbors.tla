---------------------------- MODULE MCNeighbors ----------------------------
EXTENDS Neighbors, TLC

CONSTANTS nodeA, nodeB, nodeC

Order == Permutations(Neighbor)
=============================================================================
