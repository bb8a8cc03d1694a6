------------------------------ MODULE MCTeaomdv ------------------------------
(***************************************************************************)
(* Small networks for Teaomdv.  nodeS is the source of the traffic and     *)
(* nodeD its destination; a configuration takes Link and Traffic from here.*)
(***************************************************************************)
EXTENDS Teaomdv, TLC

CONSTANTS nodeS, nodeA, nodeB, nodeC, nodeD

Both(edges) == edges \cup {<<e[2], e[1]>> : e \in edges}

\* Ways of two hops from nodeS to nodeD, one over each relay.
Over(relays) == Both({<<nodeS, r>> : r \in relays} \cup {<<r, nodeD>> : r \in relays})

\* One relay, and two in a row.
Chain    == Over({nodeA})
Line     == Both({<<nodeS, nodeA>>, <<nodeA, nodeB>>, <<nodeB, nodeD>>})

\* A direct way and a detour.
Triangle == Chain \cup Both({<<nodeS, nodeD>>})

\* Two, and three, node-disjoint ways.
Diamond  == Over({nodeA, nodeB})
Star     == Over({nodeA, nodeB, nodeC})

\* Two ways that could both lead through nodeC.
Crossed  == Both({<<nodeS, nodeA>>, <<nodeS, nodeB>>, <<nodeA, nodeC>>, <<nodeB, nodeC>>,
                  <<nodeC, nodeD>>, <<nodeB, nodeD>>})

FromS    == {<<nodeS, nodeD>>}
FromSD   == {<<nodeS, nodeD>>, <<nodeD, nodeS>>}
FromSA   == {<<nodeS, nodeD>>, <<nodeA, nodeD>>}
FromSAB  == {<<nodeS, nodeD>>, <<nodeA, nodeD>>, <<nodeB, nodeD>>}
FromSAtoS == {<<nodeS, nodeD>>, <<nodeA, nodeS>>}

\* The relays of a diamond are interchangeable.
Relays2 == Permutations({nodeA, nodeB})
Relays3 == Permutations({nodeA, nodeB, nodeC})
=============================================================================
