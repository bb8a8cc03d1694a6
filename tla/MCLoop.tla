------------------------------- MODULE MCLoop -------------------------------
(***************************************************************************)
(* A search for a routing loop in the diamond, narrowed to the histories   *)
(* in which nodeS, nodeA and nodeB send one packet each, in this order,    *)
(* and then the relays lose, regain or distrust nodeD.  The narrowing only *)
(* leaves out behaviours: every one it keeps is a behaviour of Teaomdv.    *)
(***************************************************************************)
EXTENDS MCTeaomdv

Senders == <<nodeS, nodeA, nodeB>>

Only(ns) == \A n \in Node \ ns : node'[n] = node[n]

Changed(x, y) == (x \ y) \cup (y \ x)

\* With nothing in flight: the next sender sends, or a relay's view of nodeD changes.
QuietMove ==
  \/ sent' # sent /\ Only({Senders[sent + 1]})
  \/ /\ sent' = sent
     /\ sent > 0
     /\ Only({nodeA, nodeB})
     /\ \A n \in {nodeA, nodeB} : Changed(node[n].nb, node'[n].nb) \subseteq {nodeD}
     /\ node'[nodeB].distrusted = {}

\* Otherwise a packet arrives, or a RERR for nodeS is lost.
Flight ==
  /\ sent' = sent
  /\ IF events' = events
     THEN ~(net \subseteq net')
     ELSE /\ UNCHANGED node
          /\ \A pk \in net \ net' : pk.msg.type = "RERR" /\ pk.to = nodeS

Story == IF net = {} THEN QuietMove ELSE Flight
=============================================================================
