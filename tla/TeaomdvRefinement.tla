-------------------------- MODULE TeaomdvRefinement --------------------------
(***************************************************************************)
(* The route entry of node self for node dest behaves, in the network, as  *)
(* RouteEntry says one may.  self and dest stand for any two nodes, so the *)
(* theorems of RouteEntryProofs hold of every entry of every agent.        *)
(***************************************************************************)
EXTENDS Teaomdv

CONSTANTS self, dest,
          MaxSeqno, MaxHops   \* the bounds RouteEntry has for what messages carry

ASSUME RefinementAssumption ==
  /\ self \in Node /\ dest \in Node
  /\ MaxSeqno \in Nat
  /\ MaxHops \in 0 .. INFINITY2 - 1

\* What RouteEntry sees of the entry of node n for node x.
EntryOf(n, x) == Bare(node[n].rt[x])

Abstract == INSTANCE RouteEntry WITH Addr <- Node, rt <- EntryOf(self, dest)

\* The messages in flight carry no larger numbers than RouteEntry allows for.
InBounds ==
  \A pk \in net : LET m == pk.msg IN
    /\ m.type = "RREQ" => m.srcseqno <= MaxSeqno /\ m.hops <= MaxHops
    /\ m.type = "RREP" => m.seqno <= MaxSeqno /\ m.hops <= MaxHops
    /\ m.type = "RERR" => \A d \in m.dests : m.seqno[d] <= MaxSeqno
    /\ m.type = "PTA"  => m.seqno <= MaxSeqno

(* Whatever a handler of teaomdv.cc does to the entry in one step, with all the
   calls it makes, is one step of RouteEntry, or none. *)
EntryImplementsRouteEntry == Abstract!Spec
=============================================================================
