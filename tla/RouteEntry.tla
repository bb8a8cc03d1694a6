----------------------------- MODULE RouteEntry -----------------------------
(***************************************************************************)
(* What the rest of an agent may rely on of ONE routing-table entry of one *)
(* node, whatever the network, the clock and the trust values do: messages *)
(* arrive in any order with any contents, paths expire at any time, and    *)
(* the trust in a next hop may fail at any packet.  Each action is the     *)
(* effect of a whole handler of teaomdv.cc on the entry.                   *)
(***************************************************************************)
EXTENDS RtEntry

CONSTANTS Addr,      \* addresses of next hops and last hops
          MaxSeqno,  \* bound on the sequence numbers the network carries
          MaxHops    \* bound on the hop count a message carries

ASSUME RouteEntryAssumption ==
  /\ MaxSeqno \in Nat
  /\ MaxHops \in 0 .. INFINITY2 - 1

VARIABLE rt

Path  == [nexthop : Addr, hopcount : 1 .. MaxHops + 1, lasthop : Addr]
Entry == [seqno : Nat, adv : 1 .. MaxHops + 1 \cup {INFINITY, INFINITY2},
          paths : Seq(Path), up : BOOLEAN, highest : Nat]

TypeOK == rt \in Entry

\* teaomdv_rt_entry::teaomdv_rt_entry
Init ==
  rt = [seqno |-> 0, adv |-> INFINITY2, paths |-> << >>, up |-> FALSE, highest |-> 0]
-----------------------------------------------------------------------------
\* forward() gives up the first j paths, one distrusted next hop at a time.
Distrusted(e, j) ==
  IF e.up THEN DownIfEmpty([e EXCEPT !.paths = SubSeq(@, j + 1, Len(@))]) ELSE e

\* recvRequest and recvReply: learn a path, flush buffered packets along the
\* route (each may expose a distrusted next hop), then perhaps advertise it.
ReceiveRoute ==
  \E p \in Path, s \in 1 .. MaxSeqno :
    \E j \in 0 .. Len(Learn(rt, p, s).paths) :
      LET e == Distrusted(Learn(rt, p, s), j)
      IN  \/ rt' = e
          \/ ~path_empty(e) /\ rt' = Advertise(e)

\* recvRequest answering from the table.
AnswerRequest == rt.up /\ rt' = Advertise(rt)

\* forward() of a data packet over a next hop no longer trusted.
ForwardDistrusted ==
  /\ rt.up
  /\ rt' = Distrusted(rt, 1)

\* nb_delete: the link to id is gone, then the packets taken back from the
\* interface queue are forwarded over what is left of the route.
NeighborLost ==
  \E id \in Addr : \E j \in 0 .. Len(LinkFailure(rt, id).paths) :
    rt' = Distrusted(LinkFailure(rt, id), j)

recvError ==
  \E from \in Addr, s \in 0 .. MaxSeqno : rt' = ErrorReceived(rt, from, s)

recvPta ==
  \E from, last \in Addr, s \in 0 .. MaxSeqno : rt' = PtaReceived(rt, from, s, last)

rt_purge ==
  /\ rt.up
  /\ \E kept \in path_purge(rt) : rt' = Purged(rt, kept)

Next ==
  \/ ReceiveRoute
  \/ AnswerRequest
  \/ ForwardDistrusted
  \/ NeighborLost
  \/ recvError
  \/ recvPta
  \/ rt_purge

Spec == Init /\ [][Next]_rt
-----------------------------------------------------------------------------
(* The alternatives are node-disjoint as far as a node can see: no two paths
   of an entry share their next hop or their last hop, and there are never more
   than MaxPaths (path_insert guarded by new_disjoint_path, in every handler). *)
PathsDisjoint ==
  /\ Len(rt.paths) <= MaxPaths
  /\ \A i, j \in DOMAIN rt.paths :
       i # j => /\ rt.paths[i].nexthop # rt.paths[j].nexthop
                /\ rt.paths[i].lasthop # rt.paths[j].lasthop

(* Between two events an UP entry has a path: path_find() is dereferenced
   unchecked by forward(), recvRequest() and recvReply(). *)
UpHasPath == rt.up => ~path_empty(rt)

(* No path is longer than the hop count the node has advertised for it: the
   rule the loop freedom of AOMDV rests on. *)
HopsWithinAdvertised == \A h \in Hops(rt) : h <= rt.adv

(* rt_seqno never goes back, over link failures, errors, PTAs and expiry. *)
SeqnoMonotone == [][rt'.seqno >= rt.seqno]_rt

(* While the route stays up at one sequence number, a hop count once
   advertised is final. *)
AdvertisedFinal ==
  [][ (/\ rt.up /\ rt'.up
       /\ rt'.seqno = rt.seqno
       /\ rt.adv # INFINITY) => rt'.adv = rt.adv ]_rt
=============================================================================
