-------------------------------- MODULE Agent --------------------------------
(***************************************************************************)
(* One TEAOMDV routing agent as a record, and the routines its handlers    *)
(* share: each maps the agent to the agent after the call, and adds what   *)
(* it hands to the link layer to the field out.                            *)
(*                                                                         *)
(* Time is abstracted to what may happen at any moment, and a trust value  *)
(* to whether it reaches TrustThreshold: the comparisons with the          *)
(* threshold are the only use the routing code makes of TV, FPT and RPT.   *)
(***************************************************************************)
EXTENDS RtEntry, FiniteSets, FiniteSetsExt

CONSTANTS Node,    \* the nodes of the network
          Link,    \* the pairs <<n, m>> such that m hears n
          Zero,    \* the address 0, prev_hop_ of a packet its source sends
          RREQ_RETRIES,  \* 3 in teaomdv.h
          MaxBid   \* bound on the route requests of one node

ASSUME AgentAssumption ==
  /\ IsFiniteSet(Node)
  /\ RREQ_RETRIES \in Nat
  /\ MaxBid \in Nat

Nbr(n) == {m \in Node : <<n, m>> \in Link}

\* teaomdv_rt_entry::teaomdv_rt_entry
NewEntry ==
  [seqno |-> 0, adv |-> INFINITY2, paths |-> << >>, up |-> FALSE, highest |-> 0,
   error |-> FALSE, pcs |-> {}]

\* TEAOMDV::TEAOMDV.  heard holds the broadcast ids of bihead, answered those
\* whose count is 1, asked the destinations whose rt_req_timeout has been set
\* since their route was last up, and tries bounds each rt_req_cnt.  The buffer is a
\* queue for each destination: deque(dst) and find(dst) are all that read it.
NewAgent ==
  [rt |-> [d \in Node |-> NewEntry], nb |-> {}, distrusted |-> {},
   seqno |-> 2, bid |-> 1, heard |-> {}, answered |-> {}, asked |-> {},
   tries |-> [d \in Node |-> 0],
   rqueue |-> [d \in Node |-> << >>], out |-> {}, crashed |-> FALSE]
-----------------------------------------------------------------------------
(* Messages. *)

Rreq(src, id, srcseqno, dst, dstseqno, hops, first, trusted) ==
  [type |-> "RREQ", src |-> src, id |-> id, srcseqno |-> srcseqno, dst |-> dst,
   dstseqno |-> dstseqno, hops |-> hops, first |-> first, trusted |-> trusted]

Rrep(ipdst, id, dst, seqno, hops, first, trusted) ==
  [type |-> "RREP", ipdst |-> ipdst, id |-> id, dst |-> dst, seqno |-> seqno,
   hops |-> hops, first |-> first, trusted |-> trusted]

\* The unreachable destinations, each with the sequence number in the table rt.
Rerr(dests, rt) ==
  [type |-> "RERR", dests |-> dests,
   seqno |-> [d \in Node |-> IF d \in dests THEN rt[d].seqno ELSE 0]]

Pta(dst, seqno, last) == [type |-> "PTA", dst |-> dst, seqno |-> seqno, last |-> last]

Data(src, dst, no) == [type |-> "DATA", src |-> src, dst |-> dst, no |-> no]

Unicast(n, to, msg) ==
  IF to \in Nbr(n) THEN {[from |-> n, to |-> to, msg |-> msg]} ELSE {}

Broadcast(n, msg) == UNION {Unicast(n, to, msg) : to \in Nbr(n)}

Send(w, packets) == [w EXCEPT !.out = @ \cup packets]
-----------------------------------------------------------------------------
\* Faulty: the trust value of the next hop is not consulted.
Trusts_PathOnly(w, p) == p.trusted

\* A path is trusted while neither its FPT nor the TV of its next hop is below
\* the threshold.
Trusts(w, p) == p.trusted /\ p.nexthop \notin w.distrusted

\* Faulty: a route without a trusted path is left up.
Forward_Stays(n, w, p, prev) ==
  LET e     == [w.rt[p.dst] EXCEPT !.pcs = @ \cup {prev}]
      path  == path_find(e)
      heard == [w EXCEPT !.nb = @ \cup {path.nexthop}]
  IN  IF Trusts(w, path)
      THEN Send([heard EXCEPT !.rt[p.dst] = [e EXCEPT !.error = @ \/ p.src # n]],
                Unicast(n, path.nexthop, p))
      ELSE Send([heard EXCEPT !.rt[p.dst] = path_delete(e, path.nexthop)],
                UNION {Unicast(n, pc, Pta(p.dst, e.seqno, path.lasthop)) : pc \in e.pcs})

\* forward(rt, p) of a data packet over an UP route.  prev is the packet's
\* prev_hop_; every precursor is told of a next hop no longer trusted.
Forward(n, w, p, prev) ==
  LET e     == [w.rt[p.dst] EXCEPT !.pcs = @ \cup {prev}]
      path  == path_find(e)
      heard == [w EXCEPT !.nb = @ \cup {path.nexthop}]
  IN  IF Trusts(w, path)
      THEN Send([heard EXCEPT !.rt[p.dst] = [e EXCEPT !.error = @ \/ p.src # n]],
                Unicast(n, path.nexthop, p))
      ELSE Send([heard EXCEPT !.rt[p.dst] = DownIfEmpty(path_delete(e, path.nexthop))],
                UNION {Unicast(n, pc, Pta(p.dst, e.seqno, path.lasthop)) : pc \in e.pcs})

\* One packet of several: the route may have gone down with an earlier one, after
\* which a packet taken out of the buffer is never seen again.
ForwardIfUp(n, prev, w, p) == IF w.rt[p.dst].up THEN Forward(n, w, p, prev) ELSE w

ForwardAll(n, prev, w, packets) ==
  FoldLeft(LAMBDA v, p : ForwardIfUp(n, prev, v, p), w, packets)

\* Faulty: the packets are sent but stay in the buffer; are dequeued but not sent.
Flush_Keeps(n, w, d) ==
  IF ~w.rt[d].up THEN w
  ELSE ForwardAll(n, Zero, [w EXCEPT !.asked = @ \ {d}, !.tries[d] = 0], w.rqueue[d])

Flush_Drops(n, w, d) ==
  IF ~w.rt[d].up THEN w
  ELSE [w EXCEPT !.asked = @ \ {d}, !.tries[d] = 0, !.rqueue[d] = << >>]

\* The route to d is up: reset the request state and send what waits for it.
Flush(n, w, d) ==
  IF ~w.rt[d].up THEN w
  ELSE ForwardAll(n, Zero,
                  [w EXCEPT !.asked = @ \ {d}, !.tries[d] = 0, !.rqueue[d] = << >>],
                  w.rqueue[d])

NoPacketFor(w, d) == w.rqueue[d] = << >>

GiveUp(w, d) == [w EXCEPT !.tries[d] = 0, !.rqueue[d] = << >>]

\* sendRequest(d) for a route that is down: the agents it can leave.  After an
\* earlier request it may be too early for another.  rt_req_cnt counts only the
\* requests sent network-wide, so it is at most tries.
SendRequest(n, w, d) ==
  {v \in {w} : d \in w.asked}
  \cup {v \in {GiveUp(w, d)} : w.tries[d] > RREQ_RETRIES}
  \cup {v \in {Send([w EXCEPT !.bid = @ + 1, !.seqno = @ + 2, !.asked = @ \cup {d},
                              !.tries[d] = @ + 1],
                    Broadcast(n, Rreq(n, w.bid, w.seqno + 2, d, w.rt[d].seqno, 0, n, TRUE)))} :
          w.bid <= MaxBid}

\* sendRequest for each of ds in turn.
SendRequests(n, w, ds) ==
  FoldLeft(LAMBDA vs, d : UNION {SendRequest(n, v, d) : v \in vs}, {w}, ds)

\* The route entries become after; each route that went down with its error
\* flag set is reported in one RERR (handle_link_failure, recvError).
ReportErrors(n, w, after) ==
  LET lost == {d \in Node : w.rt[d].up /\ ~after[d].up /\ w.rt[d].error}
  IN  Send([w EXCEPT !.rt = [d \in Node |-> [after[d] EXCEPT !.error = @ /\ d \notin lost]]],
           IF lost = {} THEN {}
           ELSE Broadcast(n, Rerr(lost, after)))

handle_link_failure(n, w, id) ==
  ReportErrors(n, w, [d \in Node |-> LinkFailure(w.rt[d], id)])
-----------------------------------------------------------------------------
(* Routes. *)

\* Path q when a RREP has come over path p: the trust of that path is set anew.
Refreshed(w, q, p) ==
  IF q.nexthop # p.nexthop \/ q.lasthop # p.lasthop THEN q
  ELSE [q EXCEPT !.trusted = p.nexthop \notin w.nb \/ (@ /\ p.nexthop \notin w.distrusted)]

\* recvReply: a RREP over a path already known refreshes its trust.
LearnReply(w, e, p, s) ==
  IF ~Fresher(e, s) /\ Candidate(e, p, s) /\ Known(e, p)
  THEN [e EXCEPT !.paths = [i \in DOMAIN @ |-> Refreshed(w, @[i], p)]]
  ELSE Learn(e, p, s)

\* The offer is taken, or the path is there already.
Offered(e, p, s) == Fresher(e, s) \/ (Candidate(e, p, s) /\ (Known(e, p) \/ Admits(e, p)))
=============================================================================
