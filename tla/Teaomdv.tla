------------------------------- MODULE Teaomdv -------------------------------
(***************************************************************************)
(* A network of TEAOMDV agents: route discovery, data forwarding, route    *)
(* errors and trust alarms.  node[n] is the agent of node n, net the       *)
(* packets in flight (in an interface queue or on the air), which arrive   *)
(* in any order: broadcasts are jittered, unicasts are not.                *)
(***************************************************************************)
EXTENDS Agent

CONSTANTS Traffic,    \* pairs <<source, destination>> of data flows
          Suspects,   \* nodes whose trust value may fall below the threshold
          Events,     \* what the environment may do: "lose" a packet,
              \* "expire" paths, "forget" broadcast ids, take a "neighbor" for gone,
              \* revise "trust"
          MaxEvents,  \* bound on the number of times it does it
          MaxData,    \* bound on the number of data packets
          Calm,       \* whether timers and the application wait for quiet
          Junk        \* an address read from freed memory

ASSUME TeaomdvAssumption ==
  /\ Traffic \subseteq Node \X Node
  /\ MaxData \in Nat

VARIABLES node, net, sent, delivered, events

vars == <<node, net, sent, delivered, events>>

Init ==
  /\ node = [n \in Node |-> NewAgent]
  /\ net = {}
  /\ sent = 0
  /\ delivered = {}
  /\ events = [what \in Events |-> 0]

Running == \A n \in Node : ~node[n].crashed

\* Agent n becomes w, having consumed the packets gone.
Step(n, w, gone) ==
  /\ Running
  /\ node' = [node EXCEPT ![n] = [w EXCEPT !.out = {}]]
  /\ net' = (net \ gone) \cup w.out

\* The environment does one of the things it may do.
Event(what) ==
  /\ what \in Events
  /\ MapThenSumSet(LAMBDA e : events[e], Events) < MaxEvents
  /\ events' = [events EXCEPT ![what] = @ + 1]
  /\ UNCHANGED <<sent, delivered>>

\* The kinds of event that have happened.
Happened == {what \in Events : events[what] > 0}

\* In a calm run the application and the timers act only when nothing is in
\* flight; packets still arrive in any order.
Quiet == Calm => net = {}

\* n handles pk, a packet of the given type that has reached it.
Receives(n, pk, type) ==
  /\ pk \in net
  /\ pk.to = n
  /\ pk.msg.type = type
  /\ UNCHANGED <<sent, events>>
  /\ type # "DATA" => UNCHANGED delivered
-----------------------------------------------------------------------------
(* Data. *)

\* recv and rt_resolve for a packet n originates.
AppSend(n, d) ==
  /\ Quiet
  /\ sent < MaxData
  /\ sent' = sent + 1
  /\ UNCHANGED <<delivered, events>>
  /\ LET p == Data(n, d, sent)
         w == node[n]
     IN  IF w.rt[d].up
         THEN Step(n, Forward(n, w, p, Zero), {})
         ELSE \E v \in SendRequest(n, [w EXCEPT !.rqueue[d] = Append(@, p)], d) :
                Step(n, v, {})

\* recv and rt_resolve for a packet of another node, or back at its source.
\* The packet for n itself goes to the application.
RecvData(n) ==
  \E pk \in net :
    /\ Receives(n, pk, "DATA")
    /\ delivered' = IF n = pk.msg.dst THEN delivered \cup {pk.msg.no} ELSE delivered
    /\ LET d == pk.msg.dst
           w == node[n]
       IN  Step(n,
                IF n \in {pk.msg.src, d} THEN w
                ELSE IF w.rt[d].up THEN Forward(n, w, pk.msg, pk.from)
                ELSE Send(w, Broadcast(n, Rerr({d}, w.rt))),
                {pk})
-----------------------------------------------------------------------------
(* recvRequest *)

\* Whether RPT still reaches the required trust; 0.1 is added to it when the
\* previous hop is unknown.
RequestTrust(w, pk) ==
  IF pk.from \notin w.nb THEN {TRUE, pk.msg.trusted}
  ELSE {pk.msg.trusted /\ pk.from \notin w.distrusted}

ReversePath(n, pk) ==
  [nexthop |-> pk.from, hopcount |-> pk.msg.hops + 1,
   lasthop |-> IF pk.msg.hops = 0 THEN n ELSE pk.msg.first, trusted |-> TRUE]

Id(pk) == <<pk.msg.src, pk.msg.id>>

\* The handler returns after caching the broadcast id: the RREQ is older than
\* the route, or its path is too long, or (at the destination) shares a next
\* hop or a last hop with a path that is no longer.
RequestUseless(n, pk, e) ==
  LET p == ReversePath(n, pk)
      noShorter(i) == e.paths[i].lasthop = p.lasthop /\ e.paths[i].hopcount >= p.hopcount
  IN  /\ ~Fresher(e, pk.msg.srcseqno)
      /\ \/ ~Candidate(e, p, pk.msg.srcseqno)
         \/ /\ ~Known(e, p)
            /\ IF new_disjoint_path(e, p.nexthop, p.lasthop) THEN TooLong(e, p)
               ELSE pk.msg.dst = n /\ ~\E i \in DOMAIN e.paths : noShorter(i)

\* The agent once the reverse path is in and the buffer flushed along it.
WithReversePath(n, pk) ==
  LET w == [node[n] EXCEPT !.heard = @ \cup {Id(pk)}]
  IN  Flush(n, [w EXCEPT !.rt[pk.msg.src] = Learn(@, ReversePath(n, pk), pk.msg.srcseqno)],
            pk.msg.src)

RequestDropped(n, pk, trusted) ==
  /\ pk.msg.src = n \/ (~trusted /\ pk.from # pk.msg.src)
  /\ Step(n, node[n], {pk})

RequestIgnored(n, pk) ==
  /\ RequestUseless(n, pk, node[n].rt[pk.msg.src])
  /\ Step(n, [node[n] EXCEPT !.heard = @ \cup {Id(pk)}], {pk})

\* Faulty: the line recvRequest has commented out, without the rounding.
ReplySeqno_Next(own, asked) == Larger(own, asked) + 1

\* The destination's next sequence number: even, and above an odd one asked for.
ReplySeqno(own, asked) ==
  LET odd  == IF asked % 2 = 0 THEN asked + 1 ELSE asked
      next == IF own < odd THEN odd + 1 ELSE own
  IN  IF next % 2 = 1 THEN next + 1 ELSE next

\* Faulty: the sequence number of the reply is not kept.
RequestAtDestination_Forgets(n, pk) ==
  LET w == WithReversePath(n, pk)
      s == ReplySeqno(w.seqno, pk.msg.dstseqno)
  IN  /\ pk.msg.dst = n
      /\ Step(n, Send([w EXCEPT !.nb = @ \cup {pk.from}],
                      Unicast(n, pk.from, Rrep(pk.msg.src, pk.msg.id, n, s, 0, pk.from, TRUE))),
              {pk})

RequestAtDestination(n, pk) ==
  LET w == WithReversePath(n, pk)
      s == ReplySeqno(w.seqno, pk.msg.dstseqno)
  IN  /\ pk.msg.dst = n
      /\ Step(n, Send([w EXCEPT !.seqno = s, !.nb = @ \cup {pk.from}],
                      Unicast(n, pk.from, Rrep(pk.msg.src, pk.msg.id, n, s, 0, pk.from, TRUE))),
              {pk})

FreshEnough(w, rq) == w.rt[rq.dst].up /\ w.rt[rq.dst].seqno >= rq.dstseqno

\* Answered from the table, once per request and only over a reverse path.
RequestAnswered(n, pk) ==
  LET w == WithReversePath(n, pk)
      e == Advertise(w.rt[pk.msg.dst])
      answers == /\ Id(pk) \notin w.answered
                 /\ Offered(node[n].rt[pk.msg.src], ReversePath(n, pk), pk.msg.srcseqno)
  IN  /\ pk.msg.dst # n
      /\ FreshEnough(w, pk.msg)
      /\ Step(n,
              IF ~answers THEN w
              ELSE Send([w EXCEPT !.answered = @ \cup {Id(pk)},
                                  !.rt[pk.msg.dst] = [e EXCEPT !.error = TRUE]],
                        Unicast(n, pk.from,
                                Rrep(pk.msg.src, pk.msg.id, pk.msg.dst, e.seqno, e.adv,
                                     path_find(e).lasthop, path_find(e).trusted))),
              {pk})

\* Broadcast on with the advertised hop count of the reverse route, unless this
\* request was relayed before.  The reverse route is dereferenced unchecked.
RequestRelayed(n, pk, trusted) ==
  LET w    == WithReversePath(n, pk)
      e    == Advertise(w.rt[pk.msg.src])
      seen == Id(pk) \in node[n].heard
  IN  /\ pk.msg.dst # n
      /\ ~FreshEnough(w, pk.msg)
      /\ Step(n,
              IF seen THEN w
              ELSE IF path_empty(e) THEN [w EXCEPT !.crashed = TRUE]
              ELSE Send([w EXCEPT !.rt[pk.msg.src] = e],
                        Broadcast(n,
                          [pk.msg EXCEPT !.dstseqno = Larger(w.rt[pk.msg.dst].seqno, @),
                                         !.hops = e.adv, !.first = path_find(e).lasthop,
                                         !.trusted = trusted])),
              {pk})

\* Faulty: a node does not drop the RREQs it sent itself.
RecvRequest_Own(n) ==
  \E pk \in net :
    /\ Receives(n, pk, "RREQ")
    /\ \/ RequestIgnored(n, pk)
       \/ /\ ~RequestUseless(n, pk, node[n].rt[pk.msg.src])
          /\ \/ RequestAtDestination(n, pk)
             \/ RequestAnswered(n, pk)
             \/ RequestRelayed(n, pk, TRUE)

RecvRequest(n) ==
  \E pk \in net :
    /\ Receives(n, pk, "RREQ")
    /\ \E trusted \in RequestTrust(node[n], pk) :
         \/ RequestDropped(n, pk, trusted)
         \/ /\ pk.msg.src # n
            /\ trusted \/ pk.from = pk.msg.src
            /\ \/ RequestIgnored(n, pk)
               \/ /\ ~RequestUseless(n, pk, node[n].rt[pk.msg.src])
                  /\ \/ RequestAtDestination(n, pk)
                     \/ RequestAnswered(n, pk)
                     \/ RequestRelayed(n, pk, trusted)
-----------------------------------------------------------------------------
(* recvReply.  Every hop sets rp_src and prev_hop_ to itself, so the test that
   drops an untrusted RREP (prev_hop_ is not rp_src) never succeeds. *)

ReplyTrust(w, pk) == pk.from \notin w.nb \/ (pk.msg.trusted /\ pk.from \notin w.distrusted)

ForwardPath(w, pk) ==
  [nexthop |-> pk.from, hopcount |-> pk.msg.hops + 1, lasthop |-> pk.msg.first,
   trusted |-> ReplyTrust(w, pk)]

ReplyDropped(n, pk) ==
  /\ \/ pk.msg.dst = n
     \/ ~Offered(node[n].rt[pk.msg.dst], ForwardPath(node[n], pk), pk.msg.seqno)
  /\ Step(n, node[n], {pk})

\* The agent once the forward path is in and the buffer flushed along it.
WithForwardPath(n, pk) ==
  LET w == node[n]
  IN  Flush(n, [w EXCEPT !.rt[pk.msg.dst] =
                  LearnReply(w, @, ForwardPath(w, pk), pk.msg.seqno)],
            pk.msg.dst)

\* An intermediate node relays one RREP per request, along a reverse path.
Relays(n, w, pk) ==
  /\ pk.msg.ipdst # n
  /\ w.rt[pk.msg.ipdst].up
  /\ <<pk.msg.ipdst, pk.msg.id>> \in w.heard \ w.answered

ReplyKept(n, pk) ==
  LET w == WithForwardPath(n, pk)
  IN  /\ ~Relays(n, w, pk)
      /\ Step(n, w, {pk})

ReplyRelayed(n, pk) ==
  LET w   == WithForwardPath(n, pk)
      e   == Advertise(w.rt[pk.msg.dst])
      hop == path_find(w.rt[pk.msg.ipdst]).nexthop
      v   == [w EXCEPT !.answered = @ \cup {<<pk.msg.ipdst, pk.msg.id>>},
                       !.nb = @ \cup {hop},
                       !.rt[pk.msg.dst] = [e EXCEPT !.error = TRUE]]
  IN  /\ Relays(n, w, pk)
      /\ Step(n,
              IF path_empty(e) THEN [w EXCEPT !.crashed = TRUE]
              ELSE Send([v EXCEPT !.rt[pk.msg.ipdst].pcs = @ \cup {pk.from}],
                        Unicast(n, hop,
                                [pk.msg EXCEPT !.hops = e.adv, !.first = path_find(e).lasthop,
                                               !.trusted = ReplyTrust(node[n], pk)])),
              {pk})

RecvReply(n) ==
  \E pk \in net :
    /\ Receives(n, pk, "RREP")
    /\ \/ ReplyDropped(n, pk)
       \/ /\ pk.msg.dst # n
          /\ Offered(node[n].rt[pk.msg.dst], ForwardPath(node[n], pk), pk.msg.seqno)
          /\ ReplyKept(n, pk) \/ ReplyRelayed(n, pk)
-----------------------------------------------------------------------------
(* Errors and alarms. *)

RecvError(n) ==
  \E pk \in net :
    /\ Receives(n, pk, "RERR")
    /\ LET after == [d \in Node |->
                       IF d \in pk.msg.dests
                       THEN ErrorReceived(node[n].rt[d], pk.from, pk.msg.seqno[d])
                       ELSE node[n].rt[d]]
       IN  Step(n, ReportErrors(n, node[n], after), {pk})

\* The alarm passed on names the last hop of the path just deleted: the value,
\* or whatever has taken its place.
RecvPta(n) ==
  \E pk \in net, last \in Node \cup {Junk} :
    /\ Receives(n, pk, "PTA")
    /\ LET e == node[n].rt[pk.msg.dst]
           a == PtaReceived(e, pk.from, pk.msg.seqno, pk.msg.last)
           w == [node[n] EXCEPT !.rt[pk.msg.dst] = a]
       IN  IF PtaApplies(e, pk.from, pk.msg.seqno, pk.msg.last)
           THEN /\ last \in {pk.msg.last, Junk}
                /\ Step(n, Send(w, UNION {Unicast(n, pc, Pta(pk.msg.dst, a.seqno, last)) :
                                            pc \in e.pcs \ {n}}), {pk})
           ELSE last = Junk /\ Step(n, node[n], {pk})
-----------------------------------------------------------------------------
(* Timers. *)

\* rt_purge: the paths in expired, pairs of a destination and a next hop, have timed
\* out; packets waiting for a route that is down ask for it again, in the order of
\* the table.
RtPurge(n) ==
  LET w       == node[n]
      waiting == {d \in Node : ~w.rt[d].up /\ ~NoPacketFor(w, d)}
  IN  \E expired \in SUBSET {x \in Node \X Node : w.rt[x[1]].up /\ path_lookup(w.rt[x[1]], x[2])} :
        LET gone(d) == {m \in Node : <<d, m>> \in expired}
            after   == [d \in Node |-> IF w.rt[d].up
                                       THEN Purged(w.rt[d], Unexpired(w.rt[d], gone(d)))
                                       ELSE w.rt[d]]
            v       == [w EXCEPT !.rt = after,
                                 !.rqueue = [d \in Node |-> IF w.rt[d].up /\ ~after[d].up
                                                            THEN << >> ELSE @[d]]]
        IN  /\ Quiet
            /\ expired # {} \/ waiting # {}
            /\ IF expired = {} THEN UNCHANGED <<sent, delivered, events>> ELSE Event("expire")
            /\ \E order \in SetToSeqs(waiting) :
                 \E u \in SendRequests(n, v, order) : Step(n, u, {})

\* id_purge: broadcast ids are forgotten BCAST_ID_SAVE after they were heard, though
\* a RREQ or a RREP that has one may still be on its way.
IdPurge(n) ==
  \E old \in SUBSET node[n].heard :
    /\ old # {}
    /\ Quiet
    /\ Step(n, [node[n] EXCEPT !.heard = @ \ old, !.answered = @ \ old], {})
    /\ Event("forget")

\* nb_purge finding that nothing was heard of id for too long: nb_delete(id).  Of
\* the packets of the interface queue that were to go there, those of data go out
\* over what is left of their routes (TEAOMDV_PACKET_SALVAGING), with n as prev_hop_.
NbPurge(n, id) ==
  /\ id \in node[n].nb
  /\ Event("neighbor")
  /\ \E ifq \in SUBSET {pk \in net : /\ pk.from = n /\ pk.to = id
                                     /\ pk.msg.type \in {"DATA", "RREP"}} :
       /\ Quiet \/ ifq # {}
       /\ \E order \in SetToSeqs({pk.msg : pk \in {k \in ifq : k.msg.type = "DATA"}}) :
         LET w == [node[n] EXCEPT !.seqno = @ + 2, !.nb = @ \ {id},
                                  !.distrusted = @ \ {id}]
         IN  Step(n, ForwardAll(n, n, handle_link_failure(n, w, id), order), ifq)

\* set_trust: the trust values are computed anew.
SetTrust(n) ==
  /\ Quiet
  /\ \E low \in SUBSET (node[n].nb \cap Suspects) :
       /\ low # node[n].distrusted
       /\ Step(n, [node[n] EXCEPT !.distrusted = low], {})
  /\ Event("trust")

\* A hello of m, which sends one while it has an active route.
RecvHello(n, m) ==
  /\ Quiet
  /\ n \in Nbr(m)
  /\ m \notin node[n].nb
  /\ \E d \in Node : node[m].rt[d].up
  /\ Step(n, [node[n] EXCEPT !.nb = @ \cup {m}], {})
  /\ UNCHANGED <<sent, delivered, events>>

Lose ==
  /\ Running
  /\ Event("lose")
  /\ \E pk \in net : net' = net \ {pk}
  /\ UNCHANGED node
-----------------------------------------------------------------------------
Receive(n) == RecvRequest(n) \/ RecvReply(n) \/ RecvError(n) \/ RecvPta(n) \/ RecvData(n)

Next ==
  \/ \E n \in Node : Receive(n)
  \/ \E n \in Node : RtPurge(n)
  \/ \E n \in Node : IdPurge(n)
  \/ \E n \in Node : SetTrust(n)
  \/ \E n, m \in Node : NbPurge(n, m)
  \/ \E n, m \in Node : RecvHello(n, m)
  \/ \E f \in Traffic : AppSend(f[1], f[2])
  \/ Lose

Spec == Init /\ [][Next]_vars

\* ns-2 runs every scheduled event: packets that are not lost arrive, and the
\* route cache timer is rescheduled every half second.
Fairness == \A n \in Node : WF_vars(Receive(n)) /\ WF_vars(RtPurge(n))

FairSpec == Spec /\ Fairness
-----------------------------------------------------------------------------
(* Types. *)

PathType == [nexthop : Node, hopcount : Nat \ {0}, lasthop : Node, trusted : BOOLEAN]

EntryType ==
  [seqno : Nat, adv : Nat, paths : Seq(PathType), up : BOOLEAN, highest : Nat,
   error : BOOLEAN, pcs : SUBSET (Node \cup {Zero})]

RreqType ==
  [type : {"RREQ"}, src : Node, id : 1 .. MaxBid, srcseqno : Nat, dst : Node,
   dstseqno : Nat, hops : Nat, first : Node, trusted : BOOLEAN]

RrepType ==
  [type : {"RREP"}, ipdst : Node, id : 1 .. MaxBid, dst : Node, seqno : Nat,
   hops : Nat, first : Node, trusted : BOOLEAN]

RerrType == [type : {"RERR"}, dests : SUBSET Node, seqno : [Node -> Nat]]

PtaType == [type : {"PTA"}, dst : Node, seqno : Nat, last : Node \cup {Junk}]

DataType == [type : {"DATA"}, src : Node, dst : Node, no : 0 .. MaxData - 1]

MessageType == RreqType \cup RrepType \cup RerrType \cup PtaType \cup DataType

\* A packet is in flight from a node to one that hears it.
PacketType ==
  {pk \in [from : Node, to : Node, msg : MessageType] : pk.to \in Nbr(pk.from)}

AgentType ==
  [rt : [Node -> EntryType], nb : SUBSET Node, distrusted : SUBSET Node,
   seqno : Nat, bid : 1 .. MaxBid + 1, heard : SUBSET (Node \X (1 .. MaxBid)),
   answered : SUBSET (Node \X (1 .. MaxBid)), asked : SUBSET Node,
   tries : [Node -> 0 .. MaxBid], rqueue : [Node -> Seq(DataType)],
   out : SUBSET PacketType, crashed : BOOLEAN]

\* An agent is of its type, and every route that is up has a path: forward(),
\* recvRequest() and recvReply() dereference path_find() unchecked.
Sound(w) == w \in AgentType /\ \A d \in Node : w.rt[d].up => ~path_empty(w.rt[d])

TypeOK ==
  /\ node \in [Node -> AgentType]
  /\ \A n \in Node : Sound(node[n]) /\ node[n].out = {}
  /\ net \subseteq PacketType
  /\ sent \in 0 .. MaxData
  /\ delivered \subseteq 0 .. MaxData - 1
  /\ events \in [Events -> Nat]
-----------------------------------------------------------------------------
(* Properties. *)

NextHops(n, d) ==
  IF node[n].rt[d].up THEN {node[n].rt[d].paths[i].nexthop : i \in DOMAIN node[n].rt[d].paths}
  ELSE {}

(* For every destination the next hops of all routes that are up, alternates
   included, form no cycle: in every set of nodes without the destination, one
   forwards to none of the others.  The routes are learned by recvRequest and
   recvReply, and lost in any order to errors, expiry and alarms. *)
LoopFree ==
  \A d \in Node : \A S \in SUBSET (Node \ {d}) :
    S # {} => \E n \in S : NextHops(n, d) \cap S = {}

\* No trust value has been revised, so no PTA has been sent.
NoAlarm == "trust" \notin Happened

(* The reason: along every path the next hop has a newer sequence number, or
   the same one and has advertised a smaller hop count than the path's, though
   the two entries change at different moments (the update rule of recvRequest
   and recvReply, and the increments of handle_link_failure and rt_purge).  A
   PTA breaks the order: see LoopFree in MCLoop. *)
RouteOrder ==
  NoAlarm => \A n, d \in Node :
    node[n].rt[d].up =>
      \A i \in DOMAIN node[n].rt[d].paths :
        LET p == node[n].rt[d].paths[i]
            f == node[p.nexthop].rt[d]
        IN  \/ p.nexthop = d
            \/ f.seqno > node[n].rt[d].seqno
            \/ f.seqno = node[n].rt[d].seqno /\ f.adv < p.hopcount

(* While a route stays up at one sequence number, the hop count it has advertised
   is final, through all a handler does to it at once (a path learned, paths shed
   by the packets flushed along it, the reply or the request relayed): the others
   have judged their own paths by it, see RouteOrder. *)
AdvertisedFinal ==
  [][\A n, d \in Node :
       LET e == node[n].rt[d]
           f == node'[n].rt[d]
       IN  e.up /\ f.up /\ f.seqno = e.seqno /\ e.adv # INFINITY => f.adv = e.adv]_node

(* No path is longer than a loop-free network of this size can have: recvRequest and
   recvReply relay what they advertised, in a field of eight bits, and INFINITY
   (16383) never leaks into it. *)
HopsWithinDiameter ==
  NoAlarm => \A n, d \in Node :
    \A h \in Hops(node[n].rt[d]) : h < Cardinality(Node)

(* A route that is up has an even sequence number (recvRequest, recvError and
   recvPta assert it: "is the seqno even?"); the odd ones belong to routes that
   were lost.  The build defines NDEBUG, so nothing stops a violation. *)
UpSeqnoEven ==
  NoAlarm => \A n, d \in Node : node[n].rt[d].up => node[n].rt[d].seqno % 2 = 0

(* A route that is up never carries a number its destination has not issued,
   though link failures, expiry and errors increment numbers on its behalf. *)
SeqnoIssued ==
  NoAlarm => \A n, d \in Node : node[n].rt[d].up => node[n].rt[d].seqno <= node[d].seqno

\* The next hop forward() uses, and the nodes reached through those from n.
Primary(n, d) ==
  IF node[n].rt[d].up THEN {path_find(node[n].rt[d]).nexthop} ELSE {}

Follow(n, d) ==
  {x \in Node : \A S \in SUBSET Node :
     (n \in S /\ \A y \in S \ {d} : Primary(y, d) \subseteq S) => x \in S}

(* Disjoint end to end: following the first path of every node, as forward()
   does, two alternates of one route share no node before the destination,
   although every node judges disjointness by next hop and last hop alone.
   Not so with a second flow and a neighbour lost during the discovery. *)
EndToEndDisjoint ==
  \A n \in Node, d \in Node : \A x, y \in NextHops(n, d) :
    x # y => Follow(x, d) \cap Follow(y, d) \subseteq {d}

(* Once everything in flight has arrived, no route to a destination of data
   leads to a neighbour that has none: nb_delete and recvError have told all
   those upstream, by RERRs sent only for entries with rt_error set.  It holds
   in a calm run while no RERR is lost and no route expires, of which nobody is
   told; a RREP overtaken by the RERR would bring the route back. *)
NoDanglingRoute ==
  net = {} /\ Happened \subseteq {"neighbor"} =>
    \A f \in Traffic : \A n \in Node : \A m \in NextHops(n, f[2]) :
      m = f[2] \/ node[m].rt[f[2]].up

(* A node that has given up its route told those who use it: once nothing is in
   flight, no node that has sent data for d through m (a precursor in m's entry)
   still has a route through an m that has none.  forward() does so by a PTA
   when the trust in a next hop is lost ("report to the precursors that this
   path can no longer be trusted"), and recvPta passes it on.  RERRs go to those
   that have sent data only, and nobody is told of an expiry.  Over more than
   one hop a PTA may be lost on the way, see AlarmLost.cfg. *)
PrecursorsTold ==
  net = {} /\ Happened \subseteq {"trust"} =>
    \A n, m, d \in Node :
      m \in NextHops(n, d) \ {d} /\ n \in node[m].rt[d].pcs => node[m].rt[d].up

(* Data is never handed to a neighbour whose trust value is below the threshold,
   whether just sent, flushed from the buffer or salvaged. *)
DistrustedAvoided ==
  [][\A pk \in net' \ net :
       pk.msg.type = "DATA" => pk.to \notin node[pk.from].distrusted]_vars

(* No node has a route to itself, so none reports itself as lost: an RERR, whether of
   nb_delete, passed on by recvError or answering data (recv), names fewer
   destinations than there are nodes.  handle_link_failure and recvError fill
   unreachable_dst without comparing DestCount with TEAOMDV_MAX_ERRORS (100), so
   this is what keeps them within it in a network of up to 101 nodes. *)
ErrorsFit ==
  /\ \A n \in Node : ~node[n].rt[n].up
  /\ \A pk \in net :
       pk.msg.type = "RERR" => Cardinality(pk.msg.dests) < Cardinality(Node)

\* The packets in flight that carry it, and where it is buffered: node, list, position.
InFlight(no) == {pk \in net : pk.msg.type = "DATA" /\ pk.msg.no = no}

Buffered(no) ==
  {x \in Node \X Node \X (1 .. MaxData) :
     LET q == node[x[1]].rqueue[x[2]] IN x[3] \in DOMAIN q /\ q[x[3]].no = no}

(* A data packet is in one place only, buffered, in flight or delivered, whatever
   rt_resolve, the flushes of the buffer and the salvaging in nb_delete do. *)
OneCopy ==
  \A no \in 0 .. sent :
    Cardinality(InFlight(no)) + Cardinality(Buffered(no))
      + (IF no \in delivered THEN 1 ELSE 0) <= 1

(* Discovery completes: where nothing is lost and nothing fails, every packet
   handed to an agent reaches its destination, in whatever order requests and
   replies arrive (rt_resolve, recvRequest, recvReply, forward). *)
AllDelivered == \A no \in 0 .. MaxData - 1 : sent > no ~> no \in delivered

(* "RREQ not intended for me and I don't have a fresh enough entry for RREQ dest
   - so forward the RREQ": recvRequest (and recvReply likewise) does so through
   path_find() of a route it has just learned, and never finds it empty. *)
NoCrash == Running
=============================================================================
