------------------------------- MODULE Pacing -------------------------------
(***************************************************************************)
(* When a node asks for a route, how far, and when it gives up: the timed  *)
(* side of sendRequest, rt_resolve and rt_purge at one source, which       *)
(* Agent leaves open.  Several destinations share the buffer, and with it  *)
(* its limit.  Times are in hundredths of a second; the clock advances by  *)
(* Quantum, and an event takes no time.                                    *)
(***************************************************************************)
EXTENDS Integers, Sequences, FiniteSets, SequencesExt

CONSTANTS Dest,               \* destinations of this node's traffic
          Limit,              \* TEAOMDV_RTQ_MAX_LEN, 64
          RREQ_RETRIES,       \* 3
          MAX_RREQ_TIMEOUT,   \* 1.0 s
          TTL_START,          \* 5
          TTL_INCREMENT,      \* 2
          TTL_THRESHOLD,      \* 7
          NETWORK_DIAMETER,   \* 30
          NODE_TRAVERSAL_TIME,\* 0.03 s
          FREQUENCY,          \* the period of rt_purge, 0.5 s
          INFINITY2,          \* 255
          Quantum,            \* the step of the clock
          Latency,            \* an answer that comes takes no longer
          Distances,          \* hops each destination may be away
          MaxLost             \* bound on the searches of which no answer comes

\* What teaomdv.h makes of the constants: a ring lasts no longer than the period of
\* rt_purge, MAX_RREQ_TIMEOUT a number of them, the widest ring is narrower than the
\* network; and an answer comes before the timeout of the search of the whole network.
ASSUME PacingAssumption ==
  /\ IsFiniteSet(Dest)
  /\ Limit \in Nat \ {0}
  /\ Quantum \in Nat \ {0}
  /\ RREQ_RETRIES \in Nat
  /\ MAX_RREQ_TIMEOUT \in Nat
  /\ TTL_START \in Nat
  /\ TTL_INCREMENT \in Nat \ {0}
  /\ TTL_THRESHOLD \in Nat \ {0}
  /\ NETWORK_DIAMETER \in Nat
  /\ NODE_TRAVERSAL_TIME \in Nat
  /\ FREQUENCY \in Nat
  /\ INFINITY2 \in Nat \ {0}
  /\ Latency \in Nat
  /\ MaxLost \in Nat
  /\ Distances \in [Dest -> SUBSET (Nat \ {0})]
  /\ TTL_THRESHOLD + TTL_INCREMENT - 1 <= NETWORK_DIAMETER
  /\ 2 * (TTL_THRESHOLD + TTL_INCREMENT - 1) * NODE_TRAVERSAL_TIME <= FREQUENCY
  /\ \E m \in 1 .. MAX_RREQ_TIMEOUT : MAX_RREQ_TIMEOUT = m * FREQUENCY
  /\ Latency < MAX_RREQ_TIMEOUT
  /\ Latency < 2 * NETWORK_DIAMETER * NODE_TRAVERSAL_TIME
  /\ \E k \in 0 .. FREQUENCY : FREQUENCY = k * Quantum
  /\ \E k \in 0 .. Latency : Latency = k * Quantum

VARIABLES rt,       \* what sendRequest reads of each route entry
          rqueue,   \* packets waiting for a route: destination and age
          timer,    \* time until rt_purge
          dist,     \* hops to each destination
          answer,   \* time within which an answer on its way arrives, or None
          lost,     \* searches that reached their destination for nothing
          gaveup,   \* destinations given up by the last step
          pushed    \* those of which a packet was pushed out of the full buffer
                    \* since their soft state was last reset

vars == <<rt, rqueue, timer, dist, answer, lost, gaveup, pushed>>

None == -1

\* The constructor of teaomdv_rt_entry; wait is what is left of rt_req_timeout.
Init ==
  /\ rt = [d \in Dest |-> [up |-> FALSE, cnt |-> 0, ttl |-> 0, hop |-> INFINITY2, wait |-> 0]]
  /\ rqueue = << >>
  /\ timer = FREQUENCY
  /\ dist \in [Dest -> UNION Range(Distances)]
  /\ \A d \in Dest : dist[d] \in Distances[d]
  /\ answer = [d \in Dest |-> None]
  /\ lost = 0
  /\ gaveup = {}
  /\ pushed = {}

Reachable(d) == dist[d] <= NETWORK_DIAMETER

Waiting(d) == \E i \in DOMAIN rqueue : rqueue[i].dst = d

Without(q, ds) ==
  FoldLeft(LAMBDA kept, k : IF k.dst \in ds THEN kept ELSE Append(kept, k), << >>, q)
-----------------------------------------------------------------------------
(* sendRequest *)

Due(e) == ~e.up /\ e.wait = 0

\* Faulty: one search fewer.
GivesUp_Early(e) == Due(e) /\ e.cnt >= RREQ_RETRIES

\* Faulty: the searches are not counted.
GivesUp_Never(e) == FALSE

GivesUp(e) == Due(e) /\ e.cnt > RREQ_RETRIES

Asks(e) == Due(e) /\ ~GivesUp(e)

LastTtl(e) == IF e.ttl < e.hop THEN e.hop ELSE e.ttl

NetworkWide(e) == LastTtl(e) >= TTL_THRESHOLD

Ttl(e) ==
  IF LastTtl(e) = 0 THEN TTL_START
  ELSE IF NetworkWide(e) THEN NETWORK_DIAMETER
  ELSE LastTtl(e) + TTL_INCREMENT

\* The entry once its RREQ is out.
Asked(e) ==
  LET cnt  == IF NetworkWide(e) THEN e.cnt + 1 ELSE e.cnt
      wait == 2 * Ttl(e) * NODE_TRAVERSAL_TIME * (IF cnt > 0 THEN cnt ELSE 1)
  IN  [e EXCEPT !.ttl = Ttl(e), !.cnt = cnt,
                !.wait = IF wait > MAX_RREQ_TIMEOUT THEN MAX_RREQ_TIMEOUT ELSE wait]

\* Faulty: the count is left for the next search.
GivenUp_KeepsCount(e) == [e EXCEPT !.wait = MAX_RREQ_TIMEOUT]

GivenUp(e) == [e EXCEPT !.wait = MAX_RREQ_TIMEOUT, !.cnt = 0]

\* sendRequest for each destination in ds, with the packets of q in the buffer and
\* the routes of down just taken down.  A search far enough is answered, unless the
\* RREQ or the RREP is lost.
sendRequest(ds, q, down) ==
  LET given == {d \in ds : GivesUp(rt[d])}
      asked == {d \in ds : Asks(rt[d])}
      found == {d \in asked : Ttl(rt[d]) >= dist[d] /\ answer[d] = None}
  IN  \E lose \in SUBSET found :
        /\ lost + Cardinality(lose) <= MaxLost
        /\ lost' = lost + Cardinality(lose)
        /\ answer' = [d \in Dest |-> IF d \in found \ lose THEN Latency ELSE answer[d]]
        /\ rt' = [d \in Dest |-> IF d \in given THEN GivenUp(rt[d])
                                 ELSE IF d \in asked THEN Asked(rt[d])
                                 ELSE [rt[d] EXCEPT !.up = @ /\ d \notin down]]
        /\ rqueue' = Without(q, given)
        /\ gaveup' = given
-----------------------------------------------------------------------------
\* rt_resolve for a packet of this node without a route; the full buffer drops
\* its oldest packet.
AppSend(d) ==
  /\ ~rt[d].up
  /\ LET full == Len(rqueue) = Limit
     IN  /\ sendRequest({d}, Append(IF full THEN Tail(rqueue) ELSE rqueue,
                                    [dst |-> d, age |-> 0]), {})
         /\ pushed' = IF full THEN pushed \cup {Head(rqueue).dst} ELSE pushed
  /\ UNCHANGED <<timer, dist>>

Up == {d \in Dest : rt[d].up}

\* Faulty: rt_purge leaves it to the next packet to ask again.
rt_purge_NoRetry ==
  /\ timer = 0
  /\ timer' = FREQUENCY
  /\ \E expired \in SUBSET Up : sendRequest({}, Without(rqueue, expired), expired)
  /\ UNCHANGED <<dist, pushed>>

\* rt_purge: routes expire, with the packets that wait for them; packets whose
\* route was down ask.  Nothing is sent: rt_expire is always 0, so the branch that
\* would forward what waits for a route that is up is never taken.
rt_purge ==
  /\ timer = 0
  /\ timer' = FREQUENCY
  /\ \E expired \in SUBSET Up :
       sendRequest({d \in Dest \ Up : Waiting(d)}, Without(rqueue, expired), expired)
  /\ UNCHANGED <<dist, pushed>>

\* Faulty: the packets that wait are left to rt_purge.
RouteFound_NoFlush(d) ==
  /\ Reachable(d)
  /\ ~rt[d].up
  /\ rt' = [rt EXCEPT ![d] = [up |-> TRUE, cnt |-> 0, ttl |-> 0, hop |-> dist[d], wait |-> 0]]
  /\ answer' = [answer EXCEPT ![d] = None]
  /\ gaveup' = {}
  /\ UNCHANGED <<rqueue, timer, dist, lost, pushed>>

\* recvReply, or recvRequest for a RREQ of d: the soft state is reset and the
\* buffer flushed along the route.
RouteFound(d) ==
  /\ Reachable(d)
  /\ ~rt[d].up
  /\ rt' = [rt EXCEPT ![d] = [up |-> TRUE, cnt |-> 0, ttl |-> 0, hop |-> dist[d], wait |-> 0]]
  /\ rqueue' = Without(rqueue, {d})
  /\ answer' = [answer EXCEPT ![d] = None]
  /\ gaveup' = {}
  /\ pushed' = pushed \ {d}
  /\ UNCHANGED <<timer, dist, lost>>

\* A link failure, a RERR, a PTA or the loss of trust takes the route down, whose
\* destination may have moved.
RouteLost(d) ==
  /\ rt[d].up
  /\ rt' = [rt EXCEPT ![d].up = FALSE]
  /\ \E h \in Distances[d] : dist' = [dist EXCEPT ![d] = h]
  /\ gaveup' = {}
  /\ UNCHANGED <<rqueue, timer, answer, lost, pushed>>

\* Time passes when no timer is due and no answer overdue.
Tick ==
  /\ timer > 0
  /\ \A d \in Dest : answer[d] # 0
  /\ timer' = timer - Quantum
  /\ rt' = [d \in Dest |-> [rt[d] EXCEPT !.wait = IF @ > Quantum THEN @ - Quantum ELSE 0]]
  /\ answer' = [d \in Dest |-> IF answer[d] = None THEN None ELSE answer[d] - Quantum]
  /\ rqueue' = [i \in DOMAIN rqueue |-> [rqueue[i] EXCEPT !.age = @ + Quantum]]
  /\ gaveup' = {}
  /\ UNCHANGED <<dist, lost, pushed>>

Next ==
  \/ \E d \in Dest : AppSend(d) \/ RouteFound(d) \/ RouteLost(d)
  \/ rt_purge
  \/ Tick

Spec == Init /\ [][Next]_vars
-----------------------------------------------------------------------------
EntryType ==
  [up : BOOLEAN, cnt : 0 .. RREQ_RETRIES + 1, ttl : 0 .. NETWORK_DIAMETER,
   hop : (UNION Range(Distances)) \cup {INFINITY2}, wait : 0 .. MAX_RREQ_TIMEOUT]

TypeOK ==
  /\ rt \in [Dest -> EntryType]
  /\ rqueue \in Seq([dst : Dest, age : Nat])
  /\ Len(rqueue) <= Limit
  /\ timer \in 0 .. FREQUENCY
  /\ dist \in [Dest -> Nat] /\ \A d \in Dest : dist[d] \in Distances[d]
  /\ answer \in [Dest -> {None} \cup 0 .. Latency]
  /\ lost \in 0 .. MaxLost
  /\ gaveup \subseteq Dest
  /\ pushed \subseteq Dest

\* The searches a packet may wait for: rt_purge may be a period away, then either
\* the timeout of an earlier search runs out or the rings below TTL_THRESHOLD are
\* tried, a period each, and then the whole network until rt_req_cnt is above
\* RREQ_RETRIES.
Rings == (TTL_THRESHOLD + TTL_INCREMENT - 2) \div TTL_INCREMENT

FirstWait ==
  IF FREQUENCY * Rings > MAX_RREQ_TIMEOUT THEN FREQUENCY * Rings ELSE MAX_RREQ_TIMEOUT

MaxWait == FREQUENCY + FirstWait + MAX_RREQ_TIMEOUT * (RREQ_RETRIES + 1)

(* No packet waits in the buffer for longer than all the searches of one
   destination take: it is sent, given up or pushed out first, whatever is lost
   and whenever packets come, though a new packet may find an old timeout
   running.  With the constants of teaomdv.h this is far below
   TEAOMDV_RTQ_TIMEOUT, so the purge of the buffer never finds anything. *)
WaitBounded == \A i \in DOMAIN rqueue : rqueue[i].age <= MaxWait

(* No packet waits for a route that is up, where rt_purge would find it only to
   drop it when the route expires: every way in which a route comes up flushes the
   buffer, and no packet enters it after that (rt_resolve; "This should not be
   needed", says rt_purge of looking for one). *)
NoneWaitForUp == \A d \in Dest : rt[d].up => ~Waiting(d)

(* The packets for a destination within reach are not given up before more
   than RREQ_RETRIES answers have been lost: neither the rings that stop short
   of it nor an answer slower than the timeout of a ring count against it. *)
ReachableNotGivenUp ==
  \A d \in gaveup : Reachable(d) => lost > RREQ_RETRIES

(* A destination with no packet in the buffer has no failed searches on record,
   so a new packet is not given up for the searches of earlier ones, unless a
   packet for it was pushed out by the full buffer. *)
SearchesAfresh ==
  \A d \in Dest \ pushed : ~Waiting(d) => rt[d].cnt = 0
=============================================================================
