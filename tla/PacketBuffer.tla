---------------------------- MODULE PacketBuffer ----------------------------
(***************************************************************************)
(* What the routing agent relies on of its buffer of packets without a     *)
(* route: they leave in the order they came, no operation that adds or     *)
(* takes a packet sees one that has timed out, and there is always room    *)
(* for another, at the expense of the oldest.                              *)
(***************************************************************************)
EXTENDS Naturals, SequencesExt

CONSTANTS Packet, Addr,
          daddr,      \* the destination of each packet
          NULL,
          Limit,      \* TEAOMDV_RTQ_MAX_LEN
          Timeout,    \* TEAOMDV_RTQ_TIMEOUT
          MaxNow      \* bound on the clock

VARIABLES queue,      \* the packets, oldest first
          deadline,   \* ts_ of every packet, queued or not
          now,
          answer      \* what the last operation has returned

vars == <<queue, deadline, now, answer>>

Init ==
  /\ queue = << >>
  /\ deadline = [x \in Packet |-> 0]
  /\ now = 0
  /\ answer = NULL

AllFresh == \A i \in 1 .. Len(queue) : deadline[queue[i]] >= now

\* queue[i] is the first packet for d.
FirstFor(d, i) ==
  /\ i \in 1 .. Len(queue)
  /\ daddr[queue[i]] = d
  /\ \A j \in 1 .. Len(queue) : j < i => daddr[queue[j]] # d

NoneFor(d) == \A i \in 1 .. Len(queue) : daddr[queue[i]] # d
-----------------------------------------------------------------------------
\* An operation begins.
Ask == answer' = NULL /\ UNCHANGED <<queue, deadline, now>>

Expire ==
  /\ \E i \in 1 .. Len(queue) : deadline[queue[i]] < now /\ queue' = RemoveAt(queue, i)
  /\ UNCHANGED <<deadline, now, answer>>

enque(x) ==
  /\ AllFresh
  /\ \A i \in 1 .. Len(queue) : queue[i] # x
  /\ queue' = Append(IF Len(queue) = Limit THEN Tail(queue) ELSE queue, x)
  /\ deadline' = [deadline EXCEPT ![x] = now + Timeout]
  /\ answer' = NULL
  /\ UNCHANGED now

deque ==
  /\ AllFresh
  /\ \/ queue = << >> /\ answer' = NULL /\ UNCHANGED queue
     \/ queue # << >> /\ answer' = Head(queue) /\ queue' = Tail(queue)
  /\ UNCHANGED <<deadline, now>>

deque_for(d) ==
  /\ AllFresh
  /\ \/ NoneFor(d) /\ answer' = NULL /\ UNCHANGED queue
     \/ \E i \in 1 .. Len(queue) :
          FirstFor(d, i) /\ answer' = queue[i] /\ queue' = RemoveAt(queue, i)
  /\ UNCHANGED <<deadline, now>>

\* Unlike the others find counts packets that have timed out.
find(d) ==
  /\ answer' = IF NoneFor(d) THEN 0 ELSE 1
  /\ UNCHANGED <<queue, deadline, now>>

Tick ==
  /\ now < MaxNow
  /\ now' = now + 1
  /\ UNCHANGED <<queue, deadline, answer>>

Next ==
  \/ Ask
  \/ Expire
  \/ \E x \in Packet : enque(x)
  \/ deque
  \/ \E d \in Addr : deque_for(d) \/ find(d)
  \/ Tick

Spec == Init /\ [][Next]_vars
=============================================================================
