------------------------------- MODULE RQueue -------------------------------
(***************************************************************************)
(* teaomdv_rqueue: a singly linked list of packets, through the packets'   *)
(* next_, with a pointer to either end and a length kept beside it.  The   *)
(* loops of findAgedPacket and findPacketWithDst take one step per         *)
(* packet, with the cursors p and prev.                                    *)
(*                                                                         *)
(* queue is no variable of the program: it is what the list is meant to    *)
(* hold, changed where the list is.  ListRepresents says that it does.     *)
(* The clock stands still during a call: an ns-2 event takes no time.      *)
(***************************************************************************)
EXTENDS Integers, SequencesExt

CONSTANTS Packet, Addr,
          daddr,      \* the destination of each packet
          NULL,
          Limit,      \* TEAOMDV_RTQ_MAX_LEN, 64
          Timeout,    \* TEAOMDV_RTQ_TIMEOUT, 30 s
          MaxNow      \* bound on the clock

ASSUME RQueueAssumption ==
  /\ daddr \in [Packet -> Addr]
  /\ NULL \notin Packet
  /\ Limit \in Nat \ {0}
  /\ Timeout \in Nat
  /\ MaxNow \in Nat

VARIABLES head, tail, len,   \* head_, tail_ and len_
          next, ts,          \* next_ and ts_ of every packet, queued or not
          pc, op, arg,       \* where the call under way is, and its argument
          p, prev,           \* the cursors
          result,            \* what the last call has returned
          now, queue

list == <<head, tail, len, next, queue>>
call == <<pc, op, arg, p, prev>>
vars == <<list, ts, call, result, now>>

\* teaomdv_rqueue::teaomdv_rqueue.  A packet that was in other queues has some
\* next_; NULL stands for it until the packet has been here.
Init ==
  /\ head = NULL /\ tail = NULL /\ len = 0
  /\ next = [x \in Packet |-> NULL]
  /\ ts = [x \in Packet |-> 0]
  /\ pc = "idle" /\ op = "none" /\ arg = NULL
  /\ p = NULL /\ prev = NULL
  /\ result = NULL
  /\ now = 0
  /\ queue = << >>
-----------------------------------------------------------------------------
(* Calls: all but find start with purge(). *)

Call(o, a, start) ==
  /\ pc = "idle"
  /\ pc' = start /\ op' = o /\ arg' = a
  /\ p' = head /\ prev' = NULL
  /\ result' = NULL
  /\ UNCHANGED <<list, ts, now>>

\* A packet is in one queue at a time.
CallEnque ==
  \E x \in Packet : (\A i \in DOMAIN queue : queue[i] # x) /\ Call("enque", x, "purge")

CallDeque == Call("deque", NULL, "purge")

\* Faulty: deque(dst) does not purge first.
CallDequeFor_Unpurged == \E d \in Addr : Call("dequeFor", d, "search")

CallDequeFor == \E d \in Addr : Call("dequeFor", d, "purge")

CallFind == \E d \in Addr : Call("find", d, "search")

Return(r) ==
  /\ pc' = "idle" /\ op' = "none" /\ arg' = NULL
  /\ p' = NULL /\ prev' = NULL
  /\ result' = r
  /\ UNCHANGED now

Advance ==
  /\ p' = next[p] /\ prev' = p
  /\ UNCHANGED <<list, ts, pc, op, arg, result, now>>
-----------------------------------------------------------------------------
(* Removal. *)

\* remove_head on a list that is not empty, with what it leaves of queue.
remove_head ==
  /\ IF head = tail THEN head' = NULL /\ tail' = NULL
                    ELSE head' = next[head] /\ tail' = tail
  /\ len' = len - 1
  /\ queue' = Tail(queue)
  /\ UNCHANGED next

\* Faulty: the last packet leaves and tail_ stays.
Unlink_KeepsTail ==
  IF p = head THEN remove_head
  ELSE /\ next' = [next EXCEPT ![prev] = next[p]]
       /\ len' = len - 1
       /\ queue' = RemoveFirst(queue, p)
       /\ UNCHANGED <<head, tail>>

\* The removal of p in purge and in deque(dst).
Unlink ==
  IF p = head THEN remove_head
  ELSE /\ next' = [next EXCEPT ![prev] = IF p = tail THEN NULL ELSE next[p]]
       /\ tail' = IF p = tail THEN prev ELSE tail
       /\ len' = len - 1
       /\ queue' = RemoveFirst(queue, p)
       /\ UNCHANGED head
-----------------------------------------------------------------------------
(* purge and findAgedPacket: from the head again after each removal. *)

Aged(x) == ts[x] < now

PurgeSkip == pc = "purge" /\ p # NULL /\ ~Aged(p) /\ Advance

PurgeRemove ==
  /\ pc = "purge"
  /\ p # NULL
  /\ Aged(p)
  /\ Unlink
  /\ p' = head' /\ prev' = NULL
  /\ UNCHANGED <<ts, pc, op, arg, result, now>>

PurgeDone ==
  /\ pc = "purge"
  /\ p = NULL
  /\ pc' = IF op = "dequeFor" THEN "search" ELSE "finish"
  /\ p' = head /\ prev' = NULL
  /\ UNCHANGED <<list, ts, op, arg, result, now>>
-----------------------------------------------------------------------------
(* enque and deque after purge. *)

\* Faulty: a full queue takes the packet all the same.
Enque_NoLimit ==
  /\ pc = "finish" /\ op = "enque"
  /\ ts' = [ts EXCEPT ![arg] = now + Timeout]
  /\ head' = IF head = NULL THEN arg ELSE head
  /\ tail' = arg
  /\ next' = [x \in Packet |-> IF x = arg THEN NULL
                               ELSE IF x = tail /\ head # NULL THEN arg ELSE next[x]]
  /\ len' = len + 1
  /\ queue' = Append(queue, arg)
  /\ Return(NULL)

\* Faulty: next_ of the packet is left as it was.
Enque_KeepsNext ==
  /\ pc = "finish" /\ op = "enque"
  /\ ts' = [ts EXCEPT ![arg] = now + Timeout]
  /\ LET full == len = Limit
         h == IF full THEN (IF head = tail THEN NULL ELSE next[head]) ELSE head
     IN  /\ head' = IF h = NULL THEN arg ELSE h
         /\ tail' = arg
         /\ next' = [x \in Packet |-> IF x = tail /\ h # NULL THEN arg ELSE next[x]]
         /\ len' = IF full THEN len ELSE len + 1
         /\ queue' = Append(IF full THEN Tail(queue) ELSE queue, arg)
  /\ Return(NULL)

\* Faulty: the packet is put in front.
Enque_InFront ==
  /\ pc = "finish" /\ op = "enque"
  /\ len < Limit
  /\ ts' = [ts EXCEPT ![arg] = now + Timeout]
  /\ head' = arg
  /\ tail' = IF head = NULL THEN arg ELSE tail
  /\ next' = [next EXCEPT ![arg] = head]
  /\ len' = len + 1
  /\ queue' = <<arg>> \o queue
  /\ Return(NULL)

\* A full queue drops its head to admit the packet.
Enque ==
  /\ pc = "finish" /\ op = "enque"
  /\ ts' = [ts EXCEPT ![arg] = now + Timeout]
  /\ LET full == len = Limit
         h == IF full THEN (IF head = tail THEN NULL ELSE next[head]) ELSE head
     IN  /\ head' = IF h = NULL THEN arg ELSE h
         /\ tail' = arg
         /\ next' = [x \in Packet |-> IF x = arg THEN NULL
                                      ELSE IF x = tail /\ h # NULL THEN arg ELSE next[x]]
         /\ len' = IF full THEN len ELSE len + 1
         /\ queue' = Append(IF full THEN Tail(queue) ELSE queue, arg)
  /\ Return(NULL)

Deque ==
  /\ pc = "finish" /\ op = "deque"
  /\ IF head = NULL THEN UNCHANGED list ELSE remove_head
  /\ Return(head)
  /\ UNCHANGED ts
-----------------------------------------------------------------------------
(* findPacketWithDst, for deque(dst) and for find. *)

SearchSkip == pc = "search" /\ p # NULL /\ daddr[p] # arg /\ Advance

DequeFor ==
  /\ pc = "search" /\ op = "dequeFor"
  /\ p # NULL => daddr[p] = arg
  /\ IF p = NULL THEN UNCHANGED list ELSE Unlink
  /\ Return(p)
  /\ UNCHANGED ts

Find ==
  /\ pc = "search" /\ op = "find"
  /\ p # NULL => daddr[p] = arg
  /\ Return(IF p = NULL THEN 0 ELSE 1)
  /\ UNCHANGED <<list, ts>>

Tick ==
  /\ pc = "idle"
  /\ now < MaxNow
  /\ now' = now + 1
  /\ UNCHANGED <<list, ts, call, result>>
-----------------------------------------------------------------------------
Calls == CallEnque \/ CallDeque \/ CallDequeFor \/ CallFind

\* The steps of a call under way.
Body ==
  PurgeSkip \/ PurgeRemove \/ PurgeDone \/ Enque \/ Deque \/ SearchSkip \/ DequeFor \/ Find

Next == Calls \/ Body \/ Tick

Spec == Init /\ [][Next]_vars

\* A call is a sequential program: it does not stop before it returns.
Fairness == WF_vars(Body)

FairSpec == Spec /\ Fairness
-----------------------------------------------------------------------------
Pointer == Packet \cup {NULL}

(* Types; the length, counted apart from the list, stays within the limit. *)
TypeOK ==
  /\ head \in Pointer /\ tail \in Pointer
  /\ next \in [Packet -> Pointer]
  /\ ts \in [Packet -> Nat]
  /\ len \in 0 .. Limit
  /\ queue \in Seq(Packet)
  /\ now \in 0 .. MaxNow
  /\ p \in Pointer /\ prev \in Pointer
  /\ <<pc, op>> \in {<<"idle", "none">>, <<"purge", "enque">>, <<"purge", "deque">>,
                     <<"purge", "dequeFor">>, <<"finish", "enque">>, <<"finish", "deque">>,
                     <<"search", "dequeFor">>, <<"search", "find">>}
  /\ op = "enque" => arg \in Packet
  /\ op \in {"dequeFor", "find"} => arg \in Addr
  /\ result \in Pointer \cup {0, 1}

(* The list is what it is meant to be after every removal and insertion, at the
   head, in the middle and at the tail: from head_ along next_ it holds the
   packets of queue, each once, ends at tail_, and len_ counts them.  These are
   the assertions of verifyQueue and of deque and purge ("assert(cnt == len_);
   assert(prev == tail_)"), compiled out by NDEBUG. *)
ListRepresents ==
  /\ \A i, j \in 1 .. Len(queue) : i # j => queue[i] # queue[j]
  /\ head = IF queue = << >> THEN NULL ELSE queue[1]
  /\ tail = IF queue = << >> THEN NULL ELSE queue[Len(queue)]
  /\ \A i \in 1 .. Len(queue) :
       next[queue[i]] = IF i = Len(queue) THEN NULL ELSE queue[i + 1]
  /\ len = Len(queue)

(* Packets are queued in the order in which they time out, so a full queue
   drops the packet that has waited longest. *)
OldestFirst ==
  \A i, j \in 1 .. Len(queue) : i < j => ts[queue[i]] <= ts[queue[j]]

Buffer == INSTANCE PacketBuffer WITH deadline <- ts, answer <- result

(* The list with its loops does what PacketBuffer says of each operation as a
   whole: deque(dst) takes the first packet for dst, and nothing that has timed
   out is counted, taken or pushed out by enque and deque. *)
ImplementsPacketBuffer == Buffer!Spec

(* Every call returns: the list has no cycle for a loop to run around. *)
CallsReturn == (pc # "idle") ~> (pc = "idle")
=============================================================================
