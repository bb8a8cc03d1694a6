---------------------------- MODULE RQueueProofs ----------------------------
(***************************************************************************)
(* Proofs, for any number of packets and addresses, any limit, timeout and *)
(* length of time, of the properties MCRQueue checks on a small instance:  *)
(* the list holds what it is meant to, oldest first, and each operation    *)
(* does what PacketBuffer says of it.                                      *)
(*                                                                         *)
(* The inductive invariant adds to the three invariants where the cursors  *)
(* are: at some position k of the queue, with nothing that purge or        *)
(* findPacketWithDst looks for before it.                                  *)
(***************************************************************************)
EXTENDS RQueue, TLAPS, SequenceTheorems

At(k) == IF k \in 1 .. Len(queue) THEN queue[k] ELSE NULL

CursorsAt(k) ==
  /\ p = At(k) /\ prev = At(k - 1)
  /\ pc = "purge" => \A j \in 1 .. Len(queue) : j < k => ts[queue[j]] >= now
  /\ pc = "search" => \A j \in 1 .. Len(queue) : j < k => daddr[queue[j]] # arg

Cursors == pc \in {"purge", "search"} => \E k \in 1 .. Len(queue) + 1 : CursorsAt(k)

\* Once purge is done nothing in the queue has timed out.
Purged ==
  pc = "finish" \/ (pc = "search" /\ op = "dequeFor") =>
    \A i \in 1 .. Len(queue) : ts[queue[i]] >= now

\* The packet to be queued is not queued already.
Apart == op = "enque" => \A i \in 1 .. Len(queue) : queue[i] # arg

\* No deadline is further away than that of a packet queued now.
Ahead == \A i \in 1 .. Len(queue) : ts[queue[i]] <= now + Timeout

IInv ==
  /\ TypeOK /\ ListRepresents /\ OldestFirst
  /\ Cursors /\ Purged /\ Apart /\ Ahead
-----------------------------------------------------------------------------
(* Sequences. *)

\* The elements of a slice.
LEMMA SubSeqElements ==
  ASSUME NEW S, NEW s \in Seq(S), NEW m \in 1 .. Len(s) + 1, NEW n \in 0 .. Len(s), m <= n + 1
  PROVE  /\ SubSeq(s, m, n) \in Seq(S)
         /\ Len(SubSeq(s, m, n)) = n - m + 1
         /\ \A i \in 1 .. n - m + 1 : SubSeq(s, m, n)[i] = s[m + i - 1]
<1>1. Len(s) \in Nat /\ m \in Int /\ n \in Int
  OBVIOUS
<1>2. \A i \in m .. n : s[i] \in S
  OBVIOUS
<1>3. IF m <= n THEN n - m + 1 = n - m + 1 ELSE n - m + 1 = 0
  BY <1>1
<1>. QED
  BY <1>1, <1>2, <1>3, SubSeqProperties

\* RemoveAt leaves the other elements in their order.
LEMMA RemoveAtElements ==
  ASSUME NEW S, NEW s \in Seq(S), NEW k \in 1 .. Len(s)
  PROVE  /\ RemoveAt(s, k) \in Seq(S)
         /\ Len(RemoveAt(s, k)) = Len(s) - 1
         /\ \A i \in 1 .. Len(s) - 1 :
              RemoveAt(s, k)[i] = IF i < k THEN s[i] ELSE s[i + 1]
<1> DEFINE u == SubSeq(s, 1, k - 1)
           v == SubSeq(s, k + 1, Len(s))
<1>1. Len(s) \in Nat /\ k \in Nat /\ k >= 1 /\ k <= Len(s)
  OBVIOUS
<1>2. \A i \in 1 .. Len(s) : s[i] \in S
  OBVIOUS
<1>3. /\ u \in Seq(S)
      /\ Len(u) = k - 1
      /\ \A i \in 1 .. k - 1 : u[i] = s[i]
  <2>1. IF 1 <= k - 1 THEN (k - 1) - 1 + 1 = k - 1 ELSE k - 1 = 0
    BY <1>1
  <2>. QED
    BY <1>1, <1>2, <2>1, SubSeqProperties
<1>4. /\ v \in Seq(S)
      /\ Len(v) = Len(s) - k
      /\ \A i \in 1 .. Len(s) - k : v[i] = s[k + i]
  <2>1. k + 1 \in 1 .. Len(s) + 1 /\ Len(s) \in 0 .. Len(s) /\ k + 1 <= Len(s) + 1
    BY <1>1
  <2>2. /\ v \in Seq(S)
        /\ Len(v) = Len(s) - (k + 1) + 1
        /\ \A i \in 1 .. Len(s) - (k + 1) + 1 : v[i] = s[(k + 1) + i - 1]
    BY <2>1, SubSeqElements
  <2>3. Len(s) - (k + 1) + 1 = Len(s) - k
    BY <1>1
  <2>4. ASSUME NEW i \in 1 .. Len(s) - k PROVE v[i] = s[k + i]
    <3>1. i \in 1 .. Len(s) - (k + 1) + 1 /\ (k + 1) + i - 1 = k + i
      BY <1>1
    <3> HIDE DEF v
    <3>. QED
      BY <2>2, <3>1
  <2> HIDE DEF v
  <2>. QED
    BY <2>2, <2>3, <2>4
<1> HIDE DEF u, v
<1>5. /\ u \o v \in Seq(S)
      /\ Len(u \o v) = Len(u) + Len(v)
      /\ \A i \in 1 .. Len(u) + Len(v) :
           (u \o v)[i] = IF i <= Len(u) THEN u[i] ELSE v[i - Len(u)]
  BY <1>3, <1>4, ConcatProperties
<1>6. ASSUME NEW i \in 1 .. Len(s) - 1
      PROVE  (u \o v)[i] = IF i < k THEN s[i] ELSE s[i + 1]
  <2>1. CASE i < k
    <3>1. i <= Len(u) /\ i \in 1 .. k - 1 /\ i \in 1 .. Len(u) + Len(v)
      BY <1>1, <1>3, <1>4, <2>1
    <3>. QED
      BY <1>3, <1>5, <2>1, <3>1
  <2>2. CASE i >= k
    <3>1. /\ ~(i <= Len(u)) /\ i - Len(u) \in 1 .. Len(s) - k
          /\ i \in 1 .. Len(u) + Len(v) /\ k + (i - Len(u)) = i + 1
      BY <1>1, <1>3, <1>4, <2>2
    <3>2. (u \o v)[i] = v[i - Len(u)] /\ v[i - Len(u)] = s[i + 1]
      BY <1>4, <1>5, <3>1
    <3>. QED
      BY <1>1, <2>2, <3>2
  <2>3. i < k \/ i >= k
    BY <1>1
  <2>. QED
    BY <2>1, <2>2, <2>3
<1>7. RemoveAt(s, k) = u \o v
  BY DEF RemoveAt, u, v
<1>8. Len(u) + Len(v) = Len(s) - 1
  BY <1>1, <1>3, <1>4
<1>. QED
  BY <1>5, <1>6, <1>7, <1>8

\* RemoveFirst removes an element that occurs once.
LEMMA RemoveFirstIsRemoveAt ==
  ASSUME NEW S, NEW s \in Seq(S), NEW k \in 1 .. Len(s),
         \A i \in 1 .. Len(s) : s[i] = s[k] => i = k
  PROVE  RemoveFirst(s, s[k]) = RemoveAt(s, k)
<1> DEFINE I == {i \in 1 .. Len(s) : s[i] = s[k]}
<1>1. I = {k}
  OBVIOUS
<1>2. Min(I) = k
  <2>1. k \in I /\ \A y \in I : k <= y
    BY <1>1
  <2>2. \A x \in I : x = k
    BY <1>1
  <2> HIDE DEF I
  <2>. QED
    BY <2>1, <2>2 DEF Min
<1>3. SelectInSeq(s, LAMBDA w : w = s[k]) = k
  BY <1>1, <1>2 DEF SelectInSeq
<1>. QED
  BY <1>3 DEF RemoveFirst

LEMMA TailIsRemoveAt ==
  ASSUME NEW S, NEW s \in Seq(S), s # << >>
  PROVE  1 \in 1 .. Len(s) /\ Tail(s) = RemoveAt(s, 1)
<1>1. Len(s) \in Nat /\ Len(s) >= 1
  BY EmptySeq
<1>2. 1 \in 1 .. Len(s)
  BY <1>1
<1>3. /\ Tail(s) \in Seq(S) /\ Len(Tail(s)) = Len(s) - 1
      /\ \A i \in 1 .. Len(s) - 1 : Tail(s)[i] = s[i + 1]
  BY <1>1, HeadTailProperties
<1>4. /\ RemoveAt(s, 1) \in Seq(S) /\ Len(RemoveAt(s, 1)) = Len(s) - 1
      /\ \A i \in 1 .. Len(s) - 1 : RemoveAt(s, 1)[i] = s[i + 1]
  <2>1. \A i \in 1 .. Len(s) - 1 : ~(i < 1)
    BY <1>1
  <2>. QED
    BY <1>2, <2>1, RemoveAtElements
<1>5. \A i \in 1 .. Len(s) - 1 : Tail(s)[i] = RemoveAt(s, 1)[i]
  BY <1>3, <1>4
<1>6. Tail(s) = RemoveAt(s, 1)
  BY <1>3, <1>4, <1>5, SeqEqual
<1>. QED
  BY <1>2, <1>6
-----------------------------------------------------------------------------
(* The list. *)

\* queue and the list without the element at k.
Removed(k) ==
  /\ queue' = RemoveAt(queue, k)
  /\ queue' \in Seq(Packet)
  /\ Len(queue') = Len(queue) - 1
  /\ \A i \in 1 .. Len(queue) - 1 :
       queue'[i] = IF i < k THEN queue[i] ELSE queue[i + 1]
  /\ head' \in Pointer /\ tail' \in Pointer
  /\ next' \in [Packet -> Pointer]
  /\ len' \in 0 .. Limit
  /\ ListRepresents'

\* What the invariant says of the elements and the ends of the list.
LEMMA Ends ==
  ASSUME TypeOK, ListRepresents
  PROVE  /\ Len(queue) \in Nat
         /\ queue = << >> <=> Len(queue) = 0
         /\ \A i \in 1 .. Len(queue) : queue[i] \in Packet /\ queue[i] # NULL
         /\ \A i, j \in 1 .. Len(queue) : queue[i] = queue[j] => i = j
         /\ Len(queue) > 0 => head = queue[1] /\ tail = queue[Len(queue)] /\ head # NULL
         /\ Len(queue) = 0 => head = NULL /\ tail = NULL
         /\ \A i \in 1 .. Len(queue) :
              next[queue[i]] = IF i = Len(queue) THEN NULL ELSE queue[i + 1]
         /\ len = Len(queue)
<1>1. queue \in Seq(Packet)
  BY DEF TypeOK
<1>2. Len(queue) \in Nat /\ (queue = << >> <=> Len(queue) = 0)
  BY <1>1, EmptySeq, LenProperties
<1>3. \A i \in 1 .. Len(queue) : queue[i] \in Packet /\ queue[i] # NULL
  BY <1>1, <1>2, RQueueAssumption
<1>4. \A i, j \in 1 .. Len(queue) : queue[i] = queue[j] => i = j
  BY <1>2 DEF ListRepresents
<1>5. Len(queue) > 0 => head = queue[1] /\ tail = queue[Len(queue)] /\ head # NULL
  BY <1>2, <1>3 DEF ListRepresents
<1>. QED
  BY <1>2, <1>3, <1>4, <1>5 DEF ListRepresents

\* remove_head, and Unlink of the element at k, leave the list in order.
LEMMA RemovalKeepsList ==
  ASSUME TypeOK, ListRepresents, NEW k \in 1 .. Len(queue),
         \/ Unlink /\ p = queue[k] /\ prev = At(k - 1)
         \/ remove_head /\ k = 1
  PROVE  Removed(k)
<1> DEFINE n == Len(queue)
<1>0. n \in Nat /\ k \in Nat /\ 1 <= k /\ k <= n
  BY Ends
<1>1. /\ n \in Nat /\ k \in Nat /\ 1 <= k /\ k <= n
      /\ queue # << >>
      /\ \A i \in 1 .. n : queue[i] \in Packet /\ queue[i] # NULL
      /\ \A i, j \in 1 .. n : queue[i] = queue[j] => i = j
      /\ head = queue[1] /\ tail = queue[n]
      /\ \A i \in 1 .. n : next[queue[i]] = IF i = n THEN NULL ELSE queue[i + 1]
      /\ len = n
  BY Ends
<1>2. /\ queue \in Seq(Packet) /\ next \in [Packet -> Pointer] /\ len \in 0 .. Limit
      /\ Limit \in Nat
  BY RQueueAssumption DEF TypeOK
<1>3. /\ RemoveAt(queue, k) \in Seq(Packet)
      /\ Len(RemoveAt(queue, k)) = n - 1
      /\ \A i \in 1 .. n - 1 :
           RemoveAt(queue, k)[i] = IF i < k THEN queue[i] ELSE queue[i + 1]
  BY <1>2, RemoveAtElements
<1>4. (p = queue[k] => (p = head <=> k = 1) /\ (p = tail <=> k = n)) /\ (head = tail <=> n = 1)
  <2>1. 1 \in 1 .. n /\ n \in 1 .. n
    BY <1>0
  <2>. QED
    BY <1>1, <2>1
<1>5. CASE k = 1
  <2>1. remove_head
    BY <1>4, <1>5 DEF Unlink
  <2>2. queue' = RemoveAt(queue, k)
    BY <1>1, <1>2, <1>5, <2>1, TailIsRemoveAt DEF remove_head
  <2>3. /\ next' = next /\ len' = n - 1
        /\ head' = IF n = 1 THEN NULL ELSE queue[2]
        /\ tail' = IF n = 1 THEN NULL ELSE queue[n]
    BY <1>1, <1>4, <2>1 DEF remove_head
  <2>4. /\ Len(queue') = n - 1
        /\ \A i \in 1 .. n - 1 : queue'[i] = queue[i + 1]
    BY <1>1, <1>3, <1>5, <2>2
  <2>5. head' \in Pointer /\ tail' \in Pointer /\ len' \in 0 .. Limit
    BY <1>1, <1>2, <2>3 DEF Pointer
  <2>6. ListRepresents'
    <3>1. queue' = << >> <=> n = 1
      BY <1>1, <1>3, <2>2, <2>4, EmptySeq
    <3>3. \A i, j \in 1 .. n - 1 : i # j => queue'[i] # queue'[j]
      BY <1>1, <2>4
    <3>4. n > 1 => queue'[1] = queue[2] /\ queue'[n - 1] = queue[n]
      BY <1>1, <2>4
    <3>5. \A i \in 1 .. n - 1 :
            next'[queue'[i]] = IF i = n - 1 THEN NULL ELSE queue'[i + 1]
      BY <1>1, <2>3, <2>4
    <3>. QED
      BY <1>1, <2>3, <2>4, <3>1, <3>3, <3>4, <3>5 DEF ListRepresents
  <2>. QED
    BY <1>2, <1>3, <2>2, <2>3, <2>5, <2>6 DEF Removed
<1>6. CASE k # 1
  <2>1. Unlink /\ p = queue[k] /\ prev = queue[k - 1] /\ p # head /\ k - 1 \in 1 .. n
    BY <1>1, <1>4, <1>6 DEF At
  <2>2. queue' = RemoveAt(queue, k)
    <3>1. RemoveFirst(queue, queue[k]) = RemoveAt(queue, k)
      BY <1>1, <1>2, RemoveFirstIsRemoveAt
    <3>. QED
      BY <2>1, <3>1 DEF Unlink
  <2>3. /\ next' = [next EXCEPT ![queue[k - 1]] = IF k = n THEN NULL ELSE queue[k + 1]]
        /\ len' = n - 1 /\ head' = queue[1]
        /\ tail' = IF k = n THEN queue[n - 1] ELSE queue[n]
    BY <1>1, <1>4, <2>1 DEF Unlink
  <2>4. /\ Len(queue') = n - 1
        /\ \A i \in 1 .. n - 1 : queue'[i] = IF i < k THEN queue[i] ELSE queue[i + 1]
    BY <1>3, <2>2
  <2>5. /\ head' \in Pointer /\ tail' \in Pointer /\ len' \in 0 .. Limit
        /\ next' \in [Packet -> Pointer]
    BY <1>1, <1>2, <1>6, <2>1, <2>3 DEF Pointer
  <2>6. ListRepresents'
    <3>1. queue' # << >>
      BY <1>1, <1>3, <1>6, <2>2, EmptySeq
    <3>3. \A i, j \in 1 .. n - 1 : i # j => queue'[i] # queue'[j]
      BY <1>1, <2>4
    <3>4. queue'[1] = queue[1] /\ queue'[n - 1] = IF k = n THEN queue[n - 1] ELSE queue[n]
      BY <1>1, <1>6, <2>4
    <3>5. ASSUME NEW i \in 1 .. n - 1
          PROVE  next'[queue'[i]] = IF i = n - 1 THEN NULL ELSE queue'[i + 1]
      <4>1. CASE i < k - 1
        <5>1. /\ queue'[i] = queue[i] /\ queue'[i + 1] = queue[i + 1]
              /\ i \in 1 .. n /\ i # k - 1 /\ i # n /\ i # n - 1
          BY <1>1, <2>4, <4>1
        <5>2. next'[queue[i]] = next[queue[i]]
          BY <1>1, <1>2, <2>1, <2>3, <5>1
        <5>. QED
          BY <1>1, <5>1, <5>2
      <4>2. CASE i = k - 1
        <5>1. queue'[i] = queue[k - 1] /\ (k # n => queue'[i + 1] = queue[k + 1])
          BY <1>1, <2>4, <4>2
        <5>2. next'[queue[k - 1]] = IF k = n THEN NULL ELSE queue[k + 1]
          BY <1>1, <1>2, <2>1, <2>3
        <5>. QED
          BY <1>1, <4>2, <5>1, <5>2
      <4>3. CASE i > k - 1
        <5>1. /\ queue'[i] = queue[i + 1] /\ (i # n - 1 => queue'[i + 1] = queue[i + 2])
              /\ i + 1 \in 1 .. n /\ i + 1 # k - 1
          BY <1>1, <2>4, <4>3
        <5>2. next'[queue[i + 1]] = next[queue[i + 1]]
          BY <1>1, <1>2, <2>1, <2>3, <5>1
        <5>. QED
          BY <1>1, <5>1, <5>2
      <4>. QED
        BY <1>1, <4>1, <4>2, <4>3
    <3>. QED
      BY <1>1, <2>3, <2>4, <3>1, <3>3, <3>4, <3>5 DEF ListRepresents
  <2>. QED
    BY <1>3, <2>2, <2>4, <2>5, <2>6 DEF Removed
<1>. QED
  BY <1>5, <1>6
-----------------------------------------------------------------------------
(* One lemma per action: it keeps the invariant and is a step of PacketBuffer. *)

Good == IInv' /\ [Buffer!Next]_(Buffer!vars)

\* What is left of the queue is as fresh, and in the same order, as before.
LEMMA RemovalKeepsOrder ==
  ASSUME IInv, NEW k \in 1 .. Len(queue), Removed(k), UNCHANGED <<ts, now>>
  PROVE  /\ TypeOK /\ ListRepresents
         /\ OldestFirst' /\ Ahead'
         /\ \A i \in 1 .. Len(queue') : \E j \in 1 .. Len(queue) : queue'[i] = queue[j]
<1> DEFINE n == Len(queue)
<1>1. n \in Nat /\ k \in Nat /\ 1 <= k /\ k <= n /\ TypeOK /\ ListRepresents
  BY Ends DEF IInv
<1>2. Len(queue') = n - 1 /\ ts' = ts /\ now' = now
  BY DEF Removed
<1>3. \A i \in 1 .. n - 1 : queue'[i] = IF i < k THEN queue[i] ELSE queue[i + 1]
  BY DEF Removed
<1>4. OldestFirst'
  <2>1. \A i, j \in 1 .. n : i < j => ts[queue[i]] <= ts[queue[j]]
    BY DEF IInv, OldestFirst
  <2>2. ASSUME NEW i \in 1 .. n - 1, NEW j \in 1 .. n - 1, i < j
        PROVE  ts[queue'[i]] <= ts[queue'[j]]
    <3>1. i \in 1 .. n /\ j \in 1 .. n /\ i + 1 \in 1 .. n /\ j + 1 \in 1 .. n
      BY <1>1
    <3>2. i < j + 1 /\ i + 1 < j + 1 /\ (j < k => i < k)
      BY <1>1, <2>2
    <3>. QED
      BY <1>3, <2>1, <2>2, <3>1, <3>2
  <2>. QED
    BY <1>2, <2>2 DEF OldestFirst
<1>5. \A i \in 1 .. Len(queue') : \E j \in 1 .. n : queue'[i] = queue[j]
  <2>1. ASSUME NEW i \in 1 .. n - 1 PROVE \E j \in 1 .. n : queue'[i] = queue[j]
    <3>1. i \in 1 .. n /\ i + 1 \in 1 .. n
      BY <1>1
    <3>. QED
      BY <1>3, <3>1
  <2>. QED
    BY <1>2, <2>1
<1>6. Ahead'
  BY <1>2, <1>5 DEF IInv, Ahead
<1>. QED
  BY <1>1, <1>4, <1>5, <1>6

\* A call starts with the cursors at the head.
LEMMA CallStep == ASSUME IInv, Calls PROVE Good
<1>1. /\ pc = "idle" /\ p' = head /\ prev' = NULL /\ result' = NULL
      /\ UNCHANGED <<list, ts, now>>
      /\ \/ op' = "enque" /\ pc' = "purge" /\ arg' \in Packet
            /\ \A i \in DOMAIN queue : queue[i] # arg'
         \/ op' = "deque" /\ pc' = "purge"
         \/ op' = "dequeFor" /\ pc' = "purge" /\ arg' \in Addr
         \/ op' = "find" /\ pc' = "search" /\ arg' \in Addr
  BY DEF Calls, CallEnque, CallDeque, CallDequeFor, CallFind, Call
<1>2. /\ TypeOK /\ ListRepresents /\ OldestFirst /\ Ahead
      /\ head' = head /\ tail' = tail /\ len' = len /\ next' = next /\ queue' = queue
  BY <1>1 DEF IInv, list
<1>3. TypeOK'
  BY <1>1, <1>2 DEF TypeOK, Pointer
<1>4. ListRepresents' /\ OldestFirst' /\ Ahead'
  BY <1>1, <1>2 DEF ListRepresents, OldestFirst, Ahead
<1>5. Cursors'
  <2>1. Len(queue) \in Nat /\ 1 \in 1 .. Len(queue) + 1
    BY <1>2, Ends
  <2>2. head = At(1) /\ At(0) = NULL
    BY <1>2, Ends DEF At
  <2>3. \A j \in 1 .. Len(queue) : ~(j < 1)
    BY <2>1
  <2>4. CursorsAt(1)'
    BY <1>1, <1>2, <2>2, <2>3 DEF CursorsAt, At
  <2>. QED
    BY <1>2, <2>1, <2>4 DEF Cursors
<1>6. Purged'
  BY <1>1 DEF Purged
<1>7. Apart'
  <2>1. DOMAIN queue = 1 .. Len(queue)
    BY <1>2, LenProperties DEF TypeOK
  <2>2. op' = "enque" => \A i \in 1 .. Len(queue) : queue[i] # arg'
    BY <1>1, <2>1
  <2>. QED
    BY <1>2, <2>2 DEF Apart
<1>8. Buffer!Ask
  BY <1>1, <1>2 DEF Buffer!Ask
<1>. QED
  BY <1>3, <1>4, <1>5, <1>6, <1>7, <1>8 DEF Good, IInv, Buffer!Next

\* The cursors move on over a packet the loop does not look for.
LEMMA SkipStep == ASSUME IInv, PurgeSkip \/ SearchSkip PROVE Good
<1> DEFINE n == Len(queue)
<1>1. /\ p # NULL /\ p' = next[p] /\ prev' = p
      /\ pc \in {"purge", "search"}
      /\ pc = "purge" => ~Aged(p)
      /\ pc = "search" => daddr[p] # arg
      /\ UNCHANGED <<list, ts, pc, op, arg, result, now>>
  BY DEF PurgeSkip, SearchSkip, Advance
<1>2. /\ TypeOK /\ ListRepresents /\ OldestFirst /\ Ahead /\ Cursors /\ Purged /\ Apart
      /\ head' = head /\ tail' = tail /\ len' = len /\ next' = next /\ queue' = queue
      /\ ts' = ts /\ pc' = pc /\ op' = op /\ arg' = arg /\ result' = result /\ now' = now
  BY <1>1 DEF IInv, list
<1>3. p \in Packet /\ TypeOK'
  BY <1>1, <1>2 DEF TypeOK, Pointer
<1>4. ListRepresents' /\ OldestFirst' /\ Ahead' /\ Purged' /\ Apart'
  BY <1>2 DEF ListRepresents, OldestFirst, Ahead, Purged, Apart
<1>5. Cursors'
  <2>1. PICK k \in 1 .. n + 1 : CursorsAt(k)
    BY <1>1, <1>2 DEF Cursors
  <2>2. n \in Nat /\ k \in 1 .. n /\ p = queue[k] /\ prev = At(k - 1)
    BY <1>1, <1>2, <2>1, Ends DEF CursorsAt, At
  <2>3. k + 1 \in 1 .. n + 1 /\ (k + 1) - 1 = k /\ (k + 1 \in 1 .. n <=> k # n)
    BY <2>2
  <2>4. next[p] = At(k + 1) /\ p = At((k + 1) - 1)
    BY <1>2, <2>2, <2>3, Ends DEF At
  <2>5. \A j \in 1 .. n : j < k + 1 => j < k \/ j = k
    BY <2>2
  <2>6. pc = "purge" => \A j \in 1 .. n : j < k + 1 => ts[queue[j]] >= now
    <3>1. ts[p] \in Nat /\ now \in Nat
      BY <1>2, <1>3, RQueueAssumption DEF TypeOK
    <3>2. pc = "purge" => ts[p] >= now
      BY <1>1, <3>1 DEF Aged
    <3>. QED
      BY <2>1, <2>2, <2>5, <3>2 DEF CursorsAt
  <2>7. pc = "search" => \A j \in 1 .. n : j < k + 1 => daddr[queue[j]] # arg
    BY <1>1, <2>1, <2>2, <2>5 DEF CursorsAt
  <2>8. CursorsAt(k + 1)'
    BY <1>1, <1>2, <2>4, <2>6, <2>7 DEF CursorsAt, At
  <2>. QED
    BY <1>2, <2>3, <2>8 DEF Cursors
<1>. QED
  BY <1>2, <1>3, <1>4, <1>5 DEF Good, IInv, Buffer!vars

\* purge removes an aged packet and starts again at the head.
LEMMA PurgeRemoveStep == ASSUME IInv, PurgeRemove PROVE Good
<1>1. /\ pc = "purge" /\ p # NULL /\ Aged(p) /\ Unlink
      /\ p' = head' /\ prev' = NULL
      /\ ts' = ts /\ pc' = pc /\ op' = op /\ arg' = arg /\ result' = result /\ now' = now
  BY DEF PurgeRemove
<1>2. TypeOK /\ ListRepresents /\ Cursors /\ Apart
  BY DEF IInv
<1>3. PICK k \in 1 .. Len(queue) + 1 : CursorsAt(k)
  BY <1>1, <1>2 DEF Cursors
<1>4. k \in 1 .. Len(queue) /\ p = queue[k] /\ prev = At(k - 1)
  BY <1>1, <1>2, <1>3, Ends DEF CursorsAt, At
<1>5. Removed(k)
  BY <1>1, <1>2, <1>4, RemovalKeepsList
<1>6. /\ OldestFirst' /\ Ahead'
      /\ \A i \in 1 .. Len(queue') : \E j \in 1 .. Len(queue) : queue'[i] = queue[j]
  BY <1>1, <1>4, <1>5, RemovalKeepsOrder
<1>7. TypeOK' /\ ListRepresents'
  <2>1. head' \in Pointer /\ NULL \in Pointer
    BY <1>5 DEF Removed, Pointer
  <2>. QED
    BY <1>1, <1>2, <1>5, <2>1 DEF TypeOK, Removed
<1>8. Cursors'
  <2>1. Len(queue') \in Nat /\ 1 \in 1 .. Len(queue') + 1
    BY <1>5, LenProperties DEF Removed
  <2>2. head' = At(1)' /\ At(0)' = NULL
    <3>1. /\ queue' \in Seq(Packet)
          /\ head' = IF queue' = << >> THEN NULL ELSE queue'[1]
      BY <1>5 DEF Removed, ListRepresents
    <3>2. queue' = << >> <=> Len(queue') = 0
      BY <3>1, EmptySeq
    <3>. QED
      BY <2>1, <3>1, <3>2 DEF At
  <2>3. \A j \in 1 .. Len(queue') : ~(j < 1)
    BY <2>1
  <2>4. CursorsAt(1)'
    BY <1>1, <2>2, <2>3 DEF CursorsAt, At
  <2>. QED
    BY <2>1, <2>4 DEF Cursors
<1>9. Purged' /\ Apart'
  BY <1>1, <1>2, <1>6 DEF Purged, Apart
<1>10. Buffer!Expire
  <2>1. /\ queue' = RemoveAt(queue, k) /\ ts[queue[k]] < now
        /\ ts' = ts /\ now' = now /\ result' = result
    BY <1>1, <1>4, <1>5 DEF Removed, Aged
  <2>2. RemoveAt(queue, k) = Buffer!RemoveAt(queue, k)
    BY DEF RemoveAt, Buffer!RemoveAt
  <2>. QED
    BY <1>4, <2>1, <2>2 DEF Buffer!Expire
<1>. QED
  BY <1>6, <1>7, <1>8, <1>9, <1>10 DEF Good, IInv, Buffer!Next

\* purge has passed every packet: none has timed out.
LEMMA PurgeDoneStep == ASSUME IInv, PurgeDone PROVE Good
<1> DEFINE n == Len(queue)
<1>1. /\ pc = "purge" /\ p = NULL /\ p' = head /\ prev' = NULL
      /\ pc' = IF op = "dequeFor" THEN "search" ELSE "finish"
      /\ head' = head /\ tail' = tail /\ len' = len /\ next' = next /\ queue' = queue
      /\ ts' = ts /\ op' = op /\ arg' = arg /\ result' = result /\ now' = now
  BY DEF PurgeDone, list
<1>2. TypeOK /\ ListRepresents /\ OldestFirst /\ Ahead /\ Cursors /\ Apart
  BY DEF IInv
<1>3. PICK k \in 1 .. n + 1 : CursorsAt(k)
  BY <1>1, <1>2 DEF Cursors
<1>4. n \in Nat /\ k \notin 1 .. n
  BY <1>1, <1>2, <1>3, Ends DEF CursorsAt, At
<1>5. \A i \in 1 .. n : i < k
  BY <1>4
<1>6. \A i \in 1 .. n : ts[queue[i]] >= now
  BY <1>1, <1>3, <1>5 DEF CursorsAt
<1>7. TypeOK'
  BY <1>1, <1>2 DEF TypeOK, Pointer
<1>8. ListRepresents' /\ OldestFirst' /\ Ahead' /\ Apart'
  BY <1>1, <1>2 DEF ListRepresents, OldestFirst, Ahead, Apart
<1>9. Purged'
  BY <1>1, <1>6 DEF Purged
<1>10. Cursors'
  <2>1. 1 \in 1 .. n + 1 /\ \A j \in 1 .. n : ~(j < 1)
    BY <1>4
  <2>2. head = At(1) /\ At(0) = NULL
    BY <1>2, Ends DEF At
  <2>3. CursorsAt(1)'
    BY <1>1, <2>1, <2>2 DEF CursorsAt, At
  <2>. QED
    BY <1>1, <2>1, <2>3 DEF Cursors
<1>. QED
  BY <1>1, <1>7, <1>8, <1>9, <1>10 DEF Good, IInv, Buffer!vars

\* The call returns: no cursor and no argument is left.
LEMMA ReturnStep ==
  ASSUME IInv, NEW r, Return(r)
  PROVE  /\ pc' = "idle" /\ op' = "none" /\ result' = r /\ now' = now
         /\ p' \in Pointer /\ prev' \in Pointer
         /\ Cursors' /\ Purged' /\ Apart'
BY DEF Return, Cursors, Purged, Apart, Pointer

\* deque takes the head.
LEMMA DequeStep == ASSUME IInv, Deque PROVE Good
<1>1. /\ pc = "finish" /\ Return(head) /\ ts' = ts
      /\ IF head = NULL THEN UNCHANGED list ELSE remove_head
  BY DEF Deque
<1>2. TypeOK /\ ListRepresents /\ OldestFirst /\ Ahead
  BY DEF IInv
<1>3. /\ pc' = "idle" /\ op' = "none" /\ result' = head /\ now' = now
      /\ p' \in Pointer /\ prev' \in Pointer
      /\ Cursors' /\ Purged' /\ Apart'
  BY <1>1, ReturnStep
<1>4. Buffer!AllFresh
  BY <1>1 DEF IInv, Purged, Buffer!AllFresh
<1>5. CASE head = NULL
  <2>1. queue = << >>
    BY <1>2, <1>5, Ends
  <2>2. head' = head /\ tail' = tail /\ len' = len /\ next' = next /\ queue' = queue
    BY <1>1, <1>5 DEF list
  <2>3. TypeOK'
    BY <1>1, <1>2, <1>3, <2>2 DEF TypeOK
  <2>4. ListRepresents' /\ OldestFirst' /\ Ahead'
    BY <1>1, <1>2, <1>3, <2>2 DEF ListRepresents, OldestFirst, Ahead
  <2>5. Buffer!deque
    BY <1>1, <1>3, <1>4, <1>5, <2>1, <2>2 DEF Buffer!deque
  <2>. QED
    BY <1>3, <2>3, <2>4, <2>5 DEF Good, IInv, Buffer!Next
<1>6. CASE head # NULL
  <2>1. 1 \in 1 .. Len(queue) /\ queue # << >> /\ queue \in Seq(Packet) /\ head = queue[1]
    BY <1>2, <1>6, Ends DEF TypeOK
  <2>2. remove_head /\ Removed(1)
    BY <1>1, <1>2, <1>6, <2>1, RemovalKeepsList
  <2>3. TypeOK' /\ ListRepresents'
    <3>1. result' \in Pointer
      BY <1>2, <1>3 DEF TypeOK
    <3>. QED
      BY <1>1, <1>2, <1>3, <2>2, <3>1 DEF TypeOK, Removed
  <2>4. OldestFirst' /\ Ahead'
    BY <1>1, <1>3, <2>1, <2>2, RemovalKeepsOrder
  <2>5. queue' = Tail(queue) /\ head = Head(queue)
    BY <2>1, <2>2 DEF remove_head
  <2>6. Buffer!deque
    BY <1>1, <1>3, <1>4, <2>1, <2>5 DEF Buffer!deque
  <2>. QED
    BY <1>3, <2>3, <2>4, <2>6 DEF Good, IInv, Buffer!Next
<1>. QED
  BY <1>5, <1>6

\* Where findPacketWithDst ends: at the first packet for arg, or past the last.
LEMMA SearchEnd ==
  ASSUME IInv, pc = "search", p # NULL => daddr[p] = arg
  PROVE  \/ p = NULL /\ Buffer!NoneFor(arg)
         \/ \E k \in 1 .. Len(queue) :
              p = queue[k] /\ p # NULL /\ prev = At(k - 1) /\ Buffer!FirstFor(arg, k)
<1> DEFINE n == Len(queue)
<1>1. TypeOK /\ ListRepresents /\ Cursors
  BY DEF IInv
<1>2. PICK k \in 1 .. n + 1 : CursorsAt(k)
  BY <1>1 DEF Cursors
<1>3. n \in Nat /\ k \in Nat
  BY <1>1, Ends
<1>4. p = At(k) /\ prev = At(k - 1) /\ \A j \in 1 .. n : j < k => daddr[queue[j]] # arg
  BY <1>2 DEF CursorsAt
<1>5. CASE k \in 1 .. n
  <2>1. p = queue[k] /\ p # NULL
    BY <1>1, <1>4, <1>5, Ends DEF At
  <2>. QED
    BY <1>4, <1>5, <2>1 DEF Buffer!FirstFor
<1>6. CASE k \notin 1 .. n
  <2>1. \A j \in 1 .. n : j < k
    BY <1>3, <1>6
  <2>. QED
    BY <1>4, <1>6, <2>1 DEF At, Buffer!NoneFor
<1>. QED
  BY <1>5, <1>6

\* deque(dst) takes the packet found.
LEMMA DequeForStep == ASSUME IInv, DequeFor PROVE Good
<1>1. /\ pc = "search" /\ op = "dequeFor" /\ Return(p) /\ ts' = ts
      /\ p # NULL => daddr[p] = arg
      /\ IF p = NULL THEN UNCHANGED list ELSE Unlink
  BY DEF DequeFor
<1>2. TypeOK /\ ListRepresents /\ OldestFirst /\ Ahead /\ arg \in Addr
  BY <1>1 DEF IInv, TypeOK
<1>3. /\ pc' = "idle" /\ op' = "none" /\ result' = p /\ now' = now
      /\ p' \in Pointer /\ prev' \in Pointer
      /\ Cursors' /\ Purged' /\ Apart'
  BY <1>1, ReturnStep
<1>4. Buffer!AllFresh
  BY <1>1 DEF IInv, Purged, Buffer!AllFresh
<1>5. CASE p = NULL /\ Buffer!NoneFor(arg)
  <2>1. head' = head /\ tail' = tail /\ len' = len /\ next' = next /\ queue' = queue
    BY <1>1, <1>5 DEF list
  <2>2. TypeOK'
    BY <1>1, <1>2, <1>3, <2>1 DEF TypeOK
  <2>3. ListRepresents' /\ OldestFirst' /\ Ahead'
    BY <1>1, <1>2, <1>3, <2>1 DEF ListRepresents, OldestFirst, Ahead
  <2>4. Buffer!deque_for(arg)
    BY <1>1, <1>3, <1>4, <1>5, <2>1 DEF Buffer!deque_for
  <2>. QED
    BY <1>2, <1>3, <2>2, <2>3, <2>4 DEF Good, IInv, Buffer!Next
<1>6. ASSUME NEW k \in 1 .. Len(queue),
             p = queue[k], p # NULL, prev = At(k - 1), Buffer!FirstFor(arg, k)
      PROVE  Good
  <2>1. Removed(k)
    BY <1>1, <1>2, <1>6, RemovalKeepsList
  <2>2. TypeOK' /\ ListRepresents'
    <3>1. result' \in Pointer
      BY <1>2, <1>3 DEF TypeOK
    <3>. QED
      BY <1>1, <1>2, <1>3, <2>1, <3>1 DEF TypeOK, Removed
  <2>3. OldestFirst' /\ Ahead'
    BY <1>1, <1>3, <2>1, RemovalKeepsOrder
  <2>4. Buffer!deque_for(arg)
    <3>1. queue' = RemoveAt(queue, k) /\ result' = queue[k] /\ ts' = ts /\ now' = now
      BY <1>1, <1>3, <1>6, <2>1 DEF Removed
    <3>2. RemoveAt(queue, k) = Buffer!RemoveAt(queue, k)
      BY DEF RemoveAt, Buffer!RemoveAt
    <3>. QED
      BY <1>4, <1>6, <3>1, <3>2 DEF Buffer!deque_for
  <2>. QED
    BY <1>2, <1>3, <2>2, <2>3, <2>4 DEF Good, IInv, Buffer!Next
<1>. QED
  BY <1>1, <1>5, <1>6, SearchEnd

\* find only looks.
LEMMA FindStep == ASSUME IInv, Find PROVE Good
<1>1. /\ pc = "search" /\ op = "find" /\ Return(IF p = NULL THEN 0 ELSE 1)
      /\ p # NULL => daddr[p] = arg
      /\ head' = head /\ tail' = tail /\ len' = len /\ next' = next /\ queue' = queue
      /\ ts' = ts
  BY DEF Find, list
<1>2. TypeOK /\ ListRepresents /\ OldestFirst /\ Ahead /\ arg \in Addr
  BY <1>1 DEF IInv, TypeOK
<1>3. /\ pc' = "idle" /\ op' = "none" /\ now' = now
      /\ result' = IF p = NULL THEN 0 ELSE 1
      /\ p' \in Pointer /\ prev' \in Pointer
      /\ Cursors' /\ Purged' /\ Apart'
  BY <1>1, ReturnStep
<1>4. TypeOK'
  BY <1>1, <1>2, <1>3 DEF TypeOK
<1>5. ListRepresents' /\ OldestFirst' /\ Ahead'
  BY <1>1, <1>2, <1>3 DEF ListRepresents, OldestFirst, Ahead
<1>6. p = NULL <=> Buffer!NoneFor(arg)
  BY <1>1, SearchEnd DEF Buffer!NoneFor, Buffer!FirstFor
<1>7. Buffer!find(arg)
  BY <1>1, <1>3, <1>6 DEF Buffer!find
<1>. QED
  BY <1>2, <1>3, <1>4, <1>5, <1>7 DEF Good, IInv, Buffer!Next

LEMMA TickStep == ASSUME IInv, Tick PROVE Good
<1>1. /\ pc = "idle" /\ now < MaxNow /\ now' = now + 1
      /\ UNCHANGED <<head, tail, len, next, queue, ts, pc, op, arg, p, prev, result>>
  BY DEF Tick, list, call
<1>2. TypeOK /\ ListRepresents /\ OldestFirst /\ Ahead /\ Cursors /\ Purged /\ Apart
  BY DEF IInv
<1>3. TypeOK'
  BY <1>1, <1>2, RQueueAssumption DEF TypeOK
<1>4. ListRepresents' /\ OldestFirst' /\ Apart'
  BY <1>1, <1>2 DEF ListRepresents, OldestFirst, Apart
<1>5. Ahead'
  <2>1. \A i \in 1 .. Len(queue) : ts[queue[i]] \in Nat
    BY <1>2, Ends DEF TypeOK
  <2>2. now \in Nat /\ Timeout \in Nat
    BY <1>2, RQueueAssumption DEF TypeOK
  <2>. QED
    BY <1>1, <1>2, <2>1, <2>2 DEF Ahead
<1>6. Cursors' /\ Purged'
  BY <1>1, <1>2 DEF Cursors, Purged, TypeOK
<1>7. Buffer!Tick
  BY <1>1 DEF Buffer!Tick
<1>. QED
  BY <1>3, <1>4, <1>5, <1>6, <1>7 DEF Good, IInv, Buffer!Next

\* enque links the packet at the tail, after dropping the head of a full queue.
LEMMA EnqueStep == ASSUME IInv, Enque PROVE Good
<1> DEFINE n == Len(queue)
           full == len = Limit
           h == IF full THEN (IF head = tail THEN NULL ELSE next[head]) ELSE head
           q == IF full THEN Tail(queue) ELSE queue
           d == IF full THEN 1 ELSE 0
           m == n - d
<1>1. /\ pc = "finish" /\ op = "enque" /\ Return(NULL)
      /\ ts' = [ts EXCEPT ![arg] = now + Timeout]
      /\ head' = IF h = NULL THEN arg ELSE h
      /\ tail' = arg
      /\ next' = [x \in Packet |-> IF x = arg THEN NULL
                                   ELSE IF x = tail /\ h # NULL THEN arg ELSE next[x]]
      /\ len' = IF full THEN len ELSE len + 1
      /\ queue' = Append(q, arg)
  BY DEF Enque
<1>2. TypeOK /\ ListRepresents /\ OldestFirst /\ Ahead /\ arg \in Packet /\ arg # NULL
  BY <1>1, RQueueAssumption DEF IInv, TypeOK
<1>3. /\ queue \in Seq(Packet) /\ next \in [Packet -> Pointer] /\ ts \in [Packet -> Nat]
      /\ len \in 0 .. Limit /\ Limit \in Nat /\ Limit >= 1 /\ now \in Nat /\ Timeout \in Nat
  BY <1>2, RQueueAssumption DEF TypeOK
<1>4. n \in Nat /\ len = n /\ m \in Nat /\ m + 1 <= Limit /\ (m = 0 => n = 0 \/ full)
  BY <1>2, <1>3, Ends
<1>5. q \in Seq(Packet) /\ Len(q) = m /\ \A i \in 1 .. m : q[i] = queue[i + d]
  <2>1. CASE full
    <3>1. queue # << >>
      BY <1>2, <1>3, <1>4, <2>1, Ends
    <3>. QED
      BY <1>3, <1>4, <2>1, <3>1, HeadTailProperties
  <2>2. CASE ~full
    BY <1>3, <1>4, <2>2
  <2>. QED
    BY <2>1, <2>2
<1>6. /\ \A i \in 1 .. n : queue[i] \in Packet /\ queue[i] # NULL /\ queue[i] # arg
      /\ \A i, j \in 1 .. n : queue[i] = queue[j] => i = j
      /\ n > 0 => head = queue[1] /\ tail = queue[n] /\ head # NULL
      /\ n = 0 => head = NULL /\ tail = NULL
      /\ \A i \in 1 .. n : next[queue[i]] = IF i = n THEN NULL ELSE queue[i + 1]
      /\ \A i \in 1 .. n : ts[queue[i]] >= now /\ ts[queue[i]] <= now + Timeout
      /\ \A i, j \in 1 .. n : i < j => ts[queue[i]] <= ts[queue[j]]
  <2>1. \A i \in 1 .. n : queue[i] # arg /\ ts[queue[i]] >= now /\ ts[queue[i]] <= now + Timeout
    BY <1>1 DEF IInv, Apart, Purged, Ahead
  <2>2. \A i, j \in 1 .. n : i < j => ts[queue[i]] <= ts[queue[j]]
    BY <1>2 DEF OldestFirst
  <2>. QED
    BY <1>2, <2>1, <2>2, Ends
<1>7. /\ \A i \in 1 .. m : i + d \in 1 .. n /\ (i + d = n <=> i = m)
      /\ \A i, j \in 1 .. m : (i + d = j + d <=> i = j) /\ (i < j => i + d < j + d)
  BY <1>4
<1> HIDE DEF q, n
<1>8. h = IF m = 0 THEN NULL ELSE queue[1 + d]
  <2>1. CASE ~full
    BY <1>4, <1>6, <2>1
  <2>2. CASE full
    <3>1. n >= 1 /\ 1 \in 1 .. n /\ n \in 1 .. n
      BY <1>3, <1>4, <2>2
    <3>2. head = tail <=> n = 1
      BY <1>6, <3>1
    <3>. QED
      BY <1>4, <1>6, <2>2, <3>1, <3>2
  <2>. QED
    BY <2>1, <2>2
<1>9. m > 0 => 1 + d \in 1 .. n /\ h # NULL
  BY <1>4, <1>6, <1>7, <1>8
<1> HIDE DEF h
<1>10. /\ queue' \in Seq(Packet) /\ Len(queue') = m + 1
       /\ \A i \in 1 .. m : queue'[i] = queue[i + d]
       /\ queue'[m + 1] = arg
  <2>1. /\ Append(q, arg) \in Seq(Packet) /\ Len(Append(q, arg)) = m + 1
        /\ \A i \in 1 .. m : Append(q, arg)[i] = q[i]
        /\ Append(q, arg)[m + 1] = arg
    BY <1>2, <1>5, AppendProperties
  <2>. QED
    BY <1>1, <1>5, <2>1
<1> HIDE DEF m, d
<1>11. \A i \in 1 .. m + 1 : i = m + 1 \/ (i \in 1 .. m /\ i # m + 1)
  BY <1>4
<1>12. /\ next'[arg] = NULL
       /\ \A i \in 1 .. m : next'[queue[i + d]] = IF i = m THEN arg ELSE queue[(i + 1) + d]
  <2>1. next'[arg] = NULL
    BY <1>1, <1>2
  <2>2. ASSUME NEW i \in 1 .. m
        PROVE  next'[queue[i + d]] = IF i = m THEN arg ELSE queue[(i + 1) + d]
    <3>1. m > 0 /\ i + d \in 1 .. n /\ n \in 1 .. n /\ n > 0
      BY <1>4, <1>7
    <3>2. next'[queue[i + d]] = IF queue[i + d] = tail THEN arg ELSE next[queue[i + d]]
      BY <1>1, <1>6, <1>9, <3>1
    <3>3. queue[i + d] = tail <=> i = m
      BY <1>6, <1>7, <3>1
    <3>4. i # m => next[queue[i + d]] = queue[(i + d) + 1]
      BY <1>6, <1>7, <3>1
    <3>5. (i + d) + 1 = (i + 1) + d
      BY DEF d
    <3>. QED
      BY <3>2, <3>3, <3>4, <3>5
  <2>. QED
    BY <2>1, <2>2
<1>13. ListRepresents'
  <2>1. \A i, j \in 1 .. m + 1 : i # j => queue'[i] # queue'[j]
    BY <1>6, <1>7, <1>10, <1>11
  <2>2. /\ queue' # << >>
        /\ head' = queue'[1] /\ tail' = queue'[m + 1]
    <3>1. queue' # << >>
      BY <1>4, <1>10, EmptySeq
    <3>2. CASE m = 0
      BY <1>1, <1>8, <1>10, <3>2
    <3>3. CASE m # 0
      <4>1. 1 \in 1 .. m
        BY <1>4, <3>3
      <4>2. head' = h /\ h = queue[1 + d]
        BY <1>1, <1>4, <1>8, <1>9, <3>3
      <4>. QED
        BY <1>1, <1>10, <3>1, <4>1, <4>2
    <3>. QED
      BY <3>1, <3>2, <3>3
  <2>3. ASSUME NEW i \in 1 .. m + 1
        PROVE  next'[queue'[i]] = IF i = m + 1 THEN NULL ELSE queue'[i + 1]
    <3>1. CASE i = m + 1
      BY <1>10, <1>12, <3>1
    <3>2. CASE i \in 1 .. m /\ i # m
      <4>1. i + 1 \in 1 .. m /\ i # m + 1
        BY <1>4, <3>2
      <4>. QED
        BY <1>10, <1>12, <3>2, <4>1
    <3>3. CASE i = m /\ i \in 1 .. m
      BY <1>4, <1>10, <1>12, <3>3
    <3>. QED
      BY <1>11, <3>1, <3>2, <3>3
  <2>4. len' = m + 1
    BY <1>1, <1>3, <1>4 DEF m, d
  <2>. QED
    BY <1>10, <2>1, <2>2, <2>3, <2>4 DEF ListRepresents
<1>14. /\ pc' = "idle" /\ op' = "none" /\ result' = NULL /\ now' = now
       /\ p' \in Pointer /\ prev' \in Pointer
       /\ Cursors' /\ Purged' /\ Apart'
  BY <1>1, ReturnStep
<1>15. TypeOK'
  <2>1. head' \in Pointer /\ tail' \in Pointer
    BY <1>1, <1>2, <1>4, <1>6, <1>8, <1>9 DEF Pointer
  <2>2. next' \in [Packet -> Pointer]
    BY <1>1, <1>2, <1>3 DEF Pointer
  <2>3. ts' \in [Packet -> Nat]
    <3>1. ts' = [ts EXCEPT ![arg] = now + Timeout] /\ now + Timeout \in Nat
      BY <1>1, <1>3
    <3>. QED
      BY <1>3, <3>1
  <2>4. len' \in 0 .. Limit
    BY <1>1, <1>3, <1>4
  <2>5. now' \in 0 .. MaxNow /\ result' \in Pointer \cup {0, 1}
    BY <1>2, <1>14 DEF TypeOK, Pointer
  <2>. QED
    BY <1>10, <1>14, <2>1, <2>2, <2>3, <2>4, <2>5 DEF TypeOK
<1>16. \A i \in 1 .. m : ts'[queue'[i]] = ts[queue[i + d]]
  <2>1. ts' = [ts EXCEPT ![arg] = now + Timeout] /\ ts \in [Packet -> Nat]
    BY <1>1, <1>3
  <2>2. \A i \in 1 .. m : queue[i + d] \in Packet /\ queue[i + d] # arg
    BY <1>6, <1>7
  <2>. QED
    BY <1>10, <2>1, <2>2
<1>17. ts'[queue'[m + 1]] = now + Timeout
  BY <1>1, <1>2, <1>3, <1>10
<1>18. OldestFirst'
  <2>1. ASSUME NEW i \in 1 .. m + 1, NEW j \in 1 .. m + 1, i < j
        PROVE  ts'[queue'[i]] <= ts'[queue'[j]]
    <3>1. i \in 1 .. m
      BY <1>4, <2>1
    <3>2. CASE j = m + 1
      BY <1>6, <1>7, <1>16, <1>17, <3>1, <3>2
    <3>3. CASE j \in 1 .. m
      BY <1>6, <1>7, <1>16, <2>1, <3>1, <3>3
    <3>. QED
      BY <1>11, <3>2, <3>3
  <2>. QED
    BY <1>10, <2>1 DEF OldestFirst
<1>19. Ahead'
  <2>1. \A i \in 1 .. m + 1 : ts'[queue'[i]] <= now + Timeout
    BY <1>3, <1>6, <1>7, <1>11, <1>16, <1>17
  <2>. QED
    BY <1>10, <1>14, <2>1 DEF Ahead
<1>20. Buffer!enque(arg)
  <2>1. Buffer!AllFresh
    BY <1>1 DEF IInv, Purged, Buffer!AllFresh
  <2>2. \A i \in 1 .. Len(queue) : queue[i] # arg
    BY <1>1 DEF IInv, Apart
  <2>3. queue' = Append(IF Len(queue) = Limit THEN Tail(queue) ELSE queue, arg)
    BY <1>1, <1>4 DEF q, n
  <2>. QED
    BY <1>1, <1>14, <2>1, <2>2, <2>3 DEF Buffer!enque
<1>. QED
  BY <1>2, <1>13, <1>14, <1>15, <1>18, <1>19, <1>20 DEF Good, IInv, Buffer!Next
-----------------------------------------------------------------------------
LEMMA InitHolds == Init => IInv /\ Buffer!Init
<1> SUFFICES ASSUME Init PROVE IInv /\ Buffer!Init
  OBVIOUS
<1>1. Len(queue) = 0 /\ queue \in Seq(Packet)
  BY EmptySeq DEF Init
<1>2. TypeOK
  BY <1>1, RQueueAssumption DEF Init, TypeOK, Pointer
<1>3. ListRepresents /\ OldestFirst /\ Ahead
  BY <1>1 DEF Init, ListRepresents, OldestFirst, Ahead
<1>4. Cursors /\ Purged /\ Apart
  BY DEF Init, Cursors, Purged, Apart
<1>5. Buffer!Init
  BY DEF Init, Buffer!Init
<1>. QED
  BY <1>2, <1>3, <1>4, <1>5 DEF IInv

LEMMA StepHolds == IInv /\ [Next]_vars => Good
<1> SUFFICES ASSUME IInv, [Next]_vars PROVE Good
  OBVIOUS
<1>1. CASE Calls
  BY <1>1, CallStep
<1>2. CASE Body
  BY <1>2, SkipStep, PurgeRemoveStep, PurgeDoneStep, EnqueStep, DequeStep, DequeForStep,
     FindStep DEF Body
<1>3. CASE Tick
  BY <1>3, TickStep
<1>4. CASE UNCHANGED vars
  BY <1>4 DEF vars, list, call, Good, IInv, TypeOK, ListRepresents, OldestFirst, Cursors,
     CursorsAt, At, Purged, Apart, Ahead, Buffer!vars
<1>. QED
  BY <1>1, <1>2, <1>3, <1>4 DEF Next

(* The inductive invariant, in every state of the buffer. *)
THEOREM ListHeld == Spec => []IInv
<1>1. Init => IInv
  BY InitHolds
<1>2. IInv /\ [Next]_vars => IInv'
  BY StepHolds DEF Good
<1>. QED
  BY <1>1, <1>2, PTL DEF Spec

(* Packets, pointers, the length and the phases of a call keep their types. *)
THEOREM TypeCorrect == Spec => []TypeOK
<1>1. IInv => TypeOK
  BY DEF IInv
<1>. QED
  BY <1>1, ListHeld, PTL

(* The assertions of verifyQueue, deque and purge never fail. *)
THEOREM ListAlwaysRepresents == Spec => []ListRepresents
<1>1. IInv => ListRepresents
  BY DEF IInv
<1>. QED
  BY <1>1, ListHeld, PTL

(* The packet at the head is the one that times out first. *)
THEOREM OldestAlwaysFirst == Spec => []OldestFirst
<1>1. IInv => OldestFirst
  BY DEF IInv
<1>. QED
  BY <1>1, ListHeld, PTL

(* The linked list with its loops implements the buffer of whole operations. *)
THEOREM ListImplementsBuffer == Spec => ImplementsPacketBuffer
<1>1. Init => Buffer!Init
  BY InitHolds
<1>2. IInv /\ [Next]_vars => [Buffer!Next]_(Buffer!vars)
  BY StepHolds DEF Good
<1>. QED
  BY <1>1, <1>2, ListHeld, PTL DEF Spec, ImplementsPacketBuffer, Buffer!Spec
=============================================================================
