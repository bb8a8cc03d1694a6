---------------------------- MODULE PacingProofs ----------------------------
(***************************************************************************)
(* What Pacing's runs check, for every number of destinations and every    *)
(* value of the constants within PacingAssumption.                         *)
(*                                                                         *)
(* The inductive invariant ties three clocks together: a packet's age, the *)
(* timeout of the search it waits for and the time to the next rt_purge    *)
(* (Deadline), and the failed searches on record to the answers that did   *)
(* not come (Answered).                                                    *)
(***************************************************************************)
EXTENDS Pacing, SequenceTheorems, FiniteSetTheorems, TLAPS

PacketType == [dst : Dest, age : Nat]

\* An entry that waits has searched the whole network, or a ring that is not the
\* first.
Entry(e) ==
  /\ e \in EntryType
  /\ e.up => e.cnt = 0 /\ e.wait = 0
  /\ e.cnt > 0 => NetworkWide(e)
  /\ e.wait > 0 => \/ NetworkWide(e)
                   \/ /\ e.wait <= FREQUENCY
                      /\ TTL_THRESHOLD <= LastTtl(e) + (Rings - 1) * TTL_INCREMENT

\* With k periods of rt_purge for the search going on, j rings to come, and the
\* network-wide searches left, a packet does not grow too old; t is the time to the
\* next rt_purge.
Deadline(e, age, t) ==
  \E k, j \in Nat :
    /\ e.wait <= t + k * FREQUENCY
    /\ TTL_THRESHOLD <= LastTtl(e) + j * TTL_INCREMENT
    /\ age + t + k * FREQUENCY + FREQUENCY * j
         + MAX_RREQ_TIMEOUT * (RREQ_RETRIES + 1 - e.cnt) <= MaxWait

\* Each search on record was answered in vain, n in all, but for the last one, whose
\* answer a comes before the timeout.
Answered(e, a, n, near) ==
  /\ a \in {None} \cup 0 .. Latency
  /\ e.cnt > 0 /\ a # None => a < e.wait
  /\ e.cnt > 0 /\ near => e.cnt <= n + (IF a = None THEN 0 ELSE 1)

\* A time that Quantum divides.
OnClock(x) == \E k \in Nat : x = k * Quantum

WaitsInTime(p) == ~rt[p.dst].up /\ Deadline(rt[p.dst], p.age, timer)

Typed ==
  /\ rt \in [Dest -> EntryType]
  /\ rqueue \in Seq(PacketType) /\ Len(rqueue) <= Limit
  /\ timer \in 0 .. FREQUENCY /\ OnClock(timer)
  /\ dist \in [Dest -> Nat] /\ \A d \in Dest : dist[d] \in Distances[d]
  /\ answer \in [Dest -> {None} \cup 0 .. Latency]
  /\ \A d \in Dest : answer[d] # None => OnClock(answer[d])
  /\ lost \in 0 .. MaxLost
  /\ gaveup \subseteq Dest
  /\ pushed \subseteq Dest

Inv ==
  /\ Typed
  /\ \A d \in Dest : Entry(rt[d]) /\ Answered(rt[d], answer[d], lost, Reachable(d))
  /\ \A i \in 1 .. Len(rqueue) : WaitsInTime(rqueue[i])
  /\ SearchesAfresh
  /\ ReachableNotGivenUp
-----------------------------------------------------------------------------
(* Without. *)

Drop(ds, same, kept, p) == IF p.dst \in ds THEN kept ELSE Append(kept, p)

\* kept is what the loop leaves of the first n packets of c.q.
Kept(c, kept, n) ==
  /\ kept \in Seq(PacketType)
  /\ Len(kept) <= n
  /\ \A i \in 1 .. Len(kept) : kept[i].dst \notin c.ds /\ \E j \in 1 .. n : kept[i] = c.q[j]
  /\ \A j \in 1 .. n : c.q[j].dst \notin c.ds => \E i \in 1 .. Len(kept) : kept[i] = c.q[j]

Dropping == INSTANCE FoldFacts WITH Op <- Drop, Inv <- Kept

\* The buffer's packets, by their positions.
LEMMA QueueOf ==
  ASSUME NEW q \in Seq(PacketType)
  PROVE  /\ Len(q) \in Nat /\ DOMAIN q = 1 .. Len(q)
         /\ \A i \in 1 .. Len(q) : q[i] \in PacketType /\ q[i].dst \in Dest /\ q[i].age \in Nat
<1>1. Len(q) \in Nat /\ DOMAIN q = 1 .. Len(q) /\ \A i \in 1 .. Len(q) : q[i] \in PacketType
  OBVIOUS
<1>2. \A p \in PacketType : p.dst \in Dest /\ p.age \in Nat
  BY DEF PacketType
<1> QED
  BY <1>1, <1>2

\* Without keeps the packets for other destinations, and nothing else.
LEMMA WithoutKeeps ==
  ASSUME NEW q \in Seq(PacketType), NEW ds
  PROVE  Kept([q |-> q, ds |-> ds], Without(q, ds), Len(q))
<1> DEFINE c == [q |-> q, ds |-> ds]
<1>1. Len(q) \in Nat /\ DOMAIN q = 1 .. Len(q) /\ \A i \in 1 .. Len(q) : q[i] \in PacketType
  BY QueueOf
<1>2. Without(q, ds) = Dropping!Fold(ds, ds, << >>, q)
  BY Zenon DEF Without, Dropping!Fold, Drop, FoldLeft, MapThenFoldSet,
               Max, Dropping!IsIteration, Dropping!Top
<1>3. c.q = q /\ c.ds = ds
  OBVIOUS
<1> HIDE DEF c
<1>4. Kept(c, << >>, 0)
  <2>1. << >> \in Seq(PacketType) /\ Len(<< >>) = 0 /\ 1 .. 0 = {}
    OBVIOUS
  <2> QED
    BY <2>1 DEF Kept
<1>5. ASSUME NEW n \in 1 .. Len(q), NEW t, Kept(c, t, n - 1)
      PROVE  Kept(c, Drop(ds, ds, t, q[n]), n)
  <2>1. /\ t \in Seq(PacketType) /\ Len(t) \in Nat /\ Len(t) <= n - 1 /\ n \in Nat
        /\ \A i \in 1 .. Len(t) : t[i].dst \notin ds /\ \E j \in 1 .. n - 1 : t[i] = q[j]
        /\ \A j \in 1 .. n - 1 : q[j].dst \notin ds => \E i \in 1 .. Len(t) : t[i] = q[j]
    BY <1>3, <1>5 DEF Kept
  <2>2. \A j \in 1 .. n : j \in 1 .. n - 1 \/ j = n
    OBVIOUS
  <2>3. CASE q[n].dst \in ds
    <3>1. Kept(c, t, n)
      <4>1. Len(t) <= n
        BY <2>1
      <4>2. \A i \in 1 .. Len(t) : \E j \in 1 .. n : t[i] = q[j]
        BY <2>1
      <4> QED
        BY <1>3, <2>1, <2>2, <2>3, <4>1, <4>2 DEF Kept
    <3> QED
      BY <2>3, <3>1 DEF Drop
  <2>4. CASE q[n].dst \notin ds
    <3> DEFINE u == Append(t, q[n])
    <3>1. u \in Seq(PacketType) /\ Len(u) = Len(t) + 1
          /\ \A i \in 1 .. Len(t) + 1 : u[i] = IF i <= Len(t) THEN t[i] ELSE q[n]
      BY <1>1, <2>1
    <3> HIDE DEF u
    <3>2. \A i \in 1 .. Len(t) + 1 : i \in 1 .. Len(t) \/ i = Len(t) + 1
      BY <2>1
    <3>3. u[Len(t) + 1] = q[n] /\ \A i \in 1 .. Len(t) : u[i] = t[i] /\ i \in 1 .. Len(t) + 1
      BY <2>1, <3>1
    <3>4. ASSUME NEW i \in 1 .. Len(u)
          PROVE  u[i].dst \notin ds /\ \E j \in 1 .. n : u[i] = q[j]
      <4>1. CASE i \in 1 .. Len(t)
        BY <2>1, <3>3, <4>1
      <4>2. CASE i = Len(t) + 1
        BY <2>4, <3>3, <4>2
      <4> QED
        BY <3>1, <3>2, <4>1, <4>2
    <3>5. ASSUME NEW j \in 1 .. n, q[j].dst \notin ds
          PROVE  \E i \in 1 .. Len(u) : u[i] = q[j]
      <4>1. CASE j = n
        BY <2>1, <3>1, <3>3, <4>1
      <4>2. CASE j \in 1 .. n - 1
        <5>1. PICK i \in 1 .. Len(t) : t[i] = q[j]
          BY <2>1, <3>5, <4>2
        <5> QED
          BY <3>1, <3>3, <5>1
      <4> QED
        BY <2>2, <4>1, <4>2
    <3>6. Len(u) <= n
      BY <2>1, <3>1
    <3>7. Kept(c, u, n)
      BY <1>3, <3>1, <3>4, <3>5, <3>6 DEF Kept
    <3> QED
      BY <2>4, <3>7 DEF Drop, u
  <2> QED
    BY <2>3, <2>4
<1>6. Kept(c, Dropping!Fold(ds, ds, << >>, q), Len(q))
  BY <1>1, <1>4, <1>5, Dropping!FoldInvariant
<1> QED
  BY <1>2, <1>6 DEF c
-----------------------------------------------------------------------------
(* Times. *)

\* What is multiplied in the bound.
LEMMA Products ==
  ASSUME NEW a \in Nat, NEW b \in Nat, NEW c \in Nat
  PROVE  /\ (a + b) * c = a * c + b * c
         /\ c * (a + b) = c * a + c * b
         /\ a * c \in Nat
         /\ b > 0 => c * b = c + c * (b - 1) /\ b * c = c + (b - 1) * c
BY SMT

\* A longer product.
LEMMA LongerProduct ==
  ASSUME NEW a \in Nat, NEW b \in Nat, NEW c \in Nat, a <= b
  PROVE  a * c <= b * c /\ c * a <= c * b
BY SMT

\* Rounding up.
LEMMA Ceiling ==
  ASSUME NEW t \in Nat \ {0}, NEW i \in Nat \ {0}
  PROVE  LET r == (t + i - 2) \div i IN
         r \in Nat /\ t <= 1 + r * i
BY SMT

\* The constants, without what relates them.
LEMMA ConstantTypes ==
  /\ RREQ_RETRIES \in Nat /\ MAX_RREQ_TIMEOUT \in Nat /\ TTL_START \in Nat
  /\ TTL_INCREMENT \in Nat \ {0} /\ TTL_THRESHOLD \in Nat \ {0}
  /\ NETWORK_DIAMETER \in Nat /\ NODE_TRAVERSAL_TIME \in Nat
  /\ FREQUENCY \in Nat /\ INFINITY2 \in Nat \ {0} /\ Latency \in Nat /\ MaxLost \in Nat
  /\ Limit \in Nat \ {0} /\ Quantum \in Nat \ {0}
  /\ Distances \in [Dest -> SUBSET (Nat \ {0})]
BY PacingAssumption

\* The entry's fields, and the constants, as numbers.
LEMMA Numbers ==
  ASSUME NEW e \in EntryType
  PROVE  /\ e.up \in BOOLEAN
         /\ e.cnt \in Nat /\ e.cnt <= RREQ_RETRIES + 1
         /\ e.ttl \in Nat /\ e.ttl <= NETWORK_DIAMETER
         /\ e.hop \in Nat /\ e.hop >= 1 /\ e.hop \in (UNION Range(Distances)) \cup {INFINITY2}
         /\ e.wait \in Nat /\ e.wait <= MAX_RREQ_TIMEOUT
         /\ LastTtl(e) \in Nat /\ LastTtl(e) >= 1

<1>1. \A h \in UNION Range(Distances) : h \in Nat \ {0}
  BY ConstantTypes DEF Range
<1>2. e.hop \in (UNION Range(Distances)) \cup {INFINITY2}
  BY DEF EntryType
<1>3. e.hop \in Nat \ {0}
  <2>1. INFINITY2 \in Nat \ {0}
    BY ConstantTypes
  <2> QED
    BY <1>1, <1>2, <2>1
<1>4. /\ e.up \in BOOLEAN /\ e.cnt \in 0 .. RREQ_RETRIES + 1
      /\ e.ttl \in 0 .. NETWORK_DIAMETER /\ e.wait \in 0 .. MAX_RREQ_TIMEOUT
  BY DEF EntryType
<1>5. LastTtl(e) \in Nat /\ LastTtl(e) >= 1
  BY <1>3, <1>4, ConstantTypes DEF LastTtl
<1> QED
  BY <1>2, <1>3, <1>4, <1>5, ConstantTypes

\* The constants of the bound.
LEMMA Periods ==
  /\ Rings \in Nat /\ TTL_THRESHOLD <= 1 + Rings * TTL_INCREMENT
  /\ FirstWait \in Nat /\ FREQUENCY * Rings <= FirstWait /\ MAX_RREQ_TIMEOUT <= FirstWait
  /\ MaxWait = FREQUENCY + FirstWait + MAX_RREQ_TIMEOUT * (RREQ_RETRIES + 1)
  /\ MAX_RREQ_TIMEOUT * (RREQ_RETRIES + 1) \in Nat
<1>1. Rings \in Nat /\ TTL_THRESHOLD <= 1 + Rings * TTL_INCREMENT
  BY ConstantTypes, Ceiling DEF Rings
<1>2. FREQUENCY * Rings \in Nat /\ MAX_RREQ_TIMEOUT * (RREQ_RETRIES + 1) \in Nat
  <2>1. RREQ_RETRIES + 1 \in Nat
    BY ConstantTypes
  <2> QED
    BY <1>1, <2>1, ConstantTypes, Products
<1>3. FirstWait \in Nat /\ FREQUENCY * Rings <= FirstWait /\ MAX_RREQ_TIMEOUT <= FirstWait
  <2> DEFINE x == FREQUENCY * Rings
  <2>1. x \in Nat /\ FirstWait = IF x > MAX_RREQ_TIMEOUT THEN x ELSE MAX_RREQ_TIMEOUT
    BY <1>2 DEF FirstWait
  <2> HIDE DEF x
  <2>2. FirstWait \in Nat /\ x <= FirstWait /\ MAX_RREQ_TIMEOUT <= FirstWait
    BY <2>1, ConstantTypes
  <2> QED
    BY <2>2 DEF x
<1> QED
  BY <1>1, <1>2, <1>3 DEF MaxWait
-----------------------------------------------------------------------------
(* What sendRequest makes of an entry. *)

\* A ring: the TTL goes up by TTL_INCREMENT, the timeout is within a period.
LEMMA AskedRing ==
  ASSUME NEW e, Entry(e), Asks(e), ~NetworkWide(e), NEW r, r = Asked(e)
  PROVE  /\ Entry(r) /\ r.cnt = 0 /\ e.cnt = 0 /\ ~r.up
         /\ r.wait <= FREQUENCY
         /\ LastTtl(r) = LastTtl(e) + TTL_INCREMENT
         /\ LastTtl(e) < TTL_THRESHOLD
<1>1. e \in EntryType /\ e.cnt = 0 /\ ~e.up /\ LastTtl(e) < TTL_THRESHOLD
  <2>1. e \in EntryType /\ ~e.up /\ (e.cnt > 0 => NetworkWide(e))
    BY DEF Entry, Asks, Due
  <2> QED
    BY <2>1, Numbers, ConstantTypes DEF NetworkWide
<1> DEFINE t == LastTtl(e) + TTL_INCREMENT
           w == 2 * t * NODE_TRAVERSAL_TIME
           x == IF w > MAX_RREQ_TIMEOUT THEN MAX_RREQ_TIMEOUT ELSE w
<1>2. Ttl(e) = t
  BY <1>1, Numbers DEF Ttl
<1>3. /\ t \in Nat /\ t <= TTL_THRESHOLD + TTL_INCREMENT - 1 /\ t <= NETWORK_DIAMETER
      /\ t >= 1 + TTL_INCREMENT
  BY <1>1, Numbers, ConstantTypes, PacingAssumption
<1>4. w \in Nat /\ w <= FREQUENCY
  <2> DEFINE a == 2 * t
             b == 2 * (TTL_THRESHOLD + TTL_INCREMENT - 1)
  <2>1. a \in Nat /\ b \in Nat /\ a <= b
    BY <1>3, ConstantTypes
  <2>2. b * NODE_TRAVERSAL_TIME <= FREQUENCY
    BY PacingAssumption
  <2>3. w = a * NODE_TRAVERSAL_TIME
    OBVIOUS
  <2> HIDE DEF a, b, w, t
  <2>4. a * NODE_TRAVERSAL_TIME \in Nat /\ b * NODE_TRAVERSAL_TIME \in Nat
        /\ a * NODE_TRAVERSAL_TIME <= b * NODE_TRAVERSAL_TIME
    BY <2>1, ConstantTypes, LongerProduct, Products
  <2> QED
    BY <2>2, <2>3, <2>4, ConstantTypes
<1>5. r = [e EXCEPT !.ttl = t, !.cnt = 0, !.wait = x]
  <2>1. 2 * Ttl(e) * NODE_TRAVERSAL_TIME * (IF 0 > 0 THEN 0 ELSE 1) = w
    <3>1. w * 1 = w
      BY <1>4
    <3>2. 2 * Ttl(e) * NODE_TRAVERSAL_TIME = w
      BY <1>2
    <3> HIDE DEF w
    <3> QED
      BY <3>1, <3>2
  <2> HIDE DEF w, t
  <2> QED
    BY <1>1, <1>2, <2>1 DEF Asked
<1> HIDE DEF w, t
<1>6. x \in Nat /\ x <= FREQUENCY /\ x <= MAX_RREQ_TIMEOUT
  BY <1>4, ConstantTypes
<1> HIDE DEF x
<1>7. r.ttl = t /\ r.cnt = 0 /\ r.wait = x /\ r.hop = e.hop /\ ~r.up
  BY <1>1, <1>5 DEF EntryType
<1>8. r \in EntryType
  <2>1. t \in 0 .. NETWORK_DIAMETER /\ 0 \in 0 .. RREQ_RETRIES + 1 /\ x \in 0 .. MAX_RREQ_TIMEOUT
    BY <1>3, <1>6, ConstantTypes
  <2> QED
    BY <1>1, <1>5, <2>1 DEF EntryType
<1>9. LastTtl(r) = t
  <2>1. e.hop < t \/ e.hop = t
    <3>1. e.hop <= LastTtl(e)
      BY <1>1, Numbers DEF LastTtl
    <3> QED
      BY <3>1, <1>1, Numbers, ConstantTypes DEF t
  <2> QED
    BY <1>1, <1>3, <1>7, <2>1, Numbers DEF LastTtl
<1>10. TTL_THRESHOLD <= LastTtl(r) + (Rings - 1) * TTL_INCREMENT
  <2>1. TTL_THRESHOLD <= 1 + Rings * TTL_INCREMENT /\ Rings \in Nat
    BY Periods
  <2>2. Rings > 0
    <3>1. TTL_THRESHOLD > 1
      BY <1>1, Numbers, ConstantTypes
    <3>2. Rings = 0 => Rings * TTL_INCREMENT = 0
      BY ConstantTypes
    <3> QED
      BY <2>1, <3>1, <3>2, ConstantTypes
  <2>3. /\ Rings * TTL_INCREMENT = TTL_INCREMENT + (Rings - 1) * TTL_INCREMENT
        /\ (Rings - 1) * TTL_INCREMENT \in Nat
    <3>1. Rings - 1 \in Nat
      BY <2>1, <2>2
    <3> QED
      BY <2>1, <2>2, <3>1, ConstantTypes, Products
  <2> DEFINE y == (Rings - 1) * TTL_INCREMENT
  <2>4. Rings * TTL_INCREMENT = TTL_INCREMENT + y /\ y \in Nat
    BY <2>3
  <2> HIDE DEF y
  <2>5. TTL_THRESHOLD <= t + y
    BY <1>3, <2>1, <2>4, ConstantTypes
  <2> QED
    BY <1>9, <2>5 DEF y
<1>11. Entry(r)
  BY <1>6, <1>7, <1>8, <1>10 DEF Entry
<1> QED
  BY <1>1, <1>6, <1>7, <1>9, <1>11 DEF t

\* The network: one search more on record, and a timeout no answer exceeds.
LEMMA AskedNetwork ==
  ASSUME NEW e, Entry(e), Asks(e), NetworkWide(e), NEW r, r = Asked(e)
  PROVE  /\ Entry(r) /\ r.cnt = e.cnt + 1 /\ e.cnt <= RREQ_RETRIES /\ ~r.up
         /\ r.wait <= MAX_RREQ_TIMEOUT /\ Latency < r.wait
         /\ TTL_THRESHOLD <= LastTtl(r)
         /\ Ttl(e) = NETWORK_DIAMETER
<1>1. e \in EntryType /\ ~e.up /\ e.cnt \in Nat /\ e.cnt <= RREQ_RETRIES
      /\ LastTtl(e) >= TTL_THRESHOLD
  <2>1. e \in EntryType /\ ~e.up /\ ~(e.cnt > RREQ_RETRIES)
    BY DEF Entry, Asks, Due, GivesUp
  <2> QED
    BY <2>1, Numbers, ConstantTypes DEF NetworkWide
<1> DEFINE c == e.cnt + 1
           b == 2 * NETWORK_DIAMETER * NODE_TRAVERSAL_TIME
           w == b * c
           x == IF w > MAX_RREQ_TIMEOUT THEN MAX_RREQ_TIMEOUT ELSE w
<1>2. Ttl(e) = NETWORK_DIAMETER
  BY <1>1, Numbers DEF Ttl
<1>3. c \in Nat /\ c >= 1 /\ c <= RREQ_RETRIES + 1 /\ c > 0
  BY <1>1, ConstantTypes
<1>4. b \in Nat /\ Latency < b
  <2>1. 2 * NETWORK_DIAMETER \in Nat
    BY ConstantTypes
  <2>2. b \in Nat
    BY <2>1, ConstantTypes, Products
  <2> QED
    BY <2>2, PacingAssumption
<1>5. r = [e EXCEPT !.ttl = NETWORK_DIAMETER, !.cnt = c, !.wait = x]
  <2> HIDE DEF b, c
  <2>1. 2 * Ttl(e) * NODE_TRAVERSAL_TIME * (IF c > 0 THEN c ELSE 1) = w
    BY <1>2, <1>3 DEF b
  <2> HIDE DEF w
  <2> QED
    BY <1>1, <1>2, <2>1 DEF Asked, c
<1>6. w \in Nat /\ b <= w
  <2> HIDE DEF b, c
  <2>1. b * 1 = b /\ 1 \in Nat
    BY <1>4
  <2>2. b * 1 <= b * c /\ b * c \in Nat
    BY <1>3, <1>4, <2>1, LongerProduct, Products
  <2> QED
    BY <2>1, <2>2
<1> HIDE DEF w, b
<1>7. x \in Nat /\ x <= MAX_RREQ_TIMEOUT /\ Latency < x
  <2>1. Latency < MAX_RREQ_TIMEOUT
    BY PacingAssumption
  <2> QED
    BY <1>4, <1>6, <2>1, ConstantTypes
<1> HIDE DEF x
<1>8. r.ttl = NETWORK_DIAMETER /\ r.cnt = c /\ r.wait = x /\ r.hop = e.hop /\ ~r.up
  BY <1>1, <1>5 DEF EntryType
<1>9. r \in EntryType
  <2>1. NETWORK_DIAMETER \in 0 .. NETWORK_DIAMETER /\ c \in 0 .. RREQ_RETRIES + 1
        /\ x \in 0 .. MAX_RREQ_TIMEOUT
    BY <1>3, <1>7, ConstantTypes
  <2> QED
    BY <1>1, <1>5, <2>1 DEF EntryType
<1>10. LastTtl(r) >= TTL_THRESHOLD
  <2>1. e.ttl <= NETWORK_DIAMETER
    BY <1>1, Numbers
  <2>2. LastTtl(r) >= LastTtl(e)
    BY <1>1, <1>8, <2>1, Numbers, ConstantTypes DEF LastTtl
  <2> QED
    BY <1>1, <1>9, <2>2, Numbers, ConstantTypes
<1>11. Entry(r)
  BY <1>8, <1>9, <1>10 DEF Entry, NetworkWide
<1> QED
  BY <1>1, <1>2, <1>7, <1>8, <1>10, <1>11, Numbers, ConstantTypes DEF c

\* A destination given up starts afresh.
LEMMA GivenUpEntry ==
  ASSUME NEW e, Entry(e), GivesUp(e), NEW r, r = GivenUp(e)
  PROVE  Entry(r) /\ r.cnt = 0 /\ ~r.up
<1>1. e \in EntryType /\ ~e.up /\ e.cnt > RREQ_RETRIES /\ (e.cnt > 0 => NetworkWide(e))
  BY DEF Entry, GivesUp, Due
<1>2. NetworkWide(e)
  BY <1>1, Numbers, ConstantTypes
<1>3. /\ r = [e EXCEPT !.wait = MAX_RREQ_TIMEOUT, !.cnt = 0]
      /\ 0 \in 0 .. RREQ_RETRIES + 1 /\ MAX_RREQ_TIMEOUT \in 0 .. MAX_RREQ_TIMEOUT
  BY ConstantTypes DEF GivenUp
<1>4. r \in EntryType /\ r.cnt = 0 /\ ~r.up /\ r.ttl = e.ttl /\ r.hop = e.hop
  BY <1>1, <1>3 DEF EntryType
<1>5. NetworkWide(r)
  BY <1>2, <1>4 DEF NetworkWide, LastTtl
<1> QED
  BY <1>4, <1>5 DEF Entry

\* A route that expires, or that sendRequest leaves alone.
LEMMA DownEntry ==
  ASSUME NEW e, Entry(e), NEW b \in BOOLEAN, NEW r, r = [e EXCEPT !.up = e.up /\ b]
  PROVE  /\ Entry(r) /\ r.cnt = e.cnt /\ r.wait = e.wait /\ LastTtl(r) = LastTtl(e)
         /\ r.up => e.up /\ b
         /\ ~e.up => r = e
<1>1. e \in EntryType /\ e.up \in BOOLEAN
  BY Numbers DEF Entry
<1>2. /\ r \in EntryType /\ r.cnt = e.cnt /\ r.wait = e.wait /\ r.ttl = e.ttl /\ r.hop = e.hop
      /\ r.up = (e.up /\ b)
  BY <1>1 DEF EntryType
<1>3. ~e.up => r = e
  BY <1>1 DEF EntryType
<1>4. LastTtl(r) = LastTtl(e) /\ NetworkWide(r) = NetworkWide(e)
  BY <1>2 DEF LastTtl, NetworkWide
<1> QED
  BY <1>2, <1>3, <1>4 DEF Entry

-----------------------------------------------------------------------------
(* The bound on a packet's wait. *)

\* Of what is spent until a search times out, and left to search after it.
LEMMA SearchLeft ==
  ASSUME NEW e \in EntryType
  PROVE  MAX_RREQ_TIMEOUT * (RREQ_RETRIES + 1 - e.cnt) \in Nat
<1>1. RREQ_RETRIES + 1 - e.cnt \in Nat
  BY Numbers, ConstantTypes
<1> QED
  BY <1>1, ConstantTypes, Products

\* A packet within its deadline is not too old.
LEMMA InTime ==
  ASSUME NEW e \in EntryType, NEW age \in Nat, NEW t \in Nat, Deadline(e, age, t)
  PROVE  age <= MaxWait
<1>1. PICK k, j \in Nat :
        age + t + k * FREQUENCY + FREQUENCY * j
          + MAX_RREQ_TIMEOUT * (RREQ_RETRIES + 1 - e.cnt) <= MaxWait
  BY DEF Deadline
<1> DEFINE x == k * FREQUENCY
           y == FREQUENCY * j
           z == MAX_RREQ_TIMEOUT * (RREQ_RETRIES + 1 - e.cnt)
<1>2. x \in Nat /\ y \in Nat /\ z \in Nat
  BY ConstantTypes, Products, SearchLeft
<1>3. age + t + x + y + z <= MaxWait /\ MaxWait \in Nat
  BY <1>1, Periods, ConstantTypes
<1> HIDE DEF x, y, z
<1> QED
  BY <1>2, <1>3

\* A search of the network takes MAX_RREQ_TIMEOUT of what was left; at rt_purge a
\* period of it is the one that begins.
LEMMA DeadlineNetwork ==
  ASSUME NEW e, Entry(e), Asks(e), NetworkWide(e), NEW r, r = Asked(e),
         NEW age \in Nat, NEW t \in 0 .. FREQUENCY, Deadline(e, age, t)
  PROVE  /\ Deadline(r, age, t)
         /\ t = 0 => Deadline(r, age, FREQUENCY)
<1>1. /\ Entry(r) /\ r.cnt = e.cnt + 1 /\ e.cnt <= RREQ_RETRIES
      /\ r.wait <= MAX_RREQ_TIMEOUT /\ TTL_THRESHOLD <= LastTtl(r)
  BY AskedNetwork
<1>2. e \in EntryType /\ r \in EntryType
  BY <1>1 DEF Entry
<1>3. PICK k, j \in Nat :
        /\ e.wait <= t + k * FREQUENCY
        /\ TTL_THRESHOLD <= LastTtl(e) + j * TTL_INCREMENT
        /\ age + t + k * FREQUENCY + FREQUENCY * j
             + MAX_RREQ_TIMEOUT * (RREQ_RETRIES + 1 - e.cnt) <= MaxWait
  BY DEF Deadline
<1>4. PICK m \in 1 .. MAX_RREQ_TIMEOUT : MAX_RREQ_TIMEOUT = m * FREQUENCY
  BY PacingAssumption
<1> DEFINE x == k * FREQUENCY
           y == FREQUENCY * j
           z == MAX_RREQ_TIMEOUT * (RREQ_RETRIES + 1 - r.cnt)
<1>5. x \in Nat /\ y \in Nat /\ z \in Nat /\ m \in Nat /\ m - 1 \in Nat
  BY <1>2, ConstantTypes, Products, SearchLeft
<1>6. MAX_RREQ_TIMEOUT * (RREQ_RETRIES + 1 - e.cnt) = MAX_RREQ_TIMEOUT + z
  <2>1. RREQ_RETRIES + 1 - e.cnt \in Nat /\ RREQ_RETRIES + 1 - e.cnt > 0
        /\ (RREQ_RETRIES + 1 - e.cnt) - 1 = RREQ_RETRIES + 1 - r.cnt
    BY <1>1, <1>2, Numbers, ConstantTypes
  <2> QED
    BY <2>1, ConstantTypes, Products
<1>7. /\ (k + m) * FREQUENCY = x + MAX_RREQ_TIMEOUT
      /\ (k + (m - 1)) * FREQUENCY + FREQUENCY = x + MAX_RREQ_TIMEOUT
      /\ (k + (m - 1)) * FREQUENCY \in Nat
  <2>1. (k + m) * FREQUENCY = x + MAX_RREQ_TIMEOUT
    BY <1>4, <1>5, ConstantTypes, Products
  <2>2. k + m \in Nat /\ k + m > 0 /\ (k + m) - 1 = k + (m - 1) /\ k + (m - 1) \in Nat
    BY <1>5
  <2>3. (k + m) * FREQUENCY = FREQUENCY + (k + (m - 1)) * FREQUENCY
        /\ (k + (m - 1)) * FREQUENCY \in Nat
    BY <2>2, ConstantTypes, Products
  <2> QED
    BY <2>1, <2>3, <1>5, ConstantTypes
<1>8. TTL_THRESHOLD <= LastTtl(r) + j * TTL_INCREMENT
  <2>1. j * TTL_INCREMENT \in Nat
    BY ConstantTypes, Products
  <2> QED
    BY <1>1, <1>2, <2>1, Numbers, ConstantTypes
<1>9. age + t + x + y + (MAX_RREQ_TIMEOUT + z) <= MaxWait
  BY <1>3, <1>6
<1>10. r.wait \in Nat /\ t \in Nat /\ MaxWait \in Nat
  BY <1>2, Numbers, Periods, ConstantTypes
<1>11. Deadline(r, age, t)
  <2> DEFINE l == (k + m) * FREQUENCY
  <2>1. l = x + MAX_RREQ_TIMEOUT
    BY <1>7
  <2> HIDE DEF l, x, y, z
  <2>2. r.wait <= t + l /\ age + t + l + y + z <= MaxWait
    BY <1>1, <1>5, <1>9, <1>10, <2>1, ConstantTypes
  <2>3. k + m \in Nat
    BY <1>5
  <2> QED
    BY <1>8, <2>2, <2>3 DEF Deadline, l, y, z
<1>12. ASSUME t = 0 PROVE Deadline(r, age, FREQUENCY)
  <2> DEFINE l == (k + (m - 1)) * FREQUENCY
  <2>1. l + FREQUENCY = x + MAX_RREQ_TIMEOUT /\ l \in Nat
    BY <1>7
  <2> HIDE DEF l, x, y, z
  <2>2. r.wait <= FREQUENCY + l /\ age + FREQUENCY + l + y + z <= MaxWait
    BY <1>1, <1>5, <1>9, <1>10, <1>12, <2>1, ConstantTypes
  <2>3. k + (m - 1) \in Nat
    BY <1>5
  <2> QED
    BY <1>8, <2>2, <2>3 DEF Deadline, l, y, z
<1> QED
  BY <1>11, <1>12

\* A ring takes one of the rings left, and a period.
LEMMA DeadlineRing ==
  ASSUME NEW e, Entry(e), Asks(e), ~NetworkWide(e), NEW r, r = Asked(e),
         NEW age \in Nat, NEW t \in 0 .. FREQUENCY, Deadline(e, age, t)
  PROVE  /\ Deadline(r, age, t)
         /\ t = 0 => Deadline(r, age, FREQUENCY)
<1>1. /\ Entry(r) /\ r.cnt = 0 /\ e.cnt = 0 /\ r.wait <= FREQUENCY
      /\ LastTtl(r) = LastTtl(e) + TTL_INCREMENT /\ LastTtl(e) < TTL_THRESHOLD
  BY AskedRing
<1>2. e \in EntryType /\ r \in EntryType
  BY <1>1 DEF Entry
<1>3. PICK k, j \in Nat :
        /\ e.wait <= t + k * FREQUENCY
        /\ TTL_THRESHOLD <= LastTtl(e) + j * TTL_INCREMENT
        /\ age + t + k * FREQUENCY + FREQUENCY * j
             + MAX_RREQ_TIMEOUT * (RREQ_RETRIES + 1 - e.cnt) <= MaxWait
  BY DEF Deadline
<1>4. j > 0
  <2>1. j = 0 => j * TTL_INCREMENT = 0
    BY ConstantTypes
  <2> QED
    BY <1>1, <1>2, <1>3, <2>1, Numbers, ConstantTypes
<1> DEFINE x == k * FREQUENCY
           y == FREQUENCY * (j - 1)
           z == MAX_RREQ_TIMEOUT * (RREQ_RETRIES + 1 - r.cnt)
<1>5. /\ x \in Nat /\ y \in Nat /\ z \in Nat /\ j - 1 \in Nat
      /\ FREQUENCY * j = FREQUENCY + y
  BY <1>2, <1>4, ConstantTypes, Products, SearchLeft
<1>6. TTL_THRESHOLD <= LastTtl(r) + (j - 1) * TTL_INCREMENT
  <2> DEFINE u == (j - 1) * TTL_INCREMENT
  <2>1. j * TTL_INCREMENT = TTL_INCREMENT + u /\ u \in Nat
    BY <1>4, <1>5, ConstantTypes, Products
  <2> HIDE DEF u
  <2>2. TTL_THRESHOLD <= LastTtl(r) + u
    BY <1>1, <1>2, <1>3, <2>1, Numbers, ConstantTypes
  <2> QED
    BY <2>2 DEF u
<1>7. (k + 1) * FREQUENCY = x + FREQUENCY /\ k + 1 \in Nat
  <2>1. k + 1 \in Nat /\ k + 1 > 0 /\ (k + 1) - 1 = k
    OBVIOUS
  <2>2. (k + 1) * FREQUENCY = FREQUENCY + k * FREQUENCY
    BY <2>1, ConstantTypes, Products
  <2> QED
    BY <2>1, <2>2, <1>5, ConstantTypes
<1>8. age + t + x + (FREQUENCY + y) + z <= MaxWait
  BY <1>1, <1>3, <1>5
<1>9. r.wait \in Nat /\ t \in Nat /\ MaxWait \in Nat
  BY <1>2, Numbers, Periods, ConstantTypes
<1>10. Deadline(r, age, t)
  <2> DEFINE l == (k + 1) * FREQUENCY
  <2>1. l = x + FREQUENCY
    BY <1>7
  <2> HIDE DEF l, x, y, z
  <2>2. r.wait <= t + l /\ age + t + l + y + z <= MaxWait
    BY <1>1, <1>5, <1>8, <1>9, <2>1, ConstantTypes
  <2> QED
    BY <1>5, <1>6, <1>7, <2>2 DEF Deadline, l, y, z
<1>11. ASSUME t = 0 PROVE Deadline(r, age, FREQUENCY)
  <2> HIDE DEF x, y, z
  <2>2. r.wait <= FREQUENCY + x /\ age + FREQUENCY + x + y + z <= MaxWait
    BY <1>1, <1>5, <1>8, <1>9, <1>11, ConstantTypes
  <2> QED
    BY <1>5, <1>6, <2>2 DEF Deadline, x, y, z
<1> QED
  BY <1>10, <1>11

\* A search that goes on takes the period that begins at rt_purge.
LEMMA DeadlineKept ==
  ASSUME NEW e \in EntryType, e.wait > 0, NEW age \in Nat, Deadline(e, age, 0)
  PROVE  Deadline(e, age, FREQUENCY)
<1>1. PICK k, j \in Nat :
        /\ e.wait <= 0 + k * FREQUENCY
        /\ TTL_THRESHOLD <= LastTtl(e) + j * TTL_INCREMENT
        /\ age + 0 + k * FREQUENCY + FREQUENCY * j
             + MAX_RREQ_TIMEOUT * (RREQ_RETRIES + 1 - e.cnt) <= MaxWait
  BY DEF Deadline
<1>2. k > 0
  <2>1. k = 0 => k * FREQUENCY = 0
    BY ConstantTypes
  <2> QED
    BY <1>1, <2>1, Numbers
<1> DEFINE x == (k - 1) * FREQUENCY
           y == FREQUENCY * j
           z == MAX_RREQ_TIMEOUT * (RREQ_RETRIES + 1 - e.cnt)
<1>3. /\ x \in Nat /\ y \in Nat /\ z \in Nat /\ k - 1 \in Nat
      /\ k * FREQUENCY = FREQUENCY + x
  BY <1>2, ConstantTypes, Products, SearchLeft
<1>4. e.wait <= 0 + (FREQUENCY + x) /\ age + 0 + (FREQUENCY + x) + y + z <= MaxWait
  BY <1>1, <1>3
<1> HIDE DEF x, y, z
<1>5. e.wait <= FREQUENCY + x /\ age + FREQUENCY + x + y + z <= MaxWait
  BY <1>3, <1>4, Numbers, Periods, ConstantTypes
<1> QED
  BY <1>1, <1>3, <1>5 DEF Deadline, x, y, z

\* The clock: what a packet ages, the timers lose.
LEMMA DeadlineTick ==
  ASSUME NEW e \in EntryType, NEW r, NEW age \in Nat, NEW t \in Nat, t >= Quantum,
         Deadline(e, age, t), r.cnt = e.cnt, LastTtl(r) = LastTtl(e),
         r.wait = IF e.wait > Quantum THEN e.wait - Quantum ELSE 0
  PROVE  Deadline(r, age + Quantum, t - Quantum)
<1>1. PICK k, j \in Nat :
        /\ e.wait <= t + k * FREQUENCY
        /\ TTL_THRESHOLD <= LastTtl(e) + j * TTL_INCREMENT
        /\ age + t + k * FREQUENCY + FREQUENCY * j
             + MAX_RREQ_TIMEOUT * (RREQ_RETRIES + 1 - e.cnt) <= MaxWait
  BY DEF Deadline
<1> DEFINE x == k * FREQUENCY
           y == FREQUENCY * j
           z == MAX_RREQ_TIMEOUT * (RREQ_RETRIES + 1 - e.cnt)
<1>2. x \in Nat /\ y \in Nat /\ z \in Nat
  BY ConstantTypes, Products, SearchLeft
<1>3. e.wait <= t + x /\ age + t + x + y + z <= MaxWait
  BY <1>1
<1> HIDE DEF x, y, z
<1>4. r.wait <= (t - Quantum) + x /\ (age + Quantum) + (t - Quantum) + x + y + z <= MaxWait
  BY <1>2, <1>3, Numbers, Periods, ConstantTypes
<1> QED
  BY <1>1, <1>4 DEF Deadline, x, y, z

\* A new packet, for which no search is due, or one has just been made.
LEMMA DeadlineNew ==
  ASSUME NEW e, Entry(e), NEW r, NEW t \in 0 .. FREQUENCY,
         \/ e.wait > 0 /\ r = e
         \/ Asks(e) /\ r = Asked(e)
  PROVE  Deadline(r, 0, t)
<1>1. e \in EntryType
  BY DEF Entry
<1>2. /\ Rings \in Nat /\ TTL_THRESHOLD <= 1 + Rings * TTL_INCREMENT
      /\ FirstWait \in Nat /\ FREQUENCY * Rings <= FirstWait /\ MAX_RREQ_TIMEOUT <= FirstWait
      /\ MaxWait = FREQUENCY + FirstWait + MAX_RREQ_TIMEOUT * (RREQ_RETRIES + 1)
      /\ MAX_RREQ_TIMEOUT * (RREQ_RETRIES + 1) \in Nat
  BY Periods
<1>3. /\ Entry(r) /\ r \in EntryType
      /\ \/ NetworkWide(r)
         \/ /\ r.wait <= FREQUENCY /\ ~NetworkWide(r)
            /\ TTL_THRESHOLD <= LastTtl(r) + (Rings - 1) * TTL_INCREMENT
  <2>1. CASE e.wait > 0 /\ r = e
    BY <1>1, <2>1 DEF Entry
  <2>2. CASE Asks(e) /\ r = Asked(e) /\ NetworkWide(e)
    BY <2>2, AskedNetwork DEF Entry, NetworkWide
  <2>3. CASE Asks(e) /\ r = Asked(e) /\ ~NetworkWide(e)
    <3>1. /\ Entry(r) /\ r.wait <= FREQUENCY /\ r.wait \in Nat
          /\ LastTtl(r) = LastTtl(e) + TTL_INCREMENT
      <4>1. Entry(r) /\ r.wait <= FREQUENCY /\ LastTtl(r) = LastTtl(e) + TTL_INCREMENT
        BY <2>3, AskedRing
      <4> QED
        BY <4>1, Numbers DEF Entry
    <3>2. NetworkWide(r) \/ TTL_THRESHOLD <= LastTtl(r) + (Rings - 1) * TTL_INCREMENT
      <4> DEFINE u == (Rings - 1) * TTL_INCREMENT
      <4>1. Rings > 0 => Rings * TTL_INCREMENT = TTL_INCREMENT + u /\ u \in Nat
        <5>1. Rings > 0 => Rings - 1 \in Nat
          BY <1>2
        <5> QED
          BY <1>2, <5>1, ConstantTypes, Products
      <4>2. Rings = 0 => Rings * TTL_INCREMENT = 0
        BY ConstantTypes
      <4> HIDE DEF u
      <4>3. NetworkWide(r) \/ TTL_THRESHOLD <= LastTtl(r) + u
        BY <1>1, <1>2, <3>1, <4>1, <4>2, Numbers, ConstantTypes DEF NetworkWide
      <4> QED
        BY <4>3 DEF u
    <3> QED
      BY <3>1, <3>2 DEF Entry
  <2> QED
    BY <2>1, <2>2, <2>3
<1>4. /\ r.wait \in Nat /\ r.wait <= MAX_RREQ_TIMEOUT /\ r.cnt \in Nat
      /\ LastTtl(r) \in Nat /\ t \in Nat
  BY <1>3, Numbers, ConstantTypes
<1> DEFINE z == MAX_RREQ_TIMEOUT * (RREQ_RETRIES + 1 - r.cnt)
           v == MAX_RREQ_TIMEOUT * (RREQ_RETRIES + 1)
<1>5. z \in Nat /\ v \in Nat /\ z <= v
  <2>1. RREQ_RETRIES + 1 - r.cnt \in Nat /\ RREQ_RETRIES + 1 \in Nat
        /\ RREQ_RETRIES + 1 - r.cnt <= RREQ_RETRIES + 1
    BY <1>3, Numbers, ConstantTypes
  <2> QED
    BY <2>1, ConstantTypes, Products, LongerProduct
<1>6. CASE NetworkWide(r)
  <2>1. PICK m \in 1 .. MAX_RREQ_TIMEOUT : MAX_RREQ_TIMEOUT = m * FREQUENCY
    BY PacingAssumption
  <2>2. TTL_THRESHOLD <= LastTtl(r) + 0 * TTL_INCREMENT
    <3>1. 0 * TTL_INCREMENT = 0
      BY ConstantTypes
    <3> QED
      BY <1>4, <1>6, <3>1 DEF NetworkWide
  <2>3. FREQUENCY * 0 = 0 /\ m \in Nat
    BY ConstantTypes
  <2> DEFINE x == m * FREQUENCY
             y == FREQUENCY * 0
  <2>4. x = MAX_RREQ_TIMEOUT /\ y = 0
    BY <2>1, <2>3
  <2>5. MaxWait = FREQUENCY + FirstWait + v
    BY <1>2
  <2> HIDE DEF x, y, z, v
  <2>6. r.wait <= t + x /\ 0 + t + x + y + z <= MaxWait
    BY <1>2, <1>4, <1>5, <2>4, <2>5, ConstantTypes
  <2> QED
    BY <2>2, <2>3, <2>6 DEF Deadline, x, y, z
<1>7. CASE /\ r.wait <= FREQUENCY /\ ~NetworkWide(r)
           /\ TTL_THRESHOLD <= LastTtl(r) + (Rings - 1) * TTL_INCREMENT
  <2>1. Rings > 0
    <3>1. Rings = 0 => TTL_THRESHOLD <= 1
      <4>1. Rings = 0 => Rings * TTL_INCREMENT = 0
        BY ConstantTypes
      <4> QED
        BY <1>2, <4>1, ConstantTypes
    <3>2. LastTtl(r) >= 1 /\ ~(LastTtl(r) >= TTL_THRESHOLD)
      BY <1>3, <1>7, Numbers DEF NetworkWide
    <3> QED
      BY <1>2, <1>4, <3>1, <3>2, ConstantTypes
  <2> DEFINE x == 1 * FREQUENCY
             y == FREQUENCY * (Rings - 1)
  <2>2. x = FREQUENCY /\ FREQUENCY * Rings = FREQUENCY + y /\ y \in Nat /\ Rings - 1 \in Nat
    <3>1. Rings - 1 \in Nat
      BY <1>2, <2>1
    <3> QED
      BY <1>2, <2>1, <3>1, ConstantTypes, Products
  <2>3. FREQUENCY + y <= FirstWait /\ MaxWait = FREQUENCY + FirstWait + v
    BY <1>2, <2>2
  <2> HIDE DEF x, y, z, v
  <2>4. r.wait <= t + x /\ 0 + t + x + y + z <= MaxWait
    BY <1>2, <1>4, <1>5, <1>7, <2>2, <2>3, ConstantTypes
  <2>5. 1 \in Nat
    OBVIOUS
  <2> QED
    BY <1>7, <2>2, <2>4, <2>5 DEF Deadline, x, y, z
<1> QED
  BY <1>3, <1>6, <1>7

-----------------------------------------------------------------------------
(* Answers. *)

\* A new search: its answer is on its way, or one more was lost.
LEMMA AnswerToSearch ==
  ASSUME NEW e, Entry(e), Asks(e), NEW a, NEW n \in Nat, NEW h \in Nat,
         Answered(e, a, n, h <= NETWORK_DIAMETER),
         NEW found \in BOOLEAN, found <=> (Ttl(e) >= h /\ a = None),
         NEW lose \in BOOLEAN, lose => found,
         NEW b, b = IF found /\ ~lose THEN Latency ELSE a,
         NEW m \in Nat, m >= n, lose => m >= n + 1
  PROVE  Answered(Asked(e), b, m, h <= NETWORK_DIAMETER)
<1> DEFINE r == Asked(e)
<1>1. /\ a \in {None} \cup 0 .. Latency
      /\ e.cnt > 0 /\ a # None => a < e.wait
      /\ e.cnt > 0 /\ h <= NETWORK_DIAMETER => e.cnt <= n + (IF a = None THEN 0 ELSE 1)
  BY DEF Answered
<1>2. e \in EntryType /\ e.wait = 0 /\ e.cnt \in Nat
  <2>1. e \in EntryType /\ e.wait = 0
    BY DEF Entry, Asks, Due
  <2> QED
    BY <2>1, Numbers
<1>3. Latency \in 0 .. Latency /\ Latency # None /\ Latency \in Nat /\ NETWORK_DIAMETER \in Nat
  BY ConstantTypes DEF None
<1>4. b \in {None} \cup 0 .. Latency
  BY <1>1, <1>3
<1>5. CASE ~NetworkWide(e)
  <2>1. r.cnt = 0
    BY <1>5, AskedRing
  <2> HIDE DEF r
  <2>2. Answered(r, b, m, h <= NETWORK_DIAMETER)
    BY <1>4, <2>1 DEF Answered
  <2> QED
    BY <2>2 DEF r
<1>6. CASE NetworkWide(e)
  <2>1. r.cnt = e.cnt + 1 /\ Latency < r.wait /\ Ttl(e) = NETWORK_DIAMETER /\ r.wait \in Nat
    <3>1. r.cnt = e.cnt + 1 /\ Latency < r.wait /\ Ttl(e) = NETWORK_DIAMETER /\ Entry(r)
      BY <1>6, AskedNetwork
    <3> QED
      BY <3>1, Numbers DEF Entry
  <2> HIDE DEF r
  <2>2. b # None => b < r.wait
    BY <1>3, <1>4, <2>1
  <2>3. ASSUME h <= NETWORK_DIAMETER
        PROVE  r.cnt <= m + (IF b = None THEN 0 ELSE 1)
    <3>1. CASE a # None
      <4>1. a >= 0 /\ a \in Nat
        BY <1>1, <1>3, <3>1
      <4>2. e.cnt = 0
        BY <1>1, <1>2, <3>1, <4>1
      <4>3. b = a
        BY <3>1
      <4> QED
        BY <2>1, <3>1, <4>2, <4>3
    <3>2. CASE a = None
      <4>1. found
        BY <1>3, <2>1, <2>3, <3>2
      <4>2. e.cnt <= n
        BY <1>1, <1>2, <2>3, <3>2
      <4>3. CASE lose
        <5>1. b = None
          BY <3>2, <4>3
        <5> QED
          BY <1>2, <2>1, <4>2, <4>3, <5>1
      <4>4. CASE ~lose
        <5>1. b # None
          BY <1>3, <4>1, <4>4
        <5> QED
          BY <1>2, <2>1, <4>2, <5>1
      <4> QED
        BY <4>3, <4>4
    <3> QED
      BY <3>1, <3>2
  <2>4. Answered(r, b, m, h <= NETWORK_DIAMETER)
    BY <1>4, <2>2, <2>3 DEF Answered
  <2> QED
    BY <2>4 DEF r
<1> QED
  BY <1>5, <1>6
-----------------------------------------------------------------------------
(* sendRequest. *)

\* The entry of d after sendRequest(ds, q, down).
After(d, ds, down) ==
  IF d \in ds /\ GivesUp(rt[d]) THEN GivenUp(rt[d])
  ELSE IF d \in ds /\ Asks(rt[d]) THEN Asked(rt[d])
  ELSE [rt[d] EXCEPT !.up = rt[d].up /\ d \notin down]

\* sendRequest leaves every entry in order, and takes no route up.
LEMMA AfterEntry ==
  ASSUME Inv, NEW ds, NEW down, NEW d \in Dest
  PROVE  /\ Entry(After(d, ds, down)) /\ After(d, ds, down) \in EntryType
         /\ After(d, ds, down).up => rt[d].up /\ d \notin down
<1>1. Entry(rt[d]) /\ rt[d].up \in BOOLEAN
  BY Numbers DEF Inv, Entry
<1>2. CASE d \in ds /\ GivesUp(rt[d])
  <2>1. After(d, ds, down) = GivenUp(rt[d])
    BY <1>2 DEF After
  <2>2. Entry(GivenUp(rt[d])) /\ ~GivenUp(rt[d]).up
    BY <1>1, <1>2, GivenUpEntry
  <2> QED
    BY <2>1, <2>2 DEF Entry
<1>3. CASE ~(d \in ds /\ GivesUp(rt[d])) /\ d \in ds /\ Asks(rt[d])
  <2>1. After(d, ds, down) = Asked(rt[d])
    BY <1>3 DEF After
  <2>2. Entry(Asked(rt[d])) /\ ~Asked(rt[d]).up
    BY <1>1, <1>3, AskedRing, AskedNetwork
  <2> QED
    BY <2>1, <2>2 DEF Entry
<1>4. CASE ~(d \in ds /\ GivesUp(rt[d])) /\ ~(d \in ds /\ Asks(rt[d]))
  <2> DEFINE b == d \notin down
             r == [rt[d] EXCEPT !.up = rt[d].up /\ b]
  <2>1. After(d, ds, down) = r
    BY <1>4 DEF After
  <2>2. b \in BOOLEAN
    OBVIOUS
  <2>3. Entry(r) /\ (r.up => rt[d].up /\ b)
    <3> HIDE DEF b
    <3> QED
      BY <1>1, <2>2, DownEntry
  <2> HIDE DEF r
  <2> QED
    BY <2>1, <2>3 DEF Entry
<1> QED
  BY <1>2, <1>3, <1>4

\* sendRequest, whoever calls it: the entries, the answers and who is given up.
LEMMA Searched ==
  ASSUME Inv, NEW ds \in SUBSET Dest, NEW q, NEW down \in SUBSET Dest,
         sendRequest(ds, q, down), dist' = dist
  PROVE  /\ rt' \in [Dest -> EntryType]
         /\ \A d \in Dest : rt'[d] = After(d, ds, down)
         /\ \A d \in Dest : Entry(rt[d])' /\ Answered(rt[d], answer[d], lost, Reachable(d))'
         /\ answer' \in [Dest -> {None} \cup 0 .. Latency]
         /\ \A d \in Dest : answer'[d] # None => OnClock(answer'[d])
         /\ lost' \in 0 .. MaxLost
         /\ gaveup' = {d \in ds : GivesUp(rt[d])}
         /\ rqueue' = Without(q, gaveup')
         /\ ReachableNotGivenUp'
<1> DEFINE given == {d \in ds : GivesUp(rt[d])}
           asked == {d \in ds : Asks(rt[d])}
           found == {d \in asked : Ttl(rt[d]) >= dist[d] /\ answer[d] = None}
<1>1. PICK lose \in SUBSET found :
        /\ lost + Cardinality(lose) <= MaxLost
        /\ lost' = lost + Cardinality(lose)
        /\ answer' = [d \in Dest |-> IF d \in found \ lose THEN Latency ELSE answer[d]]
        /\ rt' = [d \in Dest |-> IF d \in given THEN GivenUp(rt[d])
                                 ELSE IF d \in asked THEN Asked(rt[d])
                                 ELSE [rt[d] EXCEPT !.up = rt[d].up /\ d \notin down]]
        /\ rqueue' = Without(q, given)
        /\ gaveup' = given
  BY DEF sendRequest
<1>2. /\ lost \in Nat /\ answer \in [Dest -> {None} \cup 0 .. Latency]
      /\ \A d \in Dest : answer[d] # None => OnClock(answer[d])
      /\ dist \in [Dest -> Nat]
      /\ \A d \in Dest : Entry(rt[d]) /\ Answered(rt[d], answer[d], lost, Reachable(d))
  BY DEF Inv, Typed
<1>3. Cardinality(lose) \in Nat /\ (lose # {} => Cardinality(lose) >= 1) /\ IsFiniteSet(lose)
  <2>1. lose \subseteq Dest
    OBVIOUS
  <2>2. IsFiniteSet(lose)
    BY <2>1, PacingAssumption, FS_Subset
  <2>3. Cardinality(lose) \in Nat /\ (Cardinality(lose) = 0 <=> lose = {})
    BY <2>2, FS_CardinalityType, FS_EmptySet
  <2> QED
    BY <2>2, <2>3
<1>4. lost' \in 0 .. MaxLost /\ lost' >= lost /\ lost' \in Nat
      /\ (lose # {} => lost' >= lost + 1)
  <2> DEFINE c == Cardinality(lose)
  <2>1. c \in Nat /\ (lose # {} => c >= 1) /\ lost + c <= MaxLost /\ lost' = lost + c
    BY <1>1, <1>3
  <2> HIDE DEF c
  <2> QED
    BY <1>2, <2>1, ConstantTypes
<1>5. \A d \in Dest : rt'[d] = After(d, ds, down)
  BY <1>1 DEF After
<1>6. rt' \in [Dest -> EntryType] /\ \A d \in Dest : Entry(rt'[d])
  <2>1. \A d \in Dest : rt'[d] \in EntryType /\ Entry(rt'[d])
    BY <1>5, AfterEntry
  <2>2. rt' = [d \in Dest |-> rt'[d]]
    BY <1>1
  <2> QED
    BY <2>1, <2>2
<1>7. Latency \in 0 .. Latency /\ OnClock(Latency)
  BY PacingAssumption DEF OnClock
<1>8. /\ answer' \in [Dest -> {None} \cup 0 .. Latency]
      /\ \A d \in Dest : answer'[d] # None => OnClock(answer'[d])
  BY <1>1, <1>2, <1>7
<1>9. ASSUME NEW d \in Dest
      PROVE  Answered(rt'[d], answer'[d], lost', dist[d] <= NETWORK_DIAMETER)
  <2> DEFINE e == rt[d]
             a == answer[d]
             near == dist[d] <= NETWORK_DIAMETER
  <2>1. Entry(e) /\ Answered(e, a, lost, near) /\ e \in EntryType /\ dist[d] \in Nat
    BY <1>2 DEF Reachable, Entry
  <2>2. a \in {None} \cup 0 .. Latency /\ e.cnt \in Nat
    BY <1>2, <2>1, Numbers
  <2>3. CASE d \in ds /\ GivesUp(e)
    <3>1. rt'[d] = GivenUp(e)
      BY <1>5, <2>3 DEF After
    <3>2. GivenUp(e).cnt = 0
      BY <2>1, <2>3, GivenUpEntry
    <3> QED
      BY <1>8, <3>1, <3>2 DEF Answered
  <2>4. CASE ~(d \in ds /\ GivesUp(e)) /\ d \in ds /\ Asks(e)
    <3>1. rt'[d] = Asked(e)
      BY <1>5, <2>4 DEF After
    <3> DEFINE fd == d \in found
               ls == d \in lose
               b  == answer'[d]
               m  == lost'
               h  == dist[d]
    <3>2. fd <=> (Ttl(e) >= h /\ a = None)
      BY <2>4
    <3>3. fd \in BOOLEAN /\ ls \in BOOLEAN /\ (ls => fd)
      OBVIOUS
    <3>4. b = IF fd /\ ~ls THEN Latency ELSE a
      BY <1>1
    <3>5. m \in Nat /\ m >= lost /\ (ls => m >= lost + 1) /\ lost \in Nat /\ h \in Nat
      BY <1>2, <1>4
    <3>6. Entry(e) /\ Asks(e) /\ Answered(e, a, lost, h <= NETWORK_DIAMETER)
      BY <2>1, <2>4
    <3> HIDE DEF fd, ls, b, m, h, e, a
    <3>7. Answered(Asked(e), b, m, h <= NETWORK_DIAMETER)
      BY <3>2, <3>3, <3>4, <3>5, <3>6, AnswerToSearch
    <3> QED
      BY <3>1, <3>7 DEF b, m, h
  <2>5. CASE ~(d \in ds /\ GivesUp(e)) /\ ~(d \in ds /\ Asks(e))
    <3> DEFINE k == d \notin down
               r == [e EXCEPT !.up = e.up /\ k]
    <3>1. rt'[d] = r
      BY <1>5, <2>5 DEF After
    <3>2. r.cnt = e.cnt /\ r.wait = e.wait
      <4>1. k \in BOOLEAN
        OBVIOUS
      <4> HIDE DEF k, e
      <4> QED
        BY <2>1, <4>1, DownEntry
    <3>3. answer'[d] = a
      BY <1>1, <2>5
    <3> HIDE DEF r, e, a
    <3>4. Answered(r, a, lost', near)
      BY <1>2, <1>4, <2>1, <2>2, <3>2 DEF Answered
    <3> QED
      BY <3>1, <3>3, <3>4
  <2> QED
    BY <2>3, <2>4, <2>5
<1>10. \A d \in Dest : Entry(rt[d])' /\ Answered(rt[d], answer[d], lost, Reachable(d))'
  <2>1. ASSUME NEW d \in Dest PROVE Entry(rt[d])'
    BY <1>6
  <2>2. ASSUME NEW d \in Dest PROVE Answered(rt[d], answer[d], lost, Reachable(d))'
    <3>1. Reachable(d)' = (dist[d] <= NETWORK_DIAMETER)
      BY DEF Reachable
    <3> QED
      BY <1>9, <3>1 DEF Answered
  <2> QED
    BY <2>1, <2>2
<1>11. ReachableNotGivenUp'
  <2>1. SUFFICES ASSUME NEW d \in given, dist[d] <= NETWORK_DIAMETER PROVE lost' > RREQ_RETRIES
    BY <1>1 DEF ReachableNotGivenUp, Reachable
  <2> DEFINE e == rt[d]
             a == answer[d]
  <2>2. d \in Dest /\ e.wait = 0 /\ e.cnt > RREQ_RETRIES
    BY <2>1 DEF GivesUp, Due
  <2>3. /\ a \in {None} \cup 0 .. Latency
        /\ e.cnt > 0 /\ a # None => a < e.wait
        /\ e.cnt > 0 => e.cnt <= lost + (IF a = None THEN 0 ELSE 1)
    BY <1>2, <2>1, <2>2 DEF Answered, Reachable
  <2>4. e.cnt \in Nat /\ e.cnt > 0
    <3>1. e \in EntryType
      BY <1>2, <2>2 DEF Entry
    <3> HIDE DEF e
    <3> QED
      BY <2>2, <3>1, Numbers, ConstantTypes
  <2> HIDE DEF e, a
  <2>5. a = None
    BY <2>2, <2>3, <2>4, ConstantTypes
  <2> QED
    BY <1>2, <1>4, <2>2, <2>3, <2>4, <2>5, ConstantTypes
<1> QED
  BY <1>1, <1>4, <1>5, <1>6, <1>8, <1>10, <1>11

\* A packet that waits in time still does after sendRequest, which gives no search
\* of its destination up; also when rt_purge, now due, has it asked for.
LEMMA OldPacket ==
  ASSUME Inv, NEW p \in PacketType, WaitsInTime(p), NEW ds, NEW down,
         ~(p.dst \in ds /\ GivesUp(rt[p.dst])), NEW r, r = After(p.dst, ds, down)
  PROVE  /\ ~r.up
         /\ Deadline(r, p.age, timer)
         /\ timer = 0 /\ p.dst \in ds => Deadline(r, p.age, FREQUENCY)
<1> DEFINE d == p.dst
           e == rt[d]
           a == p.age
           t == timer
<1>1. d \in Dest /\ a \in Nat
  BY DEF PacketType
<1>2. /\ Entry(e) /\ e \in EntryType /\ ~e.up /\ Deadline(e, a, t)
      /\ t \in 0 .. FREQUENCY
  BY <1>1 DEF Inv, Typed, Entry, WaitsInTime
<1>3. CASE d \in ds /\ Asks(e)
  <2>1. r = Asked(e)
    BY <1>3 DEF After
  <2> HIDE DEF d, e, a, t
  <2>2. ~r.up
    BY <1>2, <1>3, <2>1, AskedRing, AskedNetwork
  <2>3. Deadline(r, a, t) /\ (t = 0 => Deadline(r, a, FREQUENCY))
    BY <1>1, <1>2, <1>3, <2>1, DeadlineRing, DeadlineNetwork
  <2> QED
    BY <2>2, <2>3 DEF a, t
<1>4. CASE ~(d \in ds /\ Asks(e))
  <2> DEFINE b == d \notin down
  <2>1. r = [e EXCEPT !.up = e.up /\ b]
    BY <1>4 DEF After
  <2>2. r = e
    <3>1. b \in BOOLEAN
      OBVIOUS
    <3> HIDE DEF b, e
    <3> QED
      BY <1>2, <2>1, <3>1, DownEntry
  <2>3. d \in ds => e.wait > 0
    <3>1. d \in ds => ~Due(e)
      BY <1>4 DEF Asks
    <3>2. d \in ds => e.wait # 0
      BY <1>2, <3>1 DEF Due
    <3> HIDE DEF e
    <3> QED
      BY <1>2, <3>2, Numbers
  <2> HIDE DEF d, e, a, t
  <2>4. t = 0 /\ d \in ds => Deadline(e, a, FREQUENCY)
    BY <1>1, <1>2, <2>3, DeadlineKept
  <2> QED
    BY <1>2, <2>2, <2>4 DEF d, a, t
<1> QED
  BY <1>3, <1>4
-----------------------------------------------------------------------------
(* The steps. *)

\* The agent starts in order.
LEMMA InitInv == Init => Inv
<1> SUFFICES ASSUME Init PROVE Inv
  OBVIOUS
<1> DEFINE z == [up |-> FALSE, cnt |-> 0, ttl |-> 0, hop |-> INFINITY2, wait |-> 0]
<1>1. /\ rt = [d \in Dest |-> z] /\ rqueue = << >> /\ timer = FREQUENCY
      /\ dist \in [Dest -> UNION Range(Distances)] /\ \A d \in Dest : dist[d] \in Distances[d]
      /\ answer = [d \in Dest |-> None] /\ lost = 0 /\ gaveup = {} /\ pushed = {}
  BY DEF Init
<1>2. z \in EntryType
  <2>1. 0 \in 0 .. RREQ_RETRIES + 1 /\ 0 \in 0 .. NETWORK_DIAMETER /\ 0 \in 0 .. MAX_RREQ_TIMEOUT
    BY ConstantTypes
  <2> QED
    BY <2>1 DEF EntryType
<1>3. Entry(z) /\ z.cnt = 0
  BY <1>2 DEF Entry
<1> HIDE DEF z
<1>4. \A d \in Dest : rt[d] = z /\ answer[d] = None
  BY <1>1
<1>5. Typed
  <2>1. dist \in [Dest -> Nat]
    <3>1. \A d \in Dest : dist[d] \in Nat
      BY <1>1, ConstantTypes
    <3> QED
      BY <1>1, <3>1
  <2>2. OnClock(FREQUENCY) /\ FREQUENCY \in 0 .. FREQUENCY
    BY PacingAssumption DEF OnClock
  <2>3. << >> \in Seq(PacketType) /\ Len(<< >>) = 0
    OBVIOUS
  <2>4. rt \in [Dest -> EntryType]
    BY <1>1, <1>2
  <2>5. answer \in [Dest -> {None} \cup 0 .. Latency]
    BY <1>1
  <2>6. 0 <= Limit /\ 0 \in 0 .. MaxLost
    BY ConstantTypes
  <2> QED
    BY <1>1, <1>4, <2>1, <2>2, <2>3, <2>4, <2>5, <2>6 DEF Typed
<1>6. \A d \in Dest : Entry(rt[d]) /\ Answered(rt[d], answer[d], lost, Reachable(d))
  BY <1>3, <1>4 DEF Answered
<1>7. 1 .. Len(rqueue) = {}
  BY <1>1
<1>8. SearchesAfresh /\ ReachableNotGivenUp
  BY <1>1, <1>3, <1>4 DEF SearchesAfresh, ReachableNotGivenUp
<1> QED
  BY <1>5, <1>6, <1>7, <1>8 DEF Inv

\* What Without leaves of the buffer.
Left(w, q, ds) ==
  /\ w \in Seq(PacketType) /\ Len(w) <= Limit /\ Len(w) \in Nat
  /\ \A i \in 1 .. Len(w) :
       /\ w[i] \in PacketType /\ w[i].dst \notin ds
       /\ \E j \in 1 .. Len(q) : w[i] = q[j]
  /\ \A j \in 1 .. Len(q) :
       q[j].dst \notin ds => \E i \in 1 .. Len(w) : w[i] = q[j]

LEMMA QueueLeft ==
  ASSUME NEW q \in Seq(PacketType), Len(q) <= Limit, NEW ds, NEW w, w = Without(q, ds)
  PROVE  Left(w, q, ds)
<1>1. Kept([q |-> q, ds |-> ds], w, Len(q))
  BY WithoutKeeps
<1>2. /\ w \in Seq(PacketType)
      /\ Len(w) <= Len(q)
      /\ \A i \in 1 .. Len(w) :
           w[i].dst \notin ds /\ \E j \in 1 .. Len(q) : w[i] = q[j]
      /\ \A j \in 1 .. Len(q) :
           q[j].dst \notin ds => \E i \in 1 .. Len(w) : w[i] = q[j]
  BY <1>1 DEF Kept
<1>3. Len(w) \in Nat /\ Len(q) \in Nat /\ Len(w) <= Limit
      /\ \A i \in 1 .. Len(w) : w[i] \in PacketType
  <2>1. Len(w) \in Nat /\ Len(q) \in Nat
        /\ \A i \in 1 .. Len(w) : w[i] \in PacketType
    BY <1>2, QueueOf
  <2> QED
    BY <1>2, <2>1, ConstantTypes
<1> QED
  BY <1>2, <1>3 DEF Left

\* Waiting, by positions; before and after a step.
LEMMA WaitingIn ==
  ASSUME rqueue \in Seq(PacketType), NEW d
  PROVE  Waiting(d) <=> \E i \in 1 .. Len(rqueue) : rqueue[i].dst = d
<1>1. DOMAIN rqueue = 1 .. Len(rqueue)
  BY QueueOf
<1> QED
  BY <1>1 DEF Waiting

LEMMA WaitingAfter ==
  ASSUME rqueue' \in Seq(PacketType), NEW d
  PROVE  Waiting(d)' <=> \E i \in 1 .. Len(rqueue') : rqueue'[i].dst = d
<1>1. DOMAIN rqueue' = 1 .. Len(rqueue')
  BY QueueOf
<1> QED
  BY <1>1 DEF Waiting

\* rt_resolve: the new packet meets its deadline, and the oldest may be pushed out.
LEMMA AppSendInv ==
  ASSUME Inv, NEW d \in Dest, AppSend(d)
  PROVE  Inv'
<1> DEFINE full == Len(rqueue) = Limit
           base == IF full THEN Tail(rqueue) ELSE rqueue
           new  == [dst |-> d, age |-> 0]
           q    == Append(base, new)
           ds   == {d}
           down == {}
<1>1. /\ ~rt[d].up
      /\ sendRequest(ds, q, down)
      /\ pushed' = IF full THEN pushed \cup {Head(rqueue).dst} ELSE pushed
      /\ timer' = timer /\ dist' = dist
  BY DEF AppSend
<1>2. /\ rqueue \in Seq(PacketType) /\ Len(rqueue) <= Limit /\ Len(rqueue) \in Nat
      /\ \A i \in 1 .. Len(rqueue) : rqueue[i] \in PacketType
      /\ \A i \in 1 .. Len(rqueue) : WaitsInTime(rqueue[i])
  BY QueueOf DEF Inv, Typed
<1>3. new \in PacketType
  BY DEF PacketType
<1>4. /\ base \in Seq(PacketType) /\ Len(base) + 1 <= Limit /\ Len(base) \in Nat
      /\ \A i \in 1 .. Len(base) : \E j \in 1 .. Len(rqueue) : base[i] = rqueue[j]
      /\ \A j \in 1 .. Len(rqueue) : (full /\ j = 1) \/ \E i \in 1 .. Len(base) : base[i] = rqueue[j]
  <2>1. CASE full
    <3>1. rqueue # << >> /\ Len(rqueue) >= 1
      BY <1>2, <2>1, ConstantTypes
    <3>2. Tail(rqueue) \in Seq(PacketType) /\ Len(Tail(rqueue)) = Len(rqueue) - 1
          /\ \A i \in 1 .. Len(rqueue) - 1 : Tail(rqueue)[i] = rqueue[i + 1]
      BY <1>2, <3>1, HeadTailProperties
    <3>3. base = Tail(rqueue)
      BY <2>1
    <3> HIDE DEF base
    <3>4. \A j \in 1 .. Len(rqueue) : j = 1 \/ (j - 1 \in 1 .. Len(base) /\ base[j - 1] = rqueue[j])
      BY <1>2, <3>2, <3>3
    <3>5. \A i \in 1 .. Len(base) : i + 1 \in 1 .. Len(rqueue) /\ base[i] = rqueue[i + 1]
      BY <1>2, <3>2, <3>3
    <3>6. base \in Seq(PacketType) /\ Len(base) + 1 <= Limit /\ Len(base) \in Nat
      BY <1>2, <3>1, <3>2, <3>3, ConstantTypes
    <3>7. \A i \in 1 .. Len(base) : \E j \in 1 .. Len(rqueue) : base[i] = rqueue[j]
      BY <3>5
    <3>8. \A j \in 1 .. Len(rqueue) : (full /\ j = 1) \/ \E i \in 1 .. Len(base) : base[i] = rqueue[j]
      BY <2>1, <3>4
    <3> QED
      BY <3>6, <3>7, <3>8
  <2>2. CASE ~full
    BY <1>2, <2>2, ConstantTypes
  <2> QED
    BY <2>1, <2>2
<1> HIDE DEF base, new
<1>5. /\ q \in Seq(PacketType) /\ Len(q) <= Limit /\ Len(q) = Len(base) + 1
      /\ \A i \in 1 .. Len(base) : q[i] = base[i] /\ i \in 1 .. Len(q)
      /\ q[Len(base) + 1] = new /\ Len(base) + 1 \in 1 .. Len(q)
      /\ \A i \in 1 .. Len(q) : i \in 1 .. Len(base) \/ i = Len(base) + 1
  BY <1>3, <1>4
<1>6. ds \in SUBSET Dest /\ down \in SUBSET Dest
  OBVIOUS
<1> HIDE DEF q, ds, down
<1>7. /\ rt' \in [Dest -> EntryType]
      /\ \A c \in Dest : rt'[c] = After(c, ds, down)
      /\ \A c \in Dest : Entry(rt[c])' /\ Answered(rt[c], answer[c], lost, Reachable(c))'
      /\ answer' \in [Dest -> {None} \cup 0 .. Latency]
      /\ \A c \in Dest : answer'[c] # None => OnClock(answer'[c])
      /\ lost' \in 0 .. MaxLost
      /\ gaveup' = {c \in ds : GivesUp(rt[c])}
      /\ rqueue' = Without(q, gaveup')
      /\ ReachableNotGivenUp'
  BY <1>1, <1>6, Searched
<1>8. /\ rqueue' \in Seq(PacketType) /\ Len(rqueue') <= Limit /\ Len(rqueue') \in Nat
      /\ \A i \in 1 .. Len(rqueue') :
           /\ rqueue'[i] \in PacketType /\ rqueue'[i].dst \notin gaveup'
           /\ \E j \in 1 .. Len(q) : rqueue'[i] = q[j]
      /\ \A j \in 1 .. Len(q) :
           q[j].dst \notin gaveup' => \E i \in 1 .. Len(rqueue') : rqueue'[i] = q[j]
  <2> DEFINE g == gaveup'
             w == rqueue'
  <2>1. w = Without(q, g)
    BY <1>7
  <2>2. q \in Seq(PacketType) /\ Len(q) <= Limit
    BY <1>5
  <2> HIDE DEF g, w
  <2>3. Left(w, q, g)
    BY <2>1, <2>2, QueueLeft
  <2> QED
    BY <2>3 DEF Left, g, w
<1>9. full => Head(rqueue) = rqueue[1] /\ Head(rqueue).dst \in Dest
  <2>1. full => Len(rqueue) >= 1 /\ 1 \in 1 .. Len(rqueue)
    BY <1>2, ConstantTypes
  <2>2. full => Head(rqueue) = rqueue[1]
    BY <1>2, <2>1
  <2> QED
    BY <1>2, <2>1, <2>2 DEF PacketType
<1>10. Typed'
  <2>1. pushed' \subseteq Dest
    BY <1>1, <1>9 DEF Inv, Typed
  <2>2. gaveup' \subseteq Dest
    BY <1>6, <1>7
  <2>3. /\ timer' \in 0 .. FREQUENCY /\ OnClock(timer')
        /\ dist' \in [Dest -> Nat] /\ \A c \in Dest : dist'[c] \in Distances[c]
    BY <1>1 DEF Inv, Typed
  <2> QED
    BY <1>7, <1>8, <2>1, <2>2, <2>3 DEF Typed, OnClock
<1>11. ASSUME NEW i \in 1 .. Len(rqueue')
       PROVE  WaitsInTime(rqueue[i])'
  <2> DEFINE p == rqueue'[i]
             r == rt'[p.dst]
  <2>1. p \in PacketType /\ p.dst \notin gaveup' /\ p.dst \in Dest
    BY <1>8 DEF PacketType
  <2>2. PICK j \in 1 .. Len(q) : p = q[j]
    BY <1>8
  <2>3. r = After(p.dst, ds, down) /\ ~(p.dst \in ds /\ GivesUp(rt[p.dst]))
    BY <1>7, <2>1
  <2>4. CASE j \in 1 .. Len(base)
    <3>1. WaitsInTime(p)
      <4>1. PICK l \in 1 .. Len(rqueue) : p = rqueue[l]
        BY <1>4, <1>5, <2>2, <2>4
      <4>2. WaitsInTime(rqueue[l])
        BY <1>2
      <4> QED
        BY <4>1, <4>2
    <3> HIDE DEF p, r
    <3>2. ~r.up /\ Deadline(r, p.age, timer)
      BY <2>1, <2>3, <3>1, OldPacket
    <3> QED
      BY <1>1, <3>2 DEF WaitsInTime, Deadline, p, r
  <2>5. CASE j = Len(base) + 1
    <3>1. p.dst = d /\ p.age = 0
      BY <1>5, <2>2, <2>5 DEF new
    <3> DEFINE e == rt[d]
    <3>2. Entry(e) /\ ~e.up /\ timer \in 0 .. FREQUENCY /\ e \in EntryType
      BY <1>1 DEF Inv, Typed
    <3>3. d \in ds /\ ~GivesUp(e)
      BY <2>3, <3>1 DEF ds
    <3>4. \/ e.wait > 0 /\ r = e
          \/ Asks(e) /\ r = Asked(e)
      <4>1. CASE Due(e)
        <5>1. Asks(e)
          BY <3>3, <4>1 DEF Asks
        <5>2. r = Asked(e)
          BY <2>3, <3>1, <3>3, <5>1 DEF After
        <5> QED
          BY <5>1, <5>2
      <4>2. CASE ~Due(e)
        <5>1. e.wait # 0 /\ ~Asks(e)
          BY <3>2, <4>2 DEF Due, Asks
        <5> DEFINE b == d \notin down
        <5>2. r = [e EXCEPT !.up = e.up /\ b]
          BY <2>3, <3>1, <5>1, <3>3 DEF After
        <5>3. b \in BOOLEAN
          OBVIOUS
        <5> HIDE DEF r, e, b
        <5>4. r = e
          BY <3>2, <5>2, <5>3, DownEntry
        <5> QED
          BY <3>2, <5>1, <5>4, Numbers
      <4> QED
        BY <4>1, <4>2
    <3> HIDE DEF r, e, p
    <3>5. Deadline(r, 0, timer)
      BY <3>2, <3>4, DeadlineNew
    <3>6. ~r.up
      <4>1. r.up => rt[d].up
        BY <2>3, <3>1, AfterEntry
      <4> QED
        BY <1>1, <4>1
    <3> QED
      BY <1>1, <3>1, <3>5, <3>6 DEF WaitsInTime, Deadline, p, r
  <2> QED
    BY <1>5, <2>4, <2>5
<1>12. SearchesAfresh'
  <2>1. SUFFICES ASSUME NEW c \in Dest, c \notin pushed', ~Waiting(c)' PROVE rt'[c].cnt = 0
    BY DEF SearchesAfresh
  <2>2. \A i \in 1 .. Len(rqueue') : rqueue'[i].dst # c
    BY <1>8, <2>1, WaitingAfter
  <2>3. \A j \in 1 .. Len(q) : q[j].dst = c => c \in gaveup'
    <3>1. \A j \in 1 .. Len(q) : q[j].dst = c /\ c \notin gaveup' => FALSE
      BY <1>8, <2>2
    <3> QED
      BY <3>1
  <2>4. CASE c = d
    <3>1. d \in gaveup'
      BY <1>5, <2>3, <2>4 DEF new
    <3>2. rt'[d] = GivenUp(rt[d]) /\ GivesUp(rt[d]) /\ Entry(rt[d])
      BY <1>7, <3>1 DEF After, Inv
    <3> QED
      BY <2>4, <3>2, GivenUpEntry
  <2>5. CASE c # d
    <3>1. c \notin gaveup' /\ c \notin ds
      BY <1>7, <2>5 DEF ds
    <3>2. ~Waiting(c)
      <4>1. \A j \in 1 .. Len(rqueue) : rqueue[j].dst # c
        <5>1. SUFFICES ASSUME NEW j \in 1 .. Len(rqueue), rqueue[j].dst = c PROVE FALSE
          OBVIOUS
        <5>2. CASE full /\ j = 1
          BY <1>1, <1>9, <2>1, <5>1, <5>2
        <5>3. CASE \E i \in 1 .. Len(base) : base[i] = rqueue[j]
          BY <1>5, <2>3, <3>1, <5>1, <5>3
        <5> QED
          BY <1>4, <5>2, <5>3
      <4> QED
        BY <1>2, <4>1, WaitingIn
    <3>3. c \notin pushed
      BY <1>1, <2>1
    <3>4. rt[c].cnt = 0
      BY <3>2, <3>3 DEF Inv, SearchesAfresh
    <3> DEFINE b == c \notin down
    <3>5. rt'[c] = [rt[c] EXCEPT !.up = rt[c].up /\ b]
      BY <1>7, <3>1 DEF After
    <3>6. b \in BOOLEAN /\ Entry(rt[c])
      BY DEF Inv
    <3> HIDE DEF b
    <3> QED
      BY <3>4, <3>5, <3>6, DownEntry
  <2> QED
    BY <2>4, <2>5
<1> QED
  BY <1>7, <1>10, <1>11, <1>12 DEF Inv

\* rt_purge: whatever waits is asked for, if its timeout has run out.
LEMMA PurgeInv ==
  ASSUME Inv, rt_purge
  PROVE  Inv'
<1>1. PICK expired \in SUBSET Up :
        sendRequest({d \in Dest \ Up : Waiting(d)}, Without(rqueue, expired), expired)
  BY DEF rt_purge
<1>2. timer = 0 /\ timer' = FREQUENCY /\ dist' = dist /\ pushed' = pushed
  BY DEF rt_purge
<1> DEFINE ds == {d \in Dest \ Up : Waiting(d)}
           q  == Without(rqueue, expired)
<1>3. /\ rqueue \in Seq(PacketType) /\ Len(rqueue) <= Limit /\ Len(rqueue) \in Nat
      /\ \A i \in 1 .. Len(rqueue) : rqueue[i] \in PacketType
      /\ \A i \in 1 .. Len(rqueue) : WaitsInTime(rqueue[i])
  BY QueueOf DEF Inv, Typed
<1>4. ds \in SUBSET Dest /\ expired \in SUBSET Dest /\ Up \in SUBSET Dest
  BY DEF Up
<1>5. sendRequest(ds, q, expired)
  BY <1>1
<1>6. Left(q, rqueue, expired)
  BY <1>3, QueueLeft
<1>7. \A i \in 1 .. Len(rqueue) : rqueue[i].dst \in ds /\ rqueue[i].dst \in Dest
  <2>1. SUFFICES ASSUME NEW i \in 1 .. Len(rqueue)
                 PROVE  rqueue[i].dst \in ds /\ rqueue[i].dst \in Dest
    OBVIOUS
  <2> DEFINE d == rqueue[i].dst
  <2>2. d \in Dest
    BY <1>3 DEF PacketType
  <2>3. ~rt[d].up
    BY <1>3 DEF WaitsInTime
  <2>4. Waiting(d)
    BY <1>3, WaitingIn
  <2> QED
    BY <2>2, <2>3, <2>4 DEF Up
<1>8. \A d \in ds : Waiting(d) /\ d \notin Up
  OBVIOUS
<1> HIDE DEF ds, q
<1>9. /\ rt' \in [Dest -> EntryType]
      /\ \A c \in Dest : rt'[c] = After(c, ds, expired)
      /\ \A c \in Dest : Entry(rt[c])' /\ Answered(rt[c], answer[c], lost, Reachable(c))'
      /\ answer' \in [Dest -> {None} \cup 0 .. Latency]
      /\ \A c \in Dest : answer'[c] # None => OnClock(answer'[c])
      /\ lost' \in 0 .. MaxLost
      /\ gaveup' = {c \in ds : GivesUp(rt[c])}
      /\ rqueue' = Without(q, gaveup')
      /\ ReachableNotGivenUp'
  BY <1>2, <1>4, <1>5, Searched
<1>10. Left(rqueue', q, gaveup')
  <2> DEFINE g == gaveup'
             w == rqueue'
  <2>1. w = Without(q, g)
    BY <1>9
  <2>2. q \in Seq(PacketType) /\ Len(q) <= Limit
    BY <1>6 DEF Left
  <2> HIDE DEF g, w
  <2>3. Left(w, q, g)
    BY <2>1, <2>2, QueueLeft
  <2> QED
    BY <2>3 DEF g, w
<1>11. /\ rqueue' \in Seq(PacketType) /\ Len(rqueue') <= Limit /\ Len(rqueue') \in Nat
       /\ \A i \in 1 .. Len(rqueue') :
            /\ rqueue'[i] \in PacketType /\ rqueue'[i].dst \notin gaveup'
            /\ \E j \in 1 .. Len(q) : rqueue'[i] = q[j]
       /\ \A j \in 1 .. Len(q) :
            q[j].dst \notin gaveup' => \E i \in 1 .. Len(rqueue') : rqueue'[i] = q[j]
  BY <1>10 DEF Left
<1>12. Typed'
  <2>1. /\ timer' \in 0 .. FREQUENCY /\ OnClock(timer')
        /\ dist' \in [Dest -> Nat] /\ \A c \in Dest : dist'[c] \in Distances[c]
        /\ pushed' \subseteq Dest
    <3>1. FREQUENCY \in 0 .. FREQUENCY /\ OnClock(FREQUENCY)
      BY PacingAssumption DEF OnClock
    <3> QED
      BY <1>2, <3>1 DEF Inv, Typed
  <2>2. gaveup' \subseteq Dest
    BY <1>4, <1>9
  <2> QED
    BY <1>9, <1>11, <2>1, <2>2 DEF Typed, OnClock
<1>13. ASSUME NEW i \in 1 .. Len(rqueue')
       PROVE  WaitsInTime(rqueue[i])'
  <2> DEFINE p == rqueue'[i]
             r == rt'[p.dst]
  <2>1. p \in PacketType /\ p.dst \notin gaveup' /\ p.dst \in Dest
    BY <1>11 DEF PacketType
  <2>2. PICK l \in 1 .. Len(rqueue) : p = rqueue[l]
    <3>1. PICK j \in 1 .. Len(q) : p = q[j]
      BY <1>11
    <3>2. \A k \in 1 .. Len(q) : \E l \in 1 .. Len(rqueue) : q[k] = rqueue[l]
      BY <1>6 DEF Left
    <3> QED
      BY <3>1, <3>2
  <2>3. WaitsInTime(p) /\ p.dst \in ds
    BY <1>3, <1>7, <2>2
  <2>4. r = After(p.dst, ds, expired) /\ ~(p.dst \in ds /\ GivesUp(rt[p.dst]))
    BY <1>9, <2>1
  <2> HIDE DEF p, r
  <2>5. ~r.up /\ Deadline(r, p.age, FREQUENCY)
    BY <1>2, <2>1, <2>3, <2>4, OldPacket
  <2> QED
    BY <1>2, <2>5 DEF WaitsInTime, Deadline, p, r
<1>14. SearchesAfresh'
  <2>1. SUFFICES ASSUME NEW c \in Dest, c \notin pushed', ~Waiting(c)' PROVE rt'[c].cnt = 0
    BY DEF SearchesAfresh
  <2>2. \A i \in 1 .. Len(rqueue') : rqueue'[i].dst # c
    BY <1>11, <2>1, WaitingAfter
  <2>3. Entry(rt[c]) /\ rt[c] \in EntryType
    BY DEF Inv, Entry
  <2>4. CASE c \in gaveup'
    <3>1. rt'[c] = GivenUp(rt[c]) /\ GivesUp(rt[c])
      BY <1>9, <2>4 DEF After
    <3> QED
      BY <2>3, <3>1, GivenUpEntry
  <2>5. CASE c \in ds /\ c \notin gaveup'
    <3>1. PICK l \in 1 .. Len(rqueue) : rqueue[l].dst = c
      BY <1>3, <1>8, <2>5, WaitingIn
    <3>2. c \notin expired
      BY <1>8, <2>5
    <3>3. PICK j \in 1 .. Len(q) : q[j] = rqueue[l]
      BY <1>6, <3>1, <3>2 DEF Left
    <3>4. \E i \in 1 .. Len(rqueue') : rqueue'[i] = q[j]
      BY <1>11, <2>5, <3>1, <3>3
    <3> QED
      BY <2>2, <3>1, <3>3, <3>4
  <2>6. CASE c \notin ds
    <3>1. ~Waiting(c)
      BY <1>3, <1>7, <2>6, WaitingIn
    <3>2. rt[c].cnt = 0
      BY <1>2, <2>1, <3>1 DEF Inv, SearchesAfresh
    <3> DEFINE b == c \notin expired
    <3>3. rt'[c] = [rt[c] EXCEPT !.up = rt[c].up /\ b]
      BY <1>9, <2>6 DEF After
    <3>4. b \in BOOLEAN
      OBVIOUS
    <3> HIDE DEF b
    <3> QED
      BY <2>3, <3>2, <3>3, <3>4, DownEntry
  <2> QED
    BY <2>4, <2>5, <2>6
<1> QED
  BY <1>9, <1>12, <1>13, <1>14 DEF Inv

\* A route comes up: what waits for it leaves.
LEMMA RouteFoundInv ==
  ASSUME Inv, NEW d \in Dest, RouteFound(d)
  PROVE  Inv'
<1> DEFINE f == [up |-> TRUE, cnt |-> 0, ttl |-> 0, hop |-> dist[d], wait |-> 0]
<1>1. /\ rt' = [rt EXCEPT ![d] = f]
      /\ rqueue' = Without(rqueue, {d})
      /\ answer' = [answer EXCEPT ![d] = None]
      /\ gaveup' = {} /\ pushed' = pushed \ {d}
      /\ timer' = timer /\ dist' = dist /\ lost' = lost
  BY DEF RouteFound
<1>2. /\ rqueue \in Seq(PacketType) /\ Len(rqueue) <= Limit /\ Len(rqueue) \in Nat
      /\ \A i \in 1 .. Len(rqueue) : rqueue[i] \in PacketType
      /\ \A i \in 1 .. Len(rqueue) : WaitsInTime(rqueue[i])
  BY QueueOf DEF Inv, Typed
<1>3. /\ rqueue' \in Seq(PacketType) /\ Len(rqueue') <= Limit /\ Len(rqueue') \in Nat
      /\ \A i \in 1 .. Len(rqueue') :
           /\ rqueue'[i] \in PacketType /\ rqueue'[i].dst \notin {d}
           /\ \E j \in 1 .. Len(rqueue) : rqueue'[i] = rqueue[j]
      /\ \A j \in 1 .. Len(rqueue) :
           rqueue[j].dst \notin {d} => \E i \in 1 .. Len(rqueue') : rqueue'[i] = rqueue[j]
  <2> DEFINE w == rqueue'
             g == {d}
  <2>1. w = Without(rqueue, g)
    BY <1>1
  <2> HIDE DEF w, g
  <2>2. Left(w, rqueue, g)
    BY <1>2, <2>1, QueueLeft
  <2> QED
    BY <2>2 DEF Left, w, g
<1>4. f \in EntryType /\ Entry(f) /\ f.cnt = 0
  <2>1. 0 \in 0 .. RREQ_RETRIES + 1 /\ 0 \in 0 .. NETWORK_DIAMETER /\ 0 \in 0 .. MAX_RREQ_TIMEOUT
    BY ConstantTypes
  <2>2. dist[d] \in UNION Range(Distances)
    <3>1. dist[d] \in Distances[d] /\ Distances[d] \in Range(Distances)
      BY ConstantTypes DEF Inv, Typed, Range
    <3> QED
      BY <3>1
  <2>3. f \in EntryType
    BY <2>1, <2>2 DEF EntryType
  <2> QED
    BY <2>3 DEF Entry
<1> HIDE DEF f
<1>5. /\ rt \in [Dest -> EntryType] /\ rt' \in [Dest -> EntryType]
      /\ rt'[d] = f /\ answer'[d] = None
      /\ \A c \in Dest : c # d => rt'[c] = rt[c] /\ answer'[c] = answer[c]
  BY <1>1, <1>4 DEF Inv, Typed
<1>6. Typed'
  <2>1. /\ answer' \in [Dest -> {None} \cup 0 .. Latency]
        /\ \A c \in Dest : answer'[c] # None => OnClock(answer'[c])
    BY <1>1, <1>5 DEF Inv, Typed
  <2>2. /\ timer' \in 0 .. FREQUENCY /\ OnClock(timer')
        /\ dist' \in [Dest -> Nat] /\ \A c \in Dest : dist'[c] \in Distances[c]
        /\ lost' \in 0 .. MaxLost /\ gaveup' \subseteq Dest /\ pushed' \subseteq Dest
    BY <1>1 DEF Inv, Typed
  <2> QED
    BY <1>3, <1>5, <2>1, <2>2 DEF Typed, OnClock
<1>7. ASSUME NEW c \in Dest
      PROVE  Entry(rt[c])' /\ Answered(rt[c], answer[c], lost, Reachable(c))'
  <2>1. Reachable(c)' = Reachable(c)
    BY <1>1 DEF Reachable
  <2>2. CASE c = d
    BY <1>4, <1>5, <2>2 DEF Entry, Answered
  <2>3. CASE c # d
    <3>1. Entry(rt[c]) /\ Answered(rt[c], answer[c], lost, Reachable(c))
      BY DEF Inv
    <3>2. Entry(rt[c])'
      BY <1>5, <2>3, <3>1
    <3>3. Answered(rt[c], answer[c], lost, Reachable(c))'
      BY <1>1, <1>5, <2>1, <2>3, <3>1 DEF Answered
    <3> QED
      BY <3>2, <3>3
  <2> QED
    BY <2>2, <2>3
<1>8. ASSUME NEW i \in 1 .. Len(rqueue')
      PROVE  WaitsInTime(rqueue[i])'
  <2> DEFINE p == rqueue'[i]
  <2>1. PICK l \in 1 .. Len(rqueue) : p = rqueue[l]
    BY <1>3
  <2>2. WaitsInTime(p) /\ p.dst # d /\ p.dst \in Dest
    BY <1>2, <1>3, <2>1 DEF PacketType
  <2>3. rt'[p.dst] = rt[p.dst] /\ timer' = timer
    BY <1>1, <1>5, <2>2
  <2> QED
    BY <2>2, <2>3 DEF WaitsInTime, Deadline
<1>9. SearchesAfresh'
  <2>1. SUFFICES ASSUME NEW c \in Dest, c \notin pushed', ~Waiting(c)' PROVE rt'[c].cnt = 0
    BY DEF SearchesAfresh
  <2>2. CASE c = d
    BY <1>4, <1>5, <2>2
  <2>3. CASE c # d
    <3>1. \A i \in 1 .. Len(rqueue') : rqueue'[i].dst # c
      BY <1>3, <2>1, WaitingAfter
    <3>2. \A j \in 1 .. Len(rqueue) : rqueue[j].dst # c
      BY <1>3, <2>3, <3>1
    <3>3. ~Waiting(c)
      BY <1>2, <3>2, WaitingIn
    <3> QED
      BY <1>1, <1>5, <2>1, <2>3, <3>3 DEF Inv, SearchesAfresh
  <2> QED
    BY <2>2, <2>3
<1>10. ReachableNotGivenUp'
  BY <1>1 DEF ReachableNotGivenUp
<1> QED
  BY <1>6, <1>7, <1>8, <1>9, <1>10 DEF Inv

\* A route goes down; nothing waits for it.
LEMMA RouteLostInv ==
  ASSUME Inv, NEW d \in Dest, RouteLost(d)
  PROVE  Inv'
<1>1. PICK h \in Distances[d] : dist' = [dist EXCEPT ![d] = h]
  BY DEF RouteLost
<1>2. /\ rt[d].up
      /\ rt' = [rt EXCEPT ![d].up = FALSE]
      /\ gaveup' = {}
      /\ rqueue' = rqueue /\ timer' = timer /\ answer' = answer /\ lost' = lost
      /\ pushed' = pushed
  BY DEF RouteLost
<1> DEFINE r == [rt[d] EXCEPT !.up = FALSE]
<1>3. Entry(r) /\ r \in EntryType /\ r.cnt = 0 /\ rt[d].cnt = 0
  <2>1. Entry(rt[d]) /\ rt[d] \in EntryType /\ rt[d].cnt = 0
    BY <1>2 DEF Inv, Entry
  <2> DEFINE e == rt[d]
             b == FALSE
  <2>2. r = [e EXCEPT !.up = e.up /\ b]
    OBVIOUS
  <2>3. b \in BOOLEAN /\ Entry(e)
    BY <2>1
  <2> HIDE DEF r, e, b
  <2>4. Entry(r) /\ r.cnt = e.cnt
    BY <2>2, <2>3, DownEntry
  <2> QED
    BY <2>1, <2>4 DEF Entry, e
<1>4. /\ rt \in [Dest -> EntryType] /\ rt' \in [Dest -> EntryType]
      /\ rt'[d] = r
      /\ \A c \in Dest : c # d => rt'[c] = rt[c] /\ dist'[c] = dist[c]
  BY <1>1, <1>2, <1>3 DEF Inv, Typed
<1> HIDE DEF r
<1>5. Typed'
  <2>1. dist' \in [Dest -> Nat] /\ \A c \in Dest : dist'[c] \in Distances[c]
    <3>1. h \in Nat
      BY ConstantTypes
    <3> QED
      BY <1>1, <3>1 DEF Inv, Typed
  <2>2. /\ rqueue' \in Seq(PacketType) /\ Len(rqueue') <= Limit
        /\ timer' \in 0 .. FREQUENCY /\ OnClock(timer')
        /\ answer' \in [Dest -> {None} \cup 0 .. Latency]
        /\ \A c \in Dest : answer'[c] # None => OnClock(answer'[c])
        /\ lost' \in 0 .. MaxLost /\ gaveup' \subseteq Dest /\ pushed' \subseteq Dest
    BY <1>2 DEF Inv, Typed
  <2> QED
    BY <1>4, <2>1, <2>2 DEF Typed, OnClock
<1>6. ASSUME NEW c \in Dest
      PROVE  Entry(rt[c])' /\ Answered(rt[c], answer[c], lost, Reachable(c))'
  <2>1. Entry(rt[c]) /\ Answered(rt[c], answer[c], lost, Reachable(c))
    BY DEF Inv
  <2>2. CASE c = d
    <3>1. Entry(rt[c])'
      BY <1>3, <1>4, <2>2
    <3>2. answer'[c] \in {None} \cup 0 .. Latency
      BY <1>2, <2>1 DEF Answered
    <3>3. Answered(rt[c], answer[c], lost, Reachable(c))'
      BY <1>3, <1>4, <2>2, <3>2 DEF Answered
    <3> QED
      BY <3>1, <3>3
  <2>3. CASE c # d
    <3>1. Reachable(c)' = Reachable(c)
      BY <1>4, <2>3 DEF Reachable
    <3>2. Entry(rt[c])'
      BY <1>4, <2>1, <2>3
    <3>3. Answered(rt[c], answer[c], lost, Reachable(c))'
      BY <1>2, <1>4, <2>1, <2>3, <3>1 DEF Answered
    <3> QED
      BY <3>2, <3>3
  <2> QED
    BY <2>2, <2>3
<1>7. ASSUME NEW i \in 1 .. Len(rqueue')
      PROVE  WaitsInTime(rqueue[i])'
  <2> DEFINE p == rqueue[i]
  <2>1. p \in PacketType /\ WaitsInTime(p) /\ i \in 1 .. Len(rqueue) /\ rqueue'[i] = p
    BY <1>2, QueueOf DEF Inv, Typed
  <2>2. p.dst \in Dest /\ p.dst # d
    BY <1>2, <2>1 DEF PacketType, WaitsInTime
  <2>3. rt'[p.dst] = rt[p.dst] /\ timer' = timer
    BY <1>2, <1>4, <2>2
  <2> QED
    BY <2>1, <2>3 DEF WaitsInTime, Deadline
<1>8. SearchesAfresh'
  <2>1. SUFFICES ASSUME NEW c \in Dest, c \notin pushed', ~Waiting(c)' PROVE rt'[c].cnt = 0
    BY DEF SearchesAfresh
  <2>2. CASE c = d
    BY <1>3, <1>4, <2>2
  <2>3. CASE c # d
    <3>1. Waiting(c)' = Waiting(c)
      BY <1>2 DEF Waiting
    <3> QED
      BY <1>2, <1>4, <2>1, <2>3, <3>1 DEF Inv, SearchesAfresh
  <2> QED
    BY <2>2, <2>3
<1>9. ReachableNotGivenUp'
  BY <1>2 DEF ReachableNotGivenUp
<1> QED
  BY <1>5, <1>6, <1>7, <1>8, <1>9 DEF Inv

\* A timer that is not due has a quantum to go.
LEMMA ClockDown ==
  ASSUME NEW x \in Nat, OnClock(x), x # 0
  PROVE  x >= Quantum /\ x - Quantum \in Nat /\ OnClock(x - Quantum)
<1>1. PICK k \in Nat : x = k * Quantum
  BY DEF OnClock
<1>2. k > 0
  <2>1. k = 0 => k * Quantum = 0
    BY ConstantTypes
  <2> QED
    BY <1>1, <2>1
<1> DEFINE y == (k - 1) * Quantum
<1>3. x = Quantum + y /\ y \in Nat /\ k - 1 \in Nat
  <2>1. k - 1 \in Nat
    BY <1>2
  <2> QED
    BY <1>1, <1>2, <2>1, ConstantTypes, Products
<1>4. OnClock(y)
  BY <1>3 DEF OnClock
<1> HIDE DEF y
<1>5. x - Quantum = y /\ x >= Quantum
  BY <1>3, ConstantTypes
<1> QED
  BY <1>3, <1>4, <1>5

\* Time: what the packets age, the timers lose.
LEMMA TickInv ==
  ASSUME Inv, Tick
  PROVE  Inv'
<1> DEFINE older(p) == [p EXCEPT !.age = p.age + Quantum]
           later(e) == [e EXCEPT !.wait = IF e.wait > Quantum THEN e.wait - Quantum ELSE 0]
<1>1. /\ timer > 0 /\ \A d \in Dest : answer[d] # 0
      /\ timer' = timer - Quantum
      /\ rt' = [d \in Dest |-> later(rt[d])]
      /\ answer' = [d \in Dest |-> IF answer[d] = None THEN None ELSE answer[d] - Quantum]
      /\ rqueue' = [i \in DOMAIN rqueue |-> older(rqueue[i])]
      /\ gaveup' = {} /\ dist' = dist /\ lost' = lost /\ pushed' = pushed
  BY DEF Tick
<1>2. /\ rqueue \in Seq(PacketType) /\ Len(rqueue) <= Limit /\ Len(rqueue) \in Nat
      /\ DOMAIN rqueue = 1 .. Len(rqueue)
      /\ \A i \in 1 .. Len(rqueue) : rqueue[i] \in PacketType
      /\ \A i \in 1 .. Len(rqueue) : WaitsInTime(rqueue[i])
  BY QueueOf DEF Inv, Typed
<1>3. timer \in Nat /\ timer <= FREQUENCY /\ timer >= Quantum /\ OnClock(timer - Quantum)
      /\ timer - Quantum \in 0 .. FREQUENCY
  <2>1. timer \in Nat /\ timer <= FREQUENCY /\ OnClock(timer) /\ timer # 0
    BY <1>1, ConstantTypes DEF Inv, Typed
  <2>2. timer >= Quantum /\ timer - Quantum \in Nat /\ OnClock(timer - Quantum)
    BY <2>1, ClockDown
  <2> QED
    BY <2>1, <2>2, ConstantTypes
<1>4. ASSUME NEW e, Entry(e)
      PROVE  /\ Entry(later(e)) /\ later(e) \in EntryType
             /\ later(e).up = e.up /\ later(e).cnt = e.cnt /\ LastTtl(later(e)) = LastTtl(e)
             /\ later(e).wait = IF e.wait > Quantum THEN e.wait - Quantum ELSE 0
  <2> DEFINE w == IF e.wait > Quantum THEN e.wait - Quantum ELSE 0
             r == later(e)
  <2>1. e \in EntryType /\ e.wait \in Nat /\ e.wait <= MAX_RREQ_TIMEOUT
    BY <1>4, Numbers DEF Entry
  <2>2. w \in 0 .. MAX_RREQ_TIMEOUT /\ w <= e.wait /\ w \in Nat
    BY <2>1, ConstantTypes
  <2>3. r = [e EXCEPT !.wait = w]
    OBVIOUS
  <2> HIDE DEF w, later, r
  <2>4. /\ r \in EntryType /\ r.up = e.up /\ r.cnt = e.cnt /\ r.ttl = e.ttl /\ r.hop = e.hop
        /\ r.wait = w
    BY <2>1, <2>2, <2>3 DEF EntryType
  <2>5. LastTtl(r) = LastTtl(e) /\ NetworkWide(r) = NetworkWide(e)
    BY <2>4 DEF LastTtl, NetworkWide
  <2>6. /\ e.up => e.cnt = 0 /\ e.wait = 0
        /\ e.cnt > 0 => NetworkWide(e)
        /\ e.wait > 0 => \/ NetworkWide(e)
                         \/ /\ e.wait <= FREQUENCY
                            /\ TTL_THRESHOLD <= LastTtl(e) + (Rings - 1) * TTL_INCREMENT
    BY <1>4 DEF Entry
  <2>7. (w > 0 => e.wait > 0) /\ (e.wait = 0 => w = 0) /\ (e.wait <= FREQUENCY => w <= FREQUENCY)
    BY <2>1, <2>2, ConstantTypes
  <2>8. Entry(r)
    BY <2>4, <2>5, <2>6, <2>7 DEF Entry
  <2> QED
    BY <2>4, <2>5, <2>8 DEF r, w
<1>5. \A d \in Dest : Entry(rt[d]) /\ rt[d] \in EntryType /\ rt'[d] = later(rt[d])
  BY <1>1 DEF Inv, Entry
<1>6. rt' \in [Dest -> EntryType]
  <2>1. \A d \in Dest : later(rt[d]) \in EntryType
    BY <1>4, <1>5
  <2> HIDE DEF later
  <2> QED
    BY <1>1, <2>1
<1>7. ASSUME NEW p \in PacketType
      PROVE  older(p) \in PacketType /\ older(p).dst = p.dst /\ older(p).age = p.age + Quantum
  <2> DEFINE a == p.age + Quantum
  <2>1. p.age \in Nat /\ a \in Nat
    BY ConstantTypes DEF PacketType
  <2>2. older(p) = [p EXCEPT !.age = a]
    OBVIOUS
  <2> HIDE DEF a
  <2>3. older(p) \in PacketType /\ older(p).dst = p.dst /\ older(p).age = a
    BY <2>1, <2>2 DEF PacketType
  <2> QED
    BY <2>3 DEF a
<1> HIDE DEF older, later
<1>8. /\ rqueue' \in Seq(PacketType) /\ Len(rqueue') = Len(rqueue)
      /\ \A i \in 1 .. Len(rqueue) : rqueue'[i] = older(rqueue[i])
  <2>1. rqueue' = [i \in 1 .. Len(rqueue) |-> older(rqueue[i])]
    BY <1>1, <1>2
  <2>2. \A i \in 1 .. Len(rqueue) : older(rqueue[i]) \in PacketType
    BY <1>2, <1>7
  <2> QED
    BY <1>2, <2>1, <2>2
<1>9. ASSUME NEW d \in Dest
      PROVE  /\ answer'[d] \in {None} \cup 0 .. Latency
             /\ answer'[d] = None <=> answer[d] = None
             /\ answer[d] # None =>
                  answer'[d] = answer[d] - Quantum /\ answer[d] >= Quantum /\ answer[d] \in Nat
             /\ answer'[d] # None => OnClock(answer'[d])
  <2> DEFINE a == answer[d]
  <2>1. a \in {None} \cup 0 .. Latency /\ a # 0 /\ (a # None => OnClock(a))
    BY <1>1 DEF Inv, Typed
  <2>2. answer'[d] = IF a = None THEN None ELSE a - Quantum
    BY <1>1
  <2> HIDE DEF a
  <2>3. CASE a = None
    BY <2>2, <2>3 DEF a
  <2>4. CASE a # None
    <3>1. a \in Nat /\ a <= Latency
      BY <2>1, <2>4, ConstantTypes
    <3>2. a >= Quantum /\ a - Quantum \in Nat /\ OnClock(a - Quantum)
      BY <2>1, <2>4, <3>1, ClockDown
    <3>3. a - Quantum \in 0 .. Latency /\ a - Quantum # None
      BY <3>1, <3>2, ConstantTypes DEF None
    <3> QED
      BY <2>2, <2>4, <3>1, <3>2, <3>3 DEF a
  <2> QED
    BY <2>3, <2>4
<1>10. Typed'
  <2>1. answer' \in [Dest -> {None} \cup 0 .. Latency]
    <3>1. answer' = [d \in Dest |-> answer'[d]]
      BY <1>1
    <3> QED
      BY <1>9, <3>1
  <2>2. /\ dist' \in [Dest -> Nat] /\ \A c \in Dest : dist'[c] \in Distances[c]
        /\ lost' \in 0 .. MaxLost /\ gaveup' \subseteq Dest /\ pushed' \subseteq Dest
    BY <1>1 DEF Inv, Typed
  <2>3. timer' \in 0 .. FREQUENCY /\ OnClock(timer')
    BY <1>1, <1>3
  <2>4. Len(rqueue') <= Limit
    BY <1>2, <1>8
  <2> QED
    BY <1>6, <1>8, <1>9, <2>1, <2>2, <2>3, <2>4 DEF Typed, OnClock
<1>11. ASSUME NEW d \in Dest
       PROVE  Entry(rt[d])' /\ Answered(rt[d], answer[d], lost, Reachable(d))'
  <2> DEFINE e == rt[d]
             r == rt'[d]
             a == answer[d]
             b == answer'[d]
  <2>1. /\ Entry(r) /\ r.cnt = e.cnt /\ e \in EntryType
        /\ r.wait = IF e.wait > Quantum THEN e.wait - Quantum ELSE 0
    BY <1>4, <1>5
  <2>2. /\ e.cnt > 0 /\ a # None => a < e.wait
        /\ e.cnt > 0 /\ Reachable(d) => e.cnt <= lost + (IF a = None THEN 0 ELSE 1)
    BY DEF Inv, Answered
  <2>3. /\ b \in {None} \cup 0 .. Latency
        /\ b = None <=> a = None
        /\ a # None => b = a - Quantum /\ a >= Quantum /\ a \in Nat
    BY <1>9
  <2>4. Reachable(d)' = Reachable(d) /\ lost' = lost
    BY <1>1 DEF Reachable
  <2> HIDE DEF e, r, a, b
  <2>5. r.cnt > 0 /\ b # None => b < r.wait
    BY <2>1, <2>2, <2>3, Numbers, ConstantTypes
  <2>6. Answered(r, b, lost, Reachable(d))
    BY <2>1, <2>2, <2>3, <2>5 DEF Answered
  <2>7. Entry(rt[d])'
    BY <2>1 DEF r
  <2>8. Answered(rt[d], answer[d], lost, Reachable(d))'
    BY <2>4, <2>6 DEF Answered, r, b
  <2> QED
    BY <2>7, <2>8
<1>12. ASSUME NEW i \in 1 .. Len(rqueue')
       PROVE  WaitsInTime(rqueue[i])'
  <2> DEFINE p == rqueue[i]
             u == rqueue'[i]
             e == rt[p.dst]
             r == rt'[p.dst]
             a == p.age
             t == timer
  <2>1. i \in 1 .. Len(rqueue) /\ p \in PacketType /\ WaitsInTime(p) /\ u = older(p)
    BY <1>2, <1>8
  <2>2. u.dst = p.dst /\ u.age = a + Quantum /\ p.dst \in Dest /\ a \in Nat
    BY <1>7, <2>1 DEF PacketType
  <2>3. ~e.up /\ Deadline(e, a, t)
    BY <2>1 DEF WaitsInTime
  <2>4. /\ e \in EntryType /\ r.up = e.up /\ r.cnt = e.cnt /\ LastTtl(r) = LastTtl(e)
        /\ r.wait = IF e.wait > Quantum THEN e.wait - Quantum ELSE 0
    BY <1>4, <1>5, <2>2
  <2>5. t \in Nat /\ t >= Quantum
    BY <1>3
  <2> HIDE DEF e, r, a, t
  <2>6. Deadline(r, a + Quantum, t - Quantum)
    BY <2>2, <2>3, <2>4, <2>5, DeadlineTick
  <2>7. ~r.up /\ Deadline(r, u.age, timer')
    BY <1>1, <2>2, <2>3, <2>4, <2>6 DEF t
  <2> QED
    BY <2>2, <2>7 DEF WaitsInTime, Deadline, r
<1>13. SearchesAfresh'
  <2>1. SUFFICES ASSUME NEW c \in Dest, c \notin pushed', ~Waiting(c)' PROVE rt'[c].cnt = 0
    BY DEF SearchesAfresh
  <2>2. \A i \in 1 .. Len(rqueue') : rqueue'[i].dst # c
    BY <1>8, <2>1, WaitingAfter
  <2>3. \A i \in 1 .. Len(rqueue) : rqueue[i].dst # c
    BY <1>2, <1>7, <1>8, <2>2
  <2>4. ~Waiting(c)
    BY <1>2, <2>3, WaitingIn
  <2>5. rt[c].cnt = 0
    BY <1>1, <2>1, <2>4 DEF Inv, SearchesAfresh
  <2> QED
    BY <1>4, <1>5, <2>5
<1>14. ReachableNotGivenUp'
  BY <1>1 DEF ReachableNotGivenUp
<1> QED
  BY <1>10, <1>11, <1>12, <1>13, <1>14 DEF Inv

\* Nothing happens.
LEMMA StutterInv ==
  ASSUME Inv, UNCHANGED vars
  PROVE  Inv'
<1>1. /\ rt' = rt /\ rqueue' = rqueue /\ timer' = timer /\ dist' = dist /\ answer' = answer
      /\ lost' = lost /\ gaveup' = gaveup /\ pushed' = pushed
  BY DEF vars
<1>2. Typed'
  BY <1>1 DEF Inv, Typed, OnClock
<1>3. ASSUME NEW d \in Dest
      PROVE  Entry(rt[d])' /\ Answered(rt[d], answer[d], lost, Reachable(d))'
  <2>1. Entry(rt[d]) /\ Answered(rt[d], answer[d], lost, Reachable(d))
    BY DEF Inv
  <2>2. Reachable(d)' = Reachable(d)
    BY <1>1 DEF Reachable
  <2>3. Entry(rt[d])'
    BY <1>1, <2>1
  <2>4. Answered(rt[d], answer[d], lost, Reachable(d))'
    BY <1>1, <2>1, <2>2
  <2> QED
    BY <2>3, <2>4
<1>4. ASSUME NEW i \in 1 .. Len(rqueue')
      PROVE  WaitsInTime(rqueue[i])'
  <2>1. WaitsInTime(rqueue[i]) /\ i \in 1 .. Len(rqueue)
    BY <1>1 DEF Inv
  <2> QED
    BY <1>1, <2>1 DEF WaitsInTime, Deadline
<1>5. SearchesAfresh' /\ ReachableNotGivenUp'
  BY <1>1 DEF Inv, SearchesAfresh, Waiting, ReachableNotGivenUp, Reachable
<1> QED
  BY <1>2, <1>3, <1>4, <1>5 DEF Inv
-----------------------------------------------------------------------------
\* What every event of a source preserves: types, clocks, deadlines and answers.
THEOREM InvHeld == Spec => []Inv
<1>1. Init => Inv
  BY InitInv
<1>2. Inv /\ [Next]_vars => Inv'
  <2> SUFFICES ASSUME Inv, [Next]_vars PROVE Inv'
    OBVIOUS
  <2>1. CASE UNCHANGED vars
    BY <2>1, StutterInv
  <2>2. CASE \E d \in Dest : AppSend(d)
    BY <2>2, AppSendInv
  <2>3. CASE \E d \in Dest : RouteFound(d)
    BY <2>3, RouteFoundInv
  <2>4. CASE \E d \in Dest : RouteLost(d)
    BY <2>4, RouteLostInv
  <2>5. CASE rt_purge
    BY <2>5, PurgeInv
  <2>6. CASE Tick
    BY <2>6, TickInv
  <2> QED
    BY <2>1, <2>2, <2>3, <2>4, <2>5, <2>6 DEF Next
<1> QED
  BY <1>1, <1>2, PTL DEF Spec

\* Times, TTLs and counts stay within the constants, and the buffer within Limit,
\* in sendRequest, rt_resolve and rt_purge.
THEOREM TypeCorrect == Spec => []TypeOK
<1>1. Inv => TypeOK
  BY DEF Inv, Typed, TypeOK, PacketType
<1> QED
  BY <1>1, InvHeld, PTL

\* Every way in which a route comes up flushes the buffer: nothing waits for a route
\* that is up.
THEOREM NoneLeftBehind == Spec => []NoneWaitForUp
<1>1. Inv => NoneWaitForUp
  <2> SUFFICES ASSUME Inv, NEW d \in Dest, rt[d].up, Waiting(d) PROVE FALSE
    BY DEF NoneWaitForUp
  <2>1. rqueue \in Seq(PacketType)
    BY DEF Inv, Typed
  <2>2. PICK i \in 1 .. Len(rqueue) : rqueue[i].dst = d
    BY <2>1, WaitingIn
  <2>3. WaitsInTime(rqueue[i])
    BY DEF Inv
  <2> QED
    BY <2>2, <2>3 DEF WaitsInTime
<1> QED
  BY <1>1, InvHeld, PTL

\* Without a packet in the buffer, and none pushed out of it, no failed search of
\* sendRequest is on record.
THEOREM FreshSearches == Spec => []SearchesAfresh
<1>1. Inv => SearchesAfresh
  BY DEF Inv
<1> QED
  BY <1>1, InvHeld, PTL

\* sendRequest gives up a destination within reach only after more than RREQ_RETRIES
\* answers were lost.
THEOREM NotTooEarly == Spec => []ReachableNotGivenUp
<1>1. Inv => ReachableNotGivenUp
  BY DEF Inv
<1> QED
  BY <1>1, InvHeld, PTL

\* No packet waits longer than the searches of its destination take.
THEOREM NotTooLate == Spec => []WaitBounded
<1>1. Inv => WaitBounded
  <2> SUFFICES ASSUME Inv, NEW i \in DOMAIN rqueue PROVE rqueue[i].age <= MaxWait
    BY DEF WaitBounded
  <2> DEFINE p == rqueue[i]
             e == rt[p.dst]
             a == p.age
             t == timer
  <2>1. i \in 1 .. Len(rqueue) /\ p \in PacketType /\ p.dst \in Dest /\ a \in Nat
    BY QueueOf DEF Inv, Typed
  <2>2. WaitsInTime(p)
    BY <2>1 DEF Inv
  <2>3. Deadline(e, a, t) /\ e \in EntryType /\ t \in Nat
    <3>1. timer \in Nat
      BY ConstantTypes DEF Inv, Typed
    <3> QED
      BY <2>1, <2>2, <3>1 DEF Inv, Typed, WaitsInTime
  <2> HIDE DEF e, a, t
  <2>4. a <= MaxWait
    BY <2>1, <2>3, InTime
  <2> QED
    BY <2>4 DEF a
<1> QED
  BY <1>1, InvHeld, PTL
=============================================================================
