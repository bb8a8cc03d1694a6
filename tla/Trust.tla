------------------------------- MODULE Trust -------------------------------
(***************************************************************************)
(* How a node computes the trust value TV of its neighbours: from the      *)
(* packets it hears them forward (tap), from what they recommend of each   *)
(* other, from the probes heard and from how much they are in touch.       *)
(*                                                                         *)
(* The time between two set_trust is a window.  A packet handed over in    *)
(* its early part, the first TRUST_TIME - 1.5 s, is judged at its end, a   *)
(* later one in the next window.  Fractions are in thousandths, rounded    *)
(* down.                                                                   *)
(***************************************************************************)
EXTENDS Integers

CONSTANTS Neighbor,        \* nodes in reach
          NextHop,         \* those that routes lead over
          Capacity,        \* of cbr_f and ptteaomdv_f: 1000 and 100
          Enough,          \* packets a rate is computed from: 5 and 2
          TrustThreshold,  \* 0.70
          Delivery,        \* what the probes heard in a window may make of delivery_ratio
          Opinions,        \* the direct trust others may have in a neighbour,
          GoodOpinions,    \* and in an honest one
          Met,             \* values of it_num
          MaxRcoms,        \* bound on the RCOMs received
          MaxPackets       \* bound on the packets handed over

Kind == {"data", "control"}

ASSUME TrustAssumption ==
  /\ NextHop \subseteq Neighbor
  /\ Capacity \in [Kind -> Nat]
  /\ Enough \in [Kind -> Nat \ {0}]
  /\ Delivery \subseteq Nat
  /\ GoodOpinions \subseteq Opinions
  /\ Opinions \subseteq Nat
  /\ Met \subseteq Nat
  /\ {TrustThreshold, MaxRcoms, MaxPackets} \subseteq Nat

(* Of the 10 to 12 probes sent while set_trust waits 2.09 to 2.11 s more than half
   are heard, and at most 12: delivery_ratio is up to 12 / (2.09 / 0.2).  Of an honest
   neighbour others report a direct trust of 0.8 or more. *)
ASSUME SurroundingsAssumption ==
  /\ TrustThreshold = 700
  /\ \A d \in Delivery : d \in 512 .. 1150
  /\ \A o \in Opinions : o <= 1000
  /\ \A o \in GoodOpinions : o >= 800

VARIABLES honest,  \* neighbours that forward what they are given within 1.5 s
          due,     \* ages of the RREPs handed to each, not yet heard being forwarded
          nb,      \* the TEAOMDV_Neighbor of each node in the neighbour table
          early,   \* whether the window is in its early part
          rcoms,   \* RCOMs received
          packets, \* packets handed over
          windows  \* windows that have ended

\* History variables.
VARIABLES balance, \* packets handed to each neighbour less the verdicts on them
          idle,    \* windows in a row in which it was judged to forward no data
          crowded  \* neighbours given a RREP while one was still in ptteaomdv_f

vars == <<honest, due, nb, early, rcoms, packets, windows, balance, idle, crowded>>

Age == {"old", "new"}

Wild == -1    \* computed from uninitialised memory: any value, or not a number
Unset == -2   \* direct_trust before the first set_direct_trust

\* What is counted of one kind of packet; cbr_f or ptteaomdv_f holds those heard
\* being forwarded, and those not heard yet, handed over old or new.
NoCount == [corrects |-> 0, alls |-> 0, ok |-> 0, old |-> 0, new |-> 0]

Held(s) == s.ok + s.old + s.new

\* The constructor of TEAOMDV_Neighbor; whole: 1.5 s pass before the window ends.
NewNeighbor ==
  [TV |-> 1000, direct |-> Unset, stat |-> [k \in Kind |-> NoCount],
   fenzi |-> 0, fenmu |-> 0, wild |-> FALSE, trusted_nbs |-> 2, interact_nbs |-> 2,
   whole |-> early]

Init ==
  /\ honest \in SUBSET NextHop
  /\ due = << >>
  /\ early = TRUE
  /\ nb = << >>
  /\ rcoms = 0
  /\ packets = 0
  /\ windows = 0
  /\ balance = << >>
  /\ idle = << >>
  /\ crowded = {}

Known == DOMAIN nb

\* The comparison of TV with the threshold may succeed.
MayTrust(n) == nb[n].TV = Wild \/ nb[n].TV >= TrustThreshold
-----------------------------------------------------------------------------
(* Counting what neighbours forward. *)

\* Faulty: one entry too many.
HasRoom_OffByOne(s, k) == Held(s) <= Capacity[k]

\* A packet beyond the arrays is forwarded, but not counted.
HasRoom(s, k) == Held(s) < Capacity[k]

Delivered(s) == [s EXCEPT !.corrects = @ + 1, !.alls = @ + 1]

Heard(s, age) == [s EXCEPT ![age] = @ - 1, !.ok = @ + 1]

Handed == IF early THEN "old" ELSE "new"

Younger(s) == [s EXCEPT ![Handed] = @ + 1]

\* The RREPs relayed all have uid 0, for which tap takes the first entry, ok or not.
FirstHeard(s) ==
  IF s.ok > 0 \/ Held(s) = 0 THEN s
  ELSE IF s.old > 0 THEN Heard(s, "old") ELSE Heard(s, "new")

\* n is the destination, which forwards nothing.
Deliver(n, k) ==
  /\ nb' = [nb EXCEPT ![n].stat[k] = Delivered(@)]
  /\ UNCHANGED <<due, balance, crowded>>

\* n is to forward it.
Relay(n, k) ==
  LET s    == nb[n].stat[k]
      room == HasRoom(s, k)
  IN  /\ nb' = IF room THEN [nb EXCEPT ![n].stat[k] = Younger(@)] ELSE nb
      /\ balance' = IF room THEN [balance EXCEPT ![n][k] = @ + 1] ELSE balance
      /\ due' = IF k = "control" THEN [due EXCEPT ![n] = @ \cup {Handed}] ELSE due
      /\ crowded' = IF k = "control" /\ Held(s) > 0 THEN crowded \cup {n} ELSE crowded

\* forward() hands a packet to n, for which the routing code has found n trusted
\* if it is data.
Forward(n, k) ==
  /\ n \in NextHop \cap Known
  /\ k = "data" => MayTrust(n)
  /\ packets < MaxPackets
  /\ packets' = packets + 1
  /\ Deliver(n, k) \/ Relay(n, k)
  /\ UNCHANGED <<honest, early, rcoms, windows, idle>>

\* n is heard forwarding a packet.  Data has a uid of its own, so the packet's entry
\* is marked.  A RREP may be one not heard before or, as a frame sent again, one that was.
tap(n, k) ==
  /\ n \in Known
  /\ \/ /\ k = "data"
        /\ \E age \in Age : /\ nb[n].stat[k][age] > 0
                           /\ nb' = [nb EXCEPT ![n].stat[k] = Heard(@, age)]
        /\ UNCHANGED due
     \/ /\ k = "control"
        /\ nb' = [nb EXCEPT ![n].stat[k] = FirstHeard(@)]
        /\ \/ UNCHANGED due
           \/ \E age \in Age : due' = [due EXCEPT ![n] = @ \ {age}]
  /\ UNCHANGED <<honest, early, rcoms, packets, windows, balance, idle, crowded>>
-----------------------------------------------------------------------------
(* Recommendations. *)

\* An RCOM of n, which names it_num neighbours and the direct trust n has in
\* those of its neighbours about maps to it.
recvRcom(n, about, it_num) ==
  /\ n \in Known
  /\ rcoms < MaxRcoms
  /\ rcoms' = rcoms + 1
  /\ MayTrust(n)
  /\ LET unset == nb[n].direct = Unset
         dt    == IF unset THEN 0 ELSE nb[n].direct
         told(m) == [nb[m] EXCEPT !.fenzi = @ + dt * about[m], !.fenmu = @ + dt,
                                  !.wild = @ \/ unset,
                                  !.trusted_nbs = IF about[m] >= TrustThreshold THEN @ + 1 ELSE @]
     IN  nb' = [m \in Known |->
                  IF m = n THEN [nb[n] EXCEPT !.interact_nbs = @ + it_num]
                  ELSE IF m \in DOMAIN about THEN told(m) ELSE nb[m]]
  /\ UNCHANGED <<honest, due, early, packets, windows, balance, idle, crowded>>
-----------------------------------------------------------------------------
(* set_trust *)

\* Faulty: a packet not heard yet is judged however young it is.
Judged_Young(s) ==
  [corrects |-> s.corrects + s.ok, alls |-> s.alls + s.ok + s.old + s.new,
   ok |-> 0, old |-> 0, new |-> 0]

\* Faulty: a packet that was never heard is not counted.
Judged_HeardOnly(s) ==
  [corrects |-> s.corrects + s.ok, alls |-> s.alls + s.ok, ok |-> 0, old |-> s.new, new |-> 0]

\* Faulty: what is judged stays in the array.
Judged_Again(s) ==
  [corrects |-> s.corrects + s.ok, alls |-> s.alls + s.ok + s.old,
   ok |-> s.ok, old |-> s.new, new |-> 0]

\* The arrays gone through: what has been heard or is old is judged, the rest stays.
Judged(s) ==
  [corrects |-> s.corrects + s.ok, alls |-> s.alls + s.ok + s.old,
   ok |-> 0, old |-> s.new, new |-> 0]

Rate(s, enough) == IF s.alls >= enough THEN (1000 * s.corrects) \div s.alls ELSE 900

DirectTrust(stat) ==
  (2 * Rate(stat["control"], Enough["control"]) + 8 * Rate(stat["data"], Enough["data"])) \div 10

RecommenTrust(r) == IF r.fenmu >= 100 THEN r.fenzi \div r.fenmu ELSE 800

ActivityDegree(r) == 900 - (500 \div r.trusted_nbs) - (500 \div r.interact_nbs)

set_TV(r, delivery_ratio) ==
  LET stat == [k \in Kind |-> Judged(r.stat[k])]
      dt   == DirectTrust(stat)
      tv   == (350 * dt + 100 * RecommenTrust(r) + 200 * r.TV + 225 * delivery_ratio
                 + 125 * ActivityDegree(r)) \div 1000
  IN  [r EXCEPT !.stat = stat, !.direct = dt,
                !.TV = IF r.TV = Wild \/ r.wild THEN Wild ELSE tv]

Reset(s) == [s EXCEPT !.corrects = 0, !.alls = 0]

TV_init(r) ==
  [r EXCEPT !.stat = [k \in Kind |->
                       IF k = "data" /\ r.stat[k].alls < Enough[k]
                         THEN r.stat[k] ELSE Reset(r.stat[k])],
            !.fenzi = 0, !.fenmu = 0, !.wild = FALSE,
            !.trusted_nbs = 2, !.interact_nbs = 2, !.whole = TRUE]

\* There is enough to judge, and not one packet was heard.
ForwardsNothing(s) == s.corrects + s.ok = 0 /\ s.alls + s.old >= Enough["data"]

\* An honest neighbour has forwarded by now what it was given 1.5 s ago, and was heard.
set_trust ==
  /\ ~early
  /\ \A n \in honest \cap Known : nb[n].stat["data"].old = 0 /\ "old" \notin due[n]
  /\ windows' = windows + 1
  /\ early' = TRUE
  /\ \E heard \in [Known -> Delivery] :
       LET after == [n \in Known |-> set_TV(nb[n], IF nb[n].whole THEN heard[n] ELSE 800)]
       IN  /\ nb' = [n \in Known |-> TV_init(after[n])]
           /\ balance' = [n \in Known |-> [k \in Kind |->
                balance[n][k] - (after[n].stat[k].alls - nb[n].stat[k].alls)]]
           /\ idle' = [n \in Known |->
                IF ForwardsNothing(nb[n].stat["data"]) THEN idle[n] + 1 ELSE 0]
  /\ due' = [n \in Known |-> IF "new" \in due[n] THEN {"old"} ELSE {}]
  /\ UNCHANGED <<honest, rcoms, packets, crowded>>

\* 1.5 s before the window ends.
Late ==
  /\ early
  /\ early' = FALSE
  /\ UNCHANGED <<honest, due, nb, rcoms, packets, windows, balance, idle, crowded>>
-----------------------------------------------------------------------------
\* A hello of n, or a packet to or from it, when n is not in the table.
nb_insert(n) ==
  /\ n \notin Known
  /\ nb' = [m \in Known \cup {n} |-> IF m = n THEN NewNeighbor ELSE nb[m]]
  /\ balance' = [m \in Known \cup {n} |-> IF m = n THEN [k \in Kind |-> 0] ELSE balance[m]]
  /\ idle' = [m \in Known \cup {n} |-> IF m = n THEN 0 ELSE idle[m]]
  /\ due' = [m \in Known \cup {n} |-> IF m = n THEN {} ELSE due[m]]
  /\ UNCHANGED <<honest, early, rcoms, packets, windows, crowded>>

nb_delete(n) ==
  /\ n \in Known
  /\ nb' = [m \in Known \ {n} |-> nb[m]]
  /\ balance' = [m \in Known \ {n} |-> balance[m]]
  /\ idle' = [m \in Known \ {n} |-> idle[m]]
  /\ due' = [m \in Known \ {n} |-> due[m]]
  /\ crowded' = crowded \ {n}
  /\ UNCHANGED <<honest, early, rcoms, packets, windows>>

Next ==
  \/ \E n \in Neighbor : nb_insert(n) \/ nb_delete(n)
  \/ \E n \in Neighbor, k \in Kind : Forward(n, k) \/ tap(n, k)
  \/ \E n \in Neighbor, it_num \in Met :
       \E named \in SUBSET (Neighbor \ {n}) : \E about \in [named -> Opinions] :
         /\ \A m \in honest \cap named : about[m] \in GoodOpinions
         /\ recvRcom(n, about, it_num)
  \/ set_trust
  \/ Late

Spec == Init /\ [][Next]_vars
-----------------------------------------------------------------------------
MaxTV == 1050   \* a neighbour of which more probes are heard than expected exceeds 1

TypeOK ==
  /\ honest \subseteq NextHop
  /\ Known \subseteq Neighbor
  /\ \A n \in Known :
       /\ nb[n].TV = Wild \/ nb[n].TV \in 0 .. MaxTV
       /\ nb[n].direct = Unset \/ nb[n].direct \in 0 .. 1000
       /\ \A k \in Kind : /\ nb[n].stat[k].corrects <= nb[n].stat[k].alls
                         /\ Held(nb[n].stat[k]) <= Capacity[k]
       /\ nb[n].whole \in BOOLEAN
  /\ DOMAIN balance = Known
  /\ DOMAIN idle = Known
  /\ due \in [Known -> SUBSET Age]
  /\ crowded \subseteq Known
  /\ early \in BOOLEAN

(* A neighbour that forwards what it is given, in time to be heard, is never
   distrusted: not for packets it still holds when set_trust runs (the 1.5 s of
   set_direct_trust), nor for having been given few or none, nor for recommenders
   that know as little of it.  Excepted is what recvRcom may have computed from a
   direct_trust not set yet, and who was given a RREP with another still in
   ptteaomdv_f: tap can tell none from the first, and it loses trust for the rest. *)
HonestTrusted ==
  \A n \in (honest \ crowded) \cap Known : nb[n].TV # Wild => nb[n].TV >= TrustThreshold

(* Two windows in a row in which a neighbour is judged to forward no data at all
   are enough for set_TV to distrust it, whatever its earlier TV, the opinions of
   others and its probes: a stop of forwarding is noticed. *)
DropperDistrusted ==
  \A n \in Known : idle[n] >= 2 /\ nb[n].TV # Wild => nb[n].TV < TrustThreshold

(* A packet handed to a neighbour is judged once: what cbr_f and ptteaomdv_f hold
   are the packets handed over without a verdict, through the windows in which
   set_direct_trust judges some of them and keeps the others. *)
EachJudgedOnce ==
  \A n \in Known, k \in Kind : balance[n][k] = Held(nb[n].stat[k])
=============================================================================
