----------------------------- MODULE Neighbors -----------------------------
(***************************************************************************)
(* The neighbour table of a node in time: who enters it, what keeps a      *)
(* neighbour in it, when nb_purge takes it out, and what set_trust tells   *)
(* the others of it.  Times are in steps of the clock; an event takes no   *)
(* time.                                                                   *)
(***************************************************************************)
EXTENDS Integers, Sequences, FiniteSets, SequencesExt

CONSTANTS Neighbor,            \* nodes that may come within reach
          HELLO_INTERVAL,      \* 2 s, also the period of nb_purge
          ALLOWED_HELLO_LOSS,  \* 3
          MAX_NB               \* neighbours in one RCOM: 50

ASSUME NeighborsAssumption ==
  /\ HELLO_INTERVAL \in Nat \ {0}
  /\ ALLOWED_HELLO_LOSS \in Nat \ {0}
  /\ MAX_NB \in Nat \ {0}

VARIABLES nbhead,     \* the order of the table, a list
          nb_expire,  \* what each neighbour in it has left
          silent,     \* time since each was heard, or was needed as a next hop
          timer,      \* time until nb_purge
          rcom        \* the RCOMs sent by this step, each a list of neighbours

vars == <<nbhead, nb_expire, silent, timer, rcom>>

Known == DOMAIN nb_expire

Init ==
  /\ nbhead = << >>
  /\ nb_expire = << >>
  /\ silent = << >>
  /\ timer = 0
  /\ rcom = << >>

\* A message of n gives it the time grant from now.
Refresh(n, grant) ==
  /\ nb_expire' = [nb_expire EXCEPT ![n] = grant]
  /\ silent' = [silent EXCEPT ![n] = 0]
  /\ rcom' = << >>
  /\ UNCHANGED <<nbhead, timer>>

\* n is not in the table when forward() needs it as a next hop, when it passes on
\* a RREQ for this node, or when its hello arrives.
nb_insert(n) ==
  /\ n \notin Known
  /\ nbhead' = <<n>> \o nbhead
  /\ nb_expire' = [m \in Known \cup {n} |->
                     IF m = n THEN HELLO_INTERVAL * ALLOWED_HELLO_LOSS ELSE nb_expire[m]]
  /\ silent' = [m \in Known \cup {n} |-> IF m = n THEN 0 ELSE silent[m]]
  /\ rcom' = << >>
  /\ UNCHANGED timer

\* recvHello: 1.5 * ALLOWED_HELLO_LOSS * HELLO_INTERVAL.
recvHello(n) ==
  IF n \in Known THEN Refresh(n, (3 * ALLOWED_HELLO_LOSS * HELLO_INTERVAL) \div 2)
  ELSE nb_insert(n)

\* Faulty: a probe is only counted.
recvProb_CountOnly(n) ==
  /\ n \in Known
  /\ silent' = [silent EXCEPT ![n] = 0]
  /\ rcom' = << >>
  /\ UNCHANGED <<nbhead, nb_expire, timer>>

\* A probe does not insert its sender.
recvProb(n) == n \in Known /\ Refresh(n, HELLO_INTERVAL)

\* nb_delete unlinks each of those in gone, and leaves the order of the others.
Without(q, gone) ==
  FoldLeft(LAMBDA kept, n : IF n \in gone THEN kept ELSE Append(kept, n), << >>, q)

\* Faulty: purges only the first.
nb_purge_First ==
  /\ timer = 0
  /\ timer' = HELLO_INTERVAL
  /\ LET gone == {n \in Known : nb_expire[n] = 0 /\ n = nbhead[1]}
     IN  /\ nbhead' = Without(nbhead, gone)
         /\ nb_expire' = [n \in Known \ gone |-> nb_expire[n]]
         /\ silent' = [n \in Known \ gone |-> silent[n]]
  /\ rcom' = << >>

\* nb_purge: nb_delete of every neighbour whose time is up.
nb_purge ==
  /\ timer = 0
  /\ timer' = HELLO_INTERVAL
  /\ LET gone == {n \in Known : nb_expire[n] = 0}
     IN  /\ nbhead' = Without(nbhead, gone)
         /\ nb_expire' = [n \in Known \ gone |-> nb_expire[n]]
         /\ silent' = [n \in Known \ gone |-> silent[n]]
  /\ rcom' = << >>

\* Faulty: the full packet is not replaced by a new one.
Fill_KeepsFilling(out, n) ==
  LET p == Append(out.filling, n)
  IN  IF Len(p) = MAX_NB THEN [sent |-> Append(out.sent, p), filling |-> p]
      ELSE [out EXCEPT !.filling = p]

\* One round of the loop of set_trust: n goes into the RCOM being filled, which is
\* sent when it is full.
Fill(out, n) ==
  LET p == Append(out.filling, n)
  IN  IF Len(p) = MAX_NB THEN [sent |-> Append(out.sent, p), filling |-> << >>]
      ELSE [out EXCEPT !.filling = p]

\* set_trust and sendRcom; the trust values are those of Trust.
set_trust ==
  LET out == FoldLeft(Fill, [sent |-> << >>, filling |-> << >>], nbhead)
  IN  /\ rcom' = IF out.filling = << >> THEN out.sent ELSE Append(out.sent, out.filling)
      /\ UNCHANGED <<nbhead, nb_expire, silent, timer>>

Tick ==
  /\ timer > 0
  /\ timer' = timer - 1
  /\ nb_expire' = [n \in Known |-> IF nb_expire[n] = 0 THEN 0 ELSE nb_expire[n] - 1]
  /\ silent' = [n \in Known |-> silent[n] + 1]
  /\ rcom' = << >>
  /\ UNCHANGED nbhead

Next ==
  \/ \E n \in Neighbor : nb_insert(n) \/ recvHello(n) \/ recvProb(n)
  \/ nb_purge
  \/ set_trust
  \/ Tick

Spec == Init /\ [][Next]_vars
-----------------------------------------------------------------------------
\* The longest a neighbour may stay unheard: a hello's grant, and the purge after it.
MaxSilence == (3 * ALLOWED_HELLO_LOSS * HELLO_INTERVAL) \div 2 + HELLO_INTERVAL

TypeOK ==
  /\ nbhead \in Seq(Neighbor)
  /\ ToSet(nbhead) = Known
  /\ IsInjective(nbhead)
  /\ nb_expire \in [Known -> 0 .. MaxSilence]
  /\ silent \in [Known -> Nat]
  /\ timer \in 0 .. HELLO_INTERVAL
  /\ \A i \in DOMAIN rcom : Len(rcom[i]) \in 1 .. MAX_NB

(* A neighbour that is not heard any more leaves the table within the time a hello
   grants and the period of nb_purge, however many leave at once. *)
GoneInTime == \A n \in Known : silent[n] <= MaxSilence

(* nb_purge never deletes a neighbour heard during the last HELLO_INTERVAL, with
   hellos and probes, whose grants differ, arriving in any order. *)
HeardIsKept ==
  [][\A n \in Known \ Known' : silent[n] >= HELLO_INTERVAL]_vars

(* Between them the RCOMs of one set_trust name every neighbour once, in the order
   of the table, however many times MAX_NB they are. *)
AllReported ==
  [][rcom' # << >> => FlattenSeq(rcom') = nbhead]_vars
=============================================================================
