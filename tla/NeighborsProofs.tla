--------------------------- MODULE NeighborsProofs ---------------------------
(***************************************************************************)
(* What Neighbors promises of time, for any number of neighbours and any   *)
(* HELLO_INTERVAL and ALLOWED_HELLO_LOSS.  The inductive invariant relates *)
(* the time a neighbour has left to the time since it was heard, and that, *)
(* once nothing is left, to the time until nb_purge.                       *)
(***************************************************************************)
EXTENDS Neighbors, SequenceTheorems, TLAPS

H == HELLO_INTERVAL

\* What nb_insert and recvHello grant.
Inserted == HELLO_INTERVAL * ALLOWED_HELLO_LOSS
Greeted  == (3 * ALLOWED_HELLO_LOSS * HELLO_INTERVAL) \div 2

Clocks ==
  /\ nb_expire \in [Known -> Nat]
  /\ silent \in [Known -> Nat]
  /\ timer \in 0 .. H

\* n, with e left, was heard s ago and nb_purge is t away.
InTime(e, s, t) ==
  /\ e > 0 => s + e <= Greeted
  /\ e = 0 => s + t <= Greeted + H
  /\ e + s >= H

Inv ==
  /\ Clocks
  /\ \A n \in Known : InTime(nb_expire[n], silent[n], timer)
-----------------------------------------------------------------------------
LEMMA Product ==
  ASSUME NEW a \in Nat \ {0}, NEW b \in Nat \ {0}
  PROVE  a * b \in Nat /\ a * b >= a
BY SMT

\* Every grant lasts until the next nb_purge, and none is longer than a hello's.
LEMMA Grants ==
  /\ H \in Nat \ {0}
  /\ Inserted \in Nat /\ Greeted \in Nat
  /\ H <= Inserted /\ Inserted <= Greeted
<1>1. H \in Nat \ {0} /\ ALLOWED_HELLO_LOSS \in Nat \ {0}
  BY NeighborsAssumption DEF H
<1>2. Inserted \in Nat /\ Inserted >= H
  BY <1>1, Product DEF Inserted, H
<1>3. 3 * ALLOWED_HELLO_LOSS * HELLO_INTERVAL = 3 * Inserted
  BY <1>1, SMT DEF Inserted, H
<1>4. Greeted = (3 * Inserted) \div 2
  BY <1>3 DEF Greeted
<1>5. (3 * Inserted) \div 2 \in Nat /\ Inserted <= (3 * Inserted) \div 2
  BY <1>2
<1> QED
  BY <1>1, <1>2, <1>4, <1>5

\* A grant just given is in time, whenever nb_purge runs.
LEMMA GrantInTime ==
  ASSUME NEW e \in Nat, H <= e, e <= Greeted, NEW t \in Nat
  PROVE  InTime(e, 0, t)
BY Grants DEF InTime

\* A step of the clock: what is left runs out, the silence grows, nb_purge nears.
LEMMA TickInTime ==
  ASSUME NEW e \in Nat, NEW s \in Nat, NEW t \in 1 .. H, InTime(e, s, t)
  PROVE  InTime(IF e = 0 THEN 0 ELSE e - 1, s + 1, t - 1)
BY Grants DEF InTime

\* After nb_purge, which takes out those with nothing left, the timer starts anew.
LEMMA PurgeInTime ==
  ASSUME NEW e \in Nat \ {0}, NEW s \in Nat, NEW t, InTime(e, s, t)
  PROVE  InTime(e, s, H)
BY Grants DEF InTime
-----------------------------------------------------------------------------
LEMMA InitInv == Init => Inv
BY Grants DEF Init, Inv, Clocks, Known

LEMMA RefreshInv ==
  ASSUME Inv, NEW n \in Known, NEW grant \in Nat, H <= grant, grant <= Greeted,
         Refresh(n, grant)
  PROVE  Inv'
<1>1. Known' = Known
  BY DEF Refresh, Known, Inv, Clocks
<1>2. Clocks'
  BY <1>1 DEF Refresh, Inv, Clocks
<1>3. InTime(grant, 0, timer)
  BY GrantInTime, Grants DEF Inv, Clocks
<1>4. \A m \in Known : InTime(nb_expire'[m], silent'[m], timer')
  BY <1>3 DEF Refresh, Inv, Clocks
<1> QED
  BY <1>1, <1>2, <1>4 DEF Inv

LEMMA InsertInv ==
  ASSUME Inv, NEW n, nb_insert(n)
  PROVE  Inv'
<1>1. Known' = Known \cup {n}
  BY DEF nb_insert, Known
<1>2. Clocks'
  BY <1>1, Grants DEF nb_insert, Inv, Clocks, Inserted
<1>3. InTime(Inserted, 0, timer)
  BY GrantInTime, Grants DEF Inv, Clocks
<1>4. \A m \in Known \cup {n} : InTime(nb_expire'[m], silent'[m], timer')
  BY <1>3 DEF nb_insert, Inv, Clocks, Inserted
<1> QED
  BY <1>1, <1>2, <1>4 DEF Inv

LEMMA PurgeInv ==
  ASSUME Inv, nb_purge
  PROVE  Inv'
<1>1. Known' = {n \in Known : nb_expire[n] # 0}
  BY DEF nb_purge, Known
<1>2. /\ nb_expire' = [n \in Known' |-> nb_expire[n]]
      /\ silent' = [n \in Known' |-> silent[n]]
      /\ timer' = H
  <2>1. Known' = Known \ {n \in Known : nb_expire[n] = 0}
    BY <1>1
  <2> QED
    BY <2>1, Zenon DEF nb_purge, H
<1>3. Clocks'
  BY <1>1, <1>2, Grants DEF Inv, Clocks
<1>4. ASSUME NEW n \in Known'
      PROVE  InTime(nb_expire[n], silent[n], H)
  <2>1. n \in Known /\ nb_expire[n] \in Nat \ {0} /\ silent[n] \in Nat
    BY <1>1 DEF Inv, Clocks
  <2>2. InTime(nb_expire[n], silent[n], timer)
    BY <2>1 DEF Inv
  <2> QED
    BY <2>1, <2>2, PurgeInTime
<1> QED
  BY <1>2, <1>3, <1>4 DEF Inv

LEMMA TickInv ==
  ASSUME Inv, Tick
  PROVE  Inv'
<1>1. Known' = Known
  BY DEF Tick, Known
<1>2. timer \in 1 .. H
  BY Grants DEF Tick, Inv, Clocks
<1>3. Clocks'
  BY <1>1, <1>2, Grants DEF Tick, Inv, Clocks
<1>4. ASSUME NEW n \in Known
      PROVE  InTime(nb_expire'[n], silent'[n], timer')
  <2>1. nb_expire[n] \in Nat /\ silent[n] \in Nat /\ InTime(nb_expire[n], silent[n], timer)
    BY DEF Inv, Clocks
  <2>2. InTime(IF nb_expire[n] = 0 THEN 0 ELSE nb_expire[n] - 1, silent[n] + 1, timer - 1)
    BY <1>2, <2>1, TickInTime
  <2>3. /\ nb_expire'[n] = IF nb_expire[n] = 0 THEN 0 ELSE nb_expire[n] - 1
        /\ silent'[n] = silent[n] + 1
        /\ timer' = timer - 1
    BY DEF Tick
  <2> QED
    BY <2>2, <2>3
<1> QED
  BY <1>1, <1>3, <1>4 DEF Inv

LEMMA NextInv == Inv /\ [Next]_vars => Inv'
<1> SUFFICES ASSUME Inv, [Next]_vars
             PROVE  Inv'
  OBVIOUS
<1>1. ASSUME NEW n \in Neighbor, nb_insert(n)
      PROVE  Inv'
  BY <1>1, InsertInv
<1>2. ASSUME NEW n \in Neighbor, recvHello(n)
      PROVE  Inv'
  <2>1. CASE n \in Known
    <3>1. Refresh(n, Greeted)
      BY <1>2, <2>1 DEF recvHello, Greeted
    <3> QED
      BY <2>1, <3>1, Grants, RefreshInv
  <2>2. CASE n \notin Known
    BY <1>2, <2>2, InsertInv DEF recvHello
  <2> QED
    BY <2>1, <2>2
<1>3. ASSUME NEW n \in Neighbor, recvProb(n)
      PROVE  Inv'
  <2>1. n \in Known /\ Refresh(n, H)
    BY <1>3 DEF recvProb, H
  <2> QED
    BY <2>1, Grants, RefreshInv
<1>4. CASE nb_purge
  BY <1>4, PurgeInv
<1>5. CASE set_trust
  BY <1>5 DEF set_trust, Inv, Clocks, Known
<1>6. CASE Tick
  BY <1>6, TickInv
<1>7. CASE UNCHANGED vars
  BY <1>7 DEF vars, Inv, Clocks, Known
<1> QED
  BY <1>1, <1>2, <1>3, <1>4, <1>5, <1>6, <1>7 DEF Next
-----------------------------------------------------------------------------
(* In every state the clocks of all neighbours agree: Inv. *)
THEOREM ClocksAgree == Spec => []Inv
<1> QED
  BY InitInv, NextInv, PTL DEF Spec

(* For every HELLO_INTERVAL and ALLOWED_HELLO_LOSS a neighbour no longer heard is
   out of the table within the grant of a hello and one period of nb_purge. *)
THEOREM GoneInTimeAlways == Spec => []GoneInTime
<1>1. Inv => GoneInTime
  <2> SUFFICES ASSUME Inv, NEW n \in Known
               PROVE  silent[n] <= MaxSilence
    BY DEF GoneInTime
  <2>1. /\ nb_expire[n] \in Nat /\ silent[n] \in Nat /\ timer \in Nat
        /\ InTime(nb_expire[n], silent[n], timer)
    BY Grants DEF Inv, Clocks
  <2>2. MaxSilence = Greeted + H
    BY DEF MaxSilence, Greeted, H
  <2> QED
    BY <2>1, <2>2, Grants DEF InTime
<1> QED
  BY <1>1, ClocksAgree, PTL

(* Whatever the order of hellos and probes, nb_purge deletes only neighbours that
   were silent for a whole HELLO_INTERVAL. *)
THEOREM HeardIsAlwaysKept == Spec => HeardIsKept
<1>1. Inv /\ [Next]_vars => [\A n \in Known \ Known' : silent[n] >= HELLO_INTERVAL]_vars
  <2> SUFFICES ASSUME Inv, Next, NEW n \in Known, n \notin Known'
               PROVE  silent[n] >= H
    BY DEF H
  <2>1. nb_purge
    <3>1. ~nb_purge => Known \subseteq Known'
      BY DEF Next, nb_insert, recvHello, recvProb, Refresh, set_trust, Tick, Known, Inv, Clocks
    <3> QED
      BY <3>1
  <2>2. nb_expire[n] = 0
    BY <2>1 DEF nb_purge, Known
  <2>3. silent[n] \in Nat /\ InTime(nb_expire[n], silent[n], timer)
    BY DEF Inv, Clocks
  <2> QED
    BY <2>2, <2>3, Grants DEF InTime
<1> QED
  BY <1>1, ClocksAgree, PTL DEF Spec, HeardIsKept

-----------------------------------------------------------------------------
(* The list. *)

\* Deadlines are within the bound and the list is the table.
Listed ==
  /\ nbhead \in Seq(Neighbor)
  /\ ToSet(nbhead) = Known
  /\ IsInjective(nbhead)
  /\ \A n \in Known : nb_expire[n] <= Greeted
  /\ \A i \in DOMAIN rcom : Len(rcom[i]) \in 1 .. MAX_NB

Unlink(gone, same, kept, n) == IF n \in gone THEN kept ELSE Append(kept, n)

\* kept is what the loop leaves of the first n of c.q.
Linked(c, kept, n) ==
  /\ kept \in Seq(Neighbor)
  /\ \A i \in 1 .. Len(kept) : kept[i] \notin c.gone /\ \E j \in 1 .. n : kept[i] = c.q[j]
  /\ \A j \in 1 .. n : c.q[j] \notin c.gone => \E i \in 1 .. Len(kept) : kept[i] = c.q[j]
  /\ \A i, j \in 1 .. Len(kept) : kept[i] = kept[j] => i = j

Unlinking == INSTANCE FoldFacts WITH Op <- Unlink, Inv <- Linked

LEMMA ListOf ==
  ASSUME NEW S, NEW q \in Seq(S)
  PROVE  /\ Len(q) \in Nat /\ DOMAIN q = 1 .. Len(q)
         /\ \A i \in 1 .. Len(q) : q[i] \in S
         /\ ToSet(q) = {q[i] : i \in 1 .. Len(q)}
         /\ IsInjective(q) <=> \A i, j \in 1 .. Len(q) : q[i] = q[j] => i = j
<1>1. Len(q) \in Nat /\ DOMAIN q = 1 .. Len(q) /\ \A i \in 1 .. Len(q) : q[i] \in S
  OBVIOUS
<1> QED
  BY <1>1 DEF ToSet, IsInjective

\* nb_delete takes out those gone, and nothing else.
LEMMA WithoutGone ==
  ASSUME NEW q \in Seq(Neighbor), IsInjective(q), NEW gone, NEW w, w = Without(q, gone)
  PROVE  w \in Seq(Neighbor) /\ IsInjective(w) /\ ToSet(w) = ToSet(q) \ gone
<1> DEFINE c == [q |-> q, gone |-> gone]
<1>1. /\ Len(q) \in Nat /\ DOMAIN q = 1 .. Len(q) /\ \A i \in 1 .. Len(q) : q[i] \in Neighbor
      /\ ToSet(q) = {q[i] : i \in 1 .. Len(q)}
      /\ \A i, j \in 1 .. Len(q) : q[i] = q[j] => i = j
  BY ListOf
<1>2. Without(q, gone) = Unlinking!Fold(gone, gone, << >>, q)
  BY Zenon DEF Without, Unlinking!Fold, Unlink, FoldLeft, MapThenFoldSet,
               Max, Unlinking!IsIteration, Unlinking!Top
<1>3. c.q = q /\ c.gone = gone
  OBVIOUS
<1> HIDE DEF c
<1>4. Linked(c, << >>, 0)
  <2>1. << >> \in Seq(Neighbor) /\ Len(<< >>) = 0 /\ 1 .. 0 = {}
    OBVIOUS
  <2> QED
    BY <2>1 DEF Linked
<1>5. ASSUME NEW n \in 1 .. Len(q), NEW t, Linked(c, t, n - 1)
      PROVE  Linked(c, Unlink(gone, gone, t, q[n]), n)
  <2>1. /\ t \in Seq(Neighbor) /\ Len(t) \in Nat /\ n \in Nat
        /\ \A i \in 1 .. Len(t) : t[i] \notin gone /\ \E j \in 1 .. n - 1 : t[i] = q[j]
        /\ \A j \in 1 .. n - 1 : q[j] \notin gone => \E i \in 1 .. Len(t) : t[i] = q[j]
        /\ \A i, j \in 1 .. Len(t) : t[i] = t[j] => i = j
    BY <1>3, <1>5 DEF Linked
  <2>2. \A j \in 1 .. n : j \in 1 .. n - 1 \/ j = n
    OBVIOUS
  <2>3. CASE q[n] \in gone
    <3>1. \A i \in 1 .. Len(t) : \E j \in 1 .. n : t[i] = q[j]
      BY <2>1
    <3>2. Linked(c, t, n)
      BY <1>3, <2>1, <2>2, <2>3, <3>1 DEF Linked
    <3> QED
      BY <2>3, <3>2 DEF Unlink
  <2>4. CASE q[n] \notin gone
    <3> DEFINE u == Append(t, q[n])
    <3>1. u \in Seq(Neighbor) /\ Len(u) = Len(t) + 1
          /\ \A i \in 1 .. Len(t) + 1 : u[i] = IF i <= Len(t) THEN t[i] ELSE q[n]
      BY <1>1, <2>1
    <3> HIDE DEF u
    <3>2. /\ \A i \in 1 .. Len(u) : i \in 1 .. Len(t) \/ i = Len(t) + 1
          /\ u[Len(t) + 1] = q[n] /\ Len(t) + 1 \in 1 .. Len(u)
          /\ \A i \in 1 .. Len(t) : u[i] = t[i] /\ i \in 1 .. Len(u)
      <4> DEFINE k == Len(t)
      <4>1. k \in Nat /\ Len(u) = k + 1
            /\ \A i \in 1 .. k + 1 : u[i] = IF i <= k THEN t[i] ELSE q[n]
        BY <2>1, <3>1
      <4> HIDE DEF k
      <4>2. k + 1 \in 1 .. k + 1 /\ ~(k + 1 <= k)
        BY <4>1
      <4>3. u[k + 1] = q[n]
        BY <4>1, <4>2
      <4>4. \A i \in 1 .. k : i \in 1 .. k + 1 /\ i <= k
        BY <4>1
      <4>5. \A i \in 1 .. k : u[i] = t[i]
        BY <4>1, <4>4
      <4>6. \A i \in 1 .. k + 1 : i \in 1 .. k \/ i = k + 1
        BY <4>1
      <4> QED
        BY <4>1, <4>2, <4>3, <4>4, <4>5, <4>6 DEF k
    <3>3. \A i \in 1 .. Len(t) : t[i] # q[n]
      <4>1. \A j \in 1 .. n - 1 : q[j] # q[n]
        <5>1. \A j \in 1 .. n - 1 : j \in 1 .. Len(q) /\ j # n
          BY <1>1
        <5> QED
          BY <1>1, <5>1
      <4> QED
        BY <2>1, <4>1
    <3>4. \A i \in 1 .. Len(u) : u[i] \notin gone /\ \E j \in 1 .. n : u[i] = q[j]
      <4>1. \A i \in 1 .. Len(t) : u[i] \notin gone /\ \E j \in 1 .. n : u[i] = q[j]
        BY <2>1, <3>2
      <4>2. u[Len(t) + 1] \notin gone /\ \E j \in 1 .. n : u[Len(t) + 1] = q[j]
        BY <2>1, <2>4, <3>2
      <4> QED
        BY <3>2, <4>1, <4>2
    <3>5. ASSUME NEW j \in 1 .. n, q[j] \notin gone
          PROVE  \E i \in 1 .. Len(u) : u[i] = q[j]
      <4>1. CASE j = n
        BY <3>2, <4>1
      <4>2. CASE j \in 1 .. n - 1
        <5>1. PICK i \in 1 .. Len(t) : t[i] = q[j]
          BY <2>1, <3>5, <4>2
        <5> QED
          BY <3>2, <5>1
      <4> QED
        BY <2>2, <4>1, <4>2
    <3>6. ASSUME NEW i \in 1 .. Len(u), NEW j \in 1 .. Len(u), u[i] = u[j]
          PROVE  i = j
      <4>1. CASE i \in 1 .. Len(t) /\ j \in 1 .. Len(t)
        BY <2>1, <3>2, <3>6, <4>1
      <4>2. CASE i = Len(t) + 1 /\ j \in 1 .. Len(t)
        BY <3>2, <3>3, <3>6, <4>2
      <4>3. CASE i \in 1 .. Len(t) /\ j = Len(t) + 1
        BY <3>2, <3>3, <3>6, <4>3
      <4> QED
        BY <3>2, <4>1, <4>2, <4>3
    <3>7. Linked(c, u, n)
      BY <1>3, <3>1, <3>4, <3>5, <3>6 DEF Linked
    <3> QED
      BY <2>4, <3>7 DEF Unlink, u
  <2> QED
    BY <2>3, <2>4
<1>6. Linked(c, w, Len(q))
  <2>1. Linked(c, Unlinking!Fold(gone, gone, << >>, q), Len(q))
    BY <1>1, <1>4, <1>5, Unlinking!FoldInvariant
  <2> QED
    BY <1>2, <2>1
<1>7. /\ w \in Seq(Neighbor)
      /\ \A i \in 1 .. Len(w) : w[i] \notin gone /\ \E j \in 1 .. Len(q) : w[i] = q[j]
      /\ \A j \in 1 .. Len(q) : q[j] \notin gone => \E i \in 1 .. Len(w) : w[i] = q[j]
      /\ \A i, j \in 1 .. Len(w) : w[i] = w[j] => i = j
  <2>1. w \in Seq(Neighbor)
    BY <1>6 DEF Linked
  <2>2. \A i \in 1 .. Len(w) : w[i] \notin gone /\ \E j \in 1 .. Len(q) : w[i] = q[j]
    BY <1>3, <1>6 DEF Linked
  <2>3. \A j \in 1 .. Len(q) : q[j] \notin gone => \E i \in 1 .. Len(w) : w[i] = q[j]
    BY <1>3, <1>6 DEF Linked
  <2>4. \A i, j \in 1 .. Len(w) : w[i] = w[j] => i = j
    BY <1>6 DEF Linked
  <2> QED
    BY <2>1, <2>2, <2>3, <2>4
<1>8. ToSet(w) = {w[i] : i \in 1 .. Len(w)} /\ IsInjective(w)
  <2>1. /\ ToSet(w) = {w[i] : i \in 1 .. Len(w)}
        /\ IsInjective(w) <=> \A i, j \in 1 .. Len(w) : w[i] = w[j] => i = j
    BY <1>7, ListOf
  <2>2. \A i, j \in 1 .. Len(w) : w[i] = w[j] => i = j
    BY <1>7
  <2> QED
    BY <2>1, <2>2
<1>9. ToSet(w) = ToSet(q) \ gone
  <2>1. ASSUME NEW x
        PROVE  x \in ToSet(w) <=> x \in ToSet(q) \ gone
    <3>1. x \in ToSet(w) <=> \E i \in 1 .. Len(w) : w[i] = x
      BY <1>8
    <3>2. x \in ToSet(q) <=> \E i \in 1 .. Len(q) : q[i] = x
      BY <1>1
    <3>3. ASSUME NEW i \in 1 .. Len(w), w[i] = x
          PROVE  x \in ToSet(q) \ gone
      <4>1. w[i] \notin gone /\ \E j \in 1 .. Len(q) : w[i] = q[j]
        BY <1>7
      <4> QED
        BY <3>2, <3>3, <4>1
    <3>4. ASSUME NEW j \in 1 .. Len(q), q[j] = x, x \notin gone
          PROVE  x \in ToSet(w)
      <4>1. \E i \in 1 .. Len(w) : w[i] = q[j]
        BY <1>7, <3>4
      <4> QED
        BY <3>1, <3>4, <4>1
    <3> QED
      BY <3>1, <3>2, <3>3, <3>4
  <2> QED
    BY <2>1
<1> QED
  BY <1>7, <1>8, <1>9
-----------------------------------------------------------------------------
(* FlattenSeq, which is a recursive function. *)

\* g[i] joins the first i lists.
IsFlatten(g, seqs, n) ==
  g = [i \in 1 .. n |-> IF i = 1 THEN seqs[i] ELSE g[i - 1] \o seqs[i]]

LEMMA FlattenExists ==
  ASSUME NEW seqs, NEW n \in Nat
  PROVE  \E g : IsFlatten(g, seqs, n)
<1> DEFINE T == {k \in Nat : ~\E g : IsFlatten(g, seqs, k)}
<1>1. SUFFICES ASSUME T # {} PROVE FALSE
  OBVIOUS
<1>2. PICK m \in T : \A y \in T : m <= y
  BY <1>1, Unlinking!Smallest
<1>3. CASE m = 0
  <2> DEFINE g == [i \in 1 .. 0 |-> i]
  <2>1. IsFlatten(g, seqs, 0)
    BY DEF IsFlatten
  <2> QED
    BY <1>2, <1>3, <2>1
<1>4. CASE m # 0
  <2> DEFINE k == m - 1
  <2>1. k \in Nat /\ m = k + 1 /\ k \notin T
    BY <1>2, <1>4
  <2>2. PICK g : IsFlatten(g, seqs, k)
    BY <2>1
  <2> HIDE DEF k
  <2> DEFINE last == IF k = 0 THEN seqs[k + 1] ELSE g[k] \o seqs[k + 1]
             h == [i \in 1 .. k + 1 |-> IF i = k + 1 THEN last ELSE g[i]]
  <2> HIDE DEF last
  <2>3. ASSUME NEW i \in 1 .. k + 1
        PROVE  h[i] = IF i = 1 THEN seqs[i] ELSE h[i - 1] \o seqs[i]
    <3>1. CASE i = k + 1
      <4>1. h[i] = last
        BY <3>1
      <4>2. i # 1 => i - 1 \in 1 .. k + 1 /\ i - 1 # k + 1 /\ i - 1 = k /\ k # 0
        BY <2>1, <3>1
      <4>3. i # 1 => h[i - 1] = g[k]
        BY <4>2
      <4>4. i = 1 => k = 0
        BY <2>1, <3>1
      <4> HIDE DEF h
      <4> QED
        BY <3>1, <4>1, <4>2, <4>3, <4>4 DEF last
    <3>2. CASE i # k + 1
      <4>1. i \in 1 .. k
        BY <2>1, <3>2
      <4>2. h[i] = g[i]
        BY <3>2
      <4>3. g[i] = IF i = 1 THEN seqs[i] ELSE g[i - 1] \o seqs[i]
        BY <2>2, <4>1 DEF IsFlatten
      <4>4. i # 1 => i - 1 \in 1 .. k + 1 /\ i - 1 # k + 1
        BY <2>1, <4>1
      <4>5. i # 1 => h[i - 1] = g[i - 1]
        BY <4>4
      <4> HIDE DEF h
      <4> QED
        BY <4>2, <4>3, <4>5
    <3> QED
      BY <3>1, <3>2
  <2>4. IsFlatten(h, seqs, k + 1)
    <3>1. h = [i \in 1 .. k + 1 |-> h[i]]
      OBVIOUS
    <3> HIDE DEF h
    <3> QED
      BY <2>3, <3>1, Zenon DEF IsFlatten
  <2> QED
    BY <1>2, <2>1, <2>4
<1> QED
  BY <1>3, <1>4

\* FlattenSeq in those terms.
LEMMA FlattenIs ==
  ASSUME NEW S, NEW seqs \in Seq(Seq(S))
  PROVE  /\ seqs = << >> => FlattenSeq(seqs) = << >>
         /\ seqs # << >> => \E g : /\ IsFlatten(g, seqs, Len(seqs))
                                   /\ FlattenSeq(seqs) = g[Len(seqs)]
<1>1. CASE seqs = << >>
  <2>1. Len(seqs) = 0
    BY <1>1
  <2> QED
    BY <1>1, <2>1, Zenon DEF FlattenSeq
<1>2. CASE seqs # << >>
  <2>1. Len(seqs) \in Nat /\ Len(seqs) # 0
    BY <1>2
  <2> DEFINE g == CHOOSE f : IsFlatten(f, seqs, Len(seqs))
  <2>2. IsFlatten(g, seqs, Len(seqs))
    BY <2>1, FlattenExists, Zenon
  <2>3. FlattenSeq(seqs) = g[Len(seqs)]
    BY <2>1, Zenon DEF FlattenSeq, IsFlatten
  <2> HIDE DEF g
  <2> QED
    BY <1>2, <2>2, <2>3
<1> QED
  BY <1>1, <1>2

\* Joining one list more.
LEMMA FlattenOne ==
  ASSUME NEW seqs \in Seq(Seq(Neighbor)), NEW t \in Seq(Neighbor),
         NEW u, u = Append(seqs, t), FlattenSeq(seqs) \in Seq(Neighbor),
         NEW r, r = FlattenSeq(seqs) \o t
  PROVE  /\ u \in Seq(Seq(Neighbor))
         /\ FlattenSeq(u) = r
         /\ FlattenSeq(u) \in Seq(Neighbor)
<1> DEFINE n == Len(seqs)
<1>1. /\ u \in Seq(Seq(Neighbor)) /\ Len(u) = n + 1 /\ n \in Nat
      /\ \A i \in 1 .. n + 1 : u[i] = IF i <= n THEN seqs[i] ELSE t
  OBVIOUS
<1>2. u # << >> /\ u[n + 1] = t /\ \A i \in 1 .. n : u[i] = seqs[i]
  BY <1>1
<1>3. PICK h : IsFlatten(h, u, n + 1) /\ FlattenSeq(u) = h[n + 1]
  BY <1>1, <1>2, FlattenIs
<1> HIDE DEF n
<1>4. h[n + 1] = IF n + 1 = 1 THEN t ELSE h[n] \o t
  <2>1. n + 1 \in 1 .. n + 1 /\ (n + 1) - 1 = n
    BY <1>1
  <2> QED
    BY <1>2, <1>3, <2>1 DEF IsFlatten
<1>5. FlattenSeq(u) = FlattenSeq(seqs) \o t
  <2>1. CASE seqs = << >>
    <3>1. n = 0
      BY <2>1 DEF n
    <3>2. FlattenSeq(seqs) = << >>
      BY <2>1, FlattenIs
    <3>3. << >> \o t = t
      OBVIOUS
    <3>4. h[n + 1] = t
      BY <1>4, <3>1
    <3> QED
      BY <1>3, <3>2, <3>3, <3>4
  <2>2. CASE seqs # << >>
    <3>1. n # 0
      BY <2>2 DEF n
    <3>2. PICK g : IsFlatten(g, seqs, n) /\ FlattenSeq(seqs) = g[n]
      BY <2>2, FlattenIs DEF n
    <3> DEFINE T == {k \in Nat : k \in 1 .. n /\ g[k] # h[k]}
    <3>3. T = {}
      <4>1. SUFFICES ASSUME T # {} PROVE FALSE
        OBVIOUS
      <4>2. PICK m \in T : \A y \in T : m <= y
        BY <4>1, Unlinking!Smallest
      <4>3. m \in 1 .. n /\ m \in 1 .. n + 1 /\ m - 1 \notin T /\ g[m] # h[m]
        <5>1. m \in Nat /\ m \in 1 .. n /\ g[m] # h[m]
          BY <4>2
        <5>2. ~(m <= m - 1) /\ m \in 1 .. n + 1
          BY <1>1, <5>1
        <5>3. m - 1 \notin T
          BY <4>2, <5>2, Zenon
        <5> QED
          BY <5>1, <5>2, <5>3
      <4>4. g[m] = IF m = 1 THEN seqs[m] ELSE g[m - 1] \o seqs[m]
        BY <3>2, <4>3 DEF IsFlatten
      <4>5. h[m] = IF m = 1 THEN u[m] ELSE h[m - 1] \o u[m]
        BY <1>3, <4>3 DEF IsFlatten
      <4>6. m # 1 => m - 1 \in 1 .. n /\ m - 1 \in Nat
        BY <1>1, <4>3
      <4>7. m # 1 => g[m - 1] = h[m - 1]
        BY <4>3, <4>6
      <4> QED
        BY <1>2, <4>3, <4>4, <4>5, <4>7
    <3>4. n \in 1 .. n /\ n \in Nat
      BY <1>1, <3>1
    <3>5. g[n] = h[n]
      BY <3>3, <3>4
    <3>6. n + 1 # 1
      BY <1>1, <3>1
    <3> QED
      BY <1>3, <1>4, <3>2, <3>5, <3>6
  <2> QED
    BY <2>1, <2>2
<1>6. FlattenSeq(seqs) \o t \in Seq(Neighbor)
  BY ConcatProperties
<1> QED
  BY <1>1, <1>5, <1>6

-----------------------------------------------------------------------------
(* The RCOMs of one set_trust. *)

FillRcom(same, again, out, n) == Fill(out, n)

\* The RCOMs sent and the one being filled hold the first n of q, in their order.
Joined(out) == FlattenSeq(out.sent) \o out.filling

Filled(q, out, n) ==
  /\ out = [sent |-> out.sent, filling |-> out.filling]
  /\ out.sent \in Seq(Seq(Neighbor))
  /\ out.filling \in Seq(Neighbor)
  /\ Len(out.filling) < MAX_NB
  /\ \A i \in 1 .. Len(out.sent) : Len(out.sent[i]) \in 1 .. MAX_NB
  /\ FlattenSeq(out.sent) \in Seq(Neighbor)
  /\ Len(Joined(out)) = n
  /\ \A i \in 1 .. n : Joined(out)[i] = q[i]

Filling == INSTANCE FoldFacts WITH Op <- FillRcom, Inv <- Filled

\* One neighbour more in the RCOM being filled.
LEMMA JoinAppend ==
  ASSUME NEW S, NEW s \in Seq(S), NEW t \in Seq(S), NEW x \in S
  PROVE  s \o Append(t, x) = Append(s \o t, x)
<1> DEFINE k == Len(s)
           m == Len(t)
           t1 == Append(t, x)
           u == s \o t1
           w == s \o t
           w1 == Append(w, x)
<1>1. k \in Nat /\ m \in Nat
  OBVIOUS
<1>2. t1 \in Seq(S) /\ Len(t1) = m + 1 /\ \A i \in 1 .. m : t1[i] = t[i]
  OBVIOUS
<1>3. t1[m + 1] = x
  OBVIOUS
<1> HIDE DEF t1
<1>4. /\ u \in Seq(S) /\ Len(u) = k + (m + 1)
      /\ \A i \in 1 .. k + (m + 1) : u[i] = IF i <= k THEN s[i] ELSE t1[i - k]
  <2>1. /\ u \in Seq(S) /\ Len(u) = Len(s) + Len(t1)
        /\ \A i \in 1 .. Len(s) + Len(t1) : u[i] = IF i <= Len(s) THEN s[i] ELSE t1[i - Len(s)]
    BY <1>2, ConcatProperties
  <2> HIDE DEF u
  <2> QED
    BY <1>2, <2>1
<1> HIDE DEF u
<1>5. /\ w \in Seq(S) /\ Len(w) = k + m
      /\ \A i \in 1 .. k + m : w[i] = IF i <= k THEN s[i] ELSE t[i - k]
  BY ConcatProperties
<1> HIDE DEF w
<1>6. /\ w1 \in Seq(S) /\ Len(w1) = (k + m) + 1
      /\ \A i \in 1 .. k + m : w1[i] = w[i]
  BY <1>5
<1>7. w1[(k + m) + 1] = x
  BY <1>5
<1> HIDE DEF w1, k, m
<1>8. Len(u) = Len(w1)
  BY <1>1, <1>4, <1>6
<1>9. ASSUME NEW i \in 1 .. Len(u)
      PROVE  u[i] = w1[i]
  <2>1. i \in Nat /\ i \in 1 .. k + (m + 1)
    BY <1>1, <1>4
  <2>2. CASE i <= k
    <3>1. i \in 1 .. k + m
      BY <1>1, <2>1, <2>2
    <3> QED
      BY <1>4, <1>5, <1>6, <2>1, <2>2, <3>1
  <2>3. CASE ~(i <= k) /\ i <= k + m
    <3>1. i \in 1 .. k + m /\ i - k \in 1 .. m
      BY <1>1, <2>1, <2>3
    <3>2. u[i] = t1[i - k] /\ w1[i] = t[i - k]
      BY <1>4, <1>5, <1>6, <2>1, <2>3, <3>1
    <3> QED
      BY <1>2, <3>1, <3>2
  <2>4. CASE i = (k + m) + 1
    <3>1. ~(i <= k) /\ i - k = m + 1
      BY <1>1, <2>4
    <3>2. u[i] = t1[m + 1]
      BY <1>4, <2>1, <3>1
    <3> QED
      BY <1>3, <1>7, <2>4, <3>2
  <2> QED
    BY <1>1, <2>1, <2>2, <2>3, <2>4
<1>10. u = w1
  BY <1>4, <1>6, <1>8, <1>9, SeqEqual
<1> QED
  BY <1>10 DEF u, w1, w, t1

\* A round of the loop.
LEMMA FillOne ==
  ASSUME NEW q \in Seq(Neighbor), NEW n \in 1 .. Len(q), NEW out, Filled(q, out, n - 1),
         NEW o, o = Fill(out, q[n])
  PROVE  Filled(q, o, n)
<1> DEFINE x == q[n]
           sent == out.sent
           f == out.filling
           p == Append(f, x)
           j == Joined(out)
<1>1. x \in Neighbor /\ n \in Nat /\ n >= 1
  OBVIOUS
<1>2. out = [sent |-> sent, filling |-> f] /\ sent \in Seq(Seq(Neighbor)) /\ f \in Seq(Neighbor)
  BY DEF Filled
<1>3. /\ Len(f) < MAX_NB /\ Len(f) \in Nat
      /\ \A i \in 1 .. Len(sent) : Len(sent[i]) \in 1 .. MAX_NB
      /\ FlattenSeq(sent) \in Seq(Neighbor)
  BY DEF Filled
<1>4. Len(j) = n - 1 /\ \A i \in 1 .. n - 1 : j[i] = q[i]
  BY DEF Filled
<1>5. o = IF Len(p) = MAX_NB THEN [sent |-> Append(sent, p), filling |-> << >>]
          ELSE [out EXCEPT !.filling = p]
  BY DEF Fill
<1>6. p \in Seq(Neighbor) /\ Len(p) = Len(f) + 1
  BY <1>1, <1>2
<1>7. Len(p) \in 1 .. MAX_NB
  BY <1>3, <1>6, NeighborsAssumption
<1> DEFINE s == FlattenSeq(sent)
           g == s \o p
<1>8. j \in Seq(Neighbor)
  BY <1>2, <1>3, ConcatProperties DEF Joined
<1>9. g = Append(j, x)
  <2>1. j = s \o f
    BY DEF Joined
  <2> HIDE DEF j, s, f, x
  <2>2. s \o Append(f, x) = Append(s \o f, x)
    BY <1>1, <1>2, <1>3, JoinAppend DEF s, f
  <2> QED
    BY <2>1, <2>2
<1> HIDE DEF j, x
<1>10. g \in Seq(Neighbor) /\ Len(g) = n /\ \A i \in 1 .. n : g[i] = q[i]
  <2> HIDE DEF g
  <2>1. g \in Seq(Neighbor) /\ Len(g) = (n - 1) + 1
    BY <1>1, <1>4, <1>8, <1>9
  <2>2. \A i \in 1 .. n - 1 : g[i] = j[i]
    BY <1>1, <1>4, <1>8, <1>9
  <2>3. g[n] = x
    BY <1>1, <1>4, <1>8, <1>9
  <2>4. \A i \in 1 .. n : i \in 1 .. n - 1 \/ i = n
    BY <1>1
  <2> QED
    BY <1>1, <1>4, <2>1, <2>2, <2>3, <2>4 DEF x
<1> HIDE DEF sent, f, p
<1>11. CASE Len(p) = MAX_NB
  <2> DEFINE all == Append(sent, p)
  <2>1. o = [sent |-> all, filling |-> << >>]
    BY <1>5, <1>11
  <2>2. all \in Seq(Seq(Neighbor)) /\ FlattenSeq(all) = g /\ FlattenSeq(all) \in Seq(Neighbor)
    <3>1. all = Append(sent, p) /\ g = FlattenSeq(sent) \o p
      OBVIOUS
    <3>2. sent \in Seq(Seq(Neighbor)) /\ p \in Seq(Neighbor) /\ FlattenSeq(sent) \in Seq(Neighbor)
      BY <1>2, <1>3, <1>6
    <3> HIDE DEF all, g, s
    <3> QED
      BY <3>1, <3>2, FlattenOne
  <2>3. \A i \in 1 .. Len(all) : Len(all[i]) \in 1 .. MAX_NB
    BY <1>2, <1>3, <1>6, <1>7
  <2> HIDE DEF all, g
  <2>4. o.sent = all /\ o.filling = << >>
    BY <2>1
  <2>5. << >> \in Seq(Neighbor) /\ Len(<< >>) < MAX_NB
    BY NeighborsAssumption
  <2>6. Joined(o) = g
    <3>1. g \o << >> = g
      BY <1>10
    <3> QED
      BY <2>2, <2>4, <3>1 DEF Joined
  <2> QED
    BY <1>10, <2>1, <2>2, <2>3, <2>4, <2>5, <2>6 DEF Filled
<1>12. CASE Len(p) # MAX_NB
  <2>1. o = [sent |-> sent, filling |-> p]
    BY <1>2, <1>5, <1>12
  <2>2. o.sent = sent /\ o.filling = p
    BY <2>1
  <2>3. Len(p) < MAX_NB
    BY <1>7, <1>12, NeighborsAssumption
  <2>4. Joined(o) = g
    BY <2>2 DEF Joined
  <2> HIDE DEF g
  <2> QED
    BY <1>2, <1>3, <1>6, <1>10, <2>1, <2>2, <2>3, <2>4 DEF Filled
<1> QED
  BY <1>11, <1>12

\* The last RCOM is sent as it is.
LEMMA LastRcom ==
  ASSUME NEW sent \in Seq(Seq(Neighbor)), NEW f \in Seq(Neighbor), NEW u, u = Append(sent, f),
         \A i \in 1 .. Len(sent) : Len(sent[i]) \in 1 .. MAX_NB, Len(f) \in 1 .. MAX_NB
  PROVE  \A i \in DOMAIN u : Len(u[i]) \in 1 .. MAX_NB
<1> DEFINE k == Len(sent)
<1>1. k \in Nat /\ DOMAIN u = 1 .. k + 1
  OBVIOUS
<1>2. \A i \in 1 .. k : u[i] = sent[i]
  OBVIOUS
<1>3. u[k + 1] = f
  OBVIOUS
<1> HIDE DEF k
<1>4. \A i \in 1 .. k + 1 : i \in 1 .. k \/ i = k + 1
  BY <1>1
<1> QED
  BY <1>1, <1>2, <1>3, <1>4 DEF k

\* What set_trust sends.
LEMMA SetTrustSends ==
  ASSUME NEW q \in Seq(Neighbor), NEW out, NEW sends,
         out = FoldLeft(Fill, [sent |-> << >>, filling |-> << >>], q),
         sends = IF out.filling = << >> THEN out.sent ELSE Append(out.sent, out.filling)
  PROVE  /\ FlattenSeq(sends) = q
         /\ \A i \in DOMAIN sends : Len(sends[i]) \in 1 .. MAX_NB
<1> DEFINE base == [sent |-> << >>, filling |-> << >>]
           n == Len(q)
<1>1. n \in Nat /\ DOMAIN q = 1 .. n
  OBVIOUS
<1>2. FoldLeft(Fill, base, q) = Filling!Fold(0, 0, base, q)
  BY Zenon DEF Filling!Fold, FillRcom, FoldLeft, MapThenFoldSet,
               Max, Filling!IsIteration, Filling!Top
<1>3. Filled(q, base, 0)
  <2>1. base.sent = << >> /\ base.filling = << >>
    OBVIOUS
  <2>2. << >> \in Seq(Neighbor) /\ << >> \in Seq(Seq(Neighbor))
    OBVIOUS
  <2>3. FlattenSeq(<< >>) = << >>
    BY <2>2, FlattenIs
  <2>4. base = [sent |-> base.sent, filling |-> base.filling]
    OBVIOUS
  <2> HIDE DEF base
  <2>5. Joined(base) = << >>
    BY <2>1, <2>3 DEF Joined
  <2>6. Len(<< >>) = 0 /\ 0 < MAX_NB /\ 1 .. 0 = {}
    BY NeighborsAssumption
  <2> QED
    BY <2>1, <2>2, <2>3, <2>4, <2>5, <2>6 DEF Filled
<1>4. \A i \in 1 .. n : \A o : Filled(q, o, i - 1) => Filled(q, FillRcom(0, 0, o, q[i]), i)
  <2> HIDE DEF n
  <2>1. SUFFICES ASSUME NEW i \in 1 .. n, NEW o, Filled(q, o, i - 1)
                 PROVE  Filled(q, Fill(o, q[i]), i)
    BY DEF FillRcom
  <2> QED
    <3>1. i \in 1 .. Len(q)
      BY DEF n
    <3> DEFINE r == Fill(o, q[i])
    <3>2. r = Fill(o, q[i])
      OBVIOUS
    <3> HIDE DEF r
    <3>3. Filled(q, r, i)
      BY <2>1, <3>1, <3>2, FillOne, Zenon
    <3> QED
      BY <3>3 DEF r
<1> HIDE DEF base, n
<1>5. Filled(q, Filling!Fold(0, 0, base, q), n)
  BY <1>1, <1>3, <1>4, Filling!FoldInvariant
<1>6. Filled(q, out, n)
  BY <1>2, <1>5 DEF base
<1> DEFINE sent == out.sent
           f == out.filling
<1>7. /\ sent \in Seq(Seq(Neighbor)) /\ f \in Seq(Neighbor)
      /\ FlattenSeq(sent) \in Seq(Neighbor)
      /\ Len(f) < MAX_NB
      /\ \A i \in 1 .. Len(sent) : Len(sent[i]) \in 1 .. MAX_NB
  BY <1>6 DEF Filled
<1>8. Joined(out) = q
  <2>1. Joined(out) \in Seq(Neighbor)
    BY <1>7, ConcatProperties DEF Joined
  <2>2. Len(Joined(out)) = Len(q) /\ \A i \in 1 .. Len(Joined(out)) : Joined(out)[i] = q[i]
    BY <1>6 DEF Filled, n
  <2> QED
    BY <2>1, <2>2, SeqEqual
<1>9. Joined(out) = FlattenSeq(sent) \o f
  BY DEF Joined
<1>10. CASE f = << >>
  <2>1. sends = sent
    BY <1>10
  <2> HIDE DEF sent, f
  <2>2. FlattenSeq(sent) \o << >> = FlattenSeq(sent)
    BY <1>7
  <2>3. DOMAIN sent = 1 .. Len(sent)
    BY <1>7
  <2> QED
    BY <1>7, <1>8, <1>9, <1>10, <2>1, <2>2, <2>3
<1>11. CASE f # << >>
  <2>1. sends = Append(sent, f)
    BY <1>11
  <2> HIDE DEF sent, f
  <2>2. sends \in Seq(Seq(Neighbor)) /\ FlattenSeq(sends) = FlattenSeq(sent) \o f
    <3>1. sent \in Seq(Seq(Neighbor)) /\ f \in Seq(Neighbor) /\ FlattenSeq(sent) \in Seq(Neighbor)
      BY <1>7
    <3> DEFINE r == FlattenSeq(sent) \o f
    <3>2. r = FlattenSeq(sent) \o f
      OBVIOUS
    <3> HIDE DEF r
    <3>3. sends \in Seq(Seq(Neighbor)) /\ FlattenSeq(sends) = r
      BY <2>1, <3>1, <3>2, FlattenOne
    <3> QED
      BY <3>3 DEF r
  <2>3. Len(f) \in 1 .. MAX_NB
    BY <1>7, <1>11, NeighborsAssumption
  <2>4. FlattenSeq(sends) = q
    BY <1>8, <1>9, <2>2
  <2>5. \A i \in DOMAIN sends : Len(sends[i]) \in 1 .. MAX_NB
    BY <1>7, <2>1, <2>3, LastRcom
  <2> QED
    BY <2>4, <2>5
<1> QED
  BY <1>10, <1>11

-----------------------------------------------------------------------------
(* The steps. *)

\* n and the elements of q.
LEMMA OneMore ==
  ASSUME NEW q \in Seq(Neighbor), IsInjective(q), NEW n \in Neighbor, n \notin ToSet(q),
         NEW w \in Seq(Neighbor), Len(w) = 1 + Len(q),
         \A i \in 1 .. 1 + Len(q) : w[i] = IF i <= 1 THEN n ELSE q[i - 1]
  PROVE  w \in Seq(Neighbor) /\ IsInjective(w) /\ ToSet(w) = ToSet(q) \cup {n}
<1> DEFINE k == Len(q)
<1>1. /\ k \in Nat
      /\ \A i \in 1 .. k : q[i] \in Neighbor
      /\ ToSet(q) = {q[i] : i \in 1 .. k}
      /\ \A i, j \in 1 .. k : q[i] = q[j] => i = j
  BY ListOf
<1>3. /\ ToSet(w) = {w[i] : i \in 1 .. Len(w)}
      /\ IsInjective(w) <=> \A i, j \in 1 .. Len(w) : w[i] = w[j] => i = j
  BY ListOf
<1> HIDE DEF k
<1>4. Len(w) = 1 + k /\ \A i \in 1 .. 1 + k : w[i] = IF i <= 1 THEN n ELSE q[i - 1]
  BY DEF k
<1>5. w[1] = n /\ \A i \in 1 .. k : w[i + 1] = q[i] /\ q[i] # n
  <2>1. 1 \in 1 .. 1 + k /\ 1 <= 1
    BY <1>1
  <2>2. ASSUME NEW i \in 1 .. k
        PROVE  w[i + 1] = q[i] /\ q[i] # n
    <3>1. i + 1 \in 1 .. 1 + k /\ ~(i + 1 <= 1) /\ (i + 1) - 1 = i
      BY <1>1
    <3> QED
      BY <1>1, <1>4, <3>1
  <2> QED
    BY <1>4, <2>1, <2>2
<1>6. \A i \in 1 .. 1 + k : i = 1 \/ \E j \in 1 .. k : i = j + 1
  <2>1. \A i \in 1 .. 1 + k : i = 1 \/ (i - 1 \in 1 .. k /\ i = (i - 1) + 1)
    BY <1>1
  <2> QED
    BY <2>1
<1>7. \A i \in 1 .. k : i + 1 \in 1 .. 1 + k
  BY <1>1
<1>8. ToSet(w) = ToSet(q) \cup {n}
  <2>1. 1 \in 1 .. 1 + k
    BY <1>1
  <2>2. ASSUME NEW x
        PROVE  x \in ToSet(w) <=> x \in ToSet(q) \cup {n}
    <3>1. x \in ToSet(w) <=> \E i \in 1 .. 1 + k : w[i] = x
      BY <1>3, <1>4
    <3>2. x \in ToSet(q) <=> \E i \in 1 .. k : q[i] = x
      BY <1>1 DEF k
    <3>3. ASSUME NEW i \in 1 .. 1 + k, w[i] = x
          PROVE  x \in ToSet(q) \cup {n}
      <4>1. i = 1 \/ \E j \in 1 .. k : i = j + 1
        BY <1>6
      <4> QED
        BY <1>5, <3>2, <3>3, <4>1
    <3>4. ASSUME NEW i \in 1 .. k, q[i] = x
          PROVE  x \in ToSet(w)
      BY <1>5, <1>7, <3>1, <3>4
    <3>5. n \in ToSet(w)
      BY <1>3, <1>4, <1>5, <2>1
    <3> QED
      BY <3>1, <3>2, <3>3, <3>4, <3>5
  <2> QED
    BY <2>2
<1>9. \A i, j \in 1 .. 1 + k : w[i] = w[j] => i = j
  <2>1. \A i, j \in 1 .. k : q[i] = q[j] => i = j
    BY <1>1 DEF k
  <2>2. ASSUME NEW i \in 1 .. 1 + k, NEW j \in 1 .. 1 + k, w[i] = w[j]
        PROVE  i = j
    <3>1. (i = 1 \/ \E a \in 1 .. k : i = a + 1) /\ (j = 1 \/ \E a \in 1 .. k : j = a + 1)
      BY <1>6
    <3>2. CASE i = 1
      BY <1>5, <2>2, <3>1, <3>2
    <3>3. CASE j = 1
      BY <1>5, <2>2, <3>1, <3>3
    <3>4. ASSUME NEW a \in 1 .. k, i = a + 1, NEW b \in 1 .. k, j = b + 1
          PROVE  i = j
      <4>1. w[i] = q[a] /\ w[j] = q[b]
        BY <1>5, <3>4
      <4>2. a = b
        BY <2>1, <2>2, <4>1
      <4> QED
        BY <3>4, <4>2
    <3> QED
      BY <3>1, <3>2, <3>3, <3>4
  <2> QED
    BY <2>2
<1> QED
  BY <1>3, <1>4, <1>8, <1>9

\* nb_insert puts a neighbour before the others.
LEMMA InsertHead ==
  ASSUME NEW q \in Seq(Neighbor), IsInjective(q), NEW n \in Neighbor, n \notin ToSet(q),
         NEW w, w = <<n>> \o q
  PROVE  w \in Seq(Neighbor) /\ IsInjective(w) /\ ToSet(w) = ToSet(q) \cup {n}
<1>2. /\ w \in Seq(Neighbor) /\ Len(w) = 1 + Len(q)
      /\ \A i \in 1 .. 1 + Len(q) : w[i] = IF i <= 1 THEN n ELSE q[i - 1]
  <2>1. <<n>> \in Seq(Neighbor) /\ Len(<<n>>) = 1 /\ <<n>>[1] = n
    OBVIOUS
  <2> DEFINE one == <<n>>
  <2> HIDE DEF one
  <2>2. /\ one \o q \in Seq(Neighbor) /\ Len(one \o q) = Len(one) + Len(q)
        /\ \A i \in 1 .. Len(one) + Len(q) :
             (one \o q)[i] = IF i <= Len(one) THEN one[i] ELSE q[i - Len(one)]
    BY <2>1, ConcatProperties DEF one
  <2>3. w = one \o q
    BY DEF one
  <2>4. Len(one) = 1 /\ one[1] = n
    BY <2>1 DEF one
  <2>5. /\ w \in Seq(Neighbor) /\ Len(w) = 1 + Len(q)
        /\ \A i \in 1 .. 1 + Len(q) : w[i] = IF i <= 1 THEN one[i] ELSE q[i - 1]
    BY <2>2, <2>3, <2>4
  <2>6. ASSUME NEW i \in 1 .. 1 + Len(q)
        PROVE  w[i] = IF i <= 1 THEN n ELSE q[i - 1]
    <3>1. i <= 1 => i = 1
      OBVIOUS
    <3> QED
      BY <2>4, <2>5, <3>1
  <2> QED
    BY <2>5, <2>6
<1> QED
  BY <1>2, OneMore

LEMMA InitListed == Init => Listed
<1> SUFFICES ASSUME Init
             PROVE  Listed
  OBVIOUS
<1>1. nbhead = << >> /\ nb_expire = << >> /\ rcom = << >> /\ Known = {}
  BY DEF Init, Known
<1>2. << >> \in Seq(Neighbor) /\ Len(<< >>) = 0 /\ DOMAIN << >> = {}
  OBVIOUS
<1>3. ToSet(<< >>) = {} /\ IsInjective(<< >>)
  BY <1>2 DEF ToSet, IsInjective
<1> QED
  BY <1>1, <1>2, <1>3 DEF Listed

LEMMA RefreshListed ==
  ASSUME Inv, Listed, NEW n \in Known, NEW grant \in Nat, grant <= Greeted, Refresh(n, grant)
  PROVE  Listed'
<1>1. Known' = Known /\ nbhead' = nbhead /\ rcom' = << >>
  BY DEF Refresh, Known, Inv, Clocks
<1>2. \A m \in Known : nb_expire'[m] <= Greeted
  BY DEF Refresh, Known, Inv, Clocks, Listed
<1>3. DOMAIN << >> = {}
  OBVIOUS
<1> QED
  BY <1>1, <1>2, <1>3 DEF Listed

LEMMA InsertListed ==
  ASSUME Inv, Listed, NEW n \in Neighbor, nb_insert(n)
  PROVE  Listed'
<1>1. n \notin Known /\ Known' = Known \cup {n} /\ rcom' = << >> /\ nbhead' = <<n>> \o nbhead
  BY DEF nb_insert, Known
<1>2. nbhead' \in Seq(Neighbor) /\ IsInjective(nbhead') /\ ToSet(nbhead') = Known \cup {n}
  <2> DEFINE w == nbhead'
  <2>1. w = <<n>> \o nbhead
    BY <1>1
  <2> HIDE DEF w
  <2>2. nbhead \in Seq(Neighbor) /\ IsInjective(nbhead) /\ ToSet(nbhead) = Known
    BY DEF Listed
  <2>3. w \in Seq(Neighbor) /\ IsInjective(w) /\ ToSet(w) = Known \cup {n}
    BY <1>1, <2>1, <2>2, InsertHead
  <2> QED
    BY <2>3 DEF w
<1>3. \A m \in Known' : nb_expire'[m] <= Greeted
  <2>1. nb_expire' = [m \in Known \cup {n} |-> IF m = n THEN Inserted ELSE nb_expire[m]]
    BY DEF nb_insert, Inserted
  <2> QED
    BY <1>1, <2>1, Grants DEF Listed
<1>4. DOMAIN << >> = {}
  OBVIOUS
<1> QED
  BY <1>1, <1>2, <1>3, <1>4 DEF Listed

LEMMA PurgeListed ==
  ASSUME Inv, Listed, nb_purge
  PROVE  Listed'
<1> DEFINE gone == {n \in Known : nb_expire[n] = 0}
<1>1. /\ nbhead' = Without(nbhead, gone) /\ rcom' = << >>
      /\ nb_expire' = [n \in Known \ gone |-> nb_expire[n]]
      /\ Known' = Known \ gone
  BY DEF nb_purge, Known
<1> HIDE DEF gone
<1>2. nbhead' \in Seq(Neighbor) /\ IsInjective(nbhead') /\ ToSet(nbhead') = Known \ gone
  <2> DEFINE w == nbhead'
  <2>1. w = Without(nbhead, gone)
    BY <1>1
  <2> HIDE DEF w
  <2>2. nbhead \in Seq(Neighbor) /\ IsInjective(nbhead) /\ ToSet(nbhead) = Known
    BY DEF Listed
  <2>3. w \in Seq(Neighbor) /\ IsInjective(w) /\ ToSet(w) = Known \ gone
    BY <2>1, <2>2, WithoutGone
  <2> QED
    BY <2>3 DEF w
<1>3. \A m \in Known' : nb_expire'[m] <= Greeted
  BY <1>1 DEF Listed
<1>4. DOMAIN << >> = {}
  OBVIOUS
<1> QED
  BY <1>1, <1>2, <1>3, <1>4 DEF Listed

\* What AllReported says of this step, and the sizes of the RCOMs.
LEMMA SetTrustListed ==
  ASSUME Inv, Listed, set_trust
  PROVE  Listed' /\ FlattenSeq(rcom') = nbhead
<1> DEFINE out == FoldLeft(Fill, [sent |-> << >>, filling |-> << >>], nbhead)
           sends == rcom'
<1>1. /\ sends = IF out.filling = << >> THEN out.sent ELSE Append(out.sent, out.filling)
      /\ nbhead' = nbhead /\ nb_expire' = nb_expire /\ Known' = Known
  BY Zenon DEF set_trust, Known
<1>2. nbhead \in Seq(Neighbor)
  BY DEF Listed
<1>3. out = FoldLeft(Fill, [sent |-> << >>, filling |-> << >>], nbhead)
  OBVIOUS
<1> HIDE DEF out, sends
<1>4. FlattenSeq(sends) = nbhead /\ \A i \in DOMAIN sends : Len(sends[i]) \in 1 .. MAX_NB
  BY <1>1, <1>2, <1>3, SetTrustSends
<1> QED
  BY <1>1, <1>4 DEF Listed, sends

LEMMA TickListed ==
  ASSUME Inv, Listed, Tick
  PROVE  Listed'
<1>1. Known' = Known /\ nbhead' = nbhead /\ rcom' = << >>
  BY DEF Tick, Known
<1>2. \A m \in Known : nb_expire'[m] <= Greeted
  <2>1. nb_expire' = [n \in Known |-> IF nb_expire[n] = 0 THEN 0 ELSE nb_expire[n] - 1]
    BY DEF Tick
  <2>2. \A m \in Known : nb_expire[m] \in Nat /\ nb_expire[m] <= Greeted
    BY DEF Inv, Clocks, Listed
  <2> QED
    BY <2>1, <2>2, Grants
<1>3. DOMAIN << >> = {}
  OBVIOUS
<1> QED
  BY <1>1, <1>2, <1>3 DEF Listed

LEMMA NextListed == Inv /\ Listed /\ [Next]_vars => Listed'
<1> SUFFICES ASSUME Inv, Listed, [Next]_vars
             PROVE  Listed'
  OBVIOUS
<1>1. ASSUME NEW n \in Neighbor, nb_insert(n)
      PROVE  Listed'
  BY <1>1, InsertListed
<1>2. ASSUME NEW n \in Neighbor, recvHello(n)
      PROVE  Listed'
  <2>1. CASE n \in Known
    <3>1. Refresh(n, Greeted)
      BY <1>2, <2>1 DEF recvHello, Greeted
    <3> QED
      BY <2>1, <3>1, Grants, RefreshListed
  <2>2. CASE n \notin Known
    BY <1>2, <2>2, InsertListed DEF recvHello
  <2> QED
    BY <2>1, <2>2
<1>3. ASSUME NEW n \in Neighbor, recvProb(n)
      PROVE  Listed'
  <2>1. n \in Known /\ Refresh(n, H)
    BY <1>3 DEF recvProb, H
  <2> QED
    BY <2>1, Grants, RefreshListed
<1>4. CASE nb_purge
  BY <1>4, PurgeListed
<1>5. CASE set_trust
  BY <1>5, SetTrustListed
<1>6. CASE Tick
  BY <1>6, TickListed
<1>7. CASE UNCHANGED vars
  BY <1>7 DEF vars, Listed, Known
<1> QED
  BY <1>1, <1>2, <1>3, <1>4, <1>5, <1>6, <1>7 DEF Next

(* In every state the list nbhead names each neighbour with a deadline once. *)
THEOREM ListedAlways == Spec => []Listed
<1> QED
  BY InitListed, NextListed, ClocksAgree, PTL DEF Spec

(* TypeOK, for any set of neighbours and any sizes: among the rest the list of
   set_trust has every neighbour of the table once. *)
THEOREM TypeCorrect == Spec => []TypeOK
<1>1. Inv /\ Listed => TypeOK
  <2> SUFFICES ASSUME Inv, Listed
               PROVE  TypeOK
    OBVIOUS
  <2>1. MaxSilence = Greeted + H
    BY DEF MaxSilence, Greeted, H
  <2>2. nb_expire \in [Known -> 0 .. MaxSilence]
    <3>1. \A n \in Known : nb_expire[n] \in 0 .. MaxSilence
      BY <2>1, Grants DEF Inv, Clocks, Listed
    <3> QED
      BY <3>1 DEF Inv, Clocks
  <2>3. silent \in [Known -> Nat] /\ timer \in 0 .. HELLO_INTERVAL
    BY DEF Inv, Clocks, H
  <2> QED
    BY <2>2, <2>3 DEF TypeOK, Listed
<1> QED
  BY <1>1, ClocksAgree, ListedAlways, PTL

(* However many neighbours and whatever MAX_NB, the RCOMs of one set_trust name
   every neighbour once, in the order of the table. *)
THEOREM AllAreReported == Spec => AllReported
<1>1. Inv /\ Listed /\ [Next]_vars => [rcom' # << >> => FlattenSeq(rcom') = nbhead]_vars
  <2> SUFFICES ASSUME Inv, Listed, Next, rcom' # << >>
               PROVE  FlattenSeq(rcom') = nbhead
    OBVIOUS
  <2>1. set_trust
    BY DEF Next, nb_insert, recvHello, recvProb, Refresh, nb_purge, Tick
  <2> QED
    BY <2>1, SetTrustListed
<1> QED
  BY <1>1, ClocksAgree, ListedAlways, PTL DEF Spec, AllReported
=============================================================================
