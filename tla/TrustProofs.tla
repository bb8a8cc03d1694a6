----------------------------- MODULE TrustProofs -----------------------------
(***************************************************************************)
(* The trust values of Trust for any number of neighbours, any size of the *)
(* arrays and any number of windows.  The inductive invariant has a part   *)
(* for the value of a neighbour (Rated), one for each of its two arrays of *)
(* packets (Counted) and one for the RREPs, which tap cannot tell apart    *)
(* (Tracked); h says whether the neighbour is honest and not crowded.      *)
(***************************************************************************)
EXTENDS Trust, TLAPS

StatType == [corrects : Nat, alls : Nat, ok : Nat, old : Nat, new : Nat]

RecType ==
  [TV : Nat \cup {Wild}, direct : (0 .. 1000) \cup {Unset}, stat : [Kind -> StatType],
   fenzi : Nat, fenmu : Nat, wild : BOOLEAN, trusted_nbs : Nat, interact_nbs : Nat,
   whole : BOOLEAN]

Typed ==
  /\ nb \in [Known -> RecType]
  /\ balance \in [Known -> [Kind -> Int]]
  /\ idle \in [Known -> Nat]
  /\ due \in [Known -> SUBSET Age]
  /\ crowded \subseteq Known
  /\ Known \subseteq Neighbor
  /\ honest \subseteq NextHop
  /\ early \in BOOLEAN

\* What one window without a packet forwarded leaves of TV at most.
Sunk == 751

\* What others have told of a neighbour since the last set_trust.
Told(h, r) ==
  /\ r.fenzi <= 1000 * r.fenmu
  /\ h => 800 * r.fenmu <= r.fenzi
  /\ r.trusted_nbs >= 2
  /\ r.interact_nbs >= 2

\* The value of a neighbour, idle for i windows.
Rated(h, tv, i) ==
  tv # Wild => /\ tv <= MaxTV
               /\ h => tv >= TrustThreshold
               /\ i >= 1 => tv <= Sunk
               /\ i >= 2 => tv < TrustThreshold

\* The packets of one kind, of which b are without a verdict, in an array of c.
Counted(h, s, b, c) ==
  /\ s.corrects <= s.alls
  /\ h => s.corrects = s.alls
  /\ Held(s) <= c
  /\ b = Held(s)

\* The RREPs of a neighbour that never had two in the array: it has not been heard
\* forwarding the one that is there and not ok.
Tracked(u, s, d) ==
  u => /\ Held(s) <= 1
       /\ \A age \in Age : s[age] > 0 => age \in d

Inv ==
  /\ Typed
  /\ \A n \in Known :
       /\ Told(n \in honest \ crowded, nb[n])
       /\ Rated(n \in honest \ crowded, nb[n].TV, idle[n])
       /\ \A k \in Kind :
            Counted(n \in honest \ crowded, nb[n].stat[k], balance[n][k], Capacity[k])
       /\ Tracked(n \notin crowded, nb[n].stat["control"], due[n])
-----------------------------------------------------------------------------
(* Arithmetic. *)

LEMMA Scaled ==
  ASSUME NEW a \in Nat, NEW b \in Nat, NEW l \in Nat, l <= b, NEW u \in Nat, b <= u
  PROVE  a * b \in Nat /\ l * a <= a * b /\ a * b <= u * a
BY SMT

LEMMA Quotient ==
  ASSUME NEW a \in Nat, NEW b \in Nat \ {0}, NEW l \in Nat, NEW u \in Nat,
         l * b <= a, a <= u * b
  PROVE  a \div b \in l .. u
BY SMT

LEMMA Share ==
  ASSUME NEW x \in Nat, x >= 2
  PROVE  500 \div x \in 0 .. 250
BY SMT
-----------------------------------------------------------------------------
(* The parts of TV. *)

LEMMA RateRange ==
  ASSUME NEW s \in StatType, s.corrects <= s.alls, NEW e \in Nat \ {0}
  PROVE  /\ Rate(s, e) \in 0 .. 1000
         /\ s.corrects = s.alls => Rate(s, e) >= 900
         /\ s.corrects = 0 /\ s.alls >= e => Rate(s, e) = 0
<1>1. s.corrects \in Nat /\ s.alls \in Nat
  BY DEF StatType
<1>2. CASE s.alls >= e
  <2>1. s.alls \in Nat \ {0} /\ Rate(s, e) = (1000 * s.corrects) \div s.alls
    BY <1>1, <1>2 DEF Rate
  <2> DEFINE a == s.alls
             c == s.corrects
  <2>2. a \in Nat \ {0} /\ c \in Nat /\ c <= a
    BY <1>1, <2>1
  <2>3. Rate(s, e) = (1000 * c) \div a
    BY <2>1
  <2> HIDE DEF a, c
  <2>4. /\ 1000 * c \in Nat /\ 0 * a <= 1000 * c /\ 1000 * c <= 1000 * a
        /\ c = a => 1000 * a <= 1000 * c
        /\ c = 0 => 1000 * c <= 0 * a
    BY <2>2
  <2>5. (1000 * c) \div a \in 0 .. 1000
    BY <2>2, <2>4, Quotient
  <2>6. ASSUME c = a
        PROVE  (1000 * c) \div a \in 1000 .. 1000
    BY <2>2, <2>4, <2>6, Quotient
  <2>7. ASSUME c = 0
        PROVE  (1000 * c) \div a \in 0 .. 0
    BY <2>2, <2>4, <2>7, Quotient
  <2> QED
    BY <2>3, <2>5, <2>6, <2>7 DEF a, c
<1>3. CASE ~(s.alls >= e)
  BY <1>3 DEF Rate
<1> QED
  BY <1>2, <1>3

LEMMA JudgedType ==
  ASSUME NEW s \in StatType
  PROVE  /\ Judged(s) \in StatType
         /\ Judged(s).corrects = s.corrects + s.ok
         /\ Judged(s).alls = s.alls + s.ok + s.old
         /\ Held(Judged(s)) = s.new
BY DEF Judged, StatType, Held

\* One neighbour's direct trust, with all packets judged.
LEMMA DirectTrustRange ==
  ASSUME NEW st \in [Kind -> StatType], \A k \in Kind : st[k].corrects <= st[k].alls
  PROVE  /\ DirectTrust(st) \in 0 .. 1000
         /\ (\A k \in Kind : st[k].corrects = st[k].alls) => DirectTrust(st) >= 900
         /\ st["data"].corrects = 0 /\ st["data"].alls >= Enough["data"]
              => DirectTrust(st) <= 200
<1> DEFINE sc == st["control"]
           sd == st["data"]
           ec == Enough["control"]
           ed == Enough["data"]
<1>1. /\ "control" \in Kind /\ "data" \in Kind
      /\ sc \in StatType /\ sd \in StatType
      /\ sc.corrects <= sc.alls /\ sd.corrects <= sd.alls
      /\ ec \in Nat \ {0} /\ ed \in Nat \ {0}
  BY TrustAssumption DEF Kind
<1>2. /\ (\A k \in Kind : st[k].corrects = st[k].alls) => sc.corrects = sc.alls /\ sd.corrects = sd.alls
      /\ DirectTrust(st) = (2 * Rate(sc, ec) + 8 * Rate(sd, ed)) \div 10
  BY <1>1 DEF DirectTrust
<1> HIDE DEF sc, sd, ec, ed
<1>3. /\ Rate(sc, ec) \in 0 .. 1000
      /\ sc.corrects = sc.alls => Rate(sc, ec) >= 900
  BY <1>1, RateRange
<1>4. /\ Rate(sd, ed) \in 0 .. 1000
      /\ sd.corrects = sd.alls => Rate(sd, ed) >= 900
      /\ sd.corrects = 0 /\ sd.alls >= ed => Rate(sd, ed) = 0
  BY <1>1, RateRange
<1>5. DirectTrust(st) \in 0 .. 1000
  <2> DEFINE x == Rate(sc, ec)
             y == Rate(sd, ed)
  <2>1. x \in 0 .. 1000 /\ y \in 0 .. 1000 /\ DirectTrust(st) = (2 * x + 8 * y) \div 10
    BY <1>2, <1>3, <1>4
  <2> HIDE DEF x, y
  <2> QED
    BY <2>1
<1>6. ASSUME \A k \in Kind : st[k].corrects = st[k].alls
      PROVE  DirectTrust(st) >= 900
  BY <1>2, <1>3, <1>4, <1>6
<1>7. ASSUME sd.corrects = 0, sd.alls >= ed
      PROVE  DirectTrust(st) <= 200
  BY <1>2, <1>3, <1>4, <1>7
<1> QED
  BY <1>5, <1>6, <1>7 DEF sd, ed

LEMMA RecommenTrustRange ==
  ASSUME NEW h \in BOOLEAN, NEW r \in RecType, Told(h, r)
  PROVE  RecommenTrust(r) \in 0 .. 1000 /\ (h => RecommenTrust(r) >= 800)
<1>1. r.fenzi \in Nat /\ r.fenmu \in Nat
  BY DEF RecType
<1>2. CASE r.fenmu >= 100
  <2> DEFINE a == r.fenzi
             b == r.fenmu
  <2>1. /\ a \in Nat /\ b \in Nat \ {0} /\ a <= 1000 * b
        /\ h => 800 * b <= a
    BY <1>1, <1>2 DEF Told
  <2>2. RecommenTrust(r) = a \div b
    BY <1>2 DEF RecommenTrust
  <2> HIDE DEF a, b
  <2>3. 0 * b <= a
    BY <2>1
  <2>4. a \div b \in 0 .. 1000
    BY <2>1, <2>3, Quotient
  <2>5. ASSUME h
        PROVE  a \div b \in 800 .. 1000
    BY <2>1, <2>5, Quotient
  <2> QED
    BY <2>2, <2>4, <2>5
<1>3. CASE ~(r.fenmu >= 100)
  BY <1>3 DEF RecommenTrust
<1> QED
  BY <1>2, <1>3

LEMMA ActivityRange ==
  ASSUME NEW h \in BOOLEAN, NEW r \in RecType, Told(h, r)
  PROVE  ActivityDegree(r) \in 400 .. 900
<1> DEFINE x == 500 \div r.trusted_nbs
           y == 500 \div r.interact_nbs
<1>1. x \in 0 .. 250
  BY Share DEF RecType, Told
<1>2. y \in 0 .. 250
  BY Share DEF RecType, Told
<1>3. ActivityDegree(r) = 900 - x - y
  BY DEF ActivityDegree
<1> HIDE DEF x, y
<1> QED
  BY <1>1, <1>2, <1>3
-----------------------------------------------------------------------------
(* set_trust, for one neighbour. *)

\* How many windows in a row, this one included.
IdleNow(r, i) == IF ForwardsNothing(r.stat["data"]) THEN i + 1 ELSE 0

\* What set_trust may rely on.
Sound(h, s) == s.corrects <= s.alls /\ (h => s.corrects = s.alls /\ s.old = 0)

LEMMA JudgedFound ==
  ASSUME NEW s \in StatType, NEW h \in BOOLEAN, Sound(h, s)
  PROVE  /\ Judged(s) \in StatType
         /\ Judged(s).corrects <= Judged(s).alls
         /\ h => Judged(s).corrects = Judged(s).alls
         /\ ForwardsNothing(s) => /\ Judged(s).corrects = 0
                                  /\ Judged(s).alls >= Enough["data"]
         /\ Held(Judged(s)) = Held(s) - (Judged(s).alls - s.alls)
         /\ Held(Judged(s)) <= Held(s)
         /\ Held(s) \in Nat
<1>1. /\ s.corrects \in Nat /\ s.alls \in Nat /\ s.ok \in Nat
      /\ s.old \in Nat /\ s.new \in Nat
  BY DEF StatType
<1>2. Enough["data"] \in Nat
  BY TrustAssumption DEF Kind
<1> QED
  BY <1>1, <1>2, JudgedType DEF Sound, Held, ForwardsNothing

\* Counts and values a neighbour may have.
Fit(st, dt, w) ==
  st \in [Kind -> StatType] /\ dt \in 0 .. 1000 /\ w \in Nat \cup {Wild}

\* A neighbour whose counts and values are replaced.
Replaced(z, st, dt, w) == [z EXCEPT !.stat = st, !.direct = dt, !.TV = w]

\* A record of a neighbour, with trust value w.
Renewed(q, w) == q \in RecType /\ q.TV = w

\* It keeps its type and has the new trust value.
LEMMA ValueReplaced ==
  ASSUME NEW z \in RecType, NEW st, NEW dt, NEW w, Fit(st, dt, w)
  PROVE  Renewed(Replaced(z, st, dt, w), w)
<1>0. st \in [Kind -> StatType] /\ dt \in 0 .. 1000 /\ w \in Nat \cup {Wild}
  BY DEF Fit
<1> DEFINE a == [z EXCEPT !.stat = st]
           b == [a EXCEPT !.direct = dt]
           q == [b EXCEPT !.TV = w]
<1>1. Replaced(z, st, dt, w) = q
  BY SMTT(30) DEF Replaced
<1>2. a \in RecType
  <2>1. a = [TV |-> z.TV, direct |-> z.direct, stat |-> st, fenzi |-> z.fenzi,
             fenmu |-> z.fenmu, wild |-> z.wild, trusted_nbs |-> z.trusted_nbs,
             interact_nbs |-> z.interact_nbs, whole |-> z.whole]
    BY <1>0, SMTT(30) DEF RecType
  <2> HIDE DEF a
  <2> QED
    BY <1>0, <2>1, SMTT(30) DEF RecType
<1> HIDE DEF a
<1>3. b \in RecType
  <2>1. b = [TV |-> a.TV, direct |-> dt, stat |-> a.stat, fenzi |-> a.fenzi,
             fenmu |-> a.fenmu, wild |-> a.wild, trusted_nbs |-> a.trusted_nbs,
             interact_nbs |-> a.interact_nbs, whole |-> a.whole]
    BY <1>2, SMTT(30) DEF RecType
  <2> HIDE DEF b
  <2> QED
    BY <1>0, <1>2, <2>1, SMTT(30) DEF RecType
<1> HIDE DEF b
<1>4. q \in RecType /\ q.TV = w
  <2>1. q = [TV |-> w, direct |-> b.direct, stat |-> b.stat, fenzi |-> b.fenzi,
             fenmu |-> b.fenmu, wild |-> b.wild, trusted_nbs |-> b.trusted_nbs,
             interact_nbs |-> b.interact_nbs, whole |-> b.whole]
    BY <1>3, SMTT(30) DEF RecType
  <2> HIDE DEF q
  <2> QED
    BY <1>0, <1>3, <2>1, SMTT(30) DEF RecType
<1> HIDE DEF q
<1> QED
  BY <1>1, <1>4, Zenon DEF Renewed

\* The trust value of a neighbour after a window.
LEMMA WindowRated ==
  ASSUME NEW r \in RecType, NEW h \in BOOLEAN, NEW i \in Nat, NEW d
  PROVE  d \in 512 .. 1150 /\ Told(h, r) /\ Rated(h, r.TV, i)
             /\ (\A k \in Kind : Sound(h, r.stat[k]))
           => /\ set_TV(r, d) \in RecType
              /\ Rated(h, set_TV(r, d).TV, IdleNow(r, i))
<1> DEFINE st == [k \in Kind |-> Judged(r.stat[k])]
           dt == DirectTrust(st)
           rec == RecommenTrust(r)
           act == ActivityDegree(r)
           v == (350 * dt + 100 * rec + 200 * r.TV + 225 * d + 125 * act) \div 1000
           w == IF r.TV = Wild \/ r.wild THEN Wild ELSE v
<1>6. set_TV(r, d) = [r EXCEPT !.stat = st, !.direct = dt, !.TV = w]
  BY DEF set_TV
<1>10. Fit(st, dt, w) => set_TV(r, d) \in RecType /\ set_TV(r, d).TV = w
  <2>1. set_TV(r, d) = Replaced(r, st, dt, w)
    BY <1>6, Zenon DEF Replaced
  <2> HIDE DEF w, dt, st
  <2>2. Fit(st, dt, w) => Renewed(Replaced(r, st, dt, w), w)
    BY ValueReplaced, Zenon
  <2> QED
    BY <2>1, <2>2, Zenon DEF Renewed
<1> SUFFICES ASSUME d \in 512 .. 1150, Told(h, r), Rated(h, r.TV, i),
                    \A k \in Kind : Sound(h, r.stat[k])
             PROVE  /\ set_TV(r, d) \in RecType
                    /\ Rated(h, set_TV(r, d).TV, IdleNow(r, i))
  OBVIOUS
<1>1. /\ r.stat \in [Kind -> StatType] /\ r.wild \in BOOLEAN
      /\ r.TV \in Nat \cup {Wild}
  BY DEF RecType
<1>2. \A k \in Kind : /\ st[k] = Judged(r.stat[k])
                       /\ r.stat[k] \in StatType
  BY <1>1
<1>3. /\ st \in [Kind -> StatType]
      /\ \A k \in Kind : st[k].corrects <= st[k].alls
      /\ h => \A k \in Kind : st[k].corrects = st[k].alls
      /\ ForwardsNothing(r.stat["data"])
           => st["data"].corrects = 0 /\ st["data"].alls >= Enough["data"]
  <2>1. ASSUME NEW k \in Kind
        PROVE  /\ st[k] \in StatType
               /\ st[k].corrects <= st[k].alls
               /\ h => st[k].corrects = st[k].alls
               /\ ForwardsNothing(r.stat[k])
                    => st[k].corrects = 0 /\ st[k].alls >= Enough["data"]
    <3> DEFINE s == r.stat[k]
    <3>1. s \in StatType /\ Sound(h, s) /\ st[k] = Judged(s)
      BY <1>2, <2>1
    <3> HIDE DEF s, st
    <3>2. /\ Judged(s) \in StatType
          /\ Judged(s).corrects <= Judged(s).alls
          /\ h => Judged(s).corrects = Judged(s).alls
          /\ ForwardsNothing(s)
               => Judged(s).corrects = 0 /\ Judged(s).alls >= Enough["data"]
      BY <3>1, JudgedFound
    <3> QED
      BY <3>1, <3>2 DEF s
  <2>2. "data" \in Kind
    BY DEF Kind
  <2>3. st = [k \in Kind |-> st[k]]
    OBVIOUS
  <2> HIDE DEF st
  <2>4. st \in [Kind -> StatType]
    BY <2>1, <2>3
  <2> QED
    BY <2>1, <2>2, <2>4
<1>4. /\ dt \in 0 .. 1000
      /\ h => dt >= 900
      /\ ForwardsNothing(r.stat["data"]) => dt <= 200
  <2> HIDE DEF st
  <2> QED
    BY <1>3, DirectTrustRange
<1>5. rec \in 0 .. 1000 /\ (h => rec >= 800) /\ act \in 400 .. 900
  BY RecommenTrustRange, ActivityRange
<1>9. v = (350 * dt + 100 * rec + 200 * r.TV + 225 * d + 125 * act) \div 1000
  OBVIOUS
<1> HIDE DEF st, dt, rec, act
<1>7. CASE r.TV = Wild \/ r.wild
  <2>1. w = Wild
    BY <1>7
  <2> HIDE DEF w
  <2> QED
    <3>1. Fit(st, dt, w)
      BY <1>3, <1>4, <2>1 DEF Fit
    <3>2. set_TV(r, d) \in RecType /\ set_TV(r, d).TV = w
      BY <1>10, <3>1
    <3> QED
      BY <2>1, <3>2 DEF Rated
<1>8. CASE ~(r.TV = Wild \/ r.wild)
  <2>1. /\ r.TV \in 0 .. 1050
        /\ h => r.TV >= 700
        /\ i >= 1 => r.TV <= 751
    BY <1>1, <1>8, SurroundingsAssumption DEF Rated, Wild, MaxTV, Sunk
  <2> HIDE DEF v
  <2>2. /\ v \in 0 .. 1050
        /\ h => v >= 700
        /\ dt <= 200 => v <= 751 /\ (r.TV <= 751 => v < 700)
    <3>1. dt \in 0 .. 1000 /\ rec \in 0 .. 1000 /\ act \in 400 .. 900
      BY <1>4, <1>5
    <3>2. /\ v \in 0 .. 1050
          /\ dt >= 900 /\ rec >= 800 /\ r.TV >= 700 => v >= 700
          /\ dt <= 200 => v <= 751 /\ (r.TV <= 751 => v < 700)
      <4> DEFINE tv == r.TV
      <4>1. /\ tv \in 0 .. 1050
            /\ v = (350 * dt + 100 * rec + 200 * tv + 225 * d + 125 * act) \div 1000
        BY <1>9, <2>1
      <4> HIDE DEF tv
      <4>2. /\ v \in 0 .. 1050
            /\ dt >= 900 /\ rec >= 800 /\ tv >= 700 => v >= 700
            /\ dt <= 200 => v <= 751 /\ (tv <= 751 => v < 700)
        BY <3>1, <4>1
      <4> QED
        BY <4>2 DEF tv
    <3> QED
      BY <1>4, <1>5, <2>1, <3>2
  <2>3. w = v
    BY <1>8
  <2> HIDE DEF w
  <2>4. set_TV(r, d) \in RecType /\ set_TV(r, d).TV = v
    <3>1. Fit(st, dt, w)
      BY <1>3, <1>4, <2>2, <2>3 DEF Fit
    <3>2. set_TV(r, d) \in RecType /\ set_TV(r, d).TV = w
      BY <1>10, <3>1
    <3> QED
      BY <2>3, <3>2
  <2>5. Rated(h, v, IdleNow(r, i))
    <3>1. CASE ForwardsNothing(r.stat["data"])
      BY <1>4, <2>1, <2>2, <3>1, SurroundingsAssumption DEF Rated, IdleNow, MaxTV, Sunk
    <3>2. CASE ~ForwardsNothing(r.stat["data"])
      BY <2>2, <3>2, SurroundingsAssumption DEF Rated, IdleNow, MaxTV, Sunk
    <3> QED
      BY <3>1, <3>2
  <2> QED
    BY <2>4, <2>5
<1> QED
  BY <1>7, <1>8

\* What TV_init leaves to the next window.
LEMMA Restarted ==
  ASSUME NEW q \in RecType, NEW h \in BOOLEAN
  PROVE  /\ TV_init(q) \in RecType
         /\ TV_init(q).TV = q.TV
         /\ Told(h, TV_init(q))
         /\ \A k \in Kind : TV_init(q).stat[k] \in {q.stat[k], Reset(q.stat[k])}
<1> DEFINE st == [k \in Kind |-> IF k = "data" /\ q.stat[k].alls < Enough[k]
                                   THEN q.stat[k] ELSE Reset(q.stat[k])]
<1>1. /\ q.stat \in [Kind -> StatType]
      /\ q.TV \in Nat \cup {Wild}
      /\ q.direct \in (0 .. 1000) \cup {Unset}
  BY DEF RecType
<1>2. \A s \in StatType : Reset(s) \in StatType
  BY DEF Reset, StatType
<1>3. TV_init(q) = [q EXCEPT !.stat = st, !.fenzi = 0, !.fenmu = 0, !.wild = FALSE,
                             !.trusted_nbs = 2, !.interact_nbs = 2, !.whole = TRUE]
  BY DEF TV_init
<1>4. TV_init(q) = [TV |-> q.TV, direct |-> q.direct, stat |-> st, fenzi |-> 0,
                    fenmu |-> 0, wild |-> FALSE, trusted_nbs |-> 2, interact_nbs |-> 2,
                    whole |-> TRUE]
  <2> HIDE DEF st
  <2> QED
    BY <1>3 DEF RecType
<1>5. st \in [Kind -> StatType]
  BY <1>1, <1>2
<1>6. \A k \in Kind : st[k] \in {q.stat[k], Reset(q.stat[k])}
  OBVIOUS
<1> HIDE DEF st
<1>7. TV_init(q) \in RecType
  BY <1>1, <1>4, <1>5 DEF RecType
<1>8. Told(h, TV_init(q))
  BY <1>4 DEF Told
<1> QED
  BY <1>4, <1>6, <1>7, <1>8

\* set_TV has the packets of both kinds judged.
LEMMA WindowJudged ==
  ASSUME NEW r \in RecType, NEW d
  PROVE  \A k \in Kind : set_TV(r, d).stat[k] = Judged(r.stat[k])
<1> DEFINE q == set_TV(r, d)
<1>1. \A k \in Kind : q.stat[k] = Judged(r.stat[k])
  <2> DEFINE st == [k \in Kind |-> Judged(r.stat[k])]
             dt == DirectTrust(st)
  <2>1. q.stat = st
    <3>1. \A x, y : [r EXCEPT !.stat = st, !.direct = x, !.TV = y].stat = st
      <4> HIDE DEF st
      <4> QED
        BY DEF RecType
    <3> QED
      BY <3>1 DEF set_TV
  <2> QED
    BY <2>1
<1> QED
  BY <1>1

\* A whole set_trust for one neighbour.
LEMMA WindowKept ==
  ASSUME NEW r \in RecType, NEW h \in BOOLEAN, NEW i \in Nat, NEW d \in 512 .. 1150,
         NEW b \in [Kind -> Int], Told(h, r), Rated(h, r.TV, i),
         \A k \in Kind : Counted(h, r.stat[k], b[k], Capacity[k]),
         h => \A k \in Kind : r.stat[k].old = 0
  PROVE  /\ set_TV(r, d) \in RecType
         /\ TV_init(set_TV(r, d)) \in RecType
         /\ Told(h, TV_init(set_TV(r, d)))
         /\ Rated(h, TV_init(set_TV(r, d)).TV, IdleNow(r, i))
         /\ \A k \in Kind :
              LET left == b[k] - (set_TV(r, d).stat[k].alls - r.stat[k].alls)
              IN  /\ left \in Int
                  /\ Counted(h, TV_init(set_TV(r, d)).stat[k], left, Capacity[k])
<1> DEFINE q == set_TV(r, d)
<1>1. q \in RecType /\ Rated(h, q.TV, IdleNow(r, i))
  <2>1. \A k \in Kind : Sound(h, r.stat[k])
    BY DEF Counted, Sound
  <2> QED
    BY <2>1, WindowRated, ZenonT(60)
<1>2. \A k \in Kind : q.stat[k] = Judged(r.stat[k])
  BY WindowJudged
<1> HIDE DEF q
<1>3. /\ TV_init(q) \in RecType
      /\ TV_init(q).TV = q.TV
      /\ Told(h, TV_init(q))
      /\ \A k \in Kind : TV_init(q).stat[k] \in {q.stat[k], Reset(q.stat[k])}
  BY <1>1, Restarted
<1>4. ASSUME NEW k \in Kind
      PROVE  /\ b[k] - (q.stat[k].alls - r.stat[k].alls) \in Int
             /\ Counted(h, TV_init(q).stat[k],
                        b[k] - (q.stat[k].alls - r.stat[k].alls), Capacity[k])
  <2> DEFINE s == r.stat[k]
             bk == b[k]
             cap == Capacity[k]
             j == Judged(s)
             z == TV_init(q).stat[k]
  <2>1. /\ s \in StatType /\ bk \in Int /\ cap \in Nat
        /\ Counted(h, s, bk, cap)
        /\ Sound(h, s)
        /\ q.stat[k] = j
        /\ z \in {j, Reset(j)}
    BY <1>2, <1>3, TrustAssumption DEF RecType, Counted, Sound
  <2> HIDE DEF s, bk, cap, z
  <2>2. /\ j \in StatType
        /\ j.corrects <= j.alls
        /\ h => j.corrects = j.alls
        /\ Held(j) = bk - (j.alls - s.alls)
        /\ Held(j) <= cap
    <3>1. /\ j \in StatType
          /\ j.corrects <= j.alls
          /\ h => j.corrects = j.alls
          /\ Held(j) = Held(s) - (j.alls - s.alls)
          /\ Held(j) <= Held(s)
          /\ Held(s) \in Nat
      BY <2>1, JudgedFound
    <3> HIDE DEF j
    <3>2. Held(j) \in Int
      BY <3>1 DEF StatType, Held
    <3> QED
      BY <2>1, <3>1, <3>2 DEF Counted
  <2>3. s.alls \in Nat
    BY <2>1 DEF StatType
  <2> HIDE DEF j
  <2>4. j.alls \in Nat
    BY <2>2 DEF StatType
  <2>5. /\ Reset(j).corrects = 0 /\ Reset(j).alls = 0
        /\ Held(Reset(j)) = Held(j)
    BY <2>2 DEF Reset, StatType, Held
  <2>6. Counted(h, z, bk - (j.alls - s.alls), cap)
    <3>1. CASE z = j
      BY <2>2, <3>1 DEF Counted
    <3>2. CASE z = Reset(j)
      BY <2>2, <2>5, <3>2 DEF Counted
    <3> QED
      BY <2>1, <3>1, <3>2
  <2> QED
    BY <2>1, <2>3, <2>4, <2>6 DEF s, bk, cap, z
<1> QED
  BY <1>1, <1>3, <1>4 DEF q

\* What is left of the RREPs of a neighbour after a window.
LEMMA JudgedTracked ==
  ASSUME NEW s \in StatType, NEW u \in BOOLEAN, NEW d \in SUBSET Age, Tracked(u, s, d),
         NEW z \in {Judged(s), Reset(Judged(s))}
  PROVE  Tracked(u, z, IF "new" \in d THEN {"old"} ELSE {})
<1>1. /\ s.ok \in Nat /\ s.old \in Nat /\ s.new \in Nat
  BY DEF StatType
<1>2. z.ok = 0 /\ z.old = s.new /\ z.new = 0
  <2> DEFINE j == Judged(s)
  <2>1. j \in StatType /\ j.ok = 0 /\ j.old = s.new /\ j.new = 0
    BY JudgedType DEF Judged
  <2> HIDE DEF j
  <2>2. Reset(j).ok = j.ok /\ Reset(j).old = j.old /\ Reset(j).new = j.new
    BY <2>1 DEF Reset, StatType
  <2>3. z \in {j, Reset(j)}
    BY DEF j
  <2> QED
    BY <2>1, <2>2, <2>3
<1>3. CASE u
  <2>1. s.ok + s.old + s.new <= 1 /\ (s.new > 0 => "new" \in d)
    BY <1>3 DEF Tracked, Held, Age
  <2>2. Held(z) <= 1
    BY <1>1, <1>2, <2>1 DEF Held
  <2> QED
    BY <1>2, <2>1, <2>2 DEF Tracked, Age
<1>4. CASE ~u
  BY <1>4 DEF Tracked
<1> QED
  BY <1>3, <1>4
-----------------------------------------------------------------------------
(* The actions. *)

\* What Inv says of one neighbour.
Good(n) ==
  /\ Told(n \in honest \ crowded, nb[n])
  /\ Rated(n \in honest \ crowded, nb[n].TV, idle[n])
  /\ \A k \in Kind : Counted(n \in honest \ crowded, nb[n].stat[k], balance[n][k], Capacity[k])
  /\ Tracked(n \notin crowded, nb[n].stat["control"], due[n])

LEMMA InvGood ==
  Inv <=> Typed /\ \A n \in Known : Good(n)
BY DEF Inv, Good

LEMMA InitInv ==
  Init => Inv
<1> SUFFICES ASSUME Init
             PROVE  Inv
  OBVIOUS
<1>1. Known = {}
  BY DEF Init, Known
<1>2. Typed
  BY <1>1 DEF Init, Typed, Known
<1> QED
  BY <1>1, <1>2 DEF Inv

\* The shape of one neighbour's state under Inv.
LEMMA OfNeighbor ==
  ASSUME Inv, NEW n \in Known
  PROVE  /\ nb[n] \in RecType
         /\ balance[n] \in [Kind -> Int]
         /\ idle[n] \in Nat
         /\ due[n] \in SUBSET Age
         /\ Told(n \in honest \ crowded, nb[n])
         /\ Rated(n \in honest \ crowded, nb[n].TV, idle[n])
         /\ \A k \in Kind :
              /\ nb[n].stat[k] \in StatType
              /\ Counted(n \in honest \ crowded, nb[n].stat[k], balance[n][k], Capacity[k])
         /\ Tracked(n \notin crowded, nb[n].stat["control"], due[n])
BY DEF Inv, Typed, RecType

\* A change to one neighbour that leaves its TV.
LEMMA NeighborChanged ==
  ASSUME Inv, NEW n \in Known, NEW r \in RecType, NEW b \in [Kind -> Int],
         NEW d \in SUBSET Age,
         nb' = [nb EXCEPT ![n] = r],
         balance' = [balance EXCEPT ![n] = b],
         due' = [due EXCEPT ![n] = d],
         crowded' \in {crowded, crowded \cup {n}},
         r.TV = nb[n].TV,
         Told(n \in honest \ crowded, r),
         \A k \in Kind : Counted(n \in honest \ crowded, r.stat[k], b[k], Capacity[k]),
         Tracked(n \notin crowded', r.stat["control"], d),
         UNCHANGED <<honest, early, idle>>
  PROVE  Inv'
<1>1. /\ nb' \in [Known -> RecType]
      /\ Known' = Known
      /\ nb'[n] = r /\ balance'[n] = b /\ due'[n] = d
      /\ \A m \in Known : m # n => /\ nb'[m] = nb[m] /\ balance'[m] = balance[m]
                                   /\ due'[m] = due[m]
  BY DEF Inv, Typed, Known
<1>2. /\ balance' \in [Known -> [Kind -> Int]]
      /\ due' \in [Known -> SUBSET Age]
      /\ crowded' \subseteq Known
  BY DEF Inv, Typed
<1>3. Typed'
  BY <1>1, <1>2 DEF Inv, Typed
<1>4. ASSUME NEW m \in Known
      PROVE  Good(m)'
  <2>1. CASE m = n
    <3> DEFINE h == n \in honest \ crowded
               g == n \in honest' \ crowded'
    <3>1. g => h
      OBVIOUS
    <3>2. /\ Told(h, r)
          /\ Rated(h, r.TV, idle[n])
          /\ \A k \in Kind : Counted(h, r.stat[k], b[k], Capacity[k])
      BY OfNeighbor
    <3> HIDE DEF g, h
    <3>3. /\ Told(g, r)
          /\ Rated(g, r.TV, idle[n])
          /\ \A k \in Kind : Counted(g, r.stat[k], b[k], Capacity[k])
      BY <3>1, <3>2, Zenon DEF Told, Rated, Counted
    <3> QED
      BY <1>1, <2>1, <3>3 DEF Good, g
  <2>2. CASE m # n
    <3>1. Good(m) /\ (m \in crowded' <=> m \in crowded)
      BY <2>2, InvGood
    <3> QED
      BY <1>1, <2>2, <3>1 DEF Good
  <2> QED
    BY <2>1, <2>2
<1> QED
  BY <1>1, <1>3, <1>4, InvGood DEF Inv, Good

\* A neighbour whose counts are replaced.
LEMMA StatReplaced ==
  ASSUME NEW z \in RecType, NEW st \in [Kind -> StatType]
  PROVE  LET r == [z EXCEPT !.stat = st]
         IN  /\ r \in RecType
             /\ r.TV = z.TV /\ r.stat = st /\ r.fenzi = z.fenzi /\ r.fenmu = z.fenmu
             /\ r.trusted_nbs = z.trusted_nbs /\ r.interact_nbs = z.interact_nbs
<1> DEFINE r == [z EXCEPT !.stat = st]
<1>1. r = [TV |-> z.TV, direct |-> z.direct, stat |-> st, fenzi |-> z.fenzi,
           fenmu |-> z.fenmu, wild |-> z.wild, trusted_nbs |-> z.trusted_nbs,
           interact_nbs |-> z.interact_nbs, whole |-> z.whole]
  BY SMTT(30) DEF RecType
<1> HIDE DEF r
<1>2. r \in RecType
  BY <1>1, SMTT(30) DEF RecType
<1>3. /\ r.TV = z.TV /\ r.stat = st /\ r.fenzi = z.fenzi /\ r.fenmu = z.fenmu
      /\ r.trusted_nbs = z.trusted_nbs /\ r.interact_nbs = z.interact_nbs
  BY <1>1, SMTT(30)
<1> QED
  BY <1>2, <1>3, Zenon DEF r

\* A change to what is counted of one kind of packet at one neighbour.
LEMMA StatChanged ==
  ASSUME Inv, NEW n \in Known, NEW k \in Kind, NEW s \in StatType, NEW b \in Int,
         NEW d \in SUBSET Age,
         nb' = [nb EXCEPT ![n].stat[k] = s],
         balance' = [balance EXCEPT ![n][k] = b],
         due' = [due EXCEPT ![n] = d],
         crowded' \in {crowded, crowded \cup {n}},
         Counted(n \in honest \ crowded, s, b, Capacity[k]),
         k = "control" => Tracked(n \notin crowded', s, d),
         k = "data" => d = due[n] /\ crowded' = crowded,
         UNCHANGED <<honest, early, idle>>
  PROVE  Inv'
<1> DEFINE z == nb[n]
           st == [z.stat EXCEPT ![k] = s]
           r == [z EXCEPT !.stat = st]
           bn == [balance[n] EXCEPT ![k] = b]
<1>1. /\ nb \in [Known -> RecType] /\ z \in RecType
      /\ z.stat \in [Kind -> StatType]
      /\ balance \in [Known -> [Kind -> Int]]
  BY DEF Inv, Typed, RecType
<1>2. /\ st \in [Kind -> StatType]
      /\ st[k] = s
      /\ \A j \in Kind : j # k => st[j] = z.stat[j]
  BY <1>1
<1>3. /\ nb' = [nb EXCEPT ![n] = r]
      /\ balance' = [balance EXCEPT ![n] = bn]
  OBVIOUS
<1>4. /\ bn \in [Kind -> Int]
      /\ bn[k] = b
      /\ \A j \in Kind : j # k => bn[j] = balance[n][j]
  BY <1>1
<1>5. r = [z EXCEPT !.stat = st]
  OBVIOUS
<1> HIDE DEF st, z, bn, r
<1>6. /\ r \in RecType
      /\ r.TV = z.TV /\ r.stat = st /\ r.fenzi = z.fenzi /\ r.fenmu = z.fenmu
      /\ r.trusted_nbs = z.trusted_nbs /\ r.interact_nbs = z.interact_nbs
  BY <1>1, <1>2, <1>5, StatReplaced
<1>7. /\ Told(n \in honest \ crowded, z)
      /\ \A j \in Kind : Counted(n \in honest \ crowded, z.stat[j], balance[n][j], Capacity[j])
      /\ Tracked(n \notin crowded, z.stat["control"], due[n])
  BY OfNeighbor DEF z
<1>8. Told(n \in honest \ crowded, r)
  BY <1>6, <1>7 DEF Told
<1>9. ASSUME NEW j \in Kind
      PROVE  Counted(n \in honest \ crowded, r.stat[j], bn[j], Capacity[j])
  BY <1>2, <1>4, <1>6, <1>7
<1>10. Tracked(n \notin crowded', r.stat["control"], d)
  <2>1. CASE k = "control"
    BY <1>2, <1>6, <2>1
  <2>2. CASE k = "data"
    BY <1>2, <1>6, <1>7, <2>2 DEF Kind
  <2> QED
    BY <2>1, <2>2 DEF Kind
<1>11. r.TV = nb[n].TV
  BY <1>6 DEF z
<1> QED
  BY <1>3, <1>4, <1>6, <1>8, <1>9, <1>10, <1>11, NeighborChanged

LEMMA DeliveredCounted ==
  ASSUME NEW s \in StatType
  PROVE  /\ Delivered(s) \in StatType
         /\ Delivered(s).corrects = s.corrects + 1
         /\ Delivered(s).alls = s.alls + 1
         /\ Held(Delivered(s)) = Held(s)
         /\ s.corrects \in Nat /\ s.alls \in Nat /\ Held(s) \in Nat
<1>1. /\ s.corrects \in Nat /\ s.alls \in Nat
      /\ s.ok \in Nat /\ s.old \in Nat /\ s.new \in Nat
  BY DEF StatType
<1>2. Delivered(s) = [corrects |-> s.corrects + 1, alls |-> s.alls + 1, ok |-> s.ok,
                      old |-> s.old, new |-> s.new]
  <2> DEFINE x == s.corrects + 1
             y == s.alls + 1
  <2>1. Delivered(s) = [s EXCEPT !.corrects = x, !.alls = y]
    BY DEF Delivered
  <2> HIDE DEF x, y
  <2>2. Delivered(s) = [corrects |-> x, alls |-> y, ok |-> s.ok, old |-> s.old, new |-> s.new]
    BY <2>1 DEF StatType
  <2> QED
    BY <2>2 DEF x, y
<1> QED
  BY <1>1, <1>2 DEF StatType, Held

LEMMA HeardCounted ==
  ASSUME NEW s \in StatType, NEW age \in Age, s[age] > 0
  PROVE  /\ Heard(s, age) \in StatType
         /\ Heard(s, age).corrects = s.corrects
         /\ Heard(s, age).alls = s.alls
         /\ Held(Heard(s, age)) = Held(s)
         /\ Heard(s, age)[age] = s[age] - 1
         /\ \A a \in Age \ {age} : Heard(s, age)[a] = s[a]
<1>1. /\ s.corrects \in Nat /\ s.alls \in Nat
      /\ s.ok \in Nat /\ s.old \in Nat /\ s.new \in Nat
  BY DEF StatType
<1>2. CASE age = "old"
  <2>1. Heard(s, age) = [corrects |-> s.corrects, alls |-> s.alls, ok |-> s.ok + 1,
                         old |-> s.old - 1, new |-> s.new]
    <3> DEFINE x == s.ok + 1
               y == s.old - 1
    <3>1. Heard(s, age) = [s EXCEPT !.old = y, !.ok = x]
      BY <1>2 DEF Heard
    <3> HIDE DEF x, y
    <3>2. Heard(s, age) = [corrects |-> s.corrects, alls |-> s.alls, ok |-> x,
                           old |-> y, new |-> s.new]
      BY <3>1 DEF StatType
    <3> QED
      BY <3>2 DEF x, y
  <2>2. s.old > 0
    BY <1>2
  <2> QED
    BY <1>1, <1>2, <2>1, <2>2 DEF StatType, Held, Age
<1>3. CASE age = "new"
  <2>1. Heard(s, age) = [corrects |-> s.corrects, alls |-> s.alls, ok |-> s.ok + 1,
                         old |-> s.old, new |-> s.new - 1]
    <3> DEFINE x == s.ok + 1
               y == s.new - 1
    <3>1. Heard(s, age) = [s EXCEPT !.new = y, !.ok = x]
      BY <1>3 DEF Heard
    <3> HIDE DEF x, y
    <3>2. Heard(s, age) = [corrects |-> s.corrects, alls |-> s.alls, ok |-> x,
                           old |-> s.old, new |-> y]
      BY <3>1 DEF StatType
    <3> QED
      BY <3>2 DEF x, y
  <2>2. s.new > 0
    BY <1>3
  <2> QED
    BY <1>1, <1>3, <2>1, <2>2 DEF StatType, Held, Age
<1> QED
  BY <1>2, <1>3 DEF Age

LEMMA YoungerCounted ==
  ASSUME NEW s \in StatType
  PROVE  /\ Younger(s) \in StatType
         /\ Younger(s).corrects = s.corrects
         /\ Younger(s).alls = s.alls
         /\ Held(Younger(s)) = Held(s) + 1
         /\ Handed \in Age
         /\ \A age \in Age \ {Handed} : Younger(s)[age] = s[age]
<1>1. /\ s.corrects \in Nat /\ s.alls \in Nat
      /\ s.ok \in Nat /\ s.old \in Nat /\ s.new \in Nat
  BY DEF StatType
<1>2. CASE Handed = "old"
  <2> DEFINE x == s.old + 1
  <2>1. Younger(s) = [s EXCEPT !.old = x]
    BY <1>2 DEF Younger
  <2> HIDE DEF x
  <2>2. Younger(s) = [corrects |-> s.corrects, alls |-> s.alls, ok |-> s.ok,
                      old |-> x, new |-> s.new]
    BY <2>1 DEF StatType
  <2>3. Younger(s) = [corrects |-> s.corrects, alls |-> s.alls, ok |-> s.ok,
                      old |-> s.old + 1, new |-> s.new]
    BY <2>2 DEF x
  <2> QED
    BY <1>1, <1>2, <2>3 DEF StatType, Held, Age
<1>3. CASE Handed = "new"
  <2> DEFINE x == s.new + 1
  <2>1. Younger(s) = [s EXCEPT !.new = x]
    BY <1>3 DEF Younger
  <2> HIDE DEF x
  <2>2. Younger(s) = [corrects |-> s.corrects, alls |-> s.alls, ok |-> s.ok,
                      old |-> s.old, new |-> x]
    BY <2>1 DEF StatType
  <2>3. Younger(s) = [corrects |-> s.corrects, alls |-> s.alls, ok |-> s.ok,
                      old |-> s.old, new |-> s.new + 1]
    BY <2>2 DEF x
  <2> QED
    BY <1>1, <1>3, <2>3 DEF StatType, Held, Age
<1> QED
  BY <1>2, <1>3 DEF Handed

\* A RREP heard leaves none to be heard where there is only one.
LEMMA FirstHeardCounted ==
  ASSUME NEW s \in StatType
  PROVE  /\ FirstHeard(s) \in StatType
         /\ FirstHeard(s).corrects = s.corrects
         /\ FirstHeard(s).alls = s.alls
         /\ Held(FirstHeard(s)) = Held(s)
         /\ Held(s) <= 1 => \A age \in Age : ~(FirstHeard(s)[age] > 0)
<1>1. /\ s.ok \in Nat /\ s.old \in Nat /\ s.new \in Nat
      /\ Held(s) = s.ok + s.old + s.new
  BY DEF StatType, Held
<1>2. Age = {"old", "new"}
  BY DEF Age
<1>3. CASE s.ok > 0 \/ Held(s) = 0
  <2>1. FirstHeard(s) = s
    BY <1>3 DEF FirstHeard
  <2> QED
    BY <1>1, <1>2, <1>3, <2>1
<1>4. CASE ~(s.ok > 0 \/ Held(s) = 0) /\ s.old > 0
  <2>1. FirstHeard(s) = Heard(s, "old")
    BY <1>4 DEF FirstHeard
  <2>2. /\ Heard(s, "old").old = s.old - 1
        /\ Heard(s, "old").new = s.new
        /\ Heard(s, "old") \in StatType
        /\ Heard(s, "old").corrects = s.corrects
        /\ Heard(s, "old").alls = s.alls
        /\ Held(Heard(s, "old")) = Held(s)
    BY <1>2, <1>4, HeardCounted
  <2> QED
    BY <1>1, <1>2, <1>4, <2>1, <2>2
<1>5. CASE ~(s.ok > 0 \/ Held(s) = 0) /\ ~(s.old > 0)
  <2>1. FirstHeard(s) = Heard(s, "new") /\ s.new > 0
    BY <1>1, <1>5 DEF FirstHeard
  <2>2. /\ Heard(s, "new").new = s.new - 1
        /\ Heard(s, "new").old = s.old
        /\ Heard(s, "new") \in StatType
        /\ Heard(s, "new").corrects = s.corrects
        /\ Heard(s, "new").alls = s.alls
        /\ Held(Heard(s, "new")) = Held(s)
    BY <1>2, <2>1, HeardCounted
  <2> QED
    BY <1>1, <1>2, <1>5, <2>1, <2>2
<1> QED
  BY <1>3, <1>4, <1>5

LEMMA ForwardInv ==
  ASSUME Inv, NEW n, NEW k \in Kind, Forward(n, k)
  PROVE  Inv'
<1> DEFINE s == nb[n].stat[k]
           b == balance[n][k]
           h == n \in honest \ crowded
<1>1. /\ n \in Known /\ s \in StatType /\ b \in Int /\ Capacity[k] \in Nat
      /\ Counted(h, s, b, Capacity[k])
      /\ due[n] \in SUBSET Age
      /\ k = "control" => Tracked(n \notin crowded, s, due[n])
  BY OfNeighbor, TrustAssumption DEF Forward
<1>2. /\ nb \in [Known -> RecType] /\ balance \in [Known -> [Kind -> Int]]
      /\ due \in [Known -> SUBSET Age]
      /\ balance[n] \in [Kind -> Int]
      /\ UNCHANGED <<honest, early, idle>>
  BY <1>1 DEF Inv, Typed, Forward
<1>3. CASE Deliver(n, k)
  <2> DEFINE z == Delivered(s)
             d == due[n]
  <2>1. nb' = [nb EXCEPT ![n].stat[k] = z]
    BY <1>3 DEF Deliver
  <2>2. /\ balance' = [balance EXCEPT ![n][k] = b]
        /\ due' = [due EXCEPT ![n] = d]
        /\ crowded' = crowded
    BY <1>1, <1>2, <1>3 DEF Deliver
  <2>3. z \in StatType /\ Counted(h, z, b, Capacity[k])
    <3> HIDE DEF s, b, h
    <3> QED
      BY <1>1, DeliveredCounted DEF Counted
  <2>4. k = "control" => Tracked(n \notin crowded', z, d)
    <3>1. /\ Held(z) = Held(s)
          /\ z.old = s.old /\ z.new = s.new
      <4> HIDE DEF s
      <4> QED
        BY <1>1 DEF Delivered, StatType, Held
    <3> HIDE DEF z, s, d
    <3> QED
      BY <1>1, <2>2, <3>1 DEF Tracked, Age, d
  <2> HIDE DEF z, b, d, h
  <2> QED
    BY <1>1, <1>2, <2>1, <2>2, <2>3, <2>4, StatChanged DEF h, d
<1>4. CASE Relay(n, k)
  <2> DEFINE d == IF k = "control" THEN due[n] \cup {Handed} ELSE due[n]
  <2>1. /\ due' = [due EXCEPT ![n] = d]
        /\ crowded' = IF k = "control" /\ Held(s) > 0 THEN crowded \cup {n} ELSE crowded
        /\ IF HasRoom(s, k)
             THEN /\ nb' = [nb EXCEPT ![n].stat[k] = Younger(@)]
                  /\ balance' = [balance EXCEPT ![n][k] = @ + 1]
             ELSE UNCHANGED <<nb, balance>>
    BY <1>1, <1>2, <1>4 DEF Relay
  <2>2. d \in SUBSET Age /\ crowded' \in {crowded, crowded \cup {n}}
    BY <1>1, <2>1, YoungerCounted
  <2>3. CASE HasRoom(s, k)
    <3> DEFINE z == Younger(s)
               y == b + 1
    <3>1. /\ nb' = [nb EXCEPT ![n].stat[k] = z]
          /\ balance' = [balance EXCEPT ![n][k] = y]
      BY <2>1, <2>3
    <3>2. /\ z \in StatType /\ z.corrects = s.corrects /\ z.alls = s.alls
          /\ Held(z) = Held(s) + 1
          /\ Handed \in Age
          /\ \A age \in Age \ {Handed} : z[age] = s[age]
          /\ Held(s) \in Nat
      <4> HIDE DEF s
      <4> QED
        BY <1>1, YoungerCounted, DeliveredCounted
    <3>3. Counted(h, z, y, Capacity[k])
      <4> HIDE DEF s, b, z, h
      <4> QED
        BY <1>1, <2>3, <3>2 DEF Counted, HasRoom
    <3>4. k = "control" => Tracked(n \notin crowded', z, d)
      <4> HIDE DEF s, z
      <4> QED
        BY <1>1, <2>1, <3>2 DEF Tracked
    <3>5. y \in Int
      BY <1>1
    <3>6. k = "data" => d = due[n] /\ crowded' = crowded
      BY <2>1
    <3> HIDE DEF z, y, d, h
    <3> QED
      BY <1>1, <1>2, <2>1, <2>2, <3>1, <3>2, <3>3, <3>4, <3>5, <3>6, StatChanged DEF h
  <2>4. CASE ~HasRoom(s, k)
    <3> DEFINE r == nb[n]
               bn == balance[n]
    <3>1. /\ nb' = [nb EXCEPT ![n] = r]
          /\ balance' = [balance EXCEPT ![n] = bn]
          /\ r \in RecType /\ bn \in [Kind -> Int]
      BY <1>1, <1>2, <2>1, <2>4
    <3>2. /\ Told(h, r)
          /\ \A j \in Kind : Counted(h, r.stat[j], bn[j], Capacity[j])
          /\ Tracked(n \notin crowded, r.stat["control"], due[n])
      BY <1>1, OfNeighbor
    <3>3. Tracked(n \notin crowded', r.stat["control"], d)
      BY <1>1, <2>1, <3>2 DEF Tracked
    <3>4. r.TV = nb[n].TV
      OBVIOUS
    <3> HIDE DEF r, bn, d, h
    <3> QED
      BY <1>1, <1>2, <2>1, <2>2, <3>1, <3>2, <3>3, <3>4, NeighborChanged DEF h
  <2> QED
    BY <2>3, <2>4
<1> QED
  BY <1>3, <1>4 DEF Forward

LEMMA TapInv ==
  ASSUME Inv, NEW n, NEW k \in Kind, tap(n, k)
  PROVE  Inv'
<1> DEFINE s == nb[n].stat[k]
           b == balance[n][k]
           h == n \in honest \ crowded
<1>1. /\ n \in Known /\ s \in StatType /\ b \in Int /\ Capacity[k] \in Nat
      /\ Counted(h, s, b, Capacity[k])
      /\ due[n] \in SUBSET Age
      /\ k = "control" => Tracked(n \notin crowded, s, due[n])
  BY OfNeighbor, TrustAssumption DEF tap
<1>2. /\ nb \in [Known -> RecType] /\ balance \in [Known -> [Kind -> Int]]
      /\ due \in [Known -> SUBSET Age]
      /\ UNCHANGED <<honest, early, idle, balance, crowded>>
  BY DEF Inv, Typed, tap
<1>3. balance' = [balance EXCEPT ![n][k] = b]
  BY <1>1, <1>2
<1>4. CASE k = "data"
  <2>1. PICK age \in Age :
          /\ s[age] > 0
          /\ nb' = [nb EXCEPT ![n].stat[k] = Heard(@, age)]
    BY <1>4 DEF tap
  <2> DEFINE z == Heard(s, age)
             d == due[n]
  <2>2. nb' = [nb EXCEPT ![n].stat[k] = z]
    BY <2>1
  <2>3. z \in StatType /\ Counted(h, z, b, Capacity[k])
    <3> HIDE DEF s, b, h
    <3> QED
      BY <1>1, <2>1, HeardCounted DEF Counted
  <2>4. due' = [due EXCEPT ![n] = d]
    BY <1>2, <1>4 DEF tap
  <2>5. k = "control" => Tracked(n \notin crowded', z, d)
    BY <1>4
  <2> HIDE DEF z, b, d, h
  <2> QED
    BY <1>1, <1>2, <1>3, <2>2, <2>3, <2>4, <2>5, StatChanged DEF h, d
<1>5. CASE k = "control"
  <2> DEFINE z == FirstHeard(s)
  <2>1. nb' = [nb EXCEPT ![n].stat[k] = z]
    BY <1>5 DEF tap
  <2>2. PICK d \in SUBSET Age : due' = [due EXCEPT ![n] = d]
    <3>1. CASE UNCHANGED due
      BY <1>1, <1>2, <3>1
    <3>2. CASE \E age \in Age : due' = [due EXCEPT ![n] = @ \ {age}]
      <4>1. PICK age \in Age : due' = [due EXCEPT ![n] = due[n] \ {age}]
        BY <3>2
      <4>2. due[n] \ {age} \in SUBSET Age
        BY <1>1
      <4> QED
        BY <4>1, <4>2
    <3> QED
      BY <1>5, <3>1, <3>2 DEF tap
  <2>3. /\ z \in StatType /\ z.corrects = s.corrects /\ z.alls = s.alls
        /\ Held(z) = Held(s)
        /\ Held(s) <= 1 => \A age \in Age : ~(z[age] > 0)
    <3> HIDE DEF s
    <3> QED
      BY <1>1, FirstHeardCounted
  <2> HIDE DEF z
  <2>4. Counted(h, z, b, Capacity[k])
    <3> HIDE DEF s, b, h
    <3> QED
      BY <1>1, <2>3 DEF Counted
  <2>5. k = "control" => Tracked(n \notin crowded', z, d)
    <3> HIDE DEF s
    <3> QED
      BY <1>1, <1>2, <2>3 DEF Tracked
  <2>6. k = "data" => d = due[n] /\ crowded' = crowded
    BY <1>5
  <2> HIDE DEF b, h
  <2> QED
    BY <1>1, <1>2, <1>3, <2>1, <2>2, <2>3, <2>4, <2>5, <2>6, StatChanged DEF h
<1> QED
  BY <1>4, <1>5 DEF Kind

LEMMA InsertInv ==
  ASSUME Inv, NEW n \in Neighbor, nb_insert(n)
  PROVE  Inv'
<1>1. /\ NewNeighbor \in RecType
      /\ NewNeighbor.TV = 1000
      /\ \A k \in Kind : NewNeighbor.stat[k] = NoCount
      /\ Told(n \in honest \ crowded, NewNeighbor)
  <2>1. NewNeighbor \in RecType
    BY DEF NewNeighbor, RecType, NoCount, StatType, Unset, Inv, Typed
  <2>2. /\ NewNeighbor.TV = 1000 /\ NewNeighbor.fenzi = 0 /\ NewNeighbor.fenmu = 0
        /\ NewNeighbor.trusted_nbs = 2 /\ NewNeighbor.interact_nbs = 2
        /\ \A k \in Kind : NewNeighbor.stat[k] = NoCount
    BY DEF NewNeighbor
  <2> HIDE DEF NewNeighbor
  <2> QED
    BY <2>1, <2>2 DEF Told
<1>2. /\ Known' = Known \cup {n}
      /\ nb' \in [Known \cup {n} -> RecType]
      /\ balance' \in [Known \cup {n} -> [Kind -> Int]]
      /\ idle' \in [Known \cup {n} -> Nat]
      /\ due' \in [Known \cup {n} -> SUBSET Age] /\ due'[n] = {}
      /\ \A m \in Known : due'[m] = due[m]
      /\ n \notin Known
      /\ nb'[n] = NewNeighbor /\ idle'[n] = 0 /\ \A k \in Kind : balance'[n][k] = 0
      /\ \A m \in Known : nb'[m] = nb[m] /\ balance'[m] = balance[m] /\ idle'[m] = idle[m]
      /\ UNCHANGED <<honest, early, crowded>>
  <2> HIDE DEF NewNeighbor
  <2> QED
    BY <1>1 DEF nb_insert, Inv, Typed, Known
<1>3. Typed'
  BY <1>2 DEF Inv, Typed
<1>4. Good(n)'
  <2>1. /\ Told(n \in honest \ crowded, NewNeighbor)
        /\ Rated(n \in honest \ crowded, 1000, 0)
    <3>1. Rated(n \in honest \ crowded, 1000, 0)
      BY SurroundingsAssumption DEF Rated, MaxTV, Sunk
    <3> QED
      BY <1>1, <3>1
  <2>2. ASSUME NEW k \in Kind
        PROVE  Counted(n \in honest \ crowded, NoCount, 0, Capacity[k])
    <3>1. Capacity[k] \in Nat
      BY TrustAssumption
    <3> QED
      BY <3>1 DEF Counted, NoCount, Held
  <2>3. Tracked(n \notin crowded, NoCount, {})
    BY DEF Tracked, NoCount, Held, Age
  <2>4. "control" \in Kind
    BY DEF Kind
  <2> HIDE DEF NewNeighbor
  <2> QED
    BY <1>1, <1>2, <2>1, <2>2, <2>3, <2>4 DEF Good
<1>5. ASSUME NEW m \in Known
      PROVE  Good(m)'
  BY <1>2, InvGood DEF Good
<1> QED
  BY <1>2, <1>3, <1>4, <1>5 DEF Inv, Good

LEMMA DeleteInv ==
  ASSUME Inv, NEW n \in Neighbor, nb_delete(n)
  PROVE  Inv'
<1>1. /\ Known' = Known \ {n}
      /\ nb' \in [Known \ {n} -> RecType]
      /\ balance' \in [Known \ {n} -> [Kind -> Int]]
      /\ idle' \in [Known \ {n} -> Nat]
      /\ due' \in [Known \ {n} -> SUBSET Age]
      /\ crowded' = crowded \ {n}
      /\ \A m \in Known \ {n} :
           nb'[m] = nb[m] /\ balance'[m] = balance[m] /\ idle'[m] = idle[m] /\ due'[m] = due[m]
      /\ UNCHANGED <<honest, early>>
  BY DEF nb_delete, Inv, Typed, Known
<1>2. Typed'
  BY <1>1 DEF Inv, Typed
<1>3. ASSUME NEW m \in Known \ {n}
      PROVE  Good(m)'
  BY <1>1, InvGood DEF Good
<1> QED
  BY <1>1, <1>2, <1>3 DEF Inv, Good


\* What one recommendation adds to fenzi, given that it adds dt to fenmu.
LEMMA Recommended ==
  ASSUME NEW dt \in 0 .. 1000, NEW o \in Nat, o <= 1000
  PROVE  /\ dt * o \in Nat
         /\ dt * o <= 1000 * dt
         /\ o >= 800 => 800 * dt <= dt * o
<1>1. dt \in Nat /\ 0 \in Nat /\ 1000 \in Nat /\ 800 \in Nat /\ 0 <= o
  OBVIOUS
<1>2. dt * o \in Nat /\ dt * o <= 1000 * dt
  BY <1>1, Scaled
<1>3. ASSUME o >= 800
      PROVE  800 * dt <= dt * o
  <2>1. 800 <= o /\ o <= 1000
    BY <1>3
  <2> QED
    BY <1>1, <2>1, Scaled
<1> QED
  BY <1>2, <1>3

LEMMA RcomInv ==
  ASSUME Inv, NEW n \in Neighbor, NEW it_num \in Met,
         NEW named \in SUBSET (Neighbor \ {n}), NEW about \in [named -> Opinions],
         \A m \in honest \cap named : about[m] \in GoodOpinions,
         recvRcom(n, about, it_num)
  PROVE  Inv'
<1> DEFINE unset == nb[n].direct = Unset
           dt == IF unset THEN 0 ELSE nb[n].direct
           told(m) == [nb[m] EXCEPT !.fenzi = @ + dt * about[m], !.fenmu = @ + dt,
                                    !.wild = @ \/ unset,
                                    !.trusted_nbs = IF about[m] >= TrustThreshold
                                                      THEN @ + 1 ELSE @]
           met == [nb[n] EXCEPT !.interact_nbs = @ + it_num]
           f(m) == IF m = n THEN met ELSE IF m \in named THEN told(m) ELSE nb[m]
<1>1. /\ n \in Known
      /\ nb' = [m \in Known |-> f(m)]
      /\ UNCHANGED <<honest, due, early, balance, idle, crowded>>
  BY DEF recvRcom
<1>2. dt \in 0 .. 1000
  <2>1. nb[n] \in RecType
    <3>1. n \in Known
      BY <1>1
    <3> QED
      BY <3>1, OfNeighbor
  <2>2. nb[n].direct \in (0 .. 1000) \cup {Unset}
    BY <2>1 DEF RecType
  <2> QED
    BY <2>2
<1>3. ASSUME NEW m \in Known
      PROVE  /\ f(m) \in RecType
             /\ f(m).TV = nb[m].TV /\ f(m).stat = nb[m].stat
             /\ Told(m \in honest \ crowded, f(m))
  <2> DEFINE r == nb[m]
             h == m \in honest \ crowded
  <2>1. r \in RecType /\ h \in BOOLEAN /\ Told(h, r)
    BY OfNeighbor
  <2>2. CASE m = n
    <3> DEFINE x == r.interact_nbs + it_num
    <3>1. /\ r.interact_nbs \in Nat /\ r.interact_nbs >= 2 /\ it_num \in Nat
      BY <2>1, TrustAssumption DEF RecType, Told
    <3>2. x \in Nat /\ x >= 2
      BY <3>1
    <3>3. f(m) = [r EXCEPT !.interact_nbs = x]
      BY <2>2
    <3> HIDE DEF x, r, f
    <3>4. f(m) = [TV |-> r.TV, direct |-> r.direct, stat |-> r.stat, fenzi |-> r.fenzi,
                  fenmu |-> r.fenmu, wild |-> r.wild, trusted_nbs |-> r.trusted_nbs,
                  interact_nbs |-> x, whole |-> r.whole]
      BY <2>1, <3>3 DEF RecType
    <3>5. f(m) \in RecType
      BY <2>1, <3>2, <3>4 DEF RecType
    <3>6. Told(h, f(m))
      BY <2>1, <3>2, <3>4 DEF Told
    <3> QED
      BY <3>4, <3>5, <3>6 DEF r
  <2>3. CASE m # n /\ m \in named
    <3> DEFINE o == about[m]
               w == r.wild \/ unset
               t == IF o >= TrustThreshold THEN r.trusted_nbs + 1 ELSE r.trusted_nbs
               x == r.fenzi + dt * o
               y == r.fenmu + dt
    <3>1. o \in Nat /\ o <= 1000 /\ (h => o >= 800)
      <4>1. o \in Opinions
        BY <2>3
      <4>2. h => o \in GoodOpinions
        BY <2>3
      <4> HIDE DEF o, h
      <4> QED
        BY <4>1, <4>2, TrustAssumption, SurroundingsAssumption
    <3>2. w \in BOOLEAN /\ t \in Nat /\ t >= 2
      BY <2>1 DEF RecType, Told
    <3>3. f(m) = [r EXCEPT !.fenzi = x, !.fenmu = y, !.wild = w, !.trusted_nbs = t]
      BY <2>3
    <3> HIDE DEF o, dt, r, h, f
    <3>4. /\ r.fenzi \in Nat /\ r.fenmu \in Nat /\ r.fenzi <= 1000 * r.fenmu
          /\ h => 800 * r.fenmu <= r.fenzi
      BY <2>1 DEF RecType, Told
    <3>5. x \in Nat /\ y \in Nat /\ x <= 1000 * y /\ (h => 800 * y <= x)
      <4> DEFINE fz == r.fenzi
                 fm == r.fenmu
      <4>1. /\ fz \in Nat /\ fm \in Nat /\ fz <= 1000 * fm
            /\ h => 800 * fm <= fz
        BY <3>4
      <4> HIDE DEF fz, fm
      <4> DEFINE u == dt * o
      <4>2. u \in Nat /\ u <= 1000 * dt /\ (o >= 800 => 800 * dt <= u)
        BY <1>2, <3>1, Recommended
      <4> HIDE DEF u
      <4>3. /\ fz + u \in Nat /\ fm + dt \in Nat
            /\ fz + u <= 1000 * (fm + dt)
            /\ h => 800 * (fm + dt) <= fz + u
        BY <1>2, <3>1, <4>1, <4>2
      <4> QED
        BY <4>3 DEF fz, fm, u
    <3> HIDE DEF x, y, w, t
    <3>6. f(m) = [TV |-> r.TV, direct |-> r.direct, stat |-> r.stat, fenzi |-> x,
                  fenmu |-> y, wild |-> w, trusted_nbs |-> t,
                  interact_nbs |-> r.interact_nbs, whole |-> r.whole]
      BY <2>1, <3>3 DEF RecType
    <3>7. f(m) \in RecType
      BY <2>1, <3>2, <3>5, <3>6 DEF RecType
    <3>8. Told(h, f(m))
      BY <2>1, <3>2, <3>5, <3>6 DEF Told
    <3> QED
      BY <3>6, <3>7, <3>8 DEF r, h
  <2>4. CASE m # n /\ m \notin named
    BY <2>1, <2>4
  <2> QED
    BY <2>2, <2>3, <2>4
<1> HIDE DEF f
<1>4. Typed'
  BY <1>1, <1>3 DEF Inv, Typed, Known
<1>5. ASSUME NEW m \in Known
      PROVE  Good(m)'
  <2>1. nb'[m] = f(m)
    BY <1>1
  <2>2. Good(m)
    BY InvGood
  <2> QED
    BY <1>1, <1>3, <2>1, <2>2 DEF Good
<1>6. Known' = Known
  BY <1>1 DEF Known
<1> QED
  BY <1>4, <1>5, <1>6 DEF Inv, Good

LEMMA SetTrustInv ==
  ASSUME Inv, set_trust
  PROVE  Inv'
<1>1. PICK heard \in [Known -> Delivery] :
        LET after == [n \in Known |-> set_TV(nb[n], IF nb[n].whole THEN heard[n] ELSE 800)]
        IN  /\ nb' = [n \in Known |-> TV_init(after[n])]
            /\ balance' = [n \in Known |-> [k \in Kind |->
                 balance[n][k] - (after[n].stat[k].alls - nb[n].stat[k].alls)]]
            /\ idle' = [n \in Known |->
                 IF ForwardsNothing(nb[n].stat["data"]) THEN idle[n] + 1 ELSE 0]
  BY DEF set_trust
<1> DEFINE d(n) == IF nb[n].whole THEN heard[n] ELSE 800
           q(n) == set_TV(nb[n], d(n))
           left(n, k) == balance[n][k] - (q(n).stat[k].alls - nb[n].stat[k].alls)
<1>2. /\ nb' = [n \in Known |-> TV_init(q(n))]
      /\ balance' = [n \in Known |-> [k \in Kind |-> left(n, k)]]
      /\ idle' = [n \in Known |-> IdleNow(nb[n], idle[n])]
  BY <1>1 DEF IdleNow
<1>3. /\ UNCHANGED <<honest, crowded>> /\ early' = TRUE
      /\ due' = [n \in Known |-> IF "new" \in due[n] THEN {"old"} ELSE {}]
  BY DEF set_trust
<1>4. ASSUME NEW n \in Known
      PROVE  /\ TV_init(q(n)) \in RecType
             /\ Told(n \in honest \ crowded, TV_init(q(n)))
             /\ Rated(n \in honest \ crowded, TV_init(q(n)).TV, IdleNow(nb[n], idle[n]))
             /\ \A k \in Kind :
                  /\ left(n, k) \in Int
                  /\ Counted(n \in honest \ crowded, TV_init(q(n)).stat[k], left(n, k), Capacity[k])
             /\ IdleNow(nb[n], idle[n]) \in Nat
             /\ Tracked(n \notin crowded, TV_init(q(n)).stat["control"],
                        IF "new" \in due[n] THEN {"old"} ELSE {})
  <2> DEFINE r == nb[n]
             h == n \in honest \ crowded
             b == balance[n]
             i == idle[n]
             dn == d(n)
  <2>1. /\ r \in RecType /\ h \in BOOLEAN /\ i \in Nat /\ b \in [Kind -> Int]
        /\ Told(h, r) /\ Rated(h, r.TV, i)
        /\ \A k \in Kind : Counted(h, r.stat[k], b[k], Capacity[k])
    BY OfNeighbor
  <2>2. h => \A k \in Kind : r.stat[k].old = 0
    <3> SUFFICES ASSUME h
                 PROVE  \A k \in Kind : r.stat[k].old = 0
      OBVIOUS
    <3>1. r.stat["data"].old = 0 /\ "old" \notin due[n]
      BY DEF set_trust
    <3>2. ~(r.stat["control"].old > 0)
      BY <3>1, OfNeighbor DEF Tracked, Age
    <3>3. r.stat["control"].old \in Nat
      BY OfNeighbor DEF StatType, Kind
    <3> QED
      BY <3>1, <3>2, <3>3 DEF Kind
  <2>3. /\ r.stat["control"] \in StatType /\ due[n] \in SUBSET Age
        /\ Tracked(n \notin crowded, r.stat["control"], due[n])
    BY OfNeighbor DEF Kind
  <2>4. dn \in 512 .. 1150
    BY SurroundingsAssumption
  <2>5. i + 1 \in Nat
    BY <2>1
  <2>6. IdleNow(r, i) \in Nat
    BY <2>5 DEF IdleNow
  <2> HIDE DEF dn, r, h, b, i
  <2>7. /\ set_TV(r, dn) \in RecType
        /\ TV_init(set_TV(r, dn)) \in RecType
        /\ Told(h, TV_init(set_TV(r, dn)))
        /\ Rated(h, TV_init(set_TV(r, dn)).TV, IdleNow(r, i))
        /\ \A k \in Kind :
              LET rest == b[k] - (set_TV(r, dn).stat[k].alls - r.stat[k].alls)
              IN  /\ rest \in Int
                  /\ Counted(h, TV_init(set_TV(r, dn)).stat[k], rest, Capacity[k])
    BY <2>1, <2>2, <2>4, WindowKept, ZenonT(60)
  <2>8. LET j == Judged(r.stat["control"])
        IN  TV_init(set_TV(r, dn)).stat["control"] \in {j, Reset(j)}
    <3>1. set_TV(r, dn).stat["control"] = Judged(r.stat["control"])
      BY <2>1, WindowJudged DEF Kind
    <3>2. TV_init(set_TV(r, dn)).stat["control"]
            \in {set_TV(r, dn).stat["control"], Reset(set_TV(r, dn).stat["control"])}
      BY <2>1, <2>7, Restarted DEF Kind
    <3> QED
      BY <3>1, <3>2
  <2>9. Tracked(n \notin crowded, TV_init(set_TV(r, dn)).stat["control"],
                IF "new" \in due[n] THEN {"old"} ELSE {})
    BY <2>3, <2>8, JudgedTracked
  <2> QED
    BY <2>6, <2>7, <2>9 DEF dn, r, h, b, i
<1> HIDE DEF q, left
<1>5. due' \in [Known -> SUBSET Age]
  BY <1>3 DEF Age
<1>6. Typed'
  BY <1>2, <1>3, <1>4, <1>5 DEF Inv, Typed, Known
<1>7. Known' = Known
  BY <1>2 DEF Known
<1>8. ASSUME NEW n \in Known
      PROVE  Good(n)'
  <2>1. /\ nb'[n] = TV_init(q(n)) /\ idle'[n] = IdleNow(nb[n], idle[n])
        /\ \A k \in Kind : balance'[n][k] = left(n, k)
        /\ due'[n] = IF "new" \in due[n] THEN {"old"} ELSE {}
    BY <1>2, <1>3
  <2> QED
    BY <1>3, <1>4, <2>1 DEF Good
<1> QED
  BY <1>6, <1>7, <1>8 DEF Inv, Good

LEMMA NextInv ==
  Inv /\ [Next]_vars => Inv'
<1> SUFFICES ASSUME Inv, [Next]_vars
             PROVE  Inv'
  OBVIOUS
<1>1. ASSUME NEW n \in Neighbor, nb_insert(n) \/ nb_delete(n)
      PROVE  Inv'
  BY <1>1, InsertInv, DeleteInv
<1>2. ASSUME NEW n \in Neighbor, NEW k \in Kind, Forward(n, k) \/ tap(n, k)
      PROVE  Inv'
  BY <1>2, ForwardInv, TapInv
<1>3. ASSUME NEW n \in Neighbor, NEW it_num \in Met,
             NEW named \in SUBSET (Neighbor \ {n}), NEW about \in [named -> Opinions],
             \A m \in honest \cap named : about[m] \in GoodOpinions,
             recvRcom(n, about, it_num)
      PROVE  Inv'
  BY <1>3, RcomInv
<1>4. CASE set_trust
  BY <1>4, SetTrustInv
<1>5. CASE Late
  <2>1. /\ UNCHANGED <<honest, due, nb, balance, idle, crowded>>
        /\ early' \in BOOLEAN
    BY <1>5 DEF Late
  <2> QED
    BY <2>1 DEF Inv, Typed, Known
<1>6. CASE UNCHANGED vars
  BY <1>6 DEF vars, Inv, Typed, Known
<1> QED
  BY <1>1, <1>2, <1>3, <1>4, <1>5, <1>6 DEF Next

LEMMA InvAlways ==
  Spec => []Inv
BY InitInv, NextInv, PTL DEF Spec
-----------------------------------------------------------------------------
(* A neighbour that forwards what it is given, is heard doing so and never had two
   RREPs in ptteaomdv_f at once keeps the trust of this node: set_trust (teaomdv.cc
   2189) with set_TV never takes a TV that is a number below TrustThreshold, for
   arrays of any size and whatever number of packets, windows and neighbours. *)
THEOREM HonestAlwaysTrusted ==
  Spec => []HonestTrusted
<1>1. Inv => HonestTrusted
  BY DEF Inv, HonestTrusted, Rated
<1> QED
  BY <1>1, InvAlways, PTL

(* Two windows without one data packet forwarded take the TV of any neighbour
   below TrustThreshold, whatever it was before, the others say and the probes
   show: set_direct_trust cannot be outvoted (teaomdv_rtable.cc 573-657). *)
THEOREM DropperAlwaysDistrusted ==
  Spec => []DropperDistrusted
<1>1. Inv => DropperDistrusted
  <2> SUFFICES ASSUME Inv, NEW n \in Known, idle[n] >= 2, nb[n].TV # Wild
               PROVE  nb[n].TV < TrustThreshold
    BY DEF DropperDistrusted
  <2> QED
    BY OfNeighbor DEF Rated
<1> QED
  BY <1>1, InvAlways, PTL

(* The packets in cbr_f and ptteaomdv_f are the packets handed to the neighbour
   that have no verdict yet: tap, forward and set_direct_trust lose none and
   judge none twice. *)
THEOREM EachAlwaysJudgedOnce ==
  Spec => []EachJudgedOnce
<1>1. Inv => EachJudgedOnce
  BY DEF Inv, EachJudgedOnce, Counted
<1> QED
  BY <1>1, InvAlways, PTL

(* TV stays between 0 and 1.05, no more packets are counted as forwarded than were
   handed over, and the arrays of forward() do not overflow. *)
THEOREM TypeCorrect ==
  Spec => []TypeOK
<1>1. Inv => TypeOK
  <2> SUFFICES ASSUME Inv
               PROVE  TypeOK
    OBVIOUS
  <2>1. ASSUME NEW n \in Known
        PROVE  /\ nb[n].TV = Wild \/ nb[n].TV \in 0 .. MaxTV
               /\ nb[n].direct = Unset \/ nb[n].direct \in 0 .. 1000
               /\ \A k \in Kind : /\ nb[n].stat[k].corrects <= nb[n].stat[k].alls
                                   /\ Held(nb[n].stat[k]) <= Capacity[k]
               /\ nb[n].whole \in BOOLEAN
    <3>1. /\ nb[n].TV \in Nat \cup {Wild}
          /\ nb[n].direct \in (0 .. 1000) \cup {Unset}
          /\ nb[n].whole \in BOOLEAN
      BY OfNeighbor DEF RecType
    <3>2. nb[n].TV # Wild => nb[n].TV <= MaxTV
      BY OfNeighbor DEF Rated
    <3>3. nb[n].TV = Wild \/ nb[n].TV \in 0 .. MaxTV
      <4> DEFINE tv == nb[n].TV
      <4>1. tv = Wild \/ (tv \in Nat /\ tv <= MaxTV)
        BY <3>1, <3>2
      <4> HIDE DEF tv
      <4>2. tv = Wild \/ tv \in 0 .. MaxTV
        BY <4>1 DEF MaxTV
      <4> QED
        BY <4>2 DEF tv
    <3> QED
      BY <3>1, <3>3, OfNeighbor DEF Counted
  <2> QED
    BY <2>1 DEF Inv, Typed, TypeOK, Known
<1> QED
  BY <1>1, InvAlways, PTL

=============================================================================
