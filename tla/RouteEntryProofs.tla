-------------------------- MODULE RouteEntryProofs --------------------------
(***************************************************************************)
(* Proofs, for every number of addresses, paths, hops and sequence         *)
(* numbers, of the properties MCRouteEntry checks on a small instance.     *)
(*                                                                         *)
(* The properties speak of rt; the lemmas speak of any entry e, so that    *)
(* one handler's effect can be followed through several calls.  Held(e) is *)
(* the inductive invariant, Core(e) what is left of it between removing    *)
(* paths and rt_down: the entry may be up without a path.                  *)
(***************************************************************************)
EXTENDS RouteEntry, TLAPS, SequenceTheorems, WellFoundedInduction

Disjoint(paths) ==
  \A i, j \in DOMAIN paths :
    i # j => paths[i].nexthop # paths[j].nexthop /\ paths[i].lasthop # paths[j].lasthop

Core(e) ==
  /\ e \in Entry
  /\ Len(e.paths) <= MaxPaths
  /\ Disjoint(e.paths)
  /\ \A i \in DOMAIN e.paths : e.paths[i].hopcount <= e.adv

Held(e) == Core(e) /\ (e.up => e.paths # << >>)

\* r may follow e: what SeqnoMonotone and AdvertisedFinal say of a step, made
\* transitive by the remark that a route comes up only at a newer number.
Later(e, r) ==
  /\ r.seqno >= e.seqno
  /\ r.up => e.up \/ r.seqno > e.seqno
  /\ e.up /\ r.up /\ r.seqno = e.seqno /\ e.adv # INFINITY => r.adv = e.adv

\* t is made of elements of s at different positions.
Within(t, s) ==
  /\ t \in Seq(Path)
  /\ Len(t) <= Len(s)
  /\ \E f \in [1 .. Len(t) -> 1 .. Len(s)] :
       /\ \A i \in 1 .. Len(t) : t[i] = s[f[i]]
       /\ \A i, j \in 1 .. Len(t) : i # j => f[i] # f[j]
-----------------------------------------------------------------------------
(* Path lists. *)

\* The least-number principle, for a set.
LEMMA LeastNat ==
  ASSUME NEW T, T \subseteq Nat, T # {}
  PROVE  \E i \in T : \A j \in T : i <= j
<1>1. PICK i \in T : \A j \in T : <<j, i>> \notin OpToRel(<, Nat)
  BY WFMin, NatLessThanWellFounded, Zenon
<1>2. \A j \in T : ~(j < i)
  BY <1>1, Zenon DEF OpToRel
<1>. QED
  BY <1>2

\* What is left of the path list keeps the invariant.
LEMMA WithinCore ==
  ASSUME NEW e, Core(e), NEW t, Within(t, e.paths)
  PROVE  Core([e EXCEPT !.paths = t])
<1> DEFINE d == [e EXCEPT !.paths = t]
<1>1. /\ e \in Entry /\ e.paths \in Seq(Path) /\ t \in Seq(Path)
      /\ Len(t) \in Nat /\ Len(e.paths) \in Nat
      /\ DOMAIN t = 1 .. Len(t) /\ DOMAIN e.paths = 1 .. Len(e.paths)
  BY DEF Core, Entry, Within
<1>2. d \in Entry /\ d.paths = t /\ d.adv = e.adv
  BY <1>1 DEF Entry
<1>3. Len(t) <= MaxPaths
  BY <1>1, RtEntryAssumption DEF Core, Within
<1>4. PICK f \in [1 .. Len(t) -> 1 .. Len(e.paths)] :
        /\ \A i \in 1 .. Len(t) : t[i] = e.paths[f[i]]
        /\ \A i, j \in 1 .. Len(t) : i # j => f[i] # f[j]
  BY DEF Within
<1>5. Disjoint(t)
  BY <1>1, <1>4 DEF Core, Disjoint
<1>6. \A i \in DOMAIN t : t[i].hopcount <= e.adv
  BY <1>1, <1>4 DEF Core
<1>. QED
  BY <1>2, <1>3, <1>5, <1>6 DEF Core

\* Dropping the front of a path list, or any elements but those of an interval.
LEMMA SubSeqPaths ==
  ASSUME NEW s \in Seq(Path), NEW m \in 1 .. Len(s) + 1, NEW n \in 0 .. Len(s), m <= n + 1
  PROVE  /\ SubSeq(s, m, n) \in Seq(Path)
         /\ Len(SubSeq(s, m, n)) = n - m + 1
         /\ \A i \in 1 .. n - m + 1 : SubSeq(s, m, n)[i] = s[m + i - 1]
<1>1. Len(s) \in Nat /\ m \in Int /\ n \in Int
  OBVIOUS
<1>2. \A i \in m .. n : s[i] \in Path
  OBVIOUS
<1>3. IF m <= n THEN n - m + 1 = n - m + 1 ELSE n - m + 1 = 0
  BY <1>1
<1>. QED
  BY <1>1, <1>2, <1>3, SubSeqProperties

\* u is a front part of s and v the rest of it but for one element.
LEMMA JoinedWithin ==
  ASSUME NEW s \in Seq(Path), NEW k \in 1 .. Len(s), NEW u \in Seq(Path), NEW v \in Seq(Path),
         Len(u) = k - 1, \A i \in 1 .. k - 1 : u[i] = s[i],
         Len(v) = Len(s) - k, \A i \in 1 .. Len(s) - k : v[i] = s[k + i]
  PROVE  Within(u \o v, s)
<1>1. Len(s) \in Nat /\ k \in Nat /\ k <= Len(s) /\ k >= 1
  OBVIOUS
<1> DEFINE t == u \o v
           f == [i \in 1 .. Len(s) - 1 |-> IF i < k THEN i ELSE i + 1]
<1>2. /\ t \in Seq(Path)
      /\ Len(t) = Len(u) + Len(v)
      /\ \A i \in 1 .. Len(u) + Len(v) : t[i] = IF i <= Len(u) THEN u[i] ELSE v[i - Len(u)]
  BY ConcatProperties
<1>3. Len(t) = Len(s) - 1
  BY <1>1, <1>2
<1> HIDE DEF t
<1>4. ASSUME NEW i \in 1 .. Len(s) - 1 PROVE t[i] = s[f[i]]
  <2>1. CASE i < k
    <3>1. i <= Len(u) /\ i \in 1 .. k - 1 /\ i \in 1 .. Len(u) + Len(v)
      BY <1>1, <2>1
    <3>2. t[i] = u[i] /\ u[i] = s[i]
      BY <1>2, <3>1
    <3>. QED
      BY <2>1, <3>2
  <2>2. CASE i >= k
    <3>1. /\ ~(i <= Len(u)) /\ i - Len(u) \in 1 .. Len(s) - k
          /\ i \in 1 .. Len(u) + Len(v) /\ k + (i - Len(u)) = i + 1
      BY <1>1, <2>2
    <3>2. t[i] = v[i - Len(u)] /\ v[i - Len(u)] = s[i + 1]
      BY <1>2, <3>1
    <3>. QED
      BY <1>1, <2>2, <3>2
  <2>. QED
    BY <1>1, <2>1, <2>2
<1>5. /\ f \in [1 .. Len(s) - 1 -> 1 .. Len(s)]
      /\ \A i, j \in 1 .. Len(s) - 1 : i # j => f[i] # f[j]
  BY <1>1
<1> HIDE DEF f
<1>6. Within(t, s)
  <2>1. t \in Seq(Path) /\ Len(t) <= Len(s)
    BY <1>1, <1>2, <1>3
  <2>2. f \in [1 .. Len(t) -> 1 .. Len(s)]
    BY <1>3, <1>5
  <2>3. \A i \in 1 .. Len(t) : t[i] = s[f[i]]
    BY <1>3, <1>4
  <2>4. \A i, j \in 1 .. Len(t) : i # j => f[i] # f[j]
    BY <1>3, <1>5
  <2>. QED
    BY <2>1, <2>2, <2>3, <2>4, Zenon DEF Within
<1>. QED
  BY <1>6 DEF t

\* Removing one element of a path list.
LEMMA RemoveAtWithin ==
  ASSUME NEW s \in Seq(Path), NEW k \in 1 .. Len(s)
  PROVE  Within(RemoveAt(s, k), s)
<1> DEFINE u == SubSeq(s, 1, k - 1)
           v == SubSeq(s, k + 1, Len(s))
<1>1. Len(s) \in Nat /\ k \in Nat /\ k <= Len(s) /\ k >= 1
  OBVIOUS
<1>2. u \in Seq(Path) /\ Len(u) = k - 1 - 1 + 1 /\ \A i \in 1 .. k - 1 - 1 + 1 : u[i] = s[1 + i - 1]
  <2>1. 1 \in 1 .. Len(s) + 1 /\ k - 1 \in 0 .. Len(s) /\ 1 <= k - 1 + 1
    BY <1>1
  <2>. QED
    BY <2>1, SubSeqPaths
<1>3. /\ v \in Seq(Path) /\ Len(v) = Len(s) - (k + 1) + 1
      /\ \A i \in 1 .. Len(s) - (k + 1) + 1 : v[i] = s[(k + 1) + i - 1]
  <2>1. k + 1 \in 1 .. Len(s) + 1 /\ Len(s) \in 0 .. Len(s) /\ k + 1 <= Len(s) + 1
    BY <1>1
  <2>. QED
    BY <2>1, SubSeqPaths
<1> HIDE DEF u, v
<1>4. Len(u) = k - 1 /\ \A i \in 1 .. k - 1 : u[i] = s[i]
  BY <1>1, <1>2
<1>5. Len(v) = Len(s) - k /\ \A i \in 1 .. Len(s) - k : v[i] = s[k + i]
  BY <1>1, <1>3
<1>6. Within(u \o v, s)
  BY <1>2, <1>3, <1>4, <1>5, JoinedWithin
<1>. QED
  BY <1>6 DEF RemoveAt, u, v

\* path_lookup finds a first position.
LEMMA FirstViaPosition ==
  ASSUME NEW e, e.paths \in Seq(Path), NEW id, path_lookup(e, id)
  PROVE  FirstVia(e, id) \in 1 .. Len(e.paths)
<1> DEFINE T == {i \in DOMAIN e.paths : e.paths[i].nexthop = id}
<1>1. T # {} /\ T \subseteq Nat /\ DOMAIN e.paths = 1 .. Len(e.paths) /\ Len(e.paths) \in Nat
  BY DEF path_lookup
<1>2. PICK i \in T : \A j \in T : i <= j
  <2>. HIDE DEF T
  <2>. QED
    BY <1>1, LeastNat
<1>3. ASSUME NEW j \in 1 .. i - 1 PROVE e.paths[j].nexthop # id
  BY <1>1, <1>2
<1>. QED
  BY <1>1, <1>2, <1>3 DEF FirstVia

\* path_delete leaves a list within the old one.
LEMMA DeleteWithin ==
  ASSUME NEW e, e.paths \in Seq(Path), NEW id, path_lookup(e, id)
  PROVE  /\ path_delete(e, id) = [e EXCEPT !.paths = RemoveAt(e.paths, FirstVia(e, id))]
         /\ Within(RemoveAt(e.paths, FirstVia(e, id)), e.paths)
BY FirstViaPosition, RemoveAtWithin DEF path_delete

\* Giving up the first j paths leaves a list within the old one.
LEMMA SubSeqWithin ==
  ASSUME NEW s \in Seq(Path), NEW j \in 0 .. Len(s)
  PROVE  Within(SubSeq(s, j + 1, Len(s)), s)
<1> DEFINE t == SubSeq(s, j + 1, Len(s))
           f == [i \in 1 .. Len(t) |-> j + i]
<1>1. Len(s) \in Nat /\ j \in Nat /\ j <= Len(s)
  OBVIOUS
<1>2. /\ t \in Seq(Path) /\ Len(t) = Len(s) - (j + 1) + 1
      /\ \A i \in 1 .. Len(s) - (j + 1) + 1 : t[i] = s[(j + 1) + i - 1]
  <2>1. j + 1 \in 1 .. Len(s) + 1 /\ Len(s) \in 0 .. Len(s) /\ j + 1 <= Len(s) + 1
    BY <1>1
  <2>. QED
    BY <2>1, SubSeqPaths
<1> HIDE DEF t
<1>3. Len(t) = Len(s) - j /\ \A i \in 1 .. Len(t) : t[i] = s[j + i]
  BY <1>1, <1>2
<1>4. f \in [1 .. Len(t) -> 1 .. Len(s)]
  BY <1>1, <1>3
<1>5. \A i \in 1 .. Len(t) : t[i] = s[f[i]]
  BY <1>3
<1>6. \A i, k \in 1 .. Len(t) : i # k => f[i] # f[k]
  BY <1>1
<1> HIDE DEF f
<1>7. Within(t, s)
  <2>1. Len(t) <= Len(s)
    BY <1>1, <1>3
  <2>. QED
    BY <1>2, <1>4, <1>5, <1>6, <2>1, Zenon DEF Within
<1>. QED
  BY <1>7 DEF t

\* So does path_purge.
LEMMA PurgeWithin ==
  ASSUME NEW e, e.paths \in Seq(Path), NEW t \in path_purge(e)
  PROVE  Within(t, e.paths)
<1>1. Len(e.paths) \in Nat /\ DOMAIN e.paths = 1 .. Len(e.paths)
  OBVIOUS
<1>2. PICK k \in 0 .. Len(e.paths) :
        \E f \in [1 .. k -> DOMAIN e.paths] :
          /\ \A i, j \in 1 .. k : i < j => f[i] < f[j]
          /\ t = [i \in 1 .. k |-> e.paths[f[i]]]
  BY DEF path_purge
<1>. PICK f \in [1 .. k -> DOMAIN e.paths] :
       /\ \A i, j \in 1 .. k : i < j => f[i] < f[j]
       /\ t = [i \in 1 .. k |-> e.paths[f[i]]]
  BY <1>2
<1>3. t \in Seq(Path) /\ Len(t) = k
  BY <1>1, <1>2
<1>4. f \in [1 .. Len(t) -> 1 .. Len(e.paths)]
  BY <1>1, <1>2, <1>3
<1>5. \A i \in 1 .. Len(t) : t[i] = e.paths[f[i]]
  BY <1>2, <1>3
<1>6. \A i, j \in 1 .. Len(t) : i # j => f[i] # f[j]
  BY <1>1, <1>2, <1>3
<1>7. Len(t) <= Len(e.paths)
  BY <1>1, <1>3
<1>. QED
  BY <1>3, <1>4, <1>5, <1>6, <1>7, Zenon DEF Within

\* path_get_max_hopcount returns a maximum.
LEMMA MaxHopcount ==
  ASSUME NEW e, Core(e), e.paths # << >>
  PROVE  /\ path_get_max_hopcount(e) \in 1 .. MaxHops + 1
         /\ \A i \in DOMAIN e.paths : e.paths[i].hopcount <= path_get_max_hopcount(e)
<1> DEFINE T == {MaxHops + 1 - h : h \in Hops(e)}
<1>1. MaxHops \in Nat
  BY RouteEntryAssumption DEF INFINITY2
<1>2. e.paths \in Seq(Path)
  BY DEF Core, Entry
<1>3. ASSUME NEW i \in 1 .. Len(e.paths) PROVE e.paths[i].hopcount \in 1 .. MaxHops + 1
  <2>1. e.paths[i] \in Path
    BY <1>2, ElementOfSeq
  <2>. QED
    BY <2>1 DEF Path
<1>4. Hops(e) \subseteq 1 .. MaxHops + 1
  BY <1>2, <1>3 DEF Hops
<1>5. Hops(e) # {}
  <2>1. 1 \in DOMAIN e.paths
    BY <1>2
  <2>. QED
    BY <2>1 DEF Hops
<1>6. PICK m \in T : \A k \in T : m <= k
  <2>1. T \subseteq Nat /\ T # {}
    BY <1>1, <1>4, <1>5
  <2>. HIDE DEF T
  <2>. QED
    BY <2>1, LeastNat
<1>7. PICK h \in Hops(e) : m = MaxHops + 1 - h
  OBVIOUS
<1>8. ASSUME NEW k \in Hops(e) PROVE k <= h
  <2>1. MaxHops + 1 - h <= MaxHops + 1 - k
    BY <1>6, <1>7
  <2>2. h \in Nat /\ k \in Nat
    BY <1>1, <1>4
  <2>. QED
    BY <1>1, <2>1, <2>2
<1>9. /\ path_get_max_hopcount(e) \in Hops(e)
      /\ \A k \in Hops(e) : k <= path_get_max_hopcount(e)
  BY <1>8 DEF path_get_max_hopcount, path_empty
<1>. QED
  BY <1>4, <1>9 DEF Hops
-----------------------------------------------------------------------------
(* The handlers, one entry at a time. *)

LEMMA LaterTransitive ==
  ASSUME NEW e, NEW f, NEW g, Held(e), Held(f), Held(g), Later(e, f), Later(f, g)
  PROVE  Later(e, g)
<1>1. e.seqno \in Nat /\ f.seqno \in Nat /\ g.seqno \in Nat
  BY DEF Held, Core, Entry
<1>. QED
  BY <1>1 DEF Later

\* Once the sequence number is settled, an entry without a path goes down.
LEMMA DownIfEmptyHeld ==
  ASSUME NEW e, Core(e)
  PROVE  /\ Held(DownIfEmpty(e))
         /\ DownIfEmpty(e).seqno = e.seqno
         /\ DownIfEmpty(e).up => DownIfEmpty(e) = e
<1>1. e \in Entry
  BY DEF Core
<1>2. CASE e.up /\ e.paths = << >>
  <2> DEFINE d == [e EXCEPT !.up = FALSE, !.adv = INFINITY, !.paths = << >>]
  <2>1. DownIfEmpty(e) = d
    BY <1>2 DEF DownIfEmpty, path_empty, rt_down
  <2>2. << >> \in Seq(Path) /\ FALSE \in BOOLEAN
    OBVIOUS
  <2>3. d \in Entry /\ d.up = FALSE /\ d.paths = << >> /\ d.seqno = e.seqno
    BY <1>1, <2>2 DEF Entry
  <2>4. Core(d)
    BY <2>3, RtEntryAssumption DEF Core, Disjoint
  <2>. QED
    BY <2>1, <2>3, <2>4 DEF Held
<1>3. CASE ~(e.up /\ e.paths = << >>)
  BY <1>3 DEF DownIfEmpty, path_empty, rt_down, Held
<1>. QED
  BY <1>2, <1>3

\* The sequence number may be raised at any time.
LEMMA RaisedCore ==
  ASSUME NEW e, Core(e), NEW s \in Nat
  PROVE  Core([e EXCEPT !.seqno = s])
BY DEF Core, Entry

LEMMA DistrustedHeld ==
  ASSUME NEW e, Held(e), NEW j \in 0 .. Len(e.paths)
  PROVE  Held(Distrusted(e, j)) /\ Later(e, Distrusted(e, j))
<1> DEFINE d == [e EXCEPT !.paths = SubSeq(e.paths, j + 1, Len(e.paths))]
<1>1. e \in Entry /\ e.paths \in Seq(Path) /\ e.seqno \in Nat
  BY DEF Held, Core, Entry
<1>2. Core(d)
  BY <1>1, SubSeqWithin, WithinCore DEF Held
<1>3. d.seqno = e.seqno /\ d.up = e.up /\ d.adv = e.adv
  BY <1>1 DEF Entry
<1>4. Distrusted(e, j) = IF e.up THEN DownIfEmpty(d) ELSE e
  BY DEF Distrusted
<1> HIDE DEF d
<1>. QED
  BY <1>1, <1>2, <1>3, <1>4, DownIfEmptyHeld DEF Later

LEMMA AdvertiseHeld ==
  ASSUME NEW e, Held(e), e.paths # << >>
  PROVE  Held(Advertise(e)) /\ Later(e, Advertise(e))
<1> DEFINE max == path_get_max_hopcount(e)
           a   == [e EXCEPT !.adv = IF e.adv = INFINITY THEN max ELSE e.adv]
<1>1. /\ max \in 1 .. MaxHops + 1
      /\ \A i \in DOMAIN e.paths : e.paths[i].hopcount <= max
  BY MaxHopcount DEF Held
<1>2. e \in Entry /\ e.seqno \in Nat
  BY DEF Held, Core, Entry
<1>3. Advertise(e) = a
  BY DEF Advertise
<1> HIDE DEF max
<1>4. /\ a \in Entry /\ a.paths = e.paths /\ a.up = e.up /\ a.seqno = e.seqno
      /\ a.adv = IF e.adv = INFINITY THEN max ELSE e.adv
  BY <1>1, <1>2 DEF Entry
<1> HIDE DEF a
<1>5. Held(a)
  BY <1>1, <1>4 DEF Held, Core
<1>6. Later(e, a)
  BY <1>2, <1>4 DEF Later
<1>. QED
  BY <1>3, <1>5, <1>6

LEMMA LearnHeld ==
  ASSUME NEW e, Held(e), NEW p \in Path, NEW s \in Nat
  PROVE  Held(Learn(e, p, s)) /\ Later(e, Learn(e, p, s))
<1>1. /\ e \in Entry /\ e.seqno \in Nat /\ e.paths \in Seq(Path)
      /\ Len(e.paths) \in Nat /\ DOMAIN e.paths = 1 .. Len(e.paths)
  BY DEF Held, Core, Entry
<1>2. p.hopcount \in 1 .. MaxHops + 1 /\ MaxHops \in 0 .. 254
  BY RouteEntryAssumption DEF Path, INFINITY2
<1>3. CASE Fresher(e, s)
  <2> DEFINE r == [e EXCEPT !.seqno = s, !.adv = INFINITY, !.paths = << p >>, !.up = TRUE]
  <2>1. Learn(e, p, s) = r
    BY <1>3 DEF Learn
  <2>2. /\ << p >> \in Seq(Path) /\ Len(<< p >>) = 1 /\ << p >>[1] = p
        /\ DOMAIN << p >> = {1} /\ << p >> # << >>
    OBVIOUS
  <2>3. r \in Entry /\ r.paths = << p >> /\ r.adv = INFINITY /\ r.seqno = s
    BY <1>1, <2>2 DEF Entry
  <2> HIDE DEF r
  <2>4. Disjoint(r.paths) /\ Len(r.paths) <= MaxPaths
    BY <2>2, <2>3, RtEntryAssumption DEF Disjoint
  <2>5. \A i \in DOMAIN r.paths : r.paths[i].hopcount <= r.adv
    BY <1>2, <2>2, <2>3 DEF INFINITY
  <2>6. Held(r)
    BY <2>2, <2>3, <2>4, <2>5 DEF Held, Core
  <2>7. Later(e, r)
    BY <1>1, <1>3, <2>3 DEF Later, Fresher
  <2>. QED
    BY <2>1, <2>6, <2>7
<1>4. CASE ~Fresher(e, s) /\ Candidate(e, p, s) /\ ~Known(e, p) /\ Admits(e, p)
  <2> DEFINE t == Append(e.paths, p)
             r == [e EXCEPT !.paths = t]
  <2>1. Learn(e, p, s) = r
    BY <1>4 DEF Learn, path_insert
  <2>2. /\ t \in Seq(Path) /\ Len(t) = Len(e.paths) + 1
        /\ \A i \in 1 .. Len(e.paths) : t[i] = e.paths[i]
        /\ t[Len(e.paths) + 1] = p
        /\ t # << >>
    BY <1>1, AppendProperties
  <2>3. DOMAIN t = 1 .. Len(e.paths) + 1
    BY <2>2
  <2> HIDE DEF t
  <2>4. r \in Entry /\ r.paths = t /\ r.adv = e.adv /\ r.seqno = e.seqno /\ r.up = e.up
    BY <1>1, <2>2 DEF Entry
  <2>5. Len(t) <= MaxPaths
    BY <1>1, <1>4, <2>2, RtEntryAssumption DEF Admits
  <2>6. Disjoint(t)
    <3>1. /\ Disjoint(e.paths)
          /\ \A i \in 1 .. Len(e.paths) : /\ e.paths[i].nexthop # p.nexthop
                                          /\ e.paths[i].lasthop # p.lasthop
      BY <1>1, <1>4 DEF Held, Core, Admits, new_disjoint_path
    <3>. QED
      BY <1>1, <2>2, <2>3, <3>1 DEF Disjoint
  <2>7. \A i \in DOMAIN t : t[i].hopcount <= e.adv
    <3>1. p.hopcount <= e.adv
      BY <1>1, <1>2, <1>4 DEF Candidate, Entry, INFINITY, INFINITY2
    <3>. QED
      BY <1>1, <2>2, <2>3, <3>1 DEF Held, Core
  <2> HIDE DEF r
  <2>8. Held(r)
    BY <2>2, <2>4, <2>5, <2>6, <2>7 DEF Held, Core
  <2>9. Later(e, r)
    BY <1>1, <2>4 DEF Later
  <2>. QED
    BY <2>1, <2>8, <2>9
<1>5. CASE ~Fresher(e, s) /\ ~(Candidate(e, p, s) /\ ~Known(e, p) /\ Admits(e, p))
  BY <1>1, <1>5 DEF Learn, Later
<1>. QED
  BY <1>3, <1>4, <1>5

\* path_delete, and what recvError, recvPta and handle_link_failure build on it.
LEMMA DeleteCore ==
  ASSUME NEW e, Held(e), NEW id, path_lookup(e, id)
  PROVE  /\ Core(path_delete(e, id))
         /\ path_delete(e, id).seqno = e.seqno
         /\ path_delete(e, id).adv = e.adv
         /\ path_delete(e, id).up = e.up
         /\ path_delete(e, id).highest = e.highest
<1> DEFINE t == RemoveAt(e.paths, FirstVia(e, id))
           d == [e EXCEPT !.paths = t]
<1>1. e \in Entry /\ e.paths \in Seq(Path)
  BY DEF Held, Core, Entry
<1>2. path_delete(e, id) = d /\ Within(t, e.paths)
  BY <1>1, DeleteWithin
<1> HIDE DEF t
<1>3. Core(d)
  BY <1>2, WithinCore DEF Held
<1>4. d.seqno = e.seqno /\ d.adv = e.adv /\ d.up = e.up /\ d.highest = e.highest
  BY <1>1 DEF Entry
<1>. QED
  BY <1>2, <1>3, <1>4

LEMMA HighestCore ==
  ASSUME NEW e, Core(e), NEW s \in Nat
  PROVE  LET d == [e EXCEPT !.highest = Larger(e.highest, s)]
         IN  /\ Core(d) /\ d.highest \in Nat /\ d.paths = e.paths
             /\ d.seqno = e.seqno /\ d.up = e.up /\ d.adv = e.adv
BY DEF Core, Entry, Larger

LEMMA LinkFailureHeld ==
  ASSUME NEW e, Held(e), NEW id
  PROVE  Held(LinkFailure(e, id)) /\ Later(e, LinkFailure(e, id))
<1> DEFINE d == path_delete(e, id)
           s == Larger(d.seqno + 1, d.highest)
           r == [d EXCEPT !.seqno = s]
<1>1. e \in Entry /\ e.seqno \in Nat /\ e.highest \in Nat
  BY DEF Held, Core, Entry
<1>2. CASE ~(e.up /\ path_lookup(e, id))
  BY <1>1, <1>2 DEF LinkFailure, Later
<1>3. CASE e.up /\ path_lookup(e, id)
  <2>1. /\ Core(d) /\ d.seqno = e.seqno /\ d.adv = e.adv /\ d.up = e.up
        /\ d.highest = e.highest
    BY <1>3, DeleteCore
  <2>2. LinkFailure(e, id) = IF d.paths = << >> THEN rt_down([d EXCEPT !.seqno = Larger(d.seqno + 1, e.highest)])
                             ELSE d
    BY <1>3 DEF LinkFailure, path_empty
  <2> HIDE DEF d
  <2>3. d \in Entry
    BY <2>1 DEF Core
  <2>4. s \in Nat /\ s >= e.seqno
    BY <1>1, <2>1 DEF Larger
  <2> HIDE DEF s
  <2>5. r \in Entry /\ Core(r) /\ r.seqno = s /\ r.paths = d.paths
    BY <2>1, <2>3, <2>4, RaisedCore DEF Entry
  <2>6. CASE d.paths = << >>
    <3>1. LinkFailure(e, id) = DownIfEmpty(r)
      BY <2>1, <2>2, <2>5, <2>6 DEF DownIfEmpty, path_empty, s
    <3>2. DownIfEmpty(r).up = FALSE
      BY <2>5, <2>6 DEF DownIfEmpty, path_empty, rt_down, Entry
    <3> HIDE DEF r
    <3>. QED
      BY <1>1, <2>4, <2>5, <3>1, <3>2, DownIfEmptyHeld DEF Later
  <2>7. CASE d.paths # << >>
    BY <1>1, <1>3, <2>1, <2>2, <2>7 DEF Held, Later
  <2>. QED
    BY <2>6, <2>7
<1>. QED
  BY <1>2, <1>3

LEMMA ErrorReceivedHeld ==
  ASSUME NEW e, Held(e), NEW from, NEW s \in Nat
  PROVE  Held(ErrorReceived(e, from, s)) /\ Later(e, ErrorReceived(e, from, s))
<1> DEFINE c == path_delete(e, from)
           d == [c EXCEPT !.highest = Larger(c.highest, s)]
           r == [d EXCEPT !.seqno = d.highest]
<1>1. e \in Entry /\ e.seqno \in Nat
  BY DEF Held, Core, Entry
<1>2. CASE ~ErrorApplies(e, from, s)
  BY <1>1, <1>2 DEF ErrorReceived, Later
<1>3. CASE ErrorApplies(e, from, s)
  <2>1. path_lookup(e, from) /\ e.seqno <= s
    BY <1>3 DEF ErrorApplies
  <2>2. Core(c) /\ c.seqno = e.seqno /\ c.adv = e.adv /\ c.up = e.up
    BY <2>1, DeleteCore
  <2>3. ErrorReceived(e, from, s) = IF d.paths = << >> THEN rt_down(r) ELSE d
    BY <1>3 DEF ErrorReceived, path_empty
  <2>4. c.highest \in Nat
    BY <2>2 DEF Core, Entry
  <2> HIDE DEF c
  <2>5. /\ Core(d) /\ d.highest \in Nat /\ d.paths = c.paths
        /\ d.seqno = e.seqno /\ d.up = e.up /\ d.adv = e.adv
    BY <2>2, HighestCore
  <2>6. d.highest >= e.seqno
    BY <1>1, <2>1, <2>2, <2>4 DEF Larger, Core, Entry
  <2> HIDE DEF d
  <2>7. r \in Entry /\ Core(r) /\ r.seqno = d.highest /\ r.paths = d.paths
    BY <2>5, RaisedCore DEF Core, Entry
  <2>8. CASE d.paths = << >>
    <3>1. ErrorReceived(e, from, s) = DownIfEmpty(r)
      BY <2>3, <2>7, <2>8 DEF DownIfEmpty, path_empty
    <3>2. DownIfEmpty(r).up = FALSE
      BY <2>7, <2>8 DEF DownIfEmpty, path_empty, rt_down, Entry
    <3> HIDE DEF r
    <3>. QED
      BY <1>1, <2>6, <2>7, <3>1, <3>2, DownIfEmptyHeld DEF Later
  <2>9. CASE d.paths # << >>
    BY <1>1, <2>3, <2>5, <2>9 DEF Held, Later
  <2>. QED
    BY <2>8, <2>9
<1>. QED
  BY <1>2, <1>3

LEMMA PtaReceivedHeld ==
  ASSUME NEW e, Held(e), NEW from, NEW last, NEW s \in Nat
  PROVE  Held(PtaReceived(e, from, s, last)) /\ Later(e, PtaReceived(e, from, s, last))
<1> DEFINE c == path_delete(e, from)
           d == [c EXCEPT !.highest = Larger(c.highest, s)]
           g == DownIfEmpty(d)
           r == [g EXCEPT !.seqno = d.highest]
<1>1. e \in Entry /\ e.seqno \in Nat
  BY DEF Held, Core, Entry
<1>2. CASE ~PtaApplies(e, from, s, last)
  BY <1>1, <1>2 DEF PtaReceived, Later
<1>3. CASE PtaApplies(e, from, s, last)
  <2>1. path_lookup(e, from) /\ e.seqno <= s /\ e.up
    BY <1>3 DEF PtaApplies, ErrorApplies
  <2>2. Core(c) /\ c.seqno = e.seqno /\ c.adv = e.adv /\ c.up = e.up
    BY <2>1, DeleteCore
  <2>3. PtaReceived(e, from, s, last) = r
    BY <1>3 DEF PtaReceived
  <2>4. c.highest \in Nat
    BY <2>2 DEF Core, Entry
  <2> HIDE DEF c
  <2>5. /\ Core(d) /\ d.highest \in Nat /\ d.paths = c.paths
        /\ d.seqno = e.seqno /\ d.up = e.up /\ d.adv = e.adv
    BY <2>2, HighestCore
  <2>6. d.highest >= e.seqno
    BY <1>1, <2>1, <2>2, <2>4 DEF Larger, Core, Entry
  <2> HIDE DEF d
  <2>7. Held(g) /\ g.seqno = e.seqno /\ (g.up => g = d)
    BY <2>5, DownIfEmptyHeld
  <2> HIDE DEF g
  <2>8. /\ r \in Entry /\ Core(r) /\ r.seqno = d.highest
        /\ r.paths = g.paths /\ r.up = g.up /\ r.adv = g.adv
    BY <2>5, <2>7, RaisedCore DEF Held, Core, Entry
  <2> HIDE DEF r
  <2>. QED
    BY <1>1, <2>1, <2>3, <2>5, <2>6, <2>7, <2>8 DEF Held, Later
<1>. QED
  BY <1>2, <1>3

LEMMA PurgedHeld ==
  ASSUME NEW e, Held(e), e.up, NEW kept \in path_purge(e)
  PROVE  Held(Purged(e, kept)) /\ Later(e, Purged(e, kept))
<1> DEFINE d == [e EXCEPT !.paths = kept]
           n == Larger(e.seqno + 1, e.highest)
           s == IF n % 2 = 0 THEN n + 1 ELSE n
           r == [d EXCEPT !.seqno = s]
<1>1. /\ e \in Entry /\ e.seqno \in Nat /\ e.highest \in Nat /\ e.paths \in Seq(Path)
  BY DEF Held, Core, Entry
<1>2. Core(d) /\ d.seqno = e.seqno /\ d.up = e.up /\ d.adv = e.adv /\ d.paths = kept
  <2>1. Core(d)
    BY <1>1, PurgeWithin, WithinCore DEF Held
  <2>. QED
    BY <1>1, <2>1 DEF Entry
<1>3. Purged(e, kept) = IF d.paths = << >> THEN rt_down(r) ELSE d
  BY DEF Purged, path_empty
<1> HIDE DEF d
<1>4. s \in Nat /\ s >= e.seqno
  BY <1>1 DEF Larger
<1> HIDE DEF s
<1>5. Core(r) /\ r \in Entry /\ r.seqno = s /\ r.paths = d.paths
  BY <1>2, <1>4, RaisedCore DEF Core, Entry
<1>6. CASE d.paths = << >>
  <2>1. Purged(e, kept) = DownIfEmpty(r)
    BY <1>3, <1>5, <1>6 DEF DownIfEmpty, path_empty
  <2>2. DownIfEmpty(r).up = FALSE
    BY <1>5, <1>6 DEF DownIfEmpty, path_empty, rt_down, Entry
  <2> HIDE DEF r
  <2>. QED
    BY <1>1, <1>4, <1>5, <2>1, <2>2, DownIfEmptyHeld DEF Later
<1>7. CASE d.paths # << >>
  BY <1>1, <1>2, <1>3, <1>7 DEF Held, Later
<1>. QED
  BY <1>6, <1>7
-----------------------------------------------------------------------------
(* The whole entry. *)

\* The constructor establishes the invariant.
LEMMA InitHeld == Init => Held(rt)
<1> SUFFICES ASSUME Init PROVE Held(rt)
  OBVIOUS
<1>1. << >> \in Seq(Path) /\ FALSE \in BOOLEAN
  OBVIOUS
<1>2. rt \in Entry /\ rt.paths = << >> /\ rt.up = FALSE
  BY <1>1 DEF Init, Entry
<1>. QED
  BY <1>2, RtEntryAssumption DEF Held, Core, Disjoint

\* Every handler preserves it, and only ever moves the entry on.
LEMMA NextHeld ==
  ASSUME Held(rt), Next
  PROVE  Held(rt') /\ Later(rt, rt')
<1>1. CASE ReceiveRoute
  <2>1. PICK p \in Path, s \in 1 .. MaxSeqno : \E j \in 0 .. Len(Learn(rt, p, s).paths) :
          LET e == Distrusted(Learn(rt, p, s), j)
          IN  \/ rt' = e
              \/ ~path_empty(e) /\ rt' = Advertise(e)
    BY <1>1 DEF ReceiveRoute
  <2> DEFINE l == Learn(rt, p, s)
  <2>2. PICK j \in 0 .. Len(l.paths) :
          \/ rt' = Distrusted(l, j)
          \/ Distrusted(l, j).paths # << >> /\ rt' = Advertise(Distrusted(l, j))
    BY <2>1 DEF path_empty
  <2>3. Held(l) /\ Later(rt, l)
    BY LearnHeld
  <2> HIDE DEF l
  <2> DEFINE e == Distrusted(l, j)
  <2>4. Held(e) /\ Later(l, e)
    BY <2>3, DistrustedHeld
  <2>5. CASE rt' = e
    BY <2>3, <2>4, <2>5, LaterTransitive
  <2>6. CASE e.paths # << >> /\ rt' = Advertise(e)
    <3> HIDE DEF e
    <3>1. Held(rt') /\ Later(e, rt')
      BY <2>4, <2>6, AdvertiseHeld
    <3>2. Later(rt, e)
      BY <2>3, <2>4, LaterTransitive
    <3>. QED
      BY <2>4, <3>1, <3>2, LaterTransitive
  <2>. QED
    BY <2>2, <2>5, <2>6
<1>2. CASE AnswerRequest
  BY <1>2, AdvertiseHeld DEF AnswerRequest, Held
<1>3. CASE ForwardDistrusted
  <2>1. rt.paths \in Seq(Path) /\ rt.paths # << >>
    BY <1>3 DEF ForwardDistrusted, Held, Core, Entry
  <2>2. 1 \in 0 .. Len(rt.paths)
    BY <2>1
  <2>. QED
    BY <1>3, <2>2, DistrustedHeld DEF ForwardDistrusted
<1>4. CASE NeighborLost
  <2>1. PICK id \in Addr : \E j \in 0 .. Len(LinkFailure(rt, id).paths) :
          rt' = Distrusted(LinkFailure(rt, id), j)
    BY <1>4 DEF NeighborLost
  <2>2. Held(LinkFailure(rt, id)) /\ Later(rt, LinkFailure(rt, id))
    BY LinkFailureHeld
  <2>3. Held(rt') /\ Later(LinkFailure(rt, id), rt')
    BY <2>1, <2>2, DistrustedHeld
  <2>. QED
    BY <2>2, <2>3, LaterTransitive
<1>5. CASE recvError
  BY <1>5, ErrorReceivedHeld DEF recvError
<1>6. CASE recvPta
  BY <1>6, PtaReceivedHeld DEF recvPta
<1>7. CASE rt_purge
  BY <1>7, PurgedHeld DEF rt_purge
<1>. QED
  BY <1>1, <1>2, <1>3, <1>4, <1>5, <1>6, <1>7 DEF Next

\* The invariant of the entry, from which the rest follows.
THEOREM EntryHeld == Spec => []Held(rt)
<1>1. Held(rt) /\ [Next]_rt => Held(rt)'
  <2>1. CASE Next
    BY <2>1, NextHeld
  <2>2. CASE UNCHANGED rt
    BY <2>2
  <2>. QED
    BY <2>1, <2>2
<1>. QED
  BY InitHeld, <1>1, PTL DEF Spec

\* The entry is always of its type: in particular the advertised hop count is
\* a hop count, INFINITY or INFINITY2, whatever the handlers do with it.
THEOREM TypeCorrect == Spec => []TypeOK
<1>1. Held(rt) => TypeOK
  BY DEF Held, Core, TypeOK
<1>. QED
  BY EntryHeld, <1>1, PTL

\* The alternates of a route share no next hop and no last hop, whatever is
\* received, lost, distrusted or purged.
THEOREM PathsStayDisjoint == Spec => []PathsDisjoint
<1>1. Held(rt) => PathsDisjoint
  BY DEF Held, Core, Disjoint, PathsDisjoint
<1>. QED
  BY EntryHeld, <1>1, PTL

\* A route that is up has a path for forward() to dereference.
THEOREM UpAlwaysHasPath == Spec => []UpHasPath
<1>1. Held(rt) => UpHasPath
  BY DEF Held, UpHasPath, path_empty
<1>. QED
  BY EntryHeld, <1>1, PTL

\* No path grows longer than what was advertised for it.
THEOREM AdvertisedBoundsHops == Spec => []HopsWithinAdvertised
<1>1. Held(rt) => HopsWithinAdvertised
  BY DEF Held, Core, Hops, HopsWithinAdvertised
<1>. QED
  BY EntryHeld, <1>1, PTL

\* The destination sequence number of an entry never goes back.
THEOREM SeqnoNeverGoesBack == Spec => SeqnoMonotone
<1>1. Held(rt) /\ [Next]_rt => [rt'.seqno >= rt.seqno]_rt
  BY NextHeld DEF Later
<1>. QED
  BY EntryHeld, <1>1, PTL DEF Spec, SeqnoMonotone

\* An advertised hop count stands while the route is up at one sequence number.
THEOREM AdvertisedIsFinal == Spec => AdvertisedFinal
<1>1. Held(rt) /\ [Next]_rt =>
        [(/\ rt.up /\ rt'.up
          /\ rt'.seqno = rt.seqno
          /\ rt.adv # INFINITY) => rt'.adv = rt.adv]_rt
  BY NextHeld DEF Later
<1>. QED
  BY EntryHeld, <1>1, PTL DEF Spec, AdvertisedFinal
=============================================================================
