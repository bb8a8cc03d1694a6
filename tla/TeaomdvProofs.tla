---------------------------- MODULE TeaomdvProofs ----------------------------
(***************************************************************************)
(* What is proved of the network of Teaomdv, for any finite set of nodes   *)
(* and any links: types, the order of the sequence numbers and hop counts  *)
(* along routes, and that routes form no loop as long as no trust value    *)
(* has been revised; that data never goes to a distrusted neighbour; and   *)
(* that no packet of data is ever in two places.                           *)
(*                                                                         *)
(* The first part is about one agent: what its routines do to its route    *)
(* entries and to the rest of its state, whoever calls them.  Proper(e) is *)
(* what holds of every entry, also after alarms; Clear(e) what holds       *)
(* besides as long as no trust value has been revised, and Follows(e, r)   *)
(* how an entry may change then other than by learning.  Conserves(w, v)   *)
(* says that v holds only packets w held, none twice.                      *)
(*                                                                         *)
(* The second part is about the network.  Good(n, w) is what every handler *)
(* of node n makes sure of the agent w it leaves; GoodStep shows that Inv  *)
(* needs no more, and OnceStep the same of Once, for handlers that         *)
(* conserve packets.                                                       *)
(***************************************************************************)
EXTENDS Teaomdv, SequenceTheorems, FiniteSetTheorems, TLAPS

\* t is made of elements of the first n of s, in their order.
Sublist(t, s, n) ==
  /\ t \in Seq(PathType)
  /\ \E f \in [1 .. Len(t) -> 1 .. n] :
       /\ \A i \in 1 .. Len(t) : t[i] = s[f[i]]
       /\ \A i, j \in 1 .. Len(t) : i < j => f[i] < f[j]

\* The loop of path_purge.
KeepUnexpired(gone, same, kept, p) ==
  IF p.nexthop \in gone THEN kept ELSE Append(kept, p)

KeptSoFar(paths, kept, n) == Sublist(kept, paths, n)

Purging == INSTANCE FoldFacts WITH Op <- KeepUnexpired, Inv <- KeptSoFar

Apart(paths) ==
  \A i, j \in 1 .. Len(paths) :
    i # j => paths[i].nexthop # paths[j].nexthop /\ paths[i].lasthop # paths[j].lasthop

Proper(e) ==
  /\ e \in EntryType
  /\ Apart(e.paths)
  /\ e.up => e.paths # << >>

\* A sequence number a destination has issued; one of a route that was lost.
Lent(s) == s # 0 /\ s % 2 = 0
Lost(s) == s = 0 \/ s % 2 = 1

\* No path is longer than what is advertised.
Settled(e) == \A i \in 1 .. Len(e.paths) : e.paths[i].hopcount <= e.adv

Clear(e) ==
  /\ e.up => Lent(e.seqno)
  /\ ~e.up => Lost(e.seqno) /\ e.paths = << >>
  /\ Lost(e.highest)
  /\ \A i \in 1 .. Len(e.paths) : e.paths[i].trusted
  /\ e.adv # INFINITY => Settled(e)

SamePath(p, q) == p.nexthop = q.nexthop /\ p.hopcount = q.hopcount

\* A node with entry f for a destination may be the next hop of a path of k hops
\* learned at sequence number s.
Ahead(f, s, k) == f.seqno > s \/ (f.seqno = s /\ f.adv < k /\ Settled(f))

\* What r promises those upstream is no worse than what e promised.
AsGood(e, r) ==
  \/ r.seqno > e.seqno
  \/ r.seqno = e.seqno /\ (Settled(e) => Settled(r) /\ r.adv <= e.adv)

\* Hop count h is one that an entry r, up and advertised, may state.
Stated(r, h) ==
  \/ h = r.adv /\ h # INFINITY
  \/ \E i \in 1 .. Len(r.paths) : r.paths[i].hopcount = h

\* Entry e becomes r: what r promises is as good, every path it has is one of e's or
\* one of the offers, pairs of a path and a sequence number, from a node that is not
\* farther than e; and so is the hop count it advertises.
Follows(e, r, offers) ==
  /\ AsGood(e, r)
  /\ r.up =>
       /\ \A i \in 1 .. Len(r.paths) :
            \/ /\ e.up /\ r.seqno = e.seqno
               /\ \E j \in 1 .. Len(e.paths) : SamePath(r.paths[i], e.paths[j])
            \/ \E o \in offers : /\ r.seqno = o[2] /\ SamePath(r.paths[i], o[1])
                                /\ ~Ahead(e, o[2], o[1].hopcount)
       /\ \/ r.adv = INFINITY
          \/ e.up /\ r.seqno = e.seqno /\ r.adv = e.adv
          \/ \E i \in 1 .. Len(r.paths) : r.paths[i].hopcount = r.adv

\* Only the precursors and the error flag differ, or r has been advertised anew.
Alike(e, r) ==
  /\ r.seqno = e.seqno /\ r.paths = e.paths /\ r.up = e.up /\ r.highest = e.highest
  /\ \/ r.adv = e.adv
     \/ /\ e.adv = INFINITY /\ Settled(r) /\ (Settled(e) => r.adv <= e.adv)
        /\ r.up => \E i \in 1 .. Len(r.paths) : r.paths[i].hopcount = r.adv

\* The two ways to lose paths: only those in t are left, or none and the route is down.
Fewer(e, t, h) == [e EXCEPT !.paths = t, !.highest = h]
Gone(e, s, h) ==
  [e EXCEPT !.seqno = s, !.adv = INFINITY, !.paths = << >>, !.up = FALSE, !.highest = h]
-----------------------------------------------------------------------------
(* Path lists. *)

\* The elements of a path list, and when there is a first.
LEMMA PathOf ==
  ASSUME NEW e \in EntryType
  PROVE  /\ e.paths \in Seq(PathType) /\ Len(e.paths) \in Nat
         /\ DOMAIN e.paths = 1 .. Len(e.paths)
         /\ \A i \in 1 .. Len(e.paths) : /\ e.paths[i] \in PathType
                                         /\ e.paths[i].nexthop \in Node
                                         /\ e.paths[i].lasthop \in Node
                                         /\ e.paths[i].hopcount \in Nat
                                         /\ e.paths[i].trusted \in BOOLEAN
<1>1. e.paths \in Seq(PathType)
  BY DEF EntryType
<1>2. \A i \in 1 .. Len(e.paths) : e.paths[i] \in PathType
  BY <1>1, ElementOfSeq
<1> QED
  BY <1>1, <1>2 DEF PathType

\* A path list is a sublist of itself.
LEMMA SublistOfItself ==
  ASSUME NEW s \in Seq(PathType)
  PROVE  Sublist(s, s, Len(s))
<1> DEFINE f == [i \in 1 .. Len(s) |-> i]
<1>1. f \in [1 .. Len(s) -> 1 .. Len(s)]
  OBVIOUS
<1>2. /\ \A i \in 1 .. Len(s) : s[i] = s[f[i]]
      /\ \A i, j \in 1 .. Len(s) : i < j => f[i] < f[j]
  OBVIOUS
<1> HIDE DEF f
<1> QED
  BY <1>1, <1>2 DEF Sublist

\* What is left when the element at k is taken out.
LEMMA RemoveAtList ==
  ASSUME NEW S, NEW s \in Seq(S), NEW k \in 1 .. Len(s)
  PROVE  /\ RemoveAt(s, k) \in Seq(S)
         /\ Len(RemoveAt(s, k)) = Len(s) - 1
         /\ \A i \in 1 .. Len(s) - 1 : RemoveAt(s, k)[i] = IF i < k THEN s[i] ELSE s[i + 1]
<1> DEFINE u == SubSeq(s, 1, k - 1)
           v == SubSeq(s, k + 1, Len(s))
<1>1. Len(s) \in Nat /\ k \in Nat /\ k <= Len(s) /\ k >= 1
  OBVIOUS
<1>2. u \in Seq(S) /\ Len(u) = k - 1 /\ \A i \in 1 .. k - 1 : u[i] = s[i]
  <2>1. \A i \in 1 .. k - 1 : s[i] \in S
    BY <1>1
  <2>2. Len(u) = IF 1 <= k - 1 THEN (k - 1) - 1 + 1 ELSE 0
    BY <1>1, <2>1, SubSeqProperties
  <2>3. u \in Seq(S) /\ \A i \in 1 .. (k - 1) - 1 + 1 : u[i] = s[1 + i - 1]
    BY <1>1, <2>1, SubSeqProperties
  <2> HIDE DEF u
  <2> QED
    BY <1>1, <2>2, <2>3
<1>3. v \in Seq(S) /\ Len(v) = Len(s) - k /\ \A i \in 1 .. Len(s) - k : v[i] = s[k + i]
  <2>1. \A i \in k + 1 .. Len(s) : s[i] \in S
    BY <1>1
  <2>2. Len(v) = IF k + 1 <= Len(s) THEN Len(s) - (k + 1) + 1 ELSE 0
    BY <1>1, <2>1, SubSeqProperties
  <2>3. v \in Seq(S) /\ \A i \in 1 .. Len(s) - (k + 1) + 1 : v[i] = s[(k + 1) + i - 1]
    BY <1>1, <2>1, SubSeqProperties
  <2> HIDE DEF v
  <2> QED
    BY <1>1, <2>2, <2>3
<1>4. RemoveAt(s, k) = u \o v
  BY DEF RemoveAt
<1> HIDE DEF u, v
<1> DEFINE t == u \o v
<1>5. /\ t \in Seq(S) /\ Len(t) = Len(u) + Len(v)
      /\ \A i \in 1 .. Len(u) + Len(v) : t[i] = IF i <= Len(u) THEN u[i] ELSE v[i - Len(u)]
  BY <1>2, <1>3, ConcatProperties
<1> HIDE DEF t
<1>6. ASSUME NEW i \in 1 .. Len(s) - 1 PROVE t[i] = IF i < k THEN s[i] ELSE s[i + 1]
  <2>1. i \in 1 .. Len(u) + Len(v)
    BY <1>1, <1>2, <1>3
  <2>2. CASE i < k
    <3>1. i <= Len(u) /\ i \in 1 .. k - 1
      BY <1>1, <1>2, <2>2
    <3> QED
      BY <1>2, <1>5, <2>1, <2>2, <3>1
  <2>3. CASE i >= k
    <3>1. ~(i <= Len(u)) /\ i - Len(u) \in 1 .. Len(s) - k /\ k + (i - Len(u)) = i + 1
      BY <1>1, <1>2, <2>3
    <3>2. t[i] = v[i - Len(u)] /\ v[i - Len(u)] = s[i + 1]
      BY <1>3, <1>5, <2>1, <3>1
    <3> QED
      BY <1>1, <2>3, <3>2
  <2> QED
    BY <1>1, <2>2, <2>3
<1>7. Len(t) = Len(s) - 1
  BY <1>1, <1>2, <1>3, <1>5
<1> QED
  BY <1>4, <1>5, <1>6, <1>7 DEF t

\* Finitely many natural numbers have a bound.
LEMMA ListBounded ==
  ASSUME NEW n \in Nat, NEW f, \A i \in 1 .. n : f[i] \in Nat
  PROVE  \E u \in Nat : \A i \in 1 .. n : f[i] <= u
<1> DEFINE T == {k \in Nat : k <= n /\ ~\E u \in Nat : \A i \in 1 .. k : f[i] <= u}
<1>1. SUFFICES ASSUME T # {} PROVE FALSE
  <2>1. n \notin T => \E u \in Nat : \A i \in 1 .. n : f[i] <= u
    OBVIOUS
  <2> QED
    BY <2>1, Zenon
<1>2. PICK m \in T : \A y \in T : m <= y
  BY <1>1, Purging!Smallest
<1>3. m # 0
  <2>1. \A i \in 1 .. 0 : f[i] <= 0
    OBVIOUS
  <2> QED
    BY <1>2, <2>1
<1>4. m - 1 \in Nat /\ m - 1 <= n /\ m - 1 \notin T /\ m \in 1 .. n
  <2>1. m \in Nat /\ m <= n
    BY <1>2
  <2>2. ~(m <= m - 1)
    BY <2>1
  <2>3. m - 1 \notin T
    BY <1>2, <2>2, Zenon
  <2> QED
    BY <1>3, <2>1, <2>3
<1>5. PICK u \in Nat : \A i \in 1 .. m - 1 : f[i] <= u
  BY <1>4
<1> DEFINE w == IF f[m] <= u THEN u ELSE f[m]
<1>6. w \in Nat /\ f[m] <= w /\ u <= w
  BY <1>4
<1> HIDE DEF w
<1>7. ASSUME NEW i \in 1 .. m PROVE f[i] <= w
  <2>1. CASE i = m
    BY <1>6, <2>1
  <2>2. CASE i # m
    <3>1. i \in 1 .. m - 1 /\ f[i] \in Nat
      BY <1>4, <2>2
    <3>2. f[i] <= u
      BY <1>5, <3>1
    <3> QED
      BY <1>6, <3>1, <3>2
  <2> QED
    BY <2>1, <2>2
<1>8. m \notin T
  BY <1>6, <1>7
<1> QED
  BY <1>2, <1>8, Zenon

\* Taking one path out leaves a sublist.
LEMMA RemoveAtSublist ==
  ASSUME NEW s \in Seq(PathType), NEW k \in 1 .. Len(s)
  PROVE  Sublist(RemoveAt(s, k), s, Len(s))
<1> DEFINE t == RemoveAt(s, k)
           f == [i \in 1 .. Len(s) - 1 |-> IF i < k THEN i ELSE i + 1]
<1>1. /\ t \in Seq(PathType) /\ Len(t) = Len(s) - 1
      /\ \A i \in 1 .. Len(s) - 1 : t[i] = IF i < k THEN s[i] ELSE s[i + 1]
  BY RemoveAtList
<1> HIDE DEF t
<1>2. Len(s) \in Nat
  OBVIOUS
<1>3. /\ f \in [1 .. Len(s) - 1 -> 1 .. Len(s)]
      /\ \A i, j \in 1 .. Len(s) - 1 : i < j => f[i] < f[j]
  BY <1>2
<1>4. \A i \in 1 .. Len(s) - 1 : t[i] = s[f[i]]
  BY <1>1
<1> HIDE DEF f
<1>5. Sublist(t, s, Len(s))
  <2>1. /\ f \in [1 .. Len(t) -> 1 .. Len(s)]
        /\ \A i \in 1 .. Len(t) : t[i] = s[f[i]]
        /\ \A i, j \in 1 .. Len(t) : i < j => f[i] < f[j]
    BY <1>1, <1>3, <1>4
  <2> QED
    BY <1>1, <2>1, Zenon DEF Sublist
<1> QED
  BY <1>5 DEF t

\* path_lookup finds a first position.
LEMMA FirstViaPosition ==
  ASSUME NEW e \in EntryType, NEW id, path_lookup(e, id)
  PROVE  FirstVia(e, id) \in 1 .. Len(e.paths) /\ e.paths[FirstVia(e, id)].nexthop = id
<1> DEFINE T == {i \in DOMAIN e.paths : e.paths[i].nexthop = id}
<1>1. T # {} /\ T \subseteq Nat /\ DOMAIN e.paths = 1 .. Len(e.paths) /\ Len(e.paths) \in Nat
  BY PathOf DEF path_lookup
<1>2. PICK i \in T : \A j \in T : i <= j
  <2> HIDE DEF T
  <2> QED
    BY <1>1, Purging!Smallest
<1>3. ASSUME NEW j \in 1 .. i - 1 PROVE e.paths[j].nexthop # id
  BY <1>1, <1>2
<1> QED
  BY <1>1, <1>2, <1>3 DEF FirstVia

\* path_delete leaves a part of the list, without the next hop if the paths are apart.
LEMMA DeletePath ==
  ASSUME NEW e \in EntryType, NEW id
  PROVE  \E t : /\ path_delete(e, id) = [e EXCEPT !.paths = t]
                /\ Sublist(t, e.paths, Len(e.paths))
                /\ Apart(e.paths) => \A i \in 1 .. Len(t) : t[i].nexthop # id
<1>1. CASE path_lookup(e, id)
  <2> DEFINE s == e.paths
             k == FirstVia(e, id)
             t == RemoveAt(s, k)
  <2>1. k \in 1 .. Len(s) /\ s[k].nexthop = id
    BY <1>1, FirstViaPosition
  <2>2. path_delete(e, id) = [e EXCEPT !.paths = t]
    BY <1>1 DEF path_delete
  <2>3. s \in Seq(PathType) /\ Len(s) \in Nat
    BY PathOf
  <2> HIDE DEF s, k
  <2>4. Sublist(t, s, Len(s))
    BY <2>1, <2>3, RemoveAtSublist
  <2>5. /\ Len(t) = Len(s) - 1
        /\ \A i \in 1 .. Len(s) - 1 : t[i] = IF i < k THEN s[i] ELSE s[i + 1]
    BY <2>1, <2>3, RemoveAtList
  <2> HIDE DEF t
  <2>6. ASSUME Apart(s), NEW i \in 1 .. Len(t) PROVE t[i].nexthop # id
    <3>1. i \in 1 .. Len(s) - 1 /\ i \in 1 .. Len(s) /\ i + 1 \in 1 .. Len(s)
      BY <2>3, <2>5
    <3>2. \E j \in 1 .. Len(s) : j # k /\ t[i] = s[j]
      <4>1. CASE i < k
        BY <2>1, <2>5, <3>1, <4>1
      <4>2. CASE ~(i < k)
        <5>1. i + 1 # k
          BY <2>1, <3>1, <4>2
        <5> QED
          BY <2>5, <3>1, <4>2, <5>1
      <4> QED
        BY <4>1, <4>2
    <3> QED
      BY <2>1, <2>6, <3>2 DEF Apart
  <2> QED
    BY <2>2, <2>4, <2>6 DEF s
<1>2. CASE ~path_lookup(e, id)
  <2>1. path_delete(e, id) = [e EXCEPT !.paths = e.paths]
    BY <1>2 DEF path_delete, EntryType
  <2>2. \A i \in 1 .. Len(e.paths) : e.paths[i].nexthop # id
    BY <1>2, PathOf DEF path_lookup
  <2> QED
    BY <2>1, <2>2, SublistOfItself, PathOf
<1> QED
  BY <1>1, <1>2

\* path_purge leaves a sublist, without the next hops that expired.
LEMMA UnexpiredSublist ==
  ASSUME NEW e \in EntryType, NEW gone
  PROVE  Sublist(Unexpired(e, gone), e.paths, Len(e.paths))
<1> DEFINE s == e.paths
<1>1. s \in Seq(PathType) /\ Len(s) \in Nat /\ DOMAIN s = 1 .. Len(s)
      /\ \A i \in 1 .. Len(s) : s[i] \in PathType
  BY PathOf
<1>2. Unexpired(e, gone) = Purging!Fold(gone, gone, << >>, s)
  BY Zenon DEF Unexpired, Purging!Fold, KeepUnexpired, FoldLeft, MapThenFoldSet,
               Max, Purging!IsIteration, Purging!Top
<1> HIDE DEF s
<1>3. Sublist(<< >>, s, 0)
  <2> DEFINE f == [i \in 1 .. 0 |-> i]
  <2>1. << >> \in Seq(PathType) /\ Len(<< >>) = 0 /\ 1 .. 0 = {}
    OBVIOUS
  <2>2. f \in [1 .. 0 -> 1 .. 0]
    OBVIOUS
  <2> QED
    BY <2>1, <2>2 DEF Sublist
<1>4. ASSUME NEW n \in 1 .. Len(s), NEW t, Sublist(t, s, n - 1)
      PROVE  Sublist(KeepUnexpired(gone, gone, t, s[n]), s, n)
  <2>1. PICK f \in [1 .. Len(t) -> 1 .. n - 1] :
          /\ \A i \in 1 .. Len(t) : t[i] = s[f[i]]
          /\ \A i, j \in 1 .. Len(t) : i < j => f[i] < f[j]
    BY <1>4 DEF Sublist
  <2>2. t \in Seq(PathType) /\ Len(t) \in Nat /\ n \in Nat
    BY <1>4 DEF Sublist
  <2>3. CASE s[n].nexthop \in gone
    <3>1. f \in [1 .. Len(t) -> 1 .. n]
      BY <2>2
    <3> QED
      BY <2>1, <2>2, <2>3, <3>1 DEF Sublist, KeepUnexpired
  <2>4. CASE s[n].nexthop \notin gone
    <3> DEFINE u == Append(t, s[n])
               g == [i \in 1 .. Len(t) + 1 |-> IF i <= Len(t) THEN f[i] ELSE n]
    <3>1. u \in Seq(PathType) /\ Len(u) = Len(t) + 1
          /\ \A i \in 1 .. Len(t) + 1 : u[i] = IF i <= Len(t) THEN t[i] ELSE s[n]
      <4>1. s[n] \in PathType
        BY <1>1
      <4>2. /\ u \in Seq(PathType) /\ Len(u) = Len(t) + 1
            /\ \A i \in 1 .. Len(t) : u[i] = t[i]
            /\ u[Len(t) + 1] = s[n]
        BY <2>2, <4>1, AppendProperties
      <4> HIDE DEF u
      <4> QED
        BY <2>2, <4>2
    <3> HIDE DEF u
    <3>2. \A i \in 1 .. Len(t) + 1 : i <= Len(t) => i \in 1 .. Len(t) /\ f[i] \in 1 .. n - 1
      BY <2>2
    <3>3. g \in [1 .. Len(t) + 1 -> 1 .. n]
      BY <2>2, <3>2
    <3>4. \A i \in 1 .. Len(t) + 1 : u[i] = s[g[i]]
      BY <2>1, <3>1, <3>2
    <3>5. \A i, j \in 1 .. Len(t) + 1 : i < j => g[i] < g[j]
      BY <2>1, <2>2, <3>2
    <3> HIDE DEF g
    <3>6. Sublist(u, s, n)
      <4>1. /\ g \in [1 .. Len(u) -> 1 .. n]
            /\ \A i \in 1 .. Len(u) : u[i] = s[g[i]]
            /\ \A i, j \in 1 .. Len(u) : i < j => g[i] < g[j]
        BY <3>1, <3>3, <3>4, <3>5
      <4> QED
        BY <3>1, <4>1, Zenon DEF Sublist
    <3> QED
      BY <2>4, <3>6 DEF u, KeepUnexpired
  <2> QED
    BY <2>3, <2>4
<1>5. Sublist(Purging!Fold(gone, gone, << >>, s), s, Len(s))
  BY <1>1, <1>3, <1>4, Purging!FoldInvariant DEF KeptSoFar
<1> QED
  BY <1>2, <1>5 DEF s

\* What a sublist inherits: its paths are some of the list, and stay apart.
LEMMA SublistPaths ==
  ASSUME NEW e, Proper(e), NEW t, Sublist(t, e.paths, Len(e.paths))
  PROVE  /\ t \in Seq(PathType) /\ Len(t) \in Nat /\ Apart(t)
         /\ \A i \in 1 .. Len(t) : \E j \in 1 .. Len(e.paths) : t[i] = e.paths[j]
<1>1. PICK f \in [1 .. Len(t) -> 1 .. Len(e.paths)] :
        /\ \A i \in 1 .. Len(t) : t[i] = e.paths[f[i]]
        /\ \A i, j \in 1 .. Len(t) : i < j => f[i] < f[j]
  BY DEF Sublist
<1>2. /\ \A i \in 1 .. Len(t) : f[i] \in 1 .. Len(e.paths)
      /\ \A i, j \in 1 .. Len(t) : i # j => f[i] # f[j]
  <2>1. \A i \in 1 .. Len(t) : f[i] \in 1 .. Len(e.paths)
    OBVIOUS
  <2>2. \A i, j \in 1 .. Len(t) : i # j => i < j \/ j < i
    OBVIOUS
  <2>3. \A i, j \in 1 .. Len(t) : f[i] < f[j] => f[i] # f[j]
    BY <2>1
  <2> QED
    BY <1>1, <2>1, <2>2, <2>3
<1>3. Apart(e.paths)
  BY DEF Proper
<1>4. ASSUME NEW i \in 1 .. Len(t), NEW j \in 1 .. Len(t), i # j
      PROVE  t[i].nexthop # t[j].nexthop /\ t[i].lasthop # t[j].lasthop
  <2>1. /\ t[i] = e.paths[f[i]] /\ t[j] = e.paths[f[j]] /\ f[i] # f[j]
        /\ f[i] \in 1 .. Len(e.paths) /\ f[j] \in 1 .. Len(e.paths)
    BY <1>1, <1>2, <1>4
  <2> QED
    BY <1>3, <2>1 DEF Apart
<1>5. t \in Seq(PathType) /\ Len(t) \in Nat
  BY DEF Sublist
<1> QED
  BY <1>1, <1>2, <1>4, <1>5 DEF Apart
-----------------------------------------------------------------------------
(* Entries that lose paths. *)

\* The types of the fields of an entry.
LEMMA EntryFields ==
  ASSUME NEW e \in EntryType
  PROVE  /\ e.seqno \in Nat /\ e.adv \in Nat /\ e.highest \in Nat
         /\ e.up \in BOOLEAN /\ e.error \in BOOLEAN /\ e.pcs \in SUBSET (Node \cup {Zero})
         /\ e.paths \in Seq(PathType)
BY DEF EntryType

\* An entry that loses some paths and keeps others follows the one it was.
LEMMA FewerPaths ==
  ASSUME NEW e, Proper(e), NEW t, Sublist(t, e.paths, Len(e.paths)), t # << >>, e.up,
         NEW h \in Nat
  PROVE  /\ Proper(Fewer(e, t, h))
         /\ Clear(e) /\ Lost(h) => Clear(Fewer(e, t, h)) /\ Follows(e, Fewer(e, t, h), {})
<1> DEFINE r == Fewer(e, t, h)
<1>1. /\ t \in Seq(PathType) /\ Len(t) \in Nat /\ Apart(t)
      /\ \A i \in 1 .. Len(t) : \E j \in 1 .. Len(e.paths) : t[i] = e.paths[j]
  BY SublistPaths
<1>2. e \in EntryType
  BY DEF Proper
<1>3. /\ r \in EntryType /\ r.paths = t /\ r.seqno = e.seqno /\ r.adv = e.adv
      /\ r.up = e.up /\ r.highest = h
  BY <1>1, <1>2 DEF Fewer, EntryType
<1> HIDE DEF r
<1>4. Proper(r)
  BY <1>1, <1>3 DEF Proper
<1>5. ASSUME Clear(e), Lost(h)
      PROVE  Clear(r) /\ Follows(e, r, {})
  <2>1. Settled(e) => Settled(r)
    BY <1>1, <1>3 DEF Settled
  <2>2. ASSUME Settled(e), NEW i \in 1 .. Len(t) PROVE t[i].hopcount <= e.adv
    BY <1>1, <2>2 DEF Settled
  <2>3. AsGood(e, r)
    <3>1. r.adv <= e.adv
      BY <1>2, <1>3, EntryFields
    <3> QED
      BY <1>3, <2>2, <3>1 DEF AsGood, Settled
  <2>4. Follows(e, r, {})
    BY <1>1, <1>3, <2>3 DEF Follows, SamePath
  <2>5. Clear(r)
    BY <1>1, <1>3, <1>5, <2>1 DEF Clear
  <2> QED
    BY <2>4, <2>5
<1> QED
  BY <1>4, <1>5 DEF r

\* An entry taken down, with a number that is not in use, follows the one it was.
LEMMA GoneRoute ==
  ASSUME NEW e, Proper(e), NEW s \in Nat, NEW h \in Nat
  PROVE  /\ Proper(Gone(e, s, h))
         /\ Lost(s) /\ Lost(h) /\ s > e.seqno =>
              Clear(Gone(e, s, h)) /\ Follows(e, Gone(e, s, h), {})
<1> DEFINE r == Gone(e, s, h)
<1>1. e \in EntryType
  BY DEF Proper
<1>2. /\ r \in EntryType /\ r.paths = << >> /\ r.seqno = s /\ r.up = FALSE /\ r.highest = h
      /\ r.adv = INFINITY
  <2>1. << >> \in Seq(PathType) /\ INFINITY \in Nat
    BY DEF INFINITY
  <2> QED
    BY <1>1, <2>1 DEF Gone, EntryType
<1>3. Len(r.paths) = 0
  BY <1>2
<1> HIDE DEF r
<1> QED
  BY <1>2, <1>3 DEF r, Proper, Apart, Clear, Follows, AsGood

\* An unchanged entry follows itself.
LEMMA SameEntry ==
  ASSUME NEW e \in EntryType, NEW offers
  PROVE  Follows(e, e, offers)
<1>1. e.adv \in Nat /\ e.seqno \in Nat
  BY DEF EntryType
<1> QED
  BY <1>1 DEF Follows, AsGood, SamePath

\* path_delete on an entry that is up leaves some paths or none.
LEMMA DeleteFromUp ==
  ASSUME NEW e, Proper(e), NEW id
  PROVE  \E t : /\ path_delete(e, id) = [e EXCEPT !.paths = t]
                /\ Sublist(t, e.paths, Len(e.paths))
                /\ t \in Seq(PathType)
                /\ \A i \in 1 .. Len(t) :
                     t[i].nexthop # id /\ \E j \in 1 .. Len(e.paths) : t[i] = e.paths[j]
<1>1. e \in EntryType /\ Apart(e.paths)
  BY DEF Proper
<1>2. PICK t : /\ path_delete(e, id) = [e EXCEPT !.paths = t]
               /\ Sublist(t, e.paths, Len(e.paths))
               /\ \A i \in 1 .. Len(t) : t[i].nexthop # id
  BY <1>1, DeletePath
<1>3. /\ t \in Seq(PathType)
      /\ \A i \in 1 .. Len(t) : \E j \in 1 .. Len(e.paths) : t[i] = e.paths[j]
  BY <1>2, SublistPaths
<1> QED
  BY <1>2, <1>3

\* handle_link_failure, for one entry.
LEMMA LinkFailureEntry ==
  ASSUME NEW e, Proper(e), NEW id
  PROVE  LET r == LinkFailure(e, id) IN
         /\ Proper(r) /\ r.error = e.error /\ (r.up => e.up)
         /\ r.up => \A i \in 1 .. Len(r.paths) :
                      /\ r.paths[i].nexthop # id
                      /\ \E j \in 1 .. Len(e.paths) : r.paths[i] = e.paths[j]
         /\ Clear(e) => Clear(r) /\ Follows(e, r, {})
<1> DEFINE r == LinkFailure(e, id)
<1>1. /\ e \in EntryType /\ Len(e.paths) \in Nat /\ DOMAIN e.paths = 1 .. Len(e.paths)
      /\ e.seqno \in Nat /\ e.highest \in Nat /\ e.up \in BOOLEAN
  BY PathOf, EntryFields DEF Proper
<1>2. CASE ~(e.up /\ path_lookup(e, id))
  <2>1. r = e
    BY <1>2 DEF LinkFailure
  <2> HIDE DEF r
  <2>2. e.up => \A i \in 1 .. Len(e.paths) : e.paths[i].nexthop # id
    BY <1>1, <1>2 DEF path_lookup
  <2> QED
    BY <1>1, <2>1, <2>2, SameEntry DEF r
<1>3. CASE e.up /\ path_lookup(e, id)
  <2>1. PICK t : /\ path_delete(e, id) = [e EXCEPT !.paths = t]
                 /\ Sublist(t, e.paths, Len(e.paths))
                 /\ t \in Seq(PathType)
                 /\ \A i \in 1 .. Len(t) :
                      t[i].nexthop # id /\ \E j \in 1 .. Len(e.paths) : t[i] = e.paths[j]
    BY DeleteFromUp
  <2> DEFINE d == [e EXCEPT !.paths = t]
  <2>2. CASE t # << >>
    <3>1. r = d
      BY <1>1, <1>3, <2>1, <2>2 DEF LinkFailure, path_empty, EntryType
    <3>2. d = Fewer(e, t, e.highest)
      BY <1>1 DEF Fewer, EntryType
    <3>3. d.error = e.error /\ d.up = e.up /\ d.paths = t
      BY <1>1 DEF EntryType
    <3>4. Proper(d) /\ (Clear(e) => Clear(d) /\ Follows(e, d, {}))
      <4>1. Clear(e) => Lost(e.highest)
        BY DEF Clear
      <4> QED
        BY <1>1, <1>3, <2>1, <2>2, <3>2, <4>1, FewerPaths
    <3> HIDE DEF r, d
    <3> QED
      BY <1>1, <1>3, <2>1, <3>1, <3>3, <3>4 DEF r
  <2>3. CASE t = << >>
    <3> DEFINE s == Larger(e.seqno + 1, e.highest)
    <3>1. s \in Nat /\ s > e.seqno
      BY <1>1 DEF Larger
    <3>2. r = Gone(e, s, e.highest)
      <4>1. d.paths = << >> /\ d.seqno = e.seqno /\ d.highest = e.highest
            /\ [d EXCEPT !.seqno = s].up
        BY <1>1, <1>3, <2>3 DEF EntryType
      <4>2. r = rt_down([d EXCEPT !.seqno = s])
        BY <1>3, <2>1, <4>1 DEF LinkFailure, path_empty
      <4>3. r = [[d EXCEPT !.seqno = s] EXCEPT !.up = FALSE, !.adv = INFINITY, !.paths = << >>]
        BY <4>1, <4>2 DEF rt_down
      <4> HIDE DEF s
      <4> QED
        BY <1>1, <4>3 DEF Gone, EntryType
    <3>3. Gone(e, s, e.highest).error = e.error /\ Gone(e, s, e.highest).up = FALSE
      BY <1>1 DEF Gone, EntryType
    <3>4. ASSUME Clear(e) PROVE Lost(s) /\ Lost(e.highest)
      <4>1. Lost(e.highest) /\ e.seqno % 2 = 0
        BY <1>3, <3>4 DEF Clear, Lent
      <4>2. (e.seqno + 1) % 2 = 1
        BY <1>1, <4>1
      <4> QED
        BY <4>1, <4>2 DEF Larger, Lost
    <3> HIDE DEF s, r
    <3>5. /\ Proper(Gone(e, s, e.highest))
          /\ Clear(e) => Clear(Gone(e, s, e.highest)) /\ Follows(e, Gone(e, s, e.highest), {})
      BY <1>1, <3>1, <3>4, GoneRoute
    <3> QED
      BY <3>2, <3>3, <3>5 DEF r
  <2> QED
    BY <2>2, <2>3
<1> QED
  BY <1>2, <1>3

\* recvError, for one destination of the RERR.
LEMMA ErrorEntry ==
  ASSUME NEW e, Proper(e), NEW from, NEW s \in Nat
  PROVE  LET r == ErrorReceived(e, from, s) IN
         /\ Proper(r) /\ r.error = e.error
         /\ Clear(e) /\ Lost(s) => Clear(r) /\ Follows(e, r, {})
<1> DEFINE r == ErrorReceived(e, from, s)
           h == Larger(e.highest, s)
<1>1. /\ e \in EntryType /\ e.seqno \in Nat /\ e.highest \in Nat /\ e.up \in BOOLEAN
  BY EntryFields DEF Proper
<1>2. CASE ~ErrorApplies(e, from, s)
  <2>1. r = e
    BY <1>2 DEF ErrorReceived
  <2> HIDE DEF r
  <2> QED
    BY <1>1, <2>1, SameEntry DEF r
<1>3. CASE ErrorApplies(e, from, s)
  <2>0. e.up /\ e.seqno <= s
    BY <1>3 DEF ErrorApplies
  <2>1. PICK t : /\ path_delete(e, from) = [e EXCEPT !.paths = t]
                 /\ Sublist(t, e.paths, Len(e.paths))
                 /\ t \in Seq(PathType)
    BY DeleteFromUp
  <2>2. h \in Nat /\ h >= s
    BY <1>1 DEF Larger
  <2>3. ASSUME Clear(e), Lost(s) PROVE Lost(h) /\ h > e.seqno
    <3>1. Lost(e.highest) /\ Lent(e.seqno)
      BY <2>0, <2>3 DEF Clear
    <3>2. Lost(h)
      BY <2>3, <3>1 DEF Larger
    <3>3. h # e.seqno
      BY <1>1, <2>2, <3>1, <3>2 DEF Lent, Lost
    <3> HIDE DEF h
    <3> QED
      BY <1>1, <2>0, <2>2, <3>2, <3>3
  <2>4. [path_delete(e, from) EXCEPT !.highest = Larger(@, s)] = Fewer(e, t, h)
    BY <1>1, <2>1 DEF Fewer, EntryType
  <2> HIDE DEF h
  <2>5. Fewer(e, t, h).paths = t /\ Fewer(e, t, h).highest = h /\ Fewer(e, t, h).error = e.error
    BY <1>1 DEF Fewer, EntryType
  <2>6. CASE t # << >>
    <3>1. r = Fewer(e, t, h)
      BY <1>3, <2>4, <2>5, <2>6 DEF ErrorReceived, path_empty
    <3> HIDE DEF r
    <3>2. /\ Proper(Fewer(e, t, h))
          /\ Clear(e) /\ Lost(h) => Clear(Fewer(e, t, h)) /\ Follows(e, Fewer(e, t, h), {})
      BY <2>0, <2>1, <2>2, <2>6, FewerPaths
    <3> QED
      BY <2>3, <2>5, <3>1, <3>2 DEF r
  <2>7. CASE t = << >>
    <3>1. r = rt_down([Fewer(e, t, h) EXCEPT !.seqno = h])
      BY <1>3, <2>4, <2>5, <2>7 DEF ErrorReceived, path_empty
    <3>2. r = Gone(e, h, h)
      BY <1>1, <2>0, <2>7, <3>1 DEF rt_down, Fewer, Gone, EntryType
    <3>3. Gone(e, h, h).error = e.error
      BY <1>1 DEF Gone, EntryType
    <3> HIDE DEF r
    <3>4. /\ Proper(Gone(e, h, h))
          /\ Lost(h) /\ h > e.seqno => Clear(Gone(e, h, h)) /\ Follows(e, Gone(e, h, h), {})
      BY <2>2, GoneRoute
    <3> QED
      BY <2>3, <3>2, <3>3, <3>4 DEF r
  <2> QED
    BY <2>6, <2>7
<1> QED
  BY <1>2, <1>3

\* recvPta, for the entry it is about.
LEMMA PtaEntry ==
  ASSUME NEW e, Proper(e), NEW from, NEW s \in Nat, NEW last
  PROVE  LET r == PtaReceived(e, from, s, last) IN Proper(r) /\ r.pcs = e.pcs
<1> DEFINE r == PtaReceived(e, from, s, last)
           h == Larger(e.highest, s)
<1>1. /\ e \in EntryType /\ e.seqno \in Nat /\ e.highest \in Nat /\ e.up \in BOOLEAN
  BY EntryFields DEF Proper
<1>2. CASE ~PtaApplies(e, from, s, last)
  BY <1>2 DEF PtaReceived
<1>3. CASE PtaApplies(e, from, s, last)
  <2>1. PICK t : /\ path_delete(e, from) = [e EXCEPT !.paths = t]
                 /\ Sublist(t, e.paths, Len(e.paths))
                 /\ t \in Seq(PathType)
    BY DeleteFromUp
  <2>2. h \in Nat
    BY <1>1 DEF Larger
  <2>3. [path_delete(e, from) EXCEPT !.highest = Larger(@, s)] = Fewer(e, t, h)
    BY <1>1, <2>1 DEF Fewer, EntryType
  <2> HIDE DEF h
  <2> DEFINE d == Fewer(e, t, h)
  <2>4. d.paths = t /\ d.highest = h /\ d.up = e.up
    BY <1>1 DEF Fewer, EntryType
  <2>5. e.up
    BY <1>3 DEF PtaApplies, ErrorApplies
  <2>6. CASE t # << >>
    <3>1. r = [d EXCEPT !.seqno = h]
      BY <1>3, <2>3, <2>4, <2>6 DEF PtaReceived, DownIfEmpty, path_empty
    <3>2. /\ r \in EntryType /\ r.paths = t /\ r.pcs = e.pcs
      BY <1>1, <2>1, <2>2, <3>1 DEF Fewer, EntryType
    <3>3. Apart(t)
      BY <2>1, SublistPaths
    <3> HIDE DEF r
    <3> QED
      BY <2>6, <3>2, <3>3 DEF r, Proper
  <2>7. CASE t = << >>
    <3>1. r = [rt_down(d) EXCEPT !.seqno = h]
      BY <1>3, <2>3, <2>4, <2>7 DEF PtaReceived, DownIfEmpty, path_empty
    <3>2. r = Gone(e, h, h)
      BY <1>1, <2>4, <2>5, <2>7, <3>1 DEF rt_down, Fewer, Gone, EntryType
    <3>3. Gone(e, h, h).pcs = e.pcs
      BY <1>1 DEF Gone, EntryType
    <3>4. Proper(Gone(e, h, h))
      BY <2>2, GoneRoute
    <3> HIDE DEF r
    <3> QED
      BY <3>2, <3>3, <3>4 DEF r
  <2> QED
    BY <2>6, <2>7
<1> QED
  BY <1>2, <1>3

\* rt_purge, for one entry.
LEMMA PurgedEntry ==
  ASSUME NEW e, Proper(e), e.up, NEW gone
  PROVE  LET r == Purged(e, Unexpired(e, gone)) IN
         Proper(r) /\ (Clear(e) => Clear(r) /\ Follows(e, r, {}))
<1> DEFINE t == Unexpired(e, gone)
           r == Purged(e, t)
<1>1. /\ e \in EntryType /\ e.seqno \in Nat /\ e.highest \in Nat /\ e.up \in BOOLEAN
  BY EntryFields DEF Proper
<1>2. Sublist(t, e.paths, Len(e.paths))
  BY <1>1, UnexpiredSublist
<1> HIDE DEF t
<1> DEFINE d == [e EXCEPT !.paths = t]
<1>3. d = Fewer(e, t, e.highest) /\ d.paths = t /\ d.up
  BY <1>1 DEF Fewer, EntryType
<1>4. CASE t # << >>
  <2>1. r = Fewer(e, t, e.highest)
    BY <1>3, <1>4 DEF Purged, path_empty
  <2>2. Clear(e) => Lost(e.highest)
    BY DEF Clear
  <2> HIDE DEF r, d
  <2>3. Proper(r) /\ (Clear(e) => Clear(r) /\ Follows(e, r, {}))
    BY <1>1, <1>2, <1>4, <2>1, <2>2, FewerPaths
  <2> QED
    BY <2>3 DEF r, t
<1>5. CASE t = << >>
  <2> DEFINE next == Larger(e.seqno + 1, e.highest)
             s    == IF next % 2 = 0 THEN next + 1 ELSE next
  <2>1. next \in Nat /\ next > e.seqno
    BY <1>1 DEF Larger
  <2>2. s \in Nat /\ s > e.seqno /\ Lost(s)
    <3> HIDE DEF next
    <3> QED
      BY <1>1, <2>1 DEF Lost
  <2>3. r = rt_down([d EXCEPT !.seqno = s])
    BY <1>3, <1>5 DEF Purged, path_empty
  <2> HIDE DEF s, next
  <2>4. r = Gone(e, s, e.highest)
    BY <1>1, <1>3, <2>3 DEF rt_down, Gone, EntryType
  <2>5. Clear(e) => Lost(e.highest)
    BY DEF Clear
  <2> HIDE DEF r, d
  <2>6. Proper(r) /\ (Clear(e) => Clear(r) /\ Follows(e, r, {}))
    BY <1>1, <2>2, <2>4, <2>5, GoneRoute
  <2> QED
    BY <2>6 DEF r, t
<1> QED
  BY <1>4, <1>5

\* A next hop no longer trusted: its path is deleted, and the route with the last one.
LEMMA DistrustedEntry ==
  ASSUME NEW e, Proper(e), NEW id
  PROVE  LET r == DownIfEmpty(path_delete(e, id)) IN
         /\ Proper(r)
         /\ r.up => e.up /\ \A i \in 1 .. Len(r.paths) :
                              \E j \in 1 .. Len(e.paths) : r.paths[i] = e.paths[j]
<1> DEFINE r == DownIfEmpty(path_delete(e, id))
<1>1. /\ e \in EntryType /\ e.seqno \in Nat /\ e.highest \in Nat /\ e.up \in BOOLEAN
  BY EntryFields DEF Proper
<1>2. PICK t : /\ path_delete(e, id) = [e EXCEPT !.paths = t]
               /\ Sublist(t, e.paths, Len(e.paths))
               /\ t \in Seq(PathType)
               /\ \A i \in 1 .. Len(t) :
                    t[i].nexthop # id /\ \E j \in 1 .. Len(e.paths) : t[i] = e.paths[j]
  BY DeleteFromUp
<1> DEFINE d == [e EXCEPT !.paths = t]
<1>3. d \in EntryType /\ d.paths = t /\ d.up = e.up
  BY <1>1, <1>2 DEF EntryType
<1>4. Apart(t)
  BY <1>2, SublistPaths
<1>5. CASE ~e.up \/ t # << >>
  <2>1. r = d
    BY <1>2, <1>3, <1>5 DEF DownIfEmpty, path_empty, rt_down
  <2> HIDE DEF r, d
  <2> QED
    BY <1>2, <1>3, <1>4, <1>5, <2>1 DEF r, Proper
<1>6. CASE e.up /\ t = << >>
  <2>1. r = rt_down(d)
    BY <1>2, <1>3, <1>6 DEF DownIfEmpty, path_empty
  <2>2. r = Gone(e, e.seqno, e.highest)
    BY <1>1, <1>3, <1>6, <2>1 DEF rt_down, Gone, EntryType
  <2>3. Gone(e, e.seqno, e.highest).up = FALSE
    BY <1>1 DEF Gone, EntryType
  <2>4. Proper(Gone(e, e.seqno, e.highest))
    BY <1>1, GoneRoute
  <2> HIDE DEF r
  <2> QED
    BY <2>2, <2>3, <2>4 DEF r
<1> QED
  BY <1>5, <1>6

\* What an entry keeps when only its precursors, flag or first advertisement change.
LEMMA AlikeEntry ==
  ASSUME NEW e, Proper(e), NEW r \in EntryType, Alike(e, r)
  PROVE  /\ Proper(r)
         /\ Clear(e) => Clear(r)
         /\ Follows(e, r, {})
         /\ Settled(e) => Settled(r) /\ r.adv <= e.adv
<1>1. e \in EntryType /\ e.adv \in Nat
  BY EntryFields DEF Proper
<1>2. Proper(r)
  BY <1>1 DEF Alike, Proper
<1>3. Settled(e) => Settled(r) /\ r.adv <= e.adv
  BY <1>1 DEF Alike, Settled
<1>4. Clear(e) => Clear(r)
  <2>1. r.adv = e.adv => (Settled(e) => Settled(r))
    BY <1>3
  <2> QED
    BY <2>1 DEF Alike, Clear
<1>5. Follows(e, r, {})
  BY <1>3 DEF Alike, Follows, AsGood, SamePath
<1> QED
  BY <1>2, <1>3, <1>4, <1>5

\* Two such changes in a row are one.
LEMMA AlikeOn ==
  ASSUME NEW e \in EntryType, NEW r \in EntryType, NEW q \in EntryType, Alike(e, r), Alike(r, q)
  PROVE  Alike(e, q)
<1>1. e.adv \in Nat /\ r.adv \in Nat /\ q.adv \in Nat
  BY EntryFields
<1>2. CASE q.adv = r.adv
  <2>1. Settled(r) => Settled(q)
    BY <1>2 DEF Settled, Alike
  <2> QED
    BY <1>2, <2>1 DEF Alike
<1>3. CASE q.adv # r.adv
  <2>1. /\ Settled(q) /\ (Settled(r) => q.adv <= r.adv) /\ r.adv = INFINITY
        /\ q.up => \E i \in 1 .. Len(q.paths) : q.paths[i].hopcount = q.adv
    BY <1>3 DEF Alike
  <2>2. Settled(e) => Settled(r) /\ r.adv <= e.adv
    BY <1>1 DEF Settled, Alike
  <2>3. (Settled(e) => q.adv <= e.adv) /\ e.adv = INFINITY
    BY <1>1, <2>1, <2>2 DEF Alike
  <2> QED
    BY <2>1, <2>3 DEF Alike
<1> QED
  BY <1>2, <1>3

\* The longest path is as long as path_get_max_hopcount says.
LEMMA MaxHopcount ==
  ASSUME NEW e \in EntryType, e.paths # << >>
  PROVE  /\ path_get_max_hopcount(e) \in Nat \ {0}
         /\ \A i \in 1 .. Len(e.paths) : e.paths[i].hopcount <= path_get_max_hopcount(e)
         /\ \E i \in 1 .. Len(e.paths) : e.paths[i].hopcount = path_get_max_hopcount(e)
<1>1. /\ Len(e.paths) \in Nat /\ DOMAIN e.paths = 1 .. Len(e.paths)
      /\ e.paths \in Seq(PathType)
      /\ \A i \in 1 .. Len(e.paths) : e.paths[i] \in PathType
  BY PathOf
<1>2. \A i \in 1 .. Len(e.paths) : e.paths[i].hopcount \in Nat \ {0}
  BY <1>1 DEF PathType
<1> DEFINE f == [i \in 1 .. Len(e.paths) |-> e.paths[i].hopcount]
           H == Hops(e)
<1>3. /\ \A h \in H : h \in Nat \ {0} /\ \E i \in 1 .. Len(e.paths) : e.paths[i].hopcount = h
      /\ \A i \in 1 .. Len(e.paths) : e.paths[i].hopcount \in H
  BY <1>1, <1>2 DEF Hops
<1>4. \E u \in Nat : \A h \in H : h <= u
  <2>1. \A i \in 1 .. Len(e.paths) : f[i] \in Nat
    BY <1>2
  <2> HIDE DEF f
  <2>2. PICK u \in Nat : \A i \in 1 .. Len(e.paths) : f[i] <= u
    BY <1>1, <2>1, ListBounded
  <2>3. \A i \in 1 .. Len(e.paths) : e.paths[i].hopcount <= u
    BY <2>2 DEF f
  <2> HIDE DEF H
  <2> QED
    BY <1>3, <2>3
<1>5. H # {}
  <2>1. 1 \in 1 .. Len(e.paths)
    BY <1>1
  <2> HIDE DEF H
  <2> QED
    BY <1>3, <2>1
<1> HIDE DEF H
<1> DEFINE T == {u \in Nat : \A h \in H : h <= u}
<1>6. PICK u \in T : \A v \in T : u <= v
  <2>1. T # {} /\ T \subseteq Nat
    BY <1>4
  <2> HIDE DEF T
  <2> QED
    BY <2>1, Purging!Smallest
<1>7. u \in H
  <2>1. SUFFICES ASSUME u \notin H PROVE FALSE
    OBVIOUS
  <2>2. \A h \in H : h <= u - 1 /\ h \in Nat
    BY <1>3, <1>6, <2>1
  <2>3. u - 1 \in Nat
    <3>1. PICK h \in H : h \in Nat
      BY <1>3, <1>5
    <3> QED
      BY <1>6, <2>2, <3>1
  <2>4. u - 1 \in T
    BY <2>2, <2>3
  <2> QED
    BY <1>6, <2>4
<1> DEFINE m == path_get_max_hopcount(e)
<1>8. m = CHOOSE h \in H : \A k \in H : k <= h
  BY DEF path_get_max_hopcount, path_empty, H
<1>9. m \in H /\ \A k \in H : k <= m
  <2>1. \E h \in H : \A k \in H : k <= h
    BY <1>6, <1>7
  <2> HIDE DEF m
  <2> QED
    BY <1>8, <2>1
<1> HIDE DEF m
<1> QED
  BY <1>3, <1>9 DEF m

\* Advertising states the largest hop count of the entry, once.
LEMMA AdvertiseEntry ==
  ASSUME NEW e, Proper(e)
  PROVE  LET r == Advertise(e) IN
         /\ Proper(r) /\ Alike(e, r)
         /\ Clear(e) => Settled(r)
         /\ r.up => Stated(r, r.adv)
<1> DEFINE r == Advertise(e)
           m == path_get_max_hopcount(e)
<1>1. /\ e \in EntryType /\ e.adv \in Nat
  BY EntryFields DEF Proper
<1>2. CASE e.adv # INFINITY
  <2>1. r = e
    BY <1>1, <1>2 DEF Advertise, EntryType
  <2> HIDE DEF r
  <2> QED
    BY <1>1, <1>2, <2>1 DEF r, Clear, Alike, Stated
<1>3. CASE e.adv = INFINITY
  <2>1. r = [e EXCEPT !.adv = m]
    BY <1>3 DEF Advertise
  <2>2. m \in Nat /\ (e.paths = << >> => m = INFINITY2)
    <3>1. e.paths = << >> => m = INFINITY2
      BY DEF path_get_max_hopcount, path_empty
    <3>2. INFINITY2 \in Nat
      BY DEF INFINITY2
    <3> QED
      BY <1>1, <3>1, <3>2, MaxHopcount
  <2>3. \A i \in 1 .. Len(e.paths) : e.paths[i].hopcount <= m
    <3>1. e.paths = << >> => Len(e.paths) = 0
      OBVIOUS
    <3>2. CASE e.paths = << >>
      BY <3>1, <3>2
    <3>3. CASE e.paths # << >>
      BY <1>1, <3>3, MaxHopcount
    <3> QED
      BY <3>2, <3>3
  <2>4. Settled(e) => m <= INFINITY
    <3>1. CASE e.paths = << >>
      BY <2>2, <3>1 DEF INFINITY, INFINITY2
    <3>2. CASE e.paths # << >>
      BY <1>1, <1>3, <3>2, MaxHopcount DEF Settled
    <3> QED
      BY <3>1, <3>2
  <2>5. e.up => \E i \in 1 .. Len(e.paths) : e.paths[i].hopcount = m
    BY <1>1, MaxHopcount DEF Proper
  <2> HIDE DEF m
  <2>6. /\ r \in EntryType /\ r.seqno = e.seqno /\ r.paths = e.paths /\ r.up = e.up
        /\ r.adv = m /\ r.highest = e.highest
    BY <1>1, <2>1, <2>2 DEF EntryType
  <2> HIDE DEF r
  <2>7. Settled(r)
    BY <2>3, <2>6 DEF Settled
  <2>8. r.up => \E i \in 1 .. Len(r.paths) : r.paths[i].hopcount = r.adv
    BY <2>5, <2>6
  <2>9. Alike(e, r)
    BY <1>3, <2>4, <2>6, <2>7, <2>8 DEF Alike
  <2>10. Proper(r)
    BY <2>6, <2>7 DEF Proper
  <2> QED
    BY <2>7, <2>8, <2>9, <2>10 DEF r, Stated
<1> QED
  BY <1>2, <1>3

\* An entry advertised anew, as it is stated to others.
LEMMA AdvertisedEntry ==
  ASSUME NEW e, Proper(e), NEW r \in EntryType,
         LET a == Advertise(e) IN r.seqno = a.seqno /\ r.adv = a.adv /\ r.paths = a.paths
                                  /\ r.up = a.up /\ r.highest = a.highest
  PROVE  /\ Alike(e, r) /\ Advertise(e) \in EntryType
         /\ Clear(e) => Settled(r)
         /\ r.up => Stated(r, r.adv)
<1>1. /\ e \in EntryType /\ Advertise(e) \in EntryType /\ Alike(e, Advertise(e))
      /\ Clear(e) => Settled(Advertise(e))
      /\ Advertise(e).up => Stated(Advertise(e), Advertise(e).adv)
  BY AdvertiseEntry DEF Proper
<1>2. Alike(Advertise(e), r)
  BY DEF Alike
<1>3. Settled(Advertise(e)) => Settled(r)
  BY DEF Settled
<1>4. Stated(Advertise(e), Advertise(e).adv) => Stated(r, r.adv)
  BY DEF Stated
<1> QED
  BY <1>1, <1>2, <1>3, <1>4, AlikeOn

\* The update rule of recvRequest: the path is the only one of a newer number, or joins
\* those there are; it is learned only from a node that is not farther.
LEMMA LearnEntry ==
  ASSUME NEW e, Proper(e), NEW p \in PathType, NEW s \in Nat
  PROVE  LET r == Learn(e, p, s) IN
         /\ Proper(r)
         /\ Fresher(e, s) \/ Candidate(e, p, s) => r.seqno = s
         /\ Clear(e) /\ Lent(s) /\ p.trusted => Clear(r) /\ Follows(e, r, {<<p, s>>})
<1> DEFINE r == Learn(e, p, s)
<1>1. /\ e \in EntryType /\ e.adv \in Nat /\ e.seqno \in Nat /\ e.up \in BOOLEAN
      /\ Apart(e.paths) /\ (e.up => e.paths # << >>)
      /\ e.paths \in Seq(PathType) /\ Len(e.paths) \in Nat
      /\ DOMAIN e.paths = 1 .. Len(e.paths)
      /\ \A i \in 1 .. Len(e.paths) : e.paths[i].hopcount \in Nat
  BY EntryFields, PathOf DEF Proper
<1>2. p.hopcount \in Nat
  BY DEF PathType
<1>3. CASE Fresher(e, s)
  <2>0. INFINITY \in Nat /\ << p >> \in Seq(PathType)
    BY DEF INFINITY
  <2>1. r = [e EXCEPT !.seqno = s, !.adv = INFINITY, !.paths = << p >>, !.up = TRUE]
    BY <1>3 DEF Learn
  <2>2. /\ r \in EntryType /\ r.seqno = s /\ r.adv = INFINITY /\ r.paths = << p >>
        /\ r.up /\ r.highest = e.highest
    BY <1>1, <2>0, <2>1 DEF EntryType
  <2> HIDE DEF r
  <2>3. r.paths # << >> /\ Len(r.paths) = 1 /\ r.paths[1] = p
    BY <2>2
  <2>4. Proper(r)
    BY <2>2, <2>3 DEF Proper, Apart
  <2>5. AsGood(e, r)
    BY <1>1, <1>3, <2>2 DEF AsGood, Fresher
  <2>6. Follows(e, r, {<<p, s>>})
    <3>1. ~Ahead(e, s, p.hopcount)
      BY <1>1, <1>3 DEF Ahead, Fresher
    <3> QED
      BY <2>2, <2>3, <2>5, <3>1 DEF Follows, SamePath
  <2>7. Clear(e) /\ Lent(s) /\ p.trusted => Clear(r)
    BY <2>2, <2>3 DEF Clear
  <2> QED
    BY <2>2, <2>4, <2>6, <2>7 DEF r
<1>4. CASE ~Fresher(e, s) /\ Candidate(e, p, s) /\ ~Known(e, p) /\ Admits(e, p)
  <2> DEFINE t == Append(e.paths, p)
  <2>1. r = [e EXCEPT !.paths = t]
    BY <1>4 DEF Learn, path_insert
  <2>2. /\ t \in Seq(PathType) /\ Len(t) = Len(e.paths) + 1
        /\ \A i \in 1 .. Len(t) : t[i] = IF i <= Len(e.paths) THEN e.paths[i] ELSE p
    BY <1>1
  <2>3. t # << >>
    BY <1>1, <2>2
  <2> HIDE DEF t
  <2>4. /\ r \in EntryType /\ r.seqno = e.seqno /\ r.adv = e.adv /\ r.paths = t
        /\ r.up = e.up /\ r.highest = e.highest
    BY <1>1, <2>1, <2>2 DEF EntryType
  <2>5. e.seqno = s /\ p.hopcount <= e.adv
    BY <1>1, <1>2, <1>4 DEF Candidate
  <2> HIDE DEF r
  <2>6. \A i \in 1 .. Len(t) : (i \in 1 .. Len(e.paths) /\ t[i] = e.paths[i]) \/ t[i] = p
    BY <1>1, <2>2
  <2>7. Apart(t)
    <3>1. \A i \in 1 .. Len(e.paths) :
            e.paths[i].nexthop # p.nexthop /\ e.paths[i].lasthop # p.lasthop
      BY <1>1, <1>4 DEF Admits, new_disjoint_path
    <3>2. ASSUME NEW i \in 1 .. Len(t), NEW j \in 1 .. Len(t), i < j
          PROVE  t[i].nexthop # t[j].nexthop /\ t[i].lasthop # t[j].lasthop
      <4>1. i \in 1 .. Len(e.paths) /\ t[i] = e.paths[i]
        BY <1>1, <2>2, <3>2
      <4>2. CASE j <= Len(e.paths)
        <5>1. t[j] = e.paths[j] /\ j \in 1 .. Len(e.paths) /\ i # j
          BY <1>1, <2>2, <3>2, <4>2
        <5> QED
          BY <1>1, <4>1, <5>1 DEF Apart
      <4>3. CASE ~(j <= Len(e.paths))
        BY <2>2, <3>1, <4>1, <4>3
      <4> QED
        BY <4>2, <4>3
    <3>3. \A i, j \in 1 .. Len(t) : i # j => i < j \/ j < i
      OBVIOUS
    <3> QED
      BY <3>2, <3>3 DEF Apart
  <2>8. Proper(r)
    BY <2>3, <2>4, <2>7 DEF Proper
  <2>9. Settled(e) => Settled(r)
    BY <2>4, <2>5, <2>6 DEF Settled
  <2>10. AsGood(e, r)
    BY <1>1, <2>4, <2>9 DEF AsGood
  <2>11. ASSUME Clear(e), Lent(s), p.trusted PROVE Clear(r) /\ Follows(e, r, {<<p, s>>})
    <3>1. e.up
      BY <2>5, <2>11 DEF Clear, Lent, Lost
    <3>2. Clear(r)
      BY <2>4, <2>6, <2>9, <2>11, <3>1 DEF Clear
    <3>3. Follows(e, r, {<<p, s>>})
      <4>1. ~Ahead(e, s, p.hopcount)
        BY <1>1, <1>2, <2>5 DEF Ahead
      <4> QED
        BY <2>4, <2>5, <2>6, <2>10, <3>1, <4>1 DEF Follows, SamePath
    <3> QED
      BY <3>2, <3>3
  <2> QED
    BY <2>4, <2>5, <2>8, <2>11 DEF r
<1>5. CASE ~Fresher(e, s) /\ ~(Candidate(e, p, s) /\ ~Known(e, p) /\ Admits(e, p))
  <2>1. r = e
    BY <1>5 DEF Learn
  <2>2. Candidate(e, p, s) => e.seqno = s
    BY DEF Candidate
  <2>3. Follows(e, e, {<<p, s>>})
    BY <1>1, SameEntry
  <2> HIDE DEF r
  <2> QED
    BY <1>5, <2>1, <2>2, <2>3 DEF r
<1> QED
  BY <1>3, <1>4, <1>5

\* The same for recvReply.
LEMMA LearnReplyEntry ==
  ASSUME NEW w, NEW e, Proper(e), NEW p \in PathType, NEW s \in Nat
  PROVE  LET r == LearnReply(w, e, p, s) IN
         /\ Proper(r)
         /\ Fresher(e, s) \/ Candidate(e, p, s) => r.seqno = s
         /\ Clear(e) /\ Lent(s) /\ p.trusted /\ w.distrusted = {} =>
              Clear(r) /\ Follows(e, r, {<<p, s>>})
<1> DEFINE r == LearnReply(w, e, p, s)
<1>1. /\ e \in EntryType /\ e.adv \in Nat /\ e.seqno \in Nat /\ e.up \in BOOLEAN
      /\ Apart(e.paths) /\ (e.up => e.paths # << >>)
      /\ e.paths \in Seq(PathType) /\ Len(e.paths) \in Nat
      /\ DOMAIN e.paths = 1 .. Len(e.paths)
      /\ \A i \in 1 .. Len(e.paths) : e.paths[i] \in PathType
  BY EntryFields, PathOf DEF Proper
<1>2. CASE ~(~Fresher(e, s) /\ Candidate(e, p, s) /\ Known(e, p))
  <2>1. r = Learn(e, p, s)
    BY <1>2 DEF LearnReply
  <2> HIDE DEF r
  <2> QED
    BY <2>1, LearnEntry DEF r
<1>3. CASE ~Fresher(e, s) /\ Candidate(e, p, s) /\ Known(e, p)
  <2> DEFINE t == [i \in DOMAIN e.paths |-> Refreshed(w, e.paths[i], p)]
  <2>1. r = [e EXCEPT !.paths = t]
    BY <1>3, Zenon DEF LearnReply
  <2>2. ASSUME NEW x \in PathType
        PROVE  LET q == Refreshed(w, x, p) IN
               /\ q \in PathType /\ q.nexthop = x.nexthop /\ q.lasthop = x.lasthop
               /\ q.hopcount = x.hopcount
               /\ x.trusted /\ w.distrusted = {} => q.trusted
    BY DEF PathType, Refreshed
  <2>3. /\ t \in Seq(PathType) /\ Len(t) = Len(e.paths)
        /\ \A i \in 1 .. Len(e.paths) : t[i] = Refreshed(w, e.paths[i], p)
    BY <1>1, <2>2
  <2>4. e.paths # << >> => t # << >>
    BY <1>1, <2>3
  <2> HIDE DEF t
  <2>5. /\ r \in EntryType /\ r.seqno = e.seqno /\ r.adv = e.adv /\ r.paths = t
        /\ r.up = e.up /\ r.highest = e.highest
    BY <1>1, <2>1, <2>3 DEF EntryType
  <2> HIDE DEF r
  <2>6. /\ \A i \in 1 .. Len(e.paths) : SamePath(t[i], e.paths[i])
        /\ \A i \in 1 .. Len(e.paths) : t[i].lasthop = e.paths[i].lasthop
    BY <1>1, <2>2, <2>3 DEF SamePath
  <2>7. Proper(r)
    <3>1. Apart(t)
      BY <1>1, <2>3, <2>6 DEF Apart, SamePath
    <3> QED
      BY <1>1, <2>4, <2>5, <3>1 DEF Proper
  <2>8. Settled(e) => Settled(r)
    BY <2>3, <2>5, <2>6 DEF Settled, SamePath
  <2>9. AsGood(e, r)
    BY <1>1, <2>5, <2>8 DEF AsGood
  <2>10. Follows(e, r, {<<p, s>>})
    BY <2>3, <2>5, <2>6, <2>9 DEF Follows
  <2>11. e.seqno = s
    BY <1>3 DEF Candidate
  <2>12. ASSUME Clear(e), w.distrusted = {} PROVE Clear(r)
    <3>1. \A i \in 1 .. Len(t) : t[i].trusted
      BY <1>1, <2>2, <2>3, <2>12 DEF Clear
    <3>2. e.paths = << >> => t = << >>
      BY <2>3
    <3> QED
      BY <2>5, <2>8, <2>12, <3>1, <3>2 DEF Clear
  <2> QED
    BY <2>5, <2>7, <2>10, <2>11, <2>12 DEF r
<1> QED
  BY <1>2, <1>3

\* Two changes in a row, of which the second keeps the paths.
LEMMA FollowsOn ==
  ASSUME NEW e \in EntryType, NEW r, Proper(r), NEW q \in EntryType, NEW offers,
         Follows(e, r, offers), Alike(r, q)
  PROVE  Follows(e, q, offers)
<1>1. /\ e.seqno \in Nat /\ r.seqno \in Nat /\ q.seqno \in Nat
      /\ e.adv \in Nat /\ r.adv \in Nat /\ q.adv \in Nat
  BY EntryFields DEF Proper
<1>2. AsGood(e, q)
  <2>1. AsGood(r, q)
    BY AlikeEntry DEF Follows
  <2> QED
    BY <1>1, <2>1 DEF Follows, AsGood
<1>3. ASSUME q.up, NEW i \in 1 .. Len(q.paths)
      PROVE  \/ /\ e.up /\ q.seqno = e.seqno
                /\ \E j \in 1 .. Len(e.paths) : SamePath(q.paths[i], e.paths[j])
             \/ \E o \in offers : /\ q.seqno = o[2] /\ SamePath(q.paths[i], o[1])
                                 /\ ~Ahead(e, o[2], o[1].hopcount)
  BY <1>3 DEF Follows, Alike
<1>4. ASSUME q.up
      PROVE  \/ q.adv = INFINITY
             \/ e.up /\ q.seqno = e.seqno /\ q.adv = e.adv
             \/ \E i \in 1 .. Len(q.paths) : q.paths[i].hopcount = q.adv
  BY <1>4 DEF Follows, Alike
<1> QED
  BY <1>2, <1>3, <1>4 DEF Follows
-----------------------------------------------------------------------------
(* Agents. *)

Whole(w) ==
  /\ w \in AgentType
  /\ \A d \in Node : Proper(w.rt[d]) /\ w.tries[d] < w.bid

\* The next hops of the routes that are up.
Vias(w) ==
  {m \in Node : \E d \in Node : /\ w.rt[d].up
                                /\ \E i \in 1 .. Len(w.rt[d].paths) : w.rt[d].paths[i].nexthop = m}

\* n stands by the number s and the hop count h it states for destination d.
Vouched(n, w, d, s, h) ==
  /\ Lent(s)
  /\ IF d = n THEN s <= w.seqno /\ h = 0
     ELSE /\ w.rt[d].up /\ w.rt[d].seqno = s /\ w.rt[d].adv <= h
          /\ Settled(w.rt[d]) /\ Stated(w.rt[d], h)

Truthful(n, w, pk) ==
  LET m == pk.msg
  IN  /\ m.type # "PTA"
      /\ m.type = "RREQ" => m.trusted /\ Vouched(n, w, m.src, m.srcseqno, m.hops)
      /\ m.type = "RREP" => m.trusted /\ Vouched(n, w, m.dst, m.seqno, m.hops)
      /\ m.type = "RERR" => \A d \in m.dests : Lost(m.seqno[d])

Honest(n, w) ==
  /\ w.distrusted = {}
  /\ Lent(w.seqno)
  /\ \A d \in Node : Clear(w.rt[d])
  /\ \A pk \in w.out : Truthful(n, w, pk)

Quietly(w, v) == v.seqno >= w.seqno /\ \A d \in Node : Alike(w.rt[d], v.rt[d])

\* Data goes to trusted next hops only.
Mindful(n, w, v) ==
  /\ v.distrusted = w.distrusted
  /\ Vias(v) \subseteq Vias(w)
  /\ \A pk \in v.out \ w.out :
       /\ pk.from = n
       /\ pk.msg.type = "DATA" => pk.to \in Vias(w) \ w.distrusted

\* What agent w of node n may have become after forwarding and sending requests.
Fares(n, w, v) ==
  /\ Whole(v)
  /\ Mindful(n, w, v)
  /\ Honest(n, w) => Honest(n, v) /\ Quietly(w, v)

\* An agent fares well by doing nothing.
LEMMA FaresSame ==
  ASSUME NEW n, NEW w, Whole(w)
  PROVE  Fares(n, w, w)
<1>1. w.seqno \in Nat /\ w \in AgentType
  BY DEF Whole, AgentType
<1> QED
  BY <1>1 DEF Fares, Mindful, Quietly, Alike

\* What an agent has said stays true as it fares on.
LEMMA StillTruthful ==
  ASSUME NEW n, NEW w, Whole(w), NEW v, Whole(v), Quietly(w, v), NEW pk \in PacketType,
         Truthful(n, w, pk)
  PROVE  Truthful(n, v, pk)
<1>1. w.seqno \in Nat /\ v.seqno \in Nat
  BY DEF Whole, AgentType
<1>2. ASSUME NEW d \in Node, NEW s \in Nat, NEW h \in Nat, Vouched(n, w, d, s, h)
      PROVE  Vouched(n, v, d, s, h)
  <2>1. Alike(w.rt[d], v.rt[d]) /\ v.seqno >= w.seqno
    BY DEF Quietly
  <2>2. Proper(w.rt[d]) /\ v.rt[d] \in EntryType /\ w.rt[d] \in EntryType
    BY DEF Whole, Proper
  <2>3. Settled(w.rt[d]) => Settled(v.rt[d]) /\ v.rt[d].adv <= w.rt[d].adv
    BY <2>1, <2>2, AlikeEntry
  <2>4. v.rt[d].adv \in Nat /\ w.rt[d].adv \in Nat
    BY <2>2, EntryFields
  <2>5. Stated(w.rt[d], h) => Stated(v.rt[d], h)
    BY <2>1 DEF Stated, Alike
  <2> QED
    BY <1>1, <1>2, <2>1, <2>3, <2>4, <2>5 DEF Vouched, Alike
<1>3. /\ pk.msg.type = "RREQ" =>
           pk.msg.src \in Node /\ pk.msg.srcseqno \in Nat /\ pk.msg.hops \in Nat
      /\ pk.msg.type = "RREP" =>
           pk.msg.dst \in Node /\ pk.msg.seqno \in Nat /\ pk.msg.hops \in Nat
  BY DEF PacketType, MessageType, RreqType, RrepType, RerrType, PtaType, DataType
<1> QED
  BY <1>2, <1>3 DEF Truthful

\* Faring well twice is faring well.
LEMMA FaresOn ==
  ASSUME NEW n, NEW w, NEW v, NEW u, Whole(w), Fares(n, w, v), Fares(n, v, u)
  PROVE  Fares(n, w, u)
<1>1. w.seqno \in Nat /\ v.seqno \in Nat /\ u.seqno \in Nat
  BY DEF Fares, Whole, AgentType
<1>2. Mindful(n, w, u)
  BY DEF Fares, Mindful
<1>3. ASSUME Honest(n, w) PROVE Honest(n, u) /\ Quietly(w, u)
  <2>1. Honest(n, u) /\ Quietly(w, v) /\ Quietly(v, u) /\ Whole(v) /\ Whole(u)
    BY <1>3 DEF Fares
  <2>2. ASSUME NEW d \in Node PROVE Alike(w.rt[d], u.rt[d])
    <3>1. w.rt[d] \in EntryType /\ v.rt[d] \in EntryType /\ u.rt[d] \in EntryType
      BY <2>1 DEF Whole, Proper
    <3> QED
      BY <2>1, <3>1, AlikeOn DEF Quietly
  <2> QED
    BY <1>1, <2>1, <2>2 DEF Quietly
<1> QED
  BY <1>2, <1>3 DEF Fares

\* Packets to one neighbour.
LEMMA UnicastPackets ==
  ASSUME NEW n \in Node, NEW to, NEW msg \in MessageType
  PROVE  /\ Unicast(n, to, msg) \subseteq PacketType
         /\ \A pk \in Unicast(n, to, msg) : pk.from = n /\ pk.to = to /\ pk.msg = msg
BY DEF Unicast, Nbr, PacketType

\* Packets to all in reach.
LEMMA BroadcastPackets ==
  ASSUME NEW n \in Node, NEW msg \in MessageType
  PROVE  /\ Broadcast(n, msg) \subseteq PacketType
         /\ \A pk \in Broadcast(n, msg) : pk.from = n /\ pk.msg = msg
BY UnicastPackets DEF Broadcast

\* Node hop was heard of, the entry for d became r, and packets were sent.
Heard(w, hop, d, r, packets) ==
  Send([[w EXCEPT !.nb = @ \cup {hop}] EXCEPT !.rt[d] = r], packets)

\* Sending packets on, over a next hop whose entry for d becomes r.
LEMMA HeardAndSent ==
  ASSUME NEW w, Whole(w), NEW d \in Node, NEW r, Proper(r), NEW hop \in Node,
         NEW packets \in SUBSET PacketType
  PROVE  LET v == Heard(w, hop, d, r, packets) IN
         /\ Whole(v)
         /\ v.rt = [w.rt EXCEPT ![d] = r] /\ v.seqno = w.seqno
         /\ v.distrusted = w.distrusted /\ v.out = w.out \cup packets
<1> DEFINE v == Heard(w, hop, d, r, packets)
<1>1. w \in AgentType /\ r \in EntryType
  BY DEF Whole, Proper
<1>2. v \in AgentType
  BY <1>1 DEF AgentType, Send, Heard
<1>3. /\ v.rt = [w.rt EXCEPT ![d] = r] /\ v.seqno = w.seqno /\ v.bid = w.bid
      /\ v.tries = w.tries /\ v.distrusted = w.distrusted /\ v.out = w.out \cup packets
  BY <1>1 DEF AgentType, Send, Heard
<1>4. w.rt \in [Node -> EntryType]
  BY <1>1 DEF AgentType
<1> HIDE DEF v
<1>5. Whole(v)
  BY <1>2, <1>3, <1>4 DEF Whole
<1> QED
  BY <1>3, <1>5 DEF v

\* forward() of one packet of data: over the first trusted path, or into a PTA.
LEMMA ForwardFares ==
  ASSUME NEW n \in Node, NEW w, Whole(w), NEW p \in DataType, NEW prev \in Node \cup {Zero},
         w.rt[p.dst].up
  PROVE  Fares(n, w, Forward(n, w, p, prev))
<1> DEFINE d    == p.dst
           e0   == w.rt[d]
           e    == [e0 EXCEPT !.pcs = @ \cup {prev}]
           path == path_find(e)
           hop  == path.nexthop
           pcs  == e.pcs
           good == [e EXCEPT !.error = @ \/ p.src # n]
           bad  == DownIfEmpty(path_delete(e, hop))
           told == UNION {Unicast(n, pc, Pta(d, e.seqno, path.lasthop)) : pc \in e.pcs}
           data == Unicast(n, hop, p)
           v    == Forward(n, w, p, prev)
<1>1. d \in Node /\ p \in MessageType /\ p.type = "DATA"
  BY DEF DataType, MessageType
<1>2. Proper(e0) /\ e0 \in EntryType /\ e0.paths # << >>
  BY <1>1 DEF Whole, Proper
<1>3. e \in EntryType /\ Alike(e0, e)
  BY <1>2 DEF EntryType, Alike
<1>4. Proper(e)
  BY <1>2, <1>3, AlikeEntry
<1>5. 1 \in 1 .. Len(e0.paths) /\ path = e0.paths[1] /\ path \in PathType
  BY <1>2, <1>3, PathOf DEF Alike, path_find
<1>6. hop \in Node /\ path.lasthop \in Node
  BY <1>5 DEF PathType
<1>7. v = IF Trusts(w, path)
          THEN Heard(w, hop, d, good, data)
          ELSE Heard(w, hop, d, bad, told)
  <2>1. Trusts([w EXCEPT !.nb = @ \cup {hop}], path) = Trusts(w, path)
    BY DEF Trusts, Whole, AgentType
  <2> QED
    BY Zenon DEF Forward, Heard
<1>8. hop \in Vias(w)
  BY <1>1, <1>5, <1>6 DEF Vias
<1>9. e.seqno \in Nat /\ e.pcs \subseteq Node \cup {Zero}
  BY <1>3, EntryFields
<1> HIDE DEF v, e, path, d, e0, hop
<1>10. CASE Trusts(w, path)
  <2>1. good \in EntryType /\ Alike(e, good)
    BY <1>3 DEF EntryType, Alike
  <2>2. Proper(good)
    BY <1>4, <2>1, AlikeEntry
  <2>3. /\ data \subseteq PacketType
        /\ \A pk \in data : pk.from = n /\ pk.to = hop /\ pk.msg = p
    BY <1>1, UnicastPackets
  <2> HIDE DEF good, data
  <2>4. /\ Whole(v)
        /\ v.rt = [w.rt EXCEPT ![d] = good] /\ v.seqno = w.seqno
        /\ v.distrusted = w.distrusted /\ v.out = w.out \cup data
    <3>1. v = Heard(w, hop, d, good, data)
      BY <1>7, <1>10
    <3>2. data \in SUBSET PacketType
      BY  <2>3
    <3> QED
      BY <1>1, <1>6, <2>2, <3>1, <3>2, HeardAndSent
  <2>5. Alike(e0, good)
    BY <1>2, <1>3, <2>1, AlikeOn
  <2>6. Quietly(w, v)
    <3>1. w.rt \in [Node -> EntryType] /\ w.seqno \in Nat
      BY DEF Whole, AgentType
    <3> QED
      BY <1>1, <2>4, <2>5, <3>1 DEF Quietly, Alike, e0
  <2>7. Vias(v) \subseteq Vias(w)
    BY <2>6 DEF Vias, Quietly, Alike
  <2>8. hop \notin w.distrusted
    BY <1>10 DEF Trusts, hop
  <2>9. Mindful(n, w, v)
    BY <1>8, <2>3, <2>4, <2>7, <2>8 DEF Mindful
  <2>10. ASSUME Honest(n, w) PROVE Honest(n, v)
    <3>1. \A x \in Node : Clear(v.rt[x])
      <4>1. \A x \in Node : Alike(w.rt[x], v.rt[x]) /\ Proper(w.rt[x]) /\ Proper(v.rt[x])
        BY <2>4, <2>6 DEF Quietly, Whole
      <4>2. \A x \in Node : v.rt[x] \in EntryType /\ Clear(w.rt[x])
        BY <2>10, <4>1 DEF Proper, Honest
      <4> QED
        BY <4>1, <4>2, AlikeEntry
    <3>2. \A pk \in w.out : Truthful(n, v, pk)
      <4>1. w.out \subseteq PacketType
        BY DEF Whole, AgentType
      <4> QED
        BY <2>4, <2>6, <2>10, <4>1, StillTruthful DEF Honest
    <3>3. \A pk \in data : Truthful(n, v, pk)
      BY <1>1, <2>3 DEF Truthful
    <3> QED
      BY <2>4, <2>10, <3>1, <3>2, <3>3 DEF Honest
  <2> QED
    BY <2>4, <2>6, <2>9, <2>10 DEF Fares, v
<1>11. CASE ~Trusts(w, path)
  <2>1. /\ Proper(bad)
        /\ bad.up => e.up /\ \A i \in 1 .. Len(bad.paths) :
                               \E j \in 1 .. Len(e.paths) : bad.paths[i] = e.paths[j]
    BY <1>4, DistrustedEntry
  <2>2. Pta(d, e.seqno, path.lasthop) \in MessageType
        /\ Pta(d, e.seqno, path.lasthop).type = "PTA"
    BY <1>1, <1>6, <1>9 DEF Pta, MessageType, PtaType
  <2>3. told \subseteq PacketType /\ \A pk \in told : pk.from = n /\ pk.msg.type = "PTA"
    BY <2>2, UnicastPackets
  <2> HIDE DEF bad, told
  <2>4. /\ Whole(v)
        /\ v.rt = [w.rt EXCEPT ![d] = bad] /\ v.seqno = w.seqno
        /\ v.distrusted = w.distrusted /\ v.out = w.out \cup told
    <3>1. v = Heard(w, hop, d, bad, told)
      BY <1>7, <1>11
    <3>2. told \in SUBSET PacketType
      BY  <2>3
    <3> QED
      BY <1>1, <1>6, <2>1, <3>1, <3>2, HeardAndSent
  <2>5. Vias(v) \subseteq Vias(w)
    <3>1. ASSUME NEW x \in Node, v.rt[x].up, NEW i \in 1 .. Len(v.rt[x].paths)
          PROVE  w.rt[x].up /\ \E j \in 1 .. Len(w.rt[x].paths) : v.rt[x].paths[i] = w.rt[x].paths[j]
      <4>1. w.rt \in [Node -> EntryType]
        BY DEF Whole, AgentType
      <4>2. CASE x = d
        <5>1. v.rt[x] = bad
          BY <1>1, <2>4, <4>1, <4>2
        <5>2. e.up = e0.up /\ e.paths = e0.paths
          BY <1>3 DEF Alike
        <5> QED
          BY <2>1, <3>1, <4>2, <5>1, <5>2 DEF e0
      <4>3. CASE x # d
        BY <2>4, <3>1, <4>1, <4>3
      <4> QED
        BY <4>2, <4>3
    <3>2. \A x \in Vias(v) : x \in Vias(w)
      <4> SUFFICES ASSUME NEW x \in Node, NEW y \in Node, v.rt[y].up,
                          NEW i \in 1 .. Len(v.rt[y].paths), v.rt[y].paths[i].nexthop = x
                   PROVE  x \in Vias(w)
        BY DEF Vias
      <4>1. w.rt[y].up /\ \E j \in 1 .. Len(w.rt[y].paths) : v.rt[y].paths[i] = w.rt[y].paths[j]
        BY <3>1
      <4> QED
        BY <4>1 DEF Vias
    <3> QED
      BY <3>2
  <2>6. Mindful(n, w, v)
    BY <2>3, <2>4, <2>5 DEF Mindful
  <2>7. ~Honest(n, w)
    <3>1. SUFFICES ASSUME Honest(n, w) PROVE FALSE
      OBVIOUS
    <3>2. e0.paths[1].trusted
      BY <1>1, <1>5, <3>1 DEF Honest, Clear, e0
    <3> QED
      BY <1>5, <1>11, <3>1, <3>2 DEF Trusts, Honest
  <2> QED
    BY <2>4, <2>6, <2>7 DEF Fares, v
<1> QED
  BY <1>10, <1>11

\* The loop that forwards a list of packets.
ForwardedSoFar(c, v, k) == Fares(c[1], c[2], v)

Forwarding == INSTANCE FoldFacts WITH Op <- ForwardIfUp, Inv <- ForwardedSoFar

\* Forwarding several, as in a flush of the buffer.
LEMMA ForwardAllFares ==
  ASSUME NEW n \in Node, NEW w, Whole(w), NEW prev \in Node \cup {Zero},
         NEW k \in Nat, NEW packets \in [1 .. k -> DataType]
  PROVE  Fares(n, w, ForwardAll(n, prev, w, packets))
<1>1. ForwardAll(n, prev, w, packets) = Forwarding!Fold(n, prev, w, packets)
  BY Zenon DEF ForwardAll, Forwarding!Fold, FoldLeft, MapThenFoldSet, Max,
               Forwarding!IsIteration, Forwarding!Top
<1> DEFINE c == <<n, w>>
<1>2. ForwardedSoFar(c, w, 0)
  BY FaresSame DEF ForwardedSoFar
<1>3. ASSUME NEW i \in 1 .. k, NEW v, ForwardedSoFar(c, v, i - 1)
      PROVE  ForwardedSoFar(c, ForwardIfUp(n, prev, v, packets[i]), i)
  <2>1. Fares(n, w, v) /\ Whole(v) /\ packets[i] \in DataType
    BY <1>3 DEF ForwardedSoFar, Fares
  <2>2. Fares(n, v, ForwardIfUp(n, prev, v, packets[i]))
    <3>1. CASE v.rt[packets[i].dst].up
      BY <2>1, <3>1, ForwardFares DEF ForwardIfUp
    <3>2. CASE ~v.rt[packets[i].dst].up
      BY <2>1, <3>2, FaresSame DEF ForwardIfUp
    <3> QED
      BY <3>1, <3>2
  <2> QED
    BY <2>1, <2>2, FaresOn DEF ForwardedSoFar
<1> HIDE DEF c
<1>4. ForwardedSoFar(c, Forwarding!Fold(n, prev, w, packets), k)
  BY <1>2, <1>3, Forwarding!FoldInvariant
<1> QED
  BY <1>1, <1>4 DEF ForwardedSoFar, c

\* Whatever leaves the routes and the trust values alone, and sends no data.
LEMMA RestWhole ==
  ASSUME NEW n, NEW w, Whole(w), NEW v \in AgentType, NEW packets,
         v.distrusted = w.distrusted, v.out = w.out \cup packets,
         \A d \in Node : Alike(w.rt[d], v.rt[d]) /\ v.tries[d] < v.bid,
         \A pk \in packets : pk.from = n /\ pk.msg.type # "DATA"
  PROVE  Whole(v) /\ Mindful(n, w, v)
<1>1. \A d \in Node : Proper(v.rt[d])
  <2>1. \A d \in Node : Proper(w.rt[d]) /\ v.rt[d] \in EntryType
    BY DEF Whole, AgentType
  <2> QED
    BY <2>1, AlikeEntry
<1>2. Whole(v)
  BY <1>1 DEF Whole
<1>3. Mindful(n, w, v)
  BY DEF Mindful, Vias, Alike
<1> QED
  BY <1>2, <1>3

\* The same of an agent that has only said what is true.
LEMMA RestFares ==
  ASSUME NEW n, NEW w, Whole(w), NEW v \in AgentType, NEW packets,
         v.distrusted = w.distrusted, v.out = w.out \cup packets,
         \A d \in Node : Alike(w.rt[d], v.rt[d]) /\ v.tries[d] < v.bid,
         v.seqno >= w.seqno, Lent(w.seqno) => Lent(v.seqno),
         \A pk \in packets : pk.from = n /\ pk.msg.type # "DATA",
         Honest(n, w) => \A pk \in packets : Truthful(n, v, pk)
  PROVE  Fares(n, w, v)
<1>1. Whole(v) /\ Mindful(n, w, v)
  BY RestWhole
<1>2. \A d \in Node : Clear(w.rt[d]) => Clear(v.rt[d])
  <2>1. \A d \in Node : Proper(w.rt[d]) /\ v.rt[d] \in EntryType
    BY DEF Whole, AgentType
  <2> QED
    BY <2>1, AlikeEntry
<1>3. Quietly(w, v)
  BY DEF Quietly
<1>4. ASSUME Honest(n, w) PROVE Honest(n, v)
  <2>1. w.out \subseteq PacketType
    BY DEF Whole, AgentType
  <2>2. \A pk \in w.out : Truthful(n, v, pk)
    BY <1>1, <1>3, <1>4, <2>1, StillTruthful DEF Honest
  <2> QED
    BY <1>2, <1>4, <2>2 DEF Honest
<1> QED
  BY <1>1, <1>3, <1>4 DEF Fares

\* The same without packets.
LEMMA SilentFares ==
  ASSUME NEW n, NEW w, Whole(w), NEW v \in AgentType,
         v.rt = w.rt, v.distrusted = w.distrusted, v.out = w.out, v.seqno = w.seqno,
         \A d \in Node : v.tries[d] < v.bid
  PROVE  Fares(n, w, v)
<1> DEFINE packets == {}
<1>1. /\ v.out = w.out \cup packets
      /\ \A pk \in packets : pk.from = n /\ pk.msg.type # "DATA"
      /\ Honest(n, w) => \A pk \in packets : Truthful(n, v, pk)
  OBVIOUS
<1>2. v.seqno >= w.seqno /\ (Lent(w.seqno) => Lent(v.seqno))
  <2>1. w.seqno \in Nat
    BY DEF Whole, AgentType
  <2> QED
    BY <2>1
<1>3. \A d \in Node : Alike(w.rt[d], v.rt[d]) /\ v.tries[d] < v.bid
  BY DEF Alike
<1> HIDE DEF packets
<1> QED
  BY <1>1, <1>2, <1>3, RestFares

\* rqueue flushed along a route just learned.
LEMMA FlushFares ==
  ASSUME NEW n \in Node, NEW w, Whole(w), NEW d \in Node
  PROVE  Fares(n, w, Flush(n, w, d))
<1>1. CASE ~w.rt[d].up
  BY <1>1, FaresSame DEF Flush
<1>2. CASE w.rt[d].up
  <2> DEFINE v == [w EXCEPT !.asked = @ \ {d}, !.tries[d] = 0, !.rqueue[d] = << >>]
             q == w.rqueue[d]
  <2>0. w \in AgentType /\ w.seqno \in Nat /\ w.bid \in Nat \ {0} /\ w.tries \in [Node -> 0 .. MaxBid]
    BY AgentAssumption DEF Whole, AgentType
  <2>1. v \in AgentType
    <3>1. << >> \in Seq(DataType) /\ 0 \in 0 .. MaxBid
      BY AgentAssumption
    <3> QED
      BY <2>0, <3>1 DEF AgentType
  <2>2. /\ v.rt = w.rt /\ v.distrusted = w.distrusted /\ v.out = w.out /\ v.seqno = w.seqno
        /\ v.bid = w.bid /\ v.tries = [w.tries EXCEPT ![d] = 0]
    BY <2>0 DEF AgentType
  <2>3. Flush(n, w, d) = ForwardAll(n, Zero, v, q)
    BY <1>2 DEF Flush
  <2>4. q \in [1 .. Len(q) -> DataType] /\ Len(q) \in Nat
    <3>1. q \in Seq(DataType)
      BY <2>0 DEF AgentType
    <3> HIDE DEF q
    <3> QED
      BY <3>1
  <2> HIDE DEF v, q
  <2>5. \A x \in Node : v.tries[x] < v.bid
    BY <2>0, <2>2 DEF Whole
  <2>6. Fares(n, w, v)
    BY <2>1, <2>2, <2>5, SilentFares
  <2>7. Fares(n, v, ForwardAll(n, Zero, v, q))
    BY <2>4, <2>6, ForwardAllFares DEF Fares
  <2> QED
    BY <2>3, <2>6, <2>7, FaresOn
<1> QED
  BY <1>1, <1>2

\* sendRequest: a RREQ under a number of its own, or giving up.
LEMMA SendRequestFares ==
  ASSUME NEW n \in Node, NEW w, Whole(w), NEW d \in Node, NEW v \in SendRequest(n, w, d)
  PROVE  Fares(n, w, v)
<1>0. /\ w \in AgentType /\ w.seqno \in Nat /\ w.bid \in 1 .. MaxBid + 1 /\ MaxBid \in Nat
      /\ w.tries \in [Node -> 0 .. MaxBid] /\ w.rt[d].seqno \in Nat
  <2>1. Proper(w.rt[d])
    BY DEF Whole
  <2>2. w.rt[d].seqno \in Nat
    BY <2>1, EntryFields DEF Proper
  <2> QED
    BY <2>2, AgentAssumption DEF Whole, AgentType
<1> DEFINE requested == [w EXCEPT !.bid = @ + 1, !.seqno = @ + 2, !.asked = @ \cup {d},
                                  !.tries[d] = @ + 1]
           msg == Rreq(n, w.bid, w.seqno + 2, d, w.rt[d].seqno, 0, n, TRUE)
           packets == Broadcast(n, msg)
<1>1. \/ v = w \/ v = GiveUp(w, d)
      \/ w.bid <= MaxBid /\ v = Send(requested, packets)
  BY DEF SendRequest
<1>2. CASE v = w
  BY <1>2, FaresSame
<1>3. CASE v = GiveUp(w, d)
  <2>1. v \in AgentType
    <3>1. << >> \in Seq(DataType) /\ 0 \in 0 .. MaxBid
      BY AgentAssumption
    <3> QED
      BY <1>0, <1>3, <3>1 DEF AgentType, GiveUp
  <2>2. /\ v.rt = w.rt /\ v.distrusted = w.distrusted /\ v.out = w.out
        /\ v.seqno = w.seqno /\ v.bid = w.bid /\ v.tries = [w.tries EXCEPT ![d] = 0]
    BY <1>0, <1>3 DEF AgentType, GiveUp
  <2>3. \A x \in Node : v.tries[x] < v.bid
    BY <1>0, <2>2 DEF Whole
  <2> QED
    BY <2>1, <2>2, <2>3, SilentFares
<1>4. CASE w.bid <= MaxBid /\ v = Send(requested, packets)
  <2>1. \A x \in Node : w.tries[x] < w.bid /\ w.tries[x] \in 0 .. MaxBid
    BY <1>0 DEF Whole
  <2>2. /\ w.bid + 1 \in 1 .. MaxBid + 1 /\ w.bid \in 1 .. MaxBid
        /\ w.tries[d] + 1 \in 0 .. MaxBid
    BY <1>0, <1>4, <2>1
  <2>3. msg \in MessageType /\ msg.type = "RREQ"
    BY <1>0, <2>2 DEF Rreq, RreqType, MessageType
  <2>4. packets \subseteq PacketType /\ \A pk \in packets : pk.from = n /\ pk.msg = msg
    BY <2>3, BroadcastPackets
  <2>5. requested \in AgentType
    <3> DEFINE b == w.bid + 1
               s == w.seqno + 2
               a == w.asked \cup {d}
               t == [w.tries EXCEPT ![d] = @ + 1]
    <3>1. requested = [w EXCEPT !.bid = b, !.seqno = s, !.asked = a, !.tries = t]
      BY <1>0 DEF AgentType
    <3>2. b \in 1 .. MaxBid + 1 /\ s \in Nat
      BY <1>0, <2>2
    <3>3. a \in SUBSET Node
      BY <1>0 DEF AgentType
    <3>4. t \in [Node -> 0 .. MaxBid]
      BY <1>0, <2>2
    <3> HIDE DEF b, s, a, t, requested
    <3> QED
      BY <1>0, <3>1, <3>2, <3>3, <3>4 DEF AgentType
  <2>6. /\ requested.rt = w.rt /\ requested.distrusted = w.distrusted
        /\ requested.out = w.out
        /\ requested.seqno = w.seqno + 2 /\ requested.bid = w.bid + 1
        /\ requested.tries = [w.tries EXCEPT ![d] = w.tries[d] + 1]
    BY <1>0 DEF AgentType
  <2> HIDE DEF packets, requested
  <2>7. /\ v \in AgentType /\ v.rt = w.rt /\ v.distrusted = w.distrusted
        /\ v.out = w.out \cup packets /\ v.seqno = w.seqno + 2
        /\ v.bid = w.bid + 1 /\ v.tries = [w.tries EXCEPT ![d] = w.tries[d] + 1]
    BY <1>4, <2>4, <2>5, <2>6 DEF AgentType, Send
  <2>8. \A x \in Node : v.tries[x] < v.bid
    BY <1>0, <2>1, <2>7
  <2>9. v.seqno >= w.seqno /\ (Lent(w.seqno) => Lent(v.seqno))
    BY <1>0, <2>7 DEF Lent
  <2>10. Honest(n, w) => \A pk \in packets : Truthful(n, v, pk)
    <3>1. /\ msg.src = n /\ msg.srcseqno = v.seqno /\ msg.trusted /\ msg.hops = 0
          /\ v.seqno <= v.seqno
      BY <1>0, <2>7 DEF Rreq
    <3> HIDE DEF msg
    <3> QED
      BY <2>3, <2>4, <2>9, <3>1 DEF Truthful, Vouched, Honest
  <2>11. \A pk \in packets : pk.from = n /\ pk.msg.type # "DATA"
    BY <2>3, <2>4
  <2>12. \A x \in Node : Alike(w.rt[x], v.rt[x]) /\ v.tries[x] < v.bid
    BY <2>7, <2>8 DEF Alike
  <2> QED
    BY <2>7, <2>9, <2>10, <2>11, <2>12, RestFares
<1> QED
  BY <1>1, <1>2, <1>3, <1>4

\* The loop that asks for a list of destinations.
RequestNext(n, same, vs, d) == UNION {SendRequest(n, v, d) : v \in vs}

RequestedSoFar(c, vs, k) == \A v \in vs : Fares(c[1], c[2], v)

Requesting == INSTANCE FoldFacts WITH Op <- RequestNext, Inv <- RequestedSoFar

\* sendRequest for several destinations.
LEMMA SendRequestsFares ==
  ASSUME NEW n \in Node, NEW w, Whole(w), NEW k \in Nat, NEW ds \in [1 .. k -> Node],
         NEW u \in SendRequests(n, w, ds)
  PROVE  Fares(n, w, u)
<1>1. SendRequests(n, w, ds) = Requesting!Fold(n, n, {w}, ds)
  BY Zenon DEF SendRequests, RequestNext, Requesting!Fold, FoldLeft, MapThenFoldSet, Max,
               Requesting!IsIteration, Requesting!Top
<1> DEFINE c == <<n, w>>
<1>2. RequestedSoFar(c, {w}, 0)
  BY FaresSame DEF RequestedSoFar
<1>3. ASSUME NEW i \in 1 .. k, NEW vs, RequestedSoFar(c, vs, i - 1)
      PROVE  RequestedSoFar(c, RequestNext(n, n, vs, ds[i]), i)
  <2>1. ASSUME NEW v \in vs, NEW x \in SendRequest(n, v, ds[i])
        PROVE  Fares(n, w, x)
    <3>1. Fares(n, w, v) /\ Whole(v) /\ ds[i] \in Node
      BY <1>3 DEF RequestedSoFar, Fares
    <3>2. Fares(n, v, x)
      BY <3>1, SendRequestFares
    <3> QED
      BY <3>1, <3>2, FaresOn
  <2> QED
    BY <2>1 DEF RequestedSoFar, RequestNext
<1> HIDE DEF c
<1>4. RequestedSoFar(c, Requesting!Fold(n, n, {w}, ds), k)
  BY <1>2, <1>3, Requesting!FoldInvariant
<1> QED
  BY <1>1, <1>4 DEF RequestedSoFar, c
-----------------------------------------------------------------------------
(* Errors. *)

\* The RERR of recvError and nb_delete, with rt_error cleared.
LEMMA ReportErrorsAgent ==
  ASSUME NEW n \in Node, NEW w, Whole(w), w.out = {}, NEW after,
         \A d \in Node : Proper(after[d])
  PROVE  LET v == ReportErrors(n, w, after) IN
         /\ Whole(v)
         /\ v.seqno = w.seqno /\ v.distrusted = w.distrusted
         /\ \A d \in Node : Alike(after[d], v.rt[d])
         /\ \A pk \in v.out : pk.from = n /\ pk.msg.type = "RERR"
         /\ (\A d \in Node : Clear(after[d])) => \A pk \in v.out : Truthful(n, v, pk)
<1> DEFINE v == ReportErrors(n, w, after)
           lost == {d \in Node : w.rt[d].up /\ ~after[d].up /\ w.rt[d].error}
           rt == [d \in Node |-> [after[d] EXCEPT !.error = @ /\ d \notin lost]]
           packets == IF lost = {} THEN {} ELSE Broadcast(n, Rerr(lost, after))
<1>1. v = Send([w EXCEPT !.rt = rt], packets)
  BY Zenon DEF ReportErrors
<1>2. \A d \in Node : after[d] \in EntryType
  BY DEF Proper
<1>3. \A d \in Node : rt[d] \in EntryType /\ Alike(after[d], rt[d])
  BY <1>2 DEF EntryType, Alike
<1>4. rt \in [Node -> EntryType]
  BY <1>3
<1>5. \A d \in Node : Proper(rt[d])
  BY <1>3, AlikeEntry
<1>6. /\ packets \subseteq PacketType
      /\ \A pk \in packets : pk.from = n /\ pk.msg = Rerr(lost, after)
  <2>1. Rerr(lost, after) \in MessageType
    <3>1. \A d \in Node : after[d].seqno \in Nat
      BY <1>2, EntryFields
    <3>2. lost \in SUBSET Node
      OBVIOUS
    <3> HIDE DEF lost
    <3>3. [d \in Node |-> IF d \in lost THEN after[d].seqno ELSE 0] \in [Node -> Nat]
      BY <3>1
    <3> QED
      BY <3>2, <3>3 DEF Rerr, RerrType, MessageType
  <2> HIDE DEF lost
  <2> QED
    BY <2>1, BroadcastPackets
<1>7. /\ Rerr(lost, after).type = "RERR"
      /\ \A d \in Rerr(lost, after).dests :
           d \in Node /\ ~after[d].up /\ Rerr(lost, after).seqno[d] = after[d].seqno
  BY DEF Rerr
<1> HIDE DEF rt, packets, lost
<1>8. /\ v \in AgentType /\ v.rt = rt /\ v.out = packets /\ v.seqno = w.seqno
      /\ v.distrusted = w.distrusted /\ v.tries = w.tries /\ v.bid = w.bid
  BY <1>1, <1>4, <1>6 DEF Whole, AgentType, Send
<1> HIDE DEF v
<1>9. Whole(v)
  BY <1>5, <1>8 DEF Whole
<1>10. ASSUME \A d \in Node : Clear(after[d]), NEW pk \in v.out PROVE Truthful(n, v, pk)
  <2>1. pk.msg = Rerr(lost, after)
    BY <1>6, <1>8
  <2>2. \A d \in Rerr(lost, after).dests : Lost(Rerr(lost, after).seqno[d])
    BY <1>7, <1>10 DEF Clear
  <2> QED
    BY <1>7, <2>1, <2>2 DEF Truthful
<1> QED
  BY <1>3, <1>6, <1>7, <1>8, <1>9, <1>10 DEF v

\* handle_link_failure for all destinations, with the RERR it sends.
LEMMA LinkFailureAgent ==
  ASSUME NEW n \in Node, NEW w, Whole(w), w.out = {}, NEW id
  PROVE  LET v == handle_link_failure(n, w, id) IN
         /\ Whole(v)
         /\ v.seqno = w.seqno /\ v.distrusted = w.distrusted
         /\ \A pk \in v.out : pk.from = n /\ pk.msg.type = "RERR"
         /\ Vias(v) \subseteq Vias(w) \ {id}
         /\ Honest(n, w) => /\ Honest(n, v)
                            /\ \A d \in Node : Follows(w.rt[d], v.rt[d], {})
<1> DEFINE v == handle_link_failure(n, w, id)
           after == [d \in Node |-> LinkFailure(w.rt[d], id)]
<1>1. v = ReportErrors(n, w, after)
  BY DEF handle_link_failure
<1>2. ASSUME NEW d \in Node
      PROVE  /\ Proper(w.rt[d]) /\ Proper(after[d])
             /\ after[d].up => w.rt[d].up /\ \A i \in 1 .. Len(after[d].paths) :
                  /\ after[d].paths[i].nexthop # id
                  /\ \E j \in 1 .. Len(w.rt[d].paths) : after[d].paths[i] = w.rt[d].paths[j]
             /\ Clear(w.rt[d]) => Clear(after[d]) /\ Follows(w.rt[d], after[d], {})
  <2>1. Proper(w.rt[d]) /\ after[d] = LinkFailure(w.rt[d], id)
    BY DEF Whole
  <2> QED
    BY <2>1, LinkFailureEntry
<1> HIDE DEF after
<1>3. /\ Whole(v)
      /\ v.seqno = w.seqno /\ v.distrusted = w.distrusted
      /\ \A d \in Node : Alike(after[d], v.rt[d])
      /\ \A pk \in v.out : pk.from = n /\ pk.msg.type = "RERR"
      /\ (\A d \in Node : Clear(after[d])) => \A pk \in v.out : Truthful(n, v, pk)
  BY <1>1, <1>2, ReportErrorsAgent
<1> HIDE DEF v
<1>4. \A x \in Vias(v) : x \in Vias(w) /\ x # id
  <2> SUFFICES ASSUME NEW x \in Node, NEW d \in Node, v.rt[d].up,
                      NEW i \in 1 .. Len(v.rt[d].paths), v.rt[d].paths[i].nexthop = x
               PROVE  x \in Vias(w) /\ x # id
    BY DEF Vias
  <2>1. after[d].up /\ i \in 1 .. Len(after[d].paths) /\ after[d].paths[i].nexthop = x
    BY <1>3 DEF Alike
  <2>2. PICK j \in 1 .. Len(w.rt[d].paths) : after[d].paths[i] = w.rt[d].paths[j]
    BY <1>2, <2>1
  <2>3. x # id /\ w.rt[d].up /\ w.rt[d].paths[j].nexthop = x
    BY <1>2, <2>1, <2>2
  <2> QED
    BY <2>3 DEF Vias
<1>5. ASSUME Honest(n, w)
      PROVE  Honest(n, v) /\ \A d \in Node : Follows(w.rt[d], v.rt[d], {})
  <2>1. ASSUME NEW d \in Node
        PROVE  Clear(after[d]) /\ Clear(v.rt[d]) /\ Follows(w.rt[d], v.rt[d], {})
    <3>1. /\ Clear(w.rt[d]) /\ Proper(after[d]) /\ Alike(after[d], v.rt[d])
          /\ w.rt[d] \in EntryType /\ after[d] \in EntryType /\ v.rt[d] \in EntryType
      BY <1>2, <1>3, <1>5 DEF Honest, Whole, Proper
    <3>2. Clear(after[d]) /\ Follows(w.rt[d], after[d], {})
      BY <1>2, <3>1
    <3>3. Clear(v.rt[d])
      BY <3>1, <3>2, AlikeEntry
    <3> QED
      BY <3>1, <3>2, <3>3, FollowsOn
  <2> QED
    BY <1>3, <1>5, <2>1 DEF Honest
<1> QED
  BY <1>3, <1>4, <1>5 DEF v
-----------------------------------------------------------------------------
(* Copies of packets. *)

Carries(pk, no) == pk.msg.type = "DATA" /\ pk.msg.no = no

\* The numbers of the packets of data agent w has sent on, and of those it buffers.
Sends(w, no) == \E pk \in w.out : Carries(pk, no)

Keeps(w, no) == \E d \in Node : \E i \in 1 .. Len(w.rqueue[d]) : w.rqueue[d][i].no = no

Has(w, no) == Sends(w, no) \/ Keeps(w, no)

\* No packet twice.
Single(w) ==
  /\ \A d, e \in Node : \A i \in 1 .. Len(w.rqueue[d]), j \in 1 .. Len(w.rqueue[e]) :
       w.rqueue[d][i].no = w.rqueue[e][j].no => d = e /\ i = j
  /\ \A pk, qk \in w.out : \A no : Carries(pk, no) /\ Carries(qk, no) => pk = qk
  /\ \A no : ~(Sends(w, no) /\ Keeps(w, no))

\* What agent w may become without a packet more.
Conserves(w, v) == Single(w) => Single(v) /\ \A no : Has(v, no) => Has(w, no)

\* Packets may be dropped from the buffer, and messages without data be sent.
LEMMA DropsConserve ==
  ASSUME NEW w, NEW v,
         \A d \in Node : v.rqueue[d] = w.rqueue[d] \/ v.rqueue[d] = << >>,
         \A pk \in v.out : pk.msg.type = "DATA" => pk \in w.out
  PROVE  Conserves(w, v)
<1>1. \A d \in Node : \A i \in 1 .. Len(v.rqueue[d]) :
        i \in 1 .. Len(w.rqueue[d]) /\ v.rqueue[d][i] = w.rqueue[d][i]
  OBVIOUS
<1>2. \A no : Sends(v, no) => Sends(w, no)
  BY DEF Sends, Carries
<1>3. \A no : Keeps(v, no) => Keeps(w, no)
  BY <1>1 DEF Keeps
<1>4. ASSUME Single(w) PROVE Single(v)
  <2>1. ASSUME NEW d \in Node, NEW e \in Node, NEW i \in 1 .. Len(v.rqueue[d]),
               NEW j \in 1 .. Len(v.rqueue[e]), v.rqueue[d][i].no = v.rqueue[e][j].no
        PROVE  d = e /\ i = j
    <3>1. /\ i \in 1 .. Len(w.rqueue[d]) /\ j \in 1 .. Len(w.rqueue[e])
          /\ w.rqueue[d][i].no = w.rqueue[e][j].no
      BY <1>1, <2>1
    <3> QED
      BY <1>4, <3>1 DEF Single
  <2>2. \A pk, qk \in v.out : \A no : Carries(pk, no) /\ Carries(qk, no) => pk = qk
    BY <1>4 DEF Single, Carries
  <2>3. \A no : ~(Sends(v, no) /\ Keeps(v, no))
    BY <1>2, <1>3, <1>4 DEF Single
  <2> QED
    BY <2>1, <2>2, <2>3 DEF Single
<1> QED
  BY <1>2, <1>3, <1>4 DEF Conserves, Has

\* What two routines conserve one after the other.
LEMMA ConservesOn ==
  ASSUME NEW w, NEW v, NEW u, Conserves(w, v), Conserves(v, u)
  PROVE  Conserves(w, u)
BY DEF Conserves

\* An agent whose buffer stays as it is, and that sends no data.
LEMMA RestConserves ==
  ASSUME NEW w, NEW v, v.rqueue = w.rqueue, NEW packets, v.out = w.out \cup packets,
         \A pk \in packets : pk.msg.type # "DATA"
  PROVE  Conserves(w, v)
<1>1. \A d \in Node : v.rqueue[d] = w.rqueue[d] \/ v.rqueue[d] = << >>
  OBVIOUS
<1>2. \A pk \in v.out : pk.msg.type = "DATA" => pk \in w.out
  OBVIOUS
<1> QED
  BY <1>1, <1>2, DropsConserve

\* Likewise one that leaves both buffer and link as they are.
LEMMA SilentConserves ==
  ASSUME NEW w, NEW v, v.rqueue = w.rqueue, v.out = w.out
  PROVE  Conserves(w, v)
<1>1. \A d \in Node : v.rqueue[d] = w.rqueue[d] \/ v.rqueue[d] = << >>
  OBVIOUS
<1>2. \A pk \in v.out : pk.msg.type = "DATA" => pk \in w.out
  OBVIOUS
<1> QED
  BY <1>1, <1>2, DropsConserve

\* A packet put in the buffer.
LEMMA AppendSingle ==
  ASSUME NEW w \in AgentType, Single(w), NEW d \in Node, NEW p \in DataType, ~Has(w, p.no)
  PROVE  LET v == [w EXCEPT !.rqueue[d] = Append(@, p)] IN
         Single(v) /\ \A no : Has(v, no) => Has(w, no) \/ no = p.no
<1> DEFINE v == [w EXCEPT !.rqueue[d] = Append(@, p)]
<1>1. /\ w.rqueue \in [Node -> Seq(DataType)] /\ v.out = w.out
      /\ v.rqueue = [w.rqueue EXCEPT ![d] = Append(w.rqueue[d], p)]
  BY DEF AgentType
<1> HIDE DEF v
<1>2. \A x \in Node : w.rqueue[x] \in Seq(DataType)
  BY <1>1
<1>3. \A x \in Node : v.rqueue[x] = IF x = d THEN Append(w.rqueue[d], p) ELSE w.rqueue[x]
  BY <1>1
\* Each position is an old one, or the new one.
<1>4. ASSUME NEW x \in Node, NEW i \in 1 .. Len(v.rqueue[x])
      PROVE  \/ i \in 1 .. Len(w.rqueue[x]) /\ v.rqueue[x][i] = w.rqueue[x][i]
             \/ x = d /\ i = Len(w.rqueue[d]) + 1 /\ v.rqueue[x][i] = p
  <2> DEFINE q == w.rqueue[d]
             u == Append(q, p)
  <2>1. q \in Seq(DataType)
    BY <1>2
  <2> HIDE DEF q
  <2>2. /\ Len(u) = Len(q) + 1 /\ Len(q) \in Nat
        /\ \A j \in 1 .. Len(u) : u[j] = IF j <= Len(q) THEN q[j] ELSE p
    BY <2>1
  <2> HIDE DEF u
  <2>3. CASE x = d
    <3>1. v.rqueue[x] = u /\ w.rqueue[x] = q /\ w.rqueue[d] = q
      BY <1>3, <2>3 DEF q, u
    <3>2. i \in 1 .. Len(u)
      BY <3>1
    <3>3. CASE i <= Len(q)
      BY <2>2, <3>1, <3>2, <3>3
    <3>4. CASE ~(i <= Len(q))
      <4>1. i = Len(q) + 1
        BY <2>2, <3>2, <3>4
      <4> QED
        BY <2>2, <2>3, <3>1, <3>2, <3>4, <4>1
    <3> QED
      BY <3>3, <3>4
  <2>4. CASE x # d
    <3>1. v.rqueue[x] = w.rqueue[x]
      BY <1>3, <2>4
    <3> QED
      BY <3>1
  <2> QED
    BY <2>3, <2>4
<1>5. \A no : Sends(v, no) <=> Sends(w, no)
  BY <1>1 DEF Sends
<1>6. \A no : Keeps(v, no) => Keeps(w, no) \/ no = p.no
  BY <1>4 DEF Keeps
<1>7. \A x \in Node : \A i \in 1 .. Len(w.rqueue[x]) : w.rqueue[x][i].no # p.no
  BY DEF Has, Keeps
<1>8. ASSUME NEW x \in Node, NEW y \in Node, NEW i \in 1 .. Len(v.rqueue[x]),
             NEW j \in 1 .. Len(v.rqueue[y]), v.rqueue[x][i].no = v.rqueue[y][j].no
      PROVE  x = y /\ i = j
  <2>1. /\ \/ i \in 1 .. Len(w.rqueue[x]) /\ v.rqueue[x][i] = w.rqueue[x][i]
           \/ x = d /\ i = Len(w.rqueue[d]) + 1 /\ v.rqueue[x][i] = p
        /\ \/ j \in 1 .. Len(w.rqueue[y]) /\ v.rqueue[y][j] = w.rqueue[y][j]
           \/ y = d /\ j = Len(w.rqueue[d]) + 1 /\ v.rqueue[y][j] = p
    BY <1>4
  <2>2. CASE /\ i \in 1 .. Len(w.rqueue[x]) /\ v.rqueue[x][i] = w.rqueue[x][i]
             /\ j \in 1 .. Len(w.rqueue[y]) /\ v.rqueue[y][j] = w.rqueue[y][j]
    <3>1. w.rqueue[x][i].no = w.rqueue[y][j].no
      BY <1>8, <2>2
    <3> QED
      BY <2>2, <3>1 DEF Single
  <2>3. CASE v.rqueue[x][i] = p /\ x = d /\ i = Len(w.rqueue[d]) + 1
    BY <1>7, <1>8, <2>1, <2>3
  <2>4. CASE v.rqueue[y][j] = p /\ y = d /\ j = Len(w.rqueue[d]) + 1
    BY <1>7, <1>8, <2>1, <2>4
  <2> QED
    BY <2>1, <2>2, <2>3, <2>4
<1>9. \A no : ~(Sends(v, no) /\ Keeps(v, no))
  BY <1>5, <1>6 DEF Single, Has
<1>10. \A pk, qk \in v.out : \A no : Carries(pk, no) /\ Carries(qk, no) => pk = qk
  BY <1>1 DEF Single
<1>11. Single(v)
  BY <1>8, <1>9, <1>10 DEF Single
<1> QED
  BY <1>5, <1>6, <1>11 DEF Has, v

\* forward() sends one packet, or none.
LEMMA ForwardSends ==
  ASSUME NEW n \in Node, NEW w, Whole(w), NEW p \in DataType, NEW prev
  PROVE  LET v == Forward(n, w, p, prev) IN
         /\ v.rqueue = w.rqueue
         /\ \E x : /\ x.msg = p
                   /\ \A pk \in v.out : pk.msg.type = "DATA" => pk \in w.out \/ pk = x
<1> DEFINE e    == [w.rt[p.dst] EXCEPT !.pcs = @ \cup {prev}]
           path == path_find(e)
           hop  == path.nexthop
           good == [e EXCEPT !.error = @ \/ p.src # n]
           bad  == DownIfEmpty(path_delete(e, hop))
           msg  == Pta(p.dst, e.seqno, path.lasthop)
           told == UNION {Unicast(n, pc, msg) : pc \in e.pcs}
           data == Unicast(n, hop, p)
           x    == [from |-> n, to |-> hop, msg |-> p]
           v    == Forward(n, w, p, prev)
<1>1. w \in AgentType
  BY DEF Whole
<1>2. \/ v = Heard(w, hop, p.dst, good, data)
      \/ v = Heard(w, hop, p.dst, bad, told)
  BY Zenon DEF Forward, Heard
<1>3. \A pk \in data : pk = x
  BY DEF Unicast
<1>4. \A pk \in told : pk.msg.type # "DATA"
  BY DEF Unicast, Pta
<1>5. x.msg = p
  OBVIOUS
<1> HIDE DEF good, bad, hop, told, data, x, v
<1>6. ASSUME NEW r, NEW packets, v = Heard(w, hop, p.dst, r, packets)
      PROVE  v.rqueue = w.rqueue /\ v.out = w.out \cup packets
  BY <1>1, <1>6 DEF Heard, Send, AgentType
<1>7. /\ v.rqueue = w.rqueue
      /\ \A pk \in v.out : pk.msg.type = "DATA" => pk \in w.out \/ pk = x
  <2>1. CASE v = Heard(w, hop, p.dst, good, data)
    BY <1>3, <1>6, <2>1
  <2>2. CASE v = Heard(w, hop, p.dst, bad, told)
    BY <1>4, <1>6, <2>2
  <2> QED
    BY <1>2, <2>1, <2>2
<1> QED
  BY <1>5, <1>7 DEF v

\* So one packet the agent does not have yet stays a single one.
LEMMA ForwardSingle ==
  ASSUME NEW n \in Node, NEW w, Whole(w), NEW p \in DataType, NEW prev,
         Single(w), ~Has(w, p.no)
  PROVE  LET v == Forward(n, w, p, prev) IN
         Single(v) /\ \A no : Has(v, no) => Has(w, no) \/ no = p.no
<1> DEFINE v == Forward(n, w, p, prev)
<1>1. PICK x : /\ x.msg = p
               /\ \A pk \in v.out : pk.msg.type = "DATA" => pk \in w.out \/ pk = x
  BY ForwardSends
<1>2. v.rqueue = w.rqueue
  BY ForwardSends
<1> HIDE DEF v
<1>3. \A no : Keeps(v, no) <=> Keeps(w, no)
  BY <1>2 DEF Keeps
<1>4. \A no : Sends(v, no) => Sends(w, no) \/ no = p.no
  BY <1>1 DEF Sends, Carries
<1>5. \A pk, qk \in v.out : \A no : Carries(pk, no) /\ Carries(qk, no) => pk = qk
  <2> SUFFICES ASSUME NEW pk \in v.out, NEW qk \in v.out, NEW no,
                      Carries(pk, no), Carries(qk, no)
               PROVE  pk = qk
    OBVIOUS
  <2>1. (pk \in w.out \/ pk = x) /\ (qk \in w.out \/ qk = x)
    BY <1>1 DEF Carries
  <2>2. \A k \in w.out : ~Carries(k, p.no)
    BY DEF Has, Sends
  <2>3. pk = x \/ qk = x => no = p.no
    BY <1>1 DEF Carries
  <2> QED
    BY <2>1, <2>2, <2>3 DEF Single
<1>6. \A no : ~(Sends(v, no) /\ Keeps(v, no))
  BY <1>3, <1>4 DEF Single, Has
<1>7. Single(v)
  BY <1>2, <1>5, <1>6 DEF Single
<1> QED
  BY <1>3, <1>4, <1>7 DEF Has, v

\* The loop that forwards a list of packets, each once.
SingleSoFar(c, v, k) ==
  /\ Fares(c[1], c[2], v)
  /\ Single(v)
  /\ \A no : Has(v, no) => Has(c[2], no) \/ \E j \in 1 .. k : c[3][j].no = no

Singling == INSTANCE FoldFacts WITH Op <- ForwardIfUp, Inv <- SingleSoFar

\* The loop as a whole.
LEMMA ForwardAllSingle ==
  ASSUME NEW n \in Node, NEW w, Whole(w), Single(w), NEW prev \in Node \cup {Zero},
         NEW k \in Nat, NEW packets \in [1 .. k -> DataType],
         \A i \in 1 .. k : ~Has(w, packets[i].no),
         \A i, j \in 1 .. k : packets[i].no = packets[j].no => i = j
  PROVE  LET v == ForwardAll(n, prev, w, packets) IN
         Single(v) /\ \A no : Has(v, no) => Has(w, no) \/ \E i \in 1 .. k : packets[i].no = no
<1>1. ForwardAll(n, prev, w, packets) = Singling!Fold(n, prev, w, packets)
  BY Zenon DEF ForwardAll, Singling!Fold, FoldLeft, MapThenFoldSet, Max,
               Singling!IsIteration, Singling!Top
<1> DEFINE c == <<n, w, packets>>
<1>2. SingleSoFar(c, w, 0)
  BY FaresSame DEF SingleSoFar
<1>3. ASSUME NEW i \in 1 .. k, NEW v, SingleSoFar(c, v, i - 1)
      PROVE  SingleSoFar(c, ForwardIfUp(n, prev, v, packets[i]), i)
  <2> DEFINE p == packets[i]
             u == ForwardIfUp(n, prev, v, p)
  <2>1. /\ Fares(n, w, v) /\ Whole(v) /\ Single(v) /\ p \in DataType
        /\ \A no : Has(v, no) => Has(w, no) \/ \E j \in 1 .. i - 1 : packets[j].no = no
    BY <1>3 DEF SingleSoFar, Fares
  <2>2. 1 .. i - 1 \subseteq 1 .. i /\ i \notin 1 .. i - 1 /\ i \in 1 .. i /\ 1 .. i \subseteq 1 .. k
    OBVIOUS
  <2>3. ~Has(v, p.no)
    BY <2>1, <2>2
  <2> HIDE DEF c, p
  <2>4. CASE v.rt[p.dst].up
    <3>1. u = Forward(n, v, p, prev)
      BY <2>4 DEF ForwardIfUp
    <3>2. Fares(n, w, u)
      BY <2>1, <2>4, <3>1, ForwardFares, FaresOn
    <3>3. Single(u) /\ \A no : Has(u, no) => Has(v, no) \/ no = p.no
      BY <2>1, <2>3, <3>1, ForwardSingle
    <3> HIDE DEF u
    <3>4. \A no : Has(u, no) => Has(w, no) \/ \E j \in 1 .. i : packets[j].no = no
      BY <2>1, <2>2, <3>3 DEF p
    <3> QED
      BY <3>2, <3>3, <3>4 DEF SingleSoFar, c, u, p
  <2>5. CASE ~v.rt[p.dst].up
    <3>1. u = v
      BY <2>5 DEF ForwardIfUp
    <3> HIDE DEF u
    <3>2. \A no : Has(u, no) => Has(w, no) \/ \E j \in 1 .. i : packets[j].no = no
      BY <2>1, <2>2, <3>1
    <3> QED
      BY <2>1, <3>1, <3>2 DEF SingleSoFar, c, u, p
  <2> QED
    BY <2>4, <2>5
<1> HIDE DEF c
<1>4. SingleSoFar(c, Singling!Fold(n, prev, w, packets), k)
  BY <1>2, <1>3, Singling!FoldInvariant
<1> QED
  BY <1>1, <1>4 DEF SingleSoFar, c

\* A flush takes out of the buffer what it sends.
LEMMA FlushConserves ==
  ASSUME NEW n \in Node, NEW w, Whole(w), NEW d \in Node
  PROVE  Conserves(w, Flush(n, w, d))
<1>1. CASE ~w.rt[d].up
  BY <1>1 DEF Flush, Conserves
<1>2. CASE w.rt[d].up
  <2> DEFINE v == [w EXCEPT !.asked = @ \ {d}, !.tries[d] = 0, !.rqueue[d] = << >>]
             q == w.rqueue[d]
  <2>0. w \in AgentType
    BY DEF Whole
  <2>1. Whole(v)
    <3>1. << >> \in Seq(DataType) /\ 0 \in 0 .. MaxBid /\ w.tries \in [Node -> 0 .. MaxBid]
          /\ w.bid \in 1 .. MaxBid + 1
      BY <2>0, AgentAssumption DEF AgentType
    <3>2. v \in AgentType
      BY <2>0, <3>1 DEF AgentType
    <3>3. v.rt = w.rt /\ v.bid = w.bid /\ v.tries = [w.tries EXCEPT ![d] = 0]
      BY <2>0 DEF AgentType
    <3> HIDE DEF v
    <3> QED
      BY <3>1, <3>2, <3>3 DEF Whole
  <2>2. v.out = w.out /\ v.rqueue = [w.rqueue EXCEPT ![d] = << >>]
    BY <2>0 DEF AgentType
  <2>3. Flush(n, w, d) = ForwardAll(n, Zero, v, q)
    BY <1>2 DEF Flush
  <2>4. q \in [1 .. Len(q) -> DataType] /\ Len(q) \in Nat
    <3>1. q \in Seq(DataType)
      BY <2>0 DEF AgentType
    <3> HIDE DEF q
    <3> QED
      BY <3>1
  <2>5. \A x \in Node : v.rqueue[x] = IF x = d THEN << >> ELSE w.rqueue[x]
    BY <2>0, <2>2 DEF AgentType
  <2> HIDE DEF v
  <2>6. Conserves(w, v)
    <3>1. \A x \in Node : v.rqueue[x] = w.rqueue[x] \/ v.rqueue[x] = << >>
      BY <2>5
    <3>2. \A pk \in v.out : pk.msg.type = "DATA" => pk \in w.out
      BY <2>2
    <3> QED
      BY <3>1, <3>2, DropsConserve
  <2>7. ASSUME Single(w)
        PROVE  /\ \A i \in 1 .. Len(q) : Keeps(w, q[i].no) /\ ~Has(v, q[i].no)
               /\ \A i, j \in 1 .. Len(q) : q[i].no = q[j].no => i = j
    <3>1. \A i, j \in 1 .. Len(q) : q[i].no = q[j].no => i = j
      BY <2>7 DEF Single
    <3>2. ASSUME NEW i \in 1 .. Len(q) PROVE Keeps(w, q[i].no) /\ ~Has(v, q[i].no)
      <4>1. Keeps(w, q[i].no)
        BY DEF Keeps
      <4>2. ~Sends(v, q[i].no)
        BY <2>2, <2>7, <4>1 DEF Single, Sends
      <4>3. ASSUME NEW e \in Node, NEW j \in 1 .. Len(v.rqueue[e]), v.rqueue[e][j].no = q[i].no
            PROVE  FALSE
        <5>1. e # d /\ v.rqueue[e] = w.rqueue[e]
          BY <2>5, <4>3
        <5> QED
          BY <2>7, <4>3, <5>1 DEF Single
      <4> QED
        BY <4>1, <4>2, <4>3 DEF Has, Keeps
    <3> QED
      BY <3>1, <3>2
  <2> HIDE DEF q
  <2>8. ASSUME Single(w)
        PROVE  /\ Single(ForwardAll(n, Zero, v, q))
               /\ \A no : Has(ForwardAll(n, Zero, v, q), no) => Has(w, no)
    <3>1. Single(v) /\ \A no : Has(v, no) => Has(w, no)
      BY <2>6, <2>8 DEF Conserves
    <3>2. /\ Single(ForwardAll(n, Zero, v, q))
          /\ \A no : Has(ForwardAll(n, Zero, v, q), no) =>
                       Has(v, no) \/ \E i \in 1 .. Len(q) : q[i].no = no
      <4> DEFINE k == Len(q)
      <4>1. /\ \A i \in 1 .. k : ~Has(v, q[i].no)
            /\ \A i, j \in 1 .. k : q[i].no = q[j].no => i = j
        BY <2>7, <2>8
      <4>2. k \in Nat /\ q \in [1 .. k -> DataType] /\ Zero \in Node \cup {Zero}
        BY <2>4
      <4> HIDE DEF k
      <4>3. /\ Single(ForwardAll(n, Zero, v, q))
            /\ \A no : Has(ForwardAll(n, Zero, v, q), no) =>
                         Has(v, no) \/ \E i \in 1 .. k : q[i].no = no
        BY <2>1, <3>1, <4>1, <4>2, ForwardAllSingle
      <4> QED
        BY <4>3 DEF k
    <3> QED
      BY <2>7, <2>8, <3>1, <3>2 DEF Has
  <2> QED
    BY <2>3, <2>8 DEF Conserves
<1> QED
  BY <1>1, <1>2

\* sendRequest sends no data; giving up empties a queue.
LEMMA SendRequestConserves ==
  ASSUME NEW n, NEW w, Whole(w), NEW d \in Node, NEW v \in SendRequest(n, w, d)
  PROVE  Conserves(w, v)
<1> DEFINE requested == [w EXCEPT !.bid = @ + 1, !.seqno = @ + 2, !.asked = @ \cup {d},
                                  !.tries[d] = @ + 1]
           msg == Rreq(n, w.bid, w.seqno + 2, d, w.rt[d].seqno, 0, n, TRUE)
           packets == Broadcast(n, msg)
<1>1. v = w \/ v = GiveUp(w, d) \/ v = Send(requested, packets)
  BY DEF SendRequest
<1>2. w \in AgentType /\ w.rqueue \in [Node -> Seq(DataType)]
  BY DEF Whole, AgentType
<1>3. CASE v = w
  BY <1>3 DEF Conserves
<1>4. CASE v = GiveUp(w, d)
  <2>1. v.out = w.out /\ v.rqueue = [w.rqueue EXCEPT ![d] = << >>]
    BY <1>2, <1>4 DEF GiveUp, AgentType
  <2>2. \A x \in Node : v.rqueue[x] = w.rqueue[x] \/ v.rqueue[x] = << >>
    BY <1>2, <2>1
  <2> QED
    BY <2>1, <2>2, DropsConserve
<1>5. CASE v = Send(requested, packets)
  <2>1. \A pk \in packets : pk.msg.type # "DATA"
    BY DEF Broadcast, Unicast, Rreq
  <2> HIDE DEF packets
  <2>2. v.out = w.out \cup packets /\ v.rqueue = w.rqueue
    BY <1>2, <1>5 DEF Send, AgentType
  <2> QED
    BY <2>1, <2>2, DropsConserve
<1> QED
  BY <1>1, <1>3, <1>4, <1>5

ConservedSoFar(c, vs, k) == \A v \in vs : Fares(c[1], c[2], v) /\ Conserves(c[2], v)

Asking == INSTANCE FoldFacts WITH Op <- RequestNext, Inv <- ConservedSoFar

\* So asking again for one destination after the other sends no data.
LEMMA SendRequestsConserves ==
  ASSUME NEW n \in Node, NEW w, Whole(w), NEW k \in Nat, NEW ds \in [1 .. k -> Node],
         NEW u \in SendRequests(n, w, ds)
  PROVE  Conserves(w, u)
<1>1. SendRequests(n, w, ds) = Asking!Fold(n, n, {w}, ds)
  BY Zenon DEF SendRequests, RequestNext, Asking!Fold, FoldLeft, MapThenFoldSet, Max,
               Asking!IsIteration, Asking!Top
<1> DEFINE c == <<n, w>>
<1>2. ConservedSoFar(c, {w}, 0)
  BY FaresSame DEF ConservedSoFar, Conserves
<1>3. ASSUME NEW i \in 1 .. k, NEW vs, ConservedSoFar(c, vs, i - 1)
      PROVE  ConservedSoFar(c, RequestNext(n, n, vs, ds[i]), i)
  <2>1. ASSUME NEW v \in vs, NEW x \in SendRequest(n, v, ds[i])
        PROVE  Fares(n, w, x) /\ Conserves(w, x)
    <3>1. Fares(n, w, v) /\ Conserves(w, v) /\ Whole(v) /\ ds[i] \in Node
      BY <1>3 DEF ConservedSoFar, Fares
    <3>2. Fares(n, v, x) /\ Conserves(v, x)
      BY <3>1, SendRequestFares, SendRequestConserves
    <3> QED
      BY <3>1, <3>2, FaresOn, ConservesOn
  <2> QED
    BY <2>1 DEF ConservedSoFar, RequestNext
<1> HIDE DEF c
<1>4. ConservedSoFar(c, Asking!Fold(n, n, {w}, ds), k)
  BY <1>2, <1>3, Asking!FoldInvariant
<1> QED
  BY <1>1, <1>4 DEF ConservedSoFar, c

\* An error is reported without data.
LEMMA ReportConserves ==
  ASSUME NEW n, NEW w, Whole(w), NEW after
  PROVE  Conserves(w, ReportErrors(n, w, after))
<1> DEFINE v == ReportErrors(n, w, after)
           lost == {d \in Node : w.rt[d].up /\ ~after[d].up /\ w.rt[d].error}
           rt == [d \in Node |-> [after[d] EXCEPT !.error = @ /\ d \notin lost]]
           packets == IF lost = {} THEN {} ELSE Broadcast(n, Rerr(lost, after))
<1>1. v = Send([w EXCEPT !.rt = rt], packets)
  BY Zenon DEF ReportErrors
<1>2. \A pk \in packets : pk.msg.type # "DATA"
  BY DEF Broadcast, Unicast, Rerr
<1> HIDE DEF packets, rt
<1>3. v.out = w.out \cup packets /\ v.rqueue = w.rqueue
  BY <1>1 DEF Whole, AgentType, Send
<1> HIDE DEF v
<1>4. Conserves(w, v)
  BY <1>2, <1>3, DropsConserve
<1> QED
  BY <1>4 DEF v
-----------------------------------------------------------------------------
(* The network. *)

\* Where the paths of r, an entry for d, lead in the present network.
Ordered(d, r) ==
  r.up => /\ r.seqno <= node[d].seqno
          /\ \A i \in 1 .. Len(r.paths) :
               \/ r.paths[i].nexthop = d
               \/ Ahead(node[r.paths[i].nexthop].rt[d], r.seqno, r.paths[i].hopcount)

\* The nodes that may be the next hop of a path to d of k hops learned at number s,
\* where t gives the agent of each node.
Closer(t, d, s, k) == {m \in Node : m = d \/ Ahead(t[m].rt[d], s, k)}

\* r, an entry of node n for d, states no more hops than there are nodes closer to d.
Ranked(n, d, r) ==
  r.up =>
    /\ n # d
    /\ \A i \in 1 .. Len(r.paths) :
         Cardinality(Closer(node, d, r.seqno, r.paths[i].hopcount) \ {n}) >= r.paths[i].hopcount
    /\ \/ r.adv = INFINITY
       \/ Cardinality(Closer(node, d, r.seqno, r.adv + 1)) >= r.adv + 1
       \/ \E i \in 1 .. Len(r.paths) : r.paths[i].hopcount = r.adv

\* The sender of pk stands by number s and hop count h for d.
Offer(pk, d, s, h) ==
  /\ Lent(s)
  /\ s <= node[d].seqno
  /\ pk.from = d \/ Ahead(node[pk.from].rt[d], s, h + 1)
  /\ Cardinality(Closer(node, d, s, h + 1)) >= h + 1

ClearPacket(pk) ==
  LET m == pk.msg
  IN  /\ m.type # "PTA"
      /\ m.type = "RREQ" => m.trusted /\ Offer(pk, m.src, m.srcseqno, m.hops)
      /\ m.type = "RREP" => m.trusted /\ Offer(pk, m.dst, m.seqno, m.hops)
      /\ m.type = "RERR" => \A d \in m.dests : Lost(m.seqno[d])

ClearNetwork ==
  /\ \A n \in Node : node[n].distrusted = {} /\ Lent(node[n].seqno)
  /\ \A n, d \in Node : /\ Clear(node[n].rt[d]) /\ Ordered(d, node[n].rt[d])
                        /\ Ranked(n, d, node[n].rt[d])
  /\ \A pk \in net : ClearPacket(pk)

Typed ==
  /\ node \in [Node -> AgentType]
  /\ \A n \in Node : Whole(node[n]) /\ node[n].out = {}
  /\ net \subseteq PacketType
  /\ sent \in 0 .. MaxData
  /\ delivered \subseteq 0 .. MaxData - 1
  /\ events \in [Events -> Nat]

Inv == Typed /\ (NoAlarm => ClearNetwork)

\* No data goes to a neighbour distrusted.
DataAvoids ==
  \A pk \in net' \ net : pk.msg.type = "DATA" => pk.to \notin node[pk.from].distrusted
-----------------------------------------------------------------------------
\* An empty network is clear.
LEMMA InitInv == Init => Inv
<1> SUFFICES ASSUME Init PROVE Inv
  OBVIOUS
<1>1. NewEntry \in EntryType /\ NewEntry.paths = << >> /\ NewEntry.up = FALSE
      /\ NewEntry.seqno = 0 /\ NewEntry.highest = 0
  BY DEF NewEntry, EntryType, INFINITY2
<1>2. /\ Proper(NewEntry) /\ Clear(NewEntry)
      /\ \A n, d \in Node : Ordered(d, NewEntry) /\ Ranked(n, d, NewEntry)
  BY <1>1 DEF Proper, Apart, Clear, Lost, Settled, Ordered, Ranked
<1>3. /\ NewAgent.rt = [d \in Node |-> NewEntry] /\ NewAgent.out = {}
      /\ NewAgent.distrusted = {} /\ NewAgent.seqno = 2 /\ NewAgent.bid = 1
      /\ NewAgent.tries = [d \in Node |-> 0]
  BY DEF NewAgent
<1>4. NewAgent \in AgentType
  <2>1. /\ [d \in Node |-> NewEntry] \in [Node -> EntryType]
        /\ [d \in Node |-> 0] \in [Node -> 0 .. MaxBid]
        /\ [d \in Node |-> << >>] \in [Node -> Seq(DataType)]
        /\ 1 \in 1 .. MaxBid + 1 /\ 2 \in Nat
    BY <1>1, AgentAssumption
  <2> QED
    BY <2>1 DEF NewAgent, AgentType
<1>5. Whole(NewAgent)
  BY <1>2, <1>3, <1>4 DEF Whole
<1>6. node = [n \in Node |-> NewAgent] /\ net = {} /\ sent = 0 /\ delivered = {}
      /\ events = [what \in Events |-> 0]
  BY DEF Init
<1>7. Typed
  BY <1>3, <1>4, <1>5, <1>6, TeaomdvAssumption DEF Typed
<1>8. ClearNetwork
  <2>1. Lent(2)
    BY DEF Lent
  <2> QED
    BY <1>2, <1>3, <1>6, <2>1 DEF ClearNetwork
<1> QED
  BY <1>7, <1>8 DEF Inv
-----------------------------------------------------------------------------
(* Steps. *)

\* w is an agent node n may become.
Good(n, w) ==
  /\ Whole(w)
  /\ \A pk \in w.out : pk.from = n /\ (pk.msg.type = "DATA" => pk.to \notin node[n].distrusted)
  /\ NoAlarm =>
       /\ Honest(n, w)
       /\ w.seqno >= node[n].seqno
       /\ \A d \in Node : /\ AsGood(node[n].rt[d], w.rt[d])
                         /\ Ordered(d, w.rt[d]) /\ Ranked(n, d, w.rt[d])

\* A node that is ahead stays so as its entry gets better.
LEMMA AheadStays ==
  ASSUME NEW f \in EntryType, NEW g \in EntryType, AsGood(f, g), NEW s \in Nat, NEW k \in Nat,
         Ahead(f, s, k)
  PROVE  Ahead(g, s, k)
<1>1. f.seqno \in Nat /\ g.seqno \in Nat /\ f.adv \in Nat /\ g.adv \in Nat
  BY EntryFields
<1> QED
  BY <1>1 DEF Ahead, AsGood

\* Getting better twice is getting better.
LEMMA AsGoodOn ==
  ASSUME NEW e \in EntryType, NEW f \in EntryType, NEW g \in EntryType,
         AsGood(e, f), AsGood(f, g)
  PROVE  AsGood(e, g)
<1>1. /\ e.seqno \in Nat /\ f.seqno \in Nat /\ g.seqno \in Nat
      /\ e.adv \in Nat /\ f.adv \in Nat /\ g.adv \in Nat
  BY EntryFields
<1> QED
  BY <1>1 DEF AsGood

\* How the nodes closer to d are counted.
LEMMA CloserFinite ==
  ASSUME NEW t, NEW d, NEW s, NEW k
  PROVE  /\ IsFiniteSet(Closer(t, d, s, k)) /\ Cardinality(Closer(t, d, s, k)) \in Nat
         /\ \A n : /\ IsFiniteSet(Closer(t, d, s, k) \ {n})
                  /\ Cardinality(Closer(t, d, s, k) \ {n}) \in Nat
<1>1. Closer(t, d, s, k) \in SUBSET Node
  BY DEF Closer
<1>2. \A n : Closer(t, d, s, k) \ {n} \in SUBSET Node
  BY <1>1
<1>3. \A T \in SUBSET Node : IsFiniteSet(T) /\ Cardinality(T) \in Nat
  BY FS_Subset, FS_CardinalityType, AgentAssumption
<1> QED
  BY <1>1, <1>2, <1>3

\* More nodes are closer when entries get better, or more hops are allowed.
LEMMA CloserGrows ==
  ASSUME NEW t, NEW u, NEW d, NEW s, NEW j, NEW k,
         \A m \in Node : Ahead(t[m].rt[d], s, j) => Ahead(u[m].rt[d], s, k)
  PROVE  /\ Cardinality(Closer(t, d, s, j)) <= Cardinality(Closer(u, d, s, k))
         /\ \A n : Cardinality(Closer(t, d, s, j) \ {n}) <= Cardinality(Closer(u, d, s, k) \ {n})
<1>1. Closer(t, d, s, j) \in SUBSET Closer(u, d, s, k)
  BY DEF Closer
<1>2. \A n : Closer(t, d, s, j) \ {n} \in SUBSET (Closer(u, d, s, k) \ {n})
  BY <1>1
<1> QED
  BY <1>1, <1>2, CloserFinite, FS_Subset

\* A node that has advertised h hops counts itself besides those closer than it.
LEMMA CloserSelf ==
  ASSUME NEW t, NEW n \in Node, NEW d \in Node, n # d, NEW s \in Nat, NEW h \in Nat,
         \A m \in Node : t[m].rt[d] \in EntryType,
         t[n].rt[d].seqno = s, t[n].rt[d].adv <= h, Settled(t[n].rt[d]),
         Cardinality(Closer(t, d, s, h) \ {n}) >= h
  PROVE  Cardinality(Closer(t, d, s, h + 1)) >= h + 1
<1> DEFINE A == Closer(t, d, s, h) \ {n}
           B == Closer(t, d, s, h + 1)
<1>1. IsFiniteSet(A) /\ Cardinality(A) \in Nat /\ IsFiniteSet(B) /\ Cardinality(B) \in Nat
  BY CloserFinite
<1>2. ASSUME NEW m \in Node, Ahead(t[m].rt[d], s, h) PROVE Ahead(t[m].rt[d], s, h + 1)
  <2>1. t[m].rt[d].adv \in Nat
    BY EntryFields
  <2> QED
    BY <1>2, <2>1 DEF Ahead
<1>3. Ahead(t[n].rt[d], s, h + 1)
  <2>1. t[n].rt[d].adv \in Nat
    BY EntryFields
  <2> QED
    BY <2>1 DEF Ahead
<1>4. A \cup {n} \in SUBSET B /\ n \notin A
  BY <1>2, <1>3 DEF Closer
<1> HIDE DEF A, B
<1>5. Cardinality(A \cup {n}) = Cardinality(A) + 1 /\ Cardinality(A \cup {n}) <= Cardinality(B)
  BY <1>1, <1>4, FS_AddElement, FS_Subset
<1>6. Cardinality(A) >= h
  BY DEF A
<1> QED
  BY <1>1, <1>5, <1>6 DEF B

\* Ranks do not depend on precursors, flags or the first advertisement.
LEMMA RankedAlike ==
  ASSUME NEW n, NEW d, NEW e, NEW r, Ranked(n, d, e), Alike(e, r)
  PROVE  Ranked(n, d, r)
BY DEF Ranked, Alike

\* What the network invariant says of an entry, and of a packet.
LEMMA NodeFacts ==
  ASSUME Typed, NEW n \in Node
  PROVE  /\ Whole(node[n]) /\ node[n] \in AgentType /\ node[n].out = {}
         /\ node[n].seqno \in Nat
         /\ \A d \in Node : Proper(node[n].rt[d]) /\ node[n].rt[d] \in EntryType
BY DEF Typed, Whole, Proper, AgentType

\* A packet and what it carries.
LEMMA PacketFields ==
  ASSUME NEW pk \in PacketType
  PROVE  /\ pk.from \in Node /\ pk.to \in Nbr(pk.from) /\ pk.to \in Node
         /\ pk.msg \in MessageType
         /\ pk.msg.type = "RREQ" => pk.msg \in RreqType
         /\ pk.msg.type = "RREP" => pk.msg \in RrepType
         /\ pk.msg.type = "RERR" => pk.msg \in RerrType
         /\ pk.msg.type = "PTA" => pk.msg \in PtaType
         /\ pk.msg.type = "DATA" => pk.msg \in DataType
BY DEF PacketType, MessageType, RreqType, RrepType, RerrType, PtaType, DataType

\* The fields of each kind of message.
LEMMA MessageFields ==
  ASSUME NEW m \in MessageType
  PROVE  /\ m.type = "RREQ" =>
              /\ m.src \in Node /\ m.id \in 1 .. MaxBid /\ m.srcseqno \in Nat /\ m.dst \in Node
              /\ m.dstseqno \in Nat /\ m.hops \in Nat /\ m.first \in Node
              /\ m.trusted \in BOOLEAN
         /\ m.type = "RREP" =>
              /\ m.ipdst \in Node /\ m.id \in 1 .. MaxBid /\ m.dst \in Node
              /\ m.seqno \in Nat /\ m.hops \in Nat /\ m.first \in Node
              /\ m.trusted \in BOOLEAN
         /\ m.type = "RERR" => m.dests \subseteq Node /\ m.seqno \in [Node -> Nat]
         /\ m.type = "PTA" => m.dst \in Node /\ m.seqno \in Nat
         /\ m.type = "DATA" => m.src \in Node /\ m.dst \in Node /\ m.no \in 0 .. MaxData - 1
BY DEF MessageType, RreqType, RrepType, RerrType, PtaType, DataType

\* A step of a good agent keeps the invariant.
LEMMA GoodStep ==
  ASSUME Inv, NEW n \in Node, NEW w, Good(n, w), NEW gone, Step(n, w, gone),
         NoAlarm' => NoAlarm,
         sent' \in 0 .. MaxData, delivered' \subseteq 0 .. MaxData - 1,
         events' \in [Events -> Nat]
  PROVE  Inv' /\ DataAvoids
<1> DEFINE v == [w EXCEPT !.out = {}]
<1>1. node' = [node EXCEPT ![n] = v] /\ net' = (net \ gone) \cup w.out
  BY DEF Step
<1>2. Typed /\ Whole(w) /\ w \in AgentType
  BY DEF Inv, Good, Whole
<1>3. /\ v \in AgentType /\ v.rt = w.rt /\ v.out = {} /\ v.seqno = w.seqno /\ v.bid = w.bid
      /\ v.tries = w.tries /\ v.distrusted = w.distrusted
  BY <1>2 DEF AgentType
<1> HIDE DEF v
<1>4. node \in [Node -> AgentType]
  BY <1>2 DEF Typed
<1>5. node'[n] = v /\ \A m \in Node : m # n => node'[m] = node[m]
  BY <1>1, <1>4
<1>6. Typed'
  <2>1. Whole(v)
    BY <1>2, <1>3 DEF Whole
  <2>2. node' \in [Node -> AgentType]
    BY <1>1, <1>3, <1>4
  <2>3. \A m \in Node : Whole(node'[m]) /\ node'[m].out = {}
    BY <1>2, <1>3, <1>5, <2>1 DEF Typed
  <2>4. net' \subseteq PacketType
    BY <1>1, <1>2 DEF Typed, AgentType
  <2> QED
    BY <2>2, <2>3, <2>4 DEF Typed
<1>7. ASSUME NoAlarm' PROVE ClearNetwork'
  <2>1. NoAlarm /\ ClearNetwork /\ Honest(n, w) /\ w.seqno >= node[n].seqno
    BY <1>7 DEF Inv, Good
  <2>2. ASSUME NEW m \in Node
        PROVE  node'[m].distrusted = {} /\ Lent(node'[m].seqno)
               /\ node[m].seqno \in Nat /\ node'[m].seqno \in Nat
               /\ node'[m].seqno >= node[m].seqno
    <3>1. node[m].seqno \in Nat /\ node[m].distrusted = {} /\ Lent(node[m].seqno)
      BY <1>2, <2>1, NodeFacts DEF ClearNetwork
    <3>2. w.seqno \in Nat /\ w.distrusted = {} /\ Lent(w.seqno)
      BY <1>2, <2>1 DEF AgentType, Honest
    <3> QED
      BY <1>3, <1>5, <2>1, <3>1, <3>2
  <2>3. ASSUME NEW m \in Node, NEW d \in Node
        PROVE  /\ node[m].rt[d] \in EntryType /\ node'[m].rt[d] \in EntryType
               /\ AsGood(node[m].rt[d], node'[m].rt[d])
               /\ Clear(node'[m].rt[d]) /\ Ordered(d, node'[m].rt[d])
               /\ Ranked(m, d, node'[m].rt[d])
    <3>1. /\ node[m].rt[d] \in EntryType /\ Clear(node[m].rt[d])
          /\ Ordered(d, node[m].rt[d]) /\ Ranked(m, d, node[m].rt[d])
      BY <1>2, <2>1, NodeFacts DEF ClearNetwork
    <3>2. CASE m = n
      <4>1. w.rt[d] \in EntryType /\ Clear(w.rt[d]) /\ AsGood(node[n].rt[d], w.rt[d])
            /\ Ordered(d, w.rt[d]) /\ Ranked(n, d, w.rt[d])
        BY <2>1 DEF Good, Whole, Proper, Honest
      <4> QED
        BY <1>3, <1>5, <3>1, <3>2, <4>1
    <3>3. CASE m # n
      <4>1. AsGood(node[m].rt[d], node[m].rt[d])
        BY <3>1, SameEntry DEF Follows
      <4> QED
        BY <1>5, <3>1, <3>3, <4>1
    <3> QED
      BY <3>2, <3>3
  <2>4. ASSUME NEW m \in Node, NEW d \in Node, NEW s \in Nat, NEW k \in Nat,
               Ahead(node[m].rt[d], s, k)
        PROVE  Ahead(node'[m].rt[d], s, k)
    BY <2>3, <2>4, AheadStays
  <2>5. ASSUME NEW d \in Node, NEW r \in EntryType, Ordered(d, r)
        PROVE  Ordered(d, r)'
    <3>1. ASSUME r.up PROVE r.seqno <= node'[d].seqno
      <4>1. r.seqno \in Nat /\ r.seqno <= node[d].seqno
        BY <2>5, <3>1, EntryFields DEF Ordered
      <4> QED
        BY <2>2, <4>1
    <3>2. ASSUME r.up, NEW i \in 1 .. Len(r.paths), r.paths[i].nexthop # d
          PROVE  Ahead(node'[r.paths[i].nexthop].rt[d], r.seqno, r.paths[i].hopcount)
      <4>1. Ahead(node[r.paths[i].nexthop].rt[d], r.seqno, r.paths[i].hopcount)
        BY <2>5, <3>2 DEF Ordered
      <4>2. r.paths[i].nexthop \in Node /\ r.seqno \in Nat /\ r.paths[i].hopcount \in Nat
        BY PathOf, EntryFields
      <4> QED
        BY <2>4, <4>1, <4>2
    <3> QED
      BY <3>1, <3>2 DEF Ordered
  <2>6. ASSUME NEW d \in Node, NEW s \in Nat, NEW k \in Nat
        PROVE  /\ \A h \in Nat : Cardinality(Closer(node, d, s, k)) >= h
                                 => Cardinality(Closer(node', d, s, k)) >= h
               /\ \A m : \A h \in Nat : Cardinality(Closer(node, d, s, k) \ {m}) >= h
                                       => Cardinality(Closer(node', d, s, k) \ {m}) >= h
    <3>1. \A m \in Node : Ahead(node[m].rt[d], s, k) => Ahead(node'[m].rt[d], s, k)
      BY <2>4
    <3> DEFINE c == Cardinality(Closer(node, d, s, k))
               c1 == Cardinality(Closer(node', d, s, k))
               a(m) == Cardinality(Closer(node, d, s, k) \ {m})
               a1(m) == Cardinality(Closer(node', d, s, k) \ {m})
    <3>2. c \in Nat /\ \A m : a(m) \in Nat
      BY CloserFinite
    <3>3. c1 \in Nat /\ \A m : a1(m) \in Nat
      BY CloserFinite
    <3>4. c <= c1 /\ \A m : a(m) <= a1(m)
      BY <3>1, CloserGrows
    <3> HIDE DEF c, c1, a, a1
    <3>5. \A h \in Nat : c >= h => c1 >= h
      BY <3>2, <3>3, <3>4
    <3>6. \A m : \A h \in Nat : a(m) >= h => a1(m) >= h
      BY <3>2, <3>3, <3>4
    <3> QED
      BY <3>5, <3>6 DEF c, c1, a, a1
  <2>7. ASSUME NEW m \in Node, NEW d \in Node, NEW r \in EntryType, Ranked(m, d, r)
        PROVE  Ranked(m, d, r)'
    <3>1. r.seqno \in Nat /\ r.adv \in Nat /\ r.adv + 1 \in Nat
          /\ \A i \in 1 .. Len(r.paths) : r.paths[i].hopcount \in Nat
      BY EntryFields, PathOf
    <3>2. ASSUME NEW k \in Nat, NEW h \in Nat, Cardinality(Closer(node, d, r.seqno, k)) >= h
          PROVE  Cardinality(Closer(node', d, r.seqno, k)) >= h
      BY <2>6, <3>1, <3>2
    <3>3. ASSUME NEW k \in Nat, NEW h \in Nat,
                 Cardinality(Closer(node, d, r.seqno, k) \ {m}) >= h
          PROVE  Cardinality(Closer(node', d, r.seqno, k) \ {m}) >= h
      BY <2>6, <3>1, <3>3
    <3> QED
      BY <2>7, <3>1, <3>2, <3>3 DEF Ranked
  <2>8. ASSUME NEW m \in Node, NEW d \in Node
        PROVE  Clear(node'[m].rt[d]) /\ Ordered(d, node[m].rt[d])'
               /\ Ranked(m, d, node[m].rt[d])'
    BY <2>3, <2>5, <2>7
  <2>9. ASSUME NEW pk \in net, ClearPacket(pk) PROVE ClearPacket(pk)'
    <3>1. pk \in PacketType /\ pk.from \in Node
      BY <1>2 DEF Typed, PacketType
    <3>2. ASSUME NEW d \in Node, NEW s \in Nat, NEW h \in Nat, Offer(pk, d, s, h)
          PROVE  Offer(pk, d, s, h)'
      <4>1. s <= node'[d].seqno
        BY <2>2, <3>2 DEF Offer
      <4>2. Ahead(node[pk.from].rt[d], s, h + 1) => Ahead(node'[pk.from].rt[d], s, h + 1)
        BY <2>4, <3>1
      <4>3. Cardinality(Closer(node', d, s, h + 1)) >= h + 1
        <5>1. h + 1 \in Nat /\ Cardinality(Closer(node, d, s, h + 1)) >= h + 1
          BY <3>2 DEF Offer
        <5> QED
          BY <2>6, <5>1
      <4> QED
        BY <3>2, <4>1, <4>2, <4>3 DEF Offer
    <3> QED
      BY <2>9, <3>1, <3>2, PacketFields, MessageFields DEF ClearPacket
  <2>10. ASSUME NEW pk \in w.out PROVE ClearPacket(pk)'
    <3>1. pk \in PacketType /\ pk.from = n /\ Truthful(n, w, pk)
      BY <1>2, <2>1 DEF Good, Honest, AgentType
    <3>2. ASSUME NEW d \in Node, NEW s \in Nat, NEW h \in Nat, Vouched(n, w, d, s, h)
          PROVE  Offer(pk, d, s, h)'
      <4>1. CASE d = n
        <5>1. s <= node'[n].seqno
          BY <1>3, <1>5, <3>2, <4>1 DEF Vouched
        <5>2. Cardinality(Closer(node', n, s, 1)) >= 1
          <6> DEFINE C == Closer(node', n, s, 1)
          <6>1. IsFiniteSet(C) /\ Cardinality(C) \in Nat
            BY CloserFinite
          <6>2. n \in C
            BY DEF Closer
          <6> HIDE DEF C
          <6>3. Cardinality(C) # 0
            BY <6>1, <6>2, FS_EmptySet
          <6> QED
            BY <6>1, <6>3 DEF C
        <5>3. h = 0 /\ h + 1 = 1
          BY <3>2, <4>1 DEF Vouched
        <5> QED
          BY <3>1, <3>2, <4>1, <5>1, <5>2, <5>3 DEF Vouched, Offer
      <4>2. CASE d # n
        <5>1. /\ Lent(s) /\ w.rt[d].up /\ w.rt[d].seqno = s /\ w.rt[d].adv <= h
              /\ Settled(w.rt[d])
          BY <3>2, <4>2 DEF Vouched
        <5>2. w.rt[d].adv \in Nat
          BY <1>2, EntryFields DEF AgentType
        <5>3. Ahead(node'[n].rt[d], s, h + 1)
          BY <1>3, <1>5, <5>1, <5>2 DEF Ahead
        <5>4. s <= node'[d].seqno
          <6>1. s <= node[d].seqno
            BY <2>1, <5>1 DEF Good, Ordered
          <6> QED
            BY <2>2, <6>1
        <5>5. Cardinality(Closer(node', d, s, h + 1)) >= h + 1
          <6>1. Ranked(n, d, w.rt[d])' /\ n # d /\ node'[n].rt[d] = w.rt[d]
            BY <1>3, <1>5, <2>3, <2>7, <4>2
          <6>2. CASE h = w.rt[d].adv /\ h # INFINITY
                     /\ ~\E i \in 1 .. Len(w.rt[d].paths) : w.rt[d].paths[i].hopcount = h
            BY <5>1, <6>1, <6>2 DEF Ranked
          <6>3. CASE \E i \in 1 .. Len(w.rt[d].paths) : w.rt[d].paths[i].hopcount = h
            <7>1. Cardinality(Closer(node', d, s, h) \ {n}) >= h
              BY <5>1, <6>1, <6>3 DEF Ranked
            <7>2. \A m \in Node : node'[m].rt[d] \in EntryType
              BY <2>3
            <7> QED
              BY <5>1, <6>1, <7>1, <7>2, CloserSelf
          <6> QED
            BY <3>2, <4>2, <6>2, <6>3 DEF Vouched, Stated
        <5> QED
          BY <3>1, <5>1, <5>3, <5>4, <5>5 DEF Offer
      <4> QED
        BY <4>1, <4>2
    <3> QED
      BY <3>1, <3>2, PacketFields, MessageFields DEF Truthful, ClearPacket
  <2>11. \A pk \in net : ClearPacket(pk)
    BY <2>1 DEF ClearNetwork
  <2>12. \A pk \in net' : ClearPacket(pk)'
    BY <1>1, <2>9, <2>10, <2>11
  <2>13. \A m \in Node : node'[m].distrusted = {} /\ Lent(node'[m].seqno)
    BY <2>2
  <2> QED
    BY <2>8, <2>12, <2>13 DEF ClearNetwork
<1>8. ASSUME NEW pk \in net' \ net, pk.msg.type = "DATA"
      PROVE  pk.to \notin node[pk.from].distrusted
  BY <1>1, <1>8 DEF Good
<1> QED
  BY <1>6, <1>7, <1>8 DEF Inv, DataAvoids

\* An agent that has not changed.
LEMMA GoodNode ==
  ASSUME Inv, NEW n \in Node
  PROVE  Good(n, node[n]) /\ Whole(node[n])
<1>1. /\ Whole(node[n]) /\ node[n].out = {} /\ node[n].seqno \in Nat
      /\ \A d \in Node : node[n].rt[d] \in EntryType
  BY NodeFacts DEF Inv
<1>2. \A d \in Node : AsGood(node[n].rt[d], node[n].rt[d])
  BY <1>1, SameEntry DEF Follows
<1> QED
  BY <1>1, <1>2 DEF Good, Inv, ClearNetwork, Honest

\* An agent that forwards and sends requests.
LEMMA GoodFares ==
  ASSUME Inv, NEW n \in Node, NEW w, Good(n, w), NEW v, Fares(n, w, v),
         Vias(w) \cap node[n].distrusted \subseteq w.distrusted
  PROVE  Good(n, v) /\ Vias(v) \cap node[n].distrusted \subseteq v.distrusted
<1>1. Whole(v) /\ Mindful(n, w, v) /\ Whole(w)
  BY DEF Fares, Good
<1>2. \A pk \in v.out :
        pk.from = n /\ (pk.msg.type = "DATA" => pk.to \notin node[n].distrusted)
  BY <1>1 DEF Mindful, Good
<1>3. ASSUME NoAlarm
      PROVE  /\ Honest(n, v) /\ v.seqno >= node[n].seqno
             /\ \A d \in Node : /\ AsGood(node[n].rt[d], v.rt[d])
                               /\ Ordered(d, v.rt[d]) /\ Ranked(n, d, v.rt[d])
  <2>1. Honest(n, v) /\ Quietly(w, v)
    BY <1>3 DEF Fares, Good
  <2>2. v.seqno >= node[n].seqno
    <3>1. node[n].seqno \in Nat /\ w.seqno \in Nat /\ v.seqno \in Nat
      BY <1>1, NodeFacts DEF Whole, AgentType, Inv
    <3> QED
      BY <1>3, <2>1, <3>1 DEF Quietly, Good
  <2>3. ASSUME NEW d \in Node
        PROVE  /\ AsGood(node[n].rt[d], v.rt[d])
               /\ Ordered(d, v.rt[d]) /\ Ranked(n, d, v.rt[d])
    <3>1. /\ node[n].rt[d] \in EntryType /\ w.rt[d] \in EntryType /\ v.rt[d] \in EntryType
          /\ Proper(w.rt[d])
      BY <1>1, NodeFacts DEF Whole, Proper, Inv
    <3>2. Alike(w.rt[d], v.rt[d])
      BY <2>1 DEF Quietly
    <3>3. AsGood(w.rt[d], v.rt[d])
      BY <3>1, <3>2, AlikeEntry DEF Follows
    <3>4. AsGood(node[n].rt[d], v.rt[d])
      BY <1>3, <3>1, <3>3, AsGoodOn DEF Good
    <3>5. Ordered(d, v.rt[d])
      BY <1>3, <3>2 DEF Good, Ordered, Alike
    <3>6. Ranked(n, d, v.rt[d])
      BY <1>3, <3>2, RankedAlike DEF Good
    <3> QED
      BY <3>4, <3>5, <3>6
  <2> QED
    BY <2>1, <2>2, <2>3
<1>4. Vias(v) \cap node[n].distrusted \subseteq v.distrusted
  BY <1>1 DEF Mindful
<1> QED
  BY <1>1, <1>2, <1>3, <1>4 DEF Good

\* An entry that follows the present one and takes offers that can be kept.
LEMMA OrderedEntry ==
  ASSUME Inv, NoAlarm, NEW n \in Node, NEW d \in Node, NEW r, Proper(r), NEW offers,
         Follows(node[n].rt[d], r, offers),
         \A o \in offers : /\ o[2] <= node[d].seqno /\ n # d
                           /\ \/ o[1].nexthop = d
                              \/ Ahead(node[o[1].nexthop].rt[d], o[2], o[1].hopcount)
                           /\ Cardinality(Closer(node, d, o[2], o[1].hopcount)) >= o[1].hopcount
  PROVE  AsGood(node[n].rt[d], r) /\ Ordered(d, r) /\ Ranked(n, d, r)
<1> DEFINE e == node[n].rt[d]
           Nodes(s, k) == Closer(node, d, s, k)
<1>1. Ordered(d, e) /\ Ranked(n, d, e) /\ Clear(e) /\ e \in EntryType
  BY NodeFacts DEF Inv, ClearNetwork
<1>2. ASSUME NEW k \in Nat, NEW s \in Nat, n # d, ~Ahead(e, s, k)
      PROVE  Nodes(s, k) \ {n} = Nodes(s, k)
  BY <1>2 DEF Closer
<1>3. r \in EntryType
  BY DEF Proper
<1>4. ASSUME r.up, NEW i \in 1 .. Len(r.paths)
      PROVE  /\ r.seqno <= node[d].seqno
             /\ \/ r.paths[i].nexthop = d
                \/ Ahead(node[r.paths[i].nexthop].rt[d], r.seqno, r.paths[i].hopcount)
             /\ n # d
             /\ Cardinality(Nodes(r.seqno, r.paths[i].hopcount) \ {n}) >= r.paths[i].hopcount
  <2> HIDE DEF e, Nodes
  <2>1. CASE /\ e.up /\ r.seqno = e.seqno
             /\ \E j \in 1 .. Len(e.paths) : SamePath(r.paths[i], e.paths[j])
    BY <1>1, <2>1 DEF Ordered, Ranked, SamePath, Nodes
  <2>2. CASE \E o \in offers : /\ r.seqno = o[2] /\ SamePath(r.paths[i], o[1])
                               /\ ~Ahead(e, o[2], o[1].hopcount)
    <3>1. PICK o \in offers : /\ r.seqno = o[2] /\ SamePath(r.paths[i], o[1])
                              /\ ~Ahead(e, o[2], o[1].hopcount)
      BY <2>2
    <3>2. r.seqno \in Nat /\ r.paths[i].hopcount \in Nat
      BY <1>3, EntryFields, PathOf
    <3>3. Nodes(r.seqno, r.paths[i].hopcount) \ {n} = Nodes(r.seqno, r.paths[i].hopcount)
      BY <1>2, <3>1, <3>2 DEF SamePath
    <3> QED
      BY <3>1, <3>3 DEF SamePath, Nodes
  <2> QED
    BY <1>4, <2>1, <2>2 DEF Follows, e
<1>5. r.up => 1 \in 1 .. Len(r.paths)
  <2>1. r \in EntryType /\ (r.up => r.paths # << >>)
    BY DEF Proper
  <2> QED
    BY <2>1, PathOf
<1>6. ASSUME r.up
      PROVE  \/ r.adv = INFINITY
             \/ Cardinality(Nodes(r.seqno, r.adv + 1)) >= r.adv + 1
             \/ \E i \in 1 .. Len(r.paths) : r.paths[i].hopcount = r.adv
  <2>1. CASE e.up /\ r.seqno = e.seqno /\ r.adv = e.adv /\ r.adv # INFINITY
    <3>1. e.seqno \in Nat /\ e.adv \in Nat /\ e.adv <= e.adv /\ Settled(e) /\ n # d
      <4>1. e.seqno \in Nat /\ e.adv \in Nat
        BY <1>1, EntryFields
      <4>2. Settled(e)
        BY <1>1, <2>1 DEF Clear
      <4>3. n # d
        BY <1>1, <2>1 DEF Ranked
      <4> QED
        BY <4>1, <4>2, <4>3
    <3>2. CASE Cardinality(Nodes(e.seqno, e.adv + 1)) >= e.adv + 1
      BY <2>1, <3>2
    <3>3. CASE \E i \in 1 .. Len(e.paths) : e.paths[i].hopcount = e.adv
      <4>1. Cardinality(Nodes(e.seqno, e.adv) \ {n}) >= e.adv
        BY <1>1, <2>1, <3>3 DEF Ranked
      <4>2. \A m \in Node : node[m].rt[d] \in EntryType
        BY NodeFacts DEF Inv
      <4>3. Cardinality(Nodes(e.seqno, e.adv + 1)) >= e.adv + 1
        BY <3>1, <4>1, <4>2, CloserSelf
      <4> QED
        BY <2>1, <4>3
    <3> QED
      BY <1>1, <2>1, <3>2, <3>3 DEF Ranked
  <2> HIDE DEF e, Nodes
  <2> QED
    BY <1>6, <2>1 DEF Follows, e
<1> QED
  BY <1>4, <1>5, <1>6 DEF Follows, Ordered, Ranked

\* An agent whose routes have changed and which has sent nothing but errors so far.
LEMMA GoodRoutes ==
  ASSUME Inv, NEW n \in Node, NEW w, Whole(w),
         \A pk \in w.out : pk.from = n /\ pk.msg.type # "DATA",
         NoAlarm => /\ Honest(n, w) /\ w.seqno >= node[n].seqno
                    /\ \A d \in Node : Follows(node[n].rt[d], w.rt[d], {})
  PROVE  Good(n, w)
<1>1. ASSUME NoAlarm, NEW d \in Node
      PROVE  /\ AsGood(node[n].rt[d], w.rt[d]) /\ Ordered(d, w.rt[d])
             /\ Ranked(n, d, w.rt[d])
  BY <1>1, OrderedEntry DEF Whole
<1> QED
  BY <1>1 DEF Good
-----------------------------------------------------------------------------
(* Data. *)

\* A step of a good agent of which the environment has no part.
LEMMA QuietStep ==
  ASSUME Inv, NEW n \in Node, NEW w, Good(n, w), NEW gone, Step(n, w, gone),
         events' = events, sent' \in 0 .. MaxData, delivered' \subseteq 0 .. MaxData - 1
  PROVE  Inv' /\ DataAvoids
<1>1. (NoAlarm' => NoAlarm) /\ events' \in [Events -> Nat]
  BY DEF NoAlarm, Happened, Inv, Typed
<1> QED
  BY <1>1, GoodStep

\* The step of a handler that starts from a good agent and fares well.
LEMMA FaresStep ==
  ASSUME Inv, NEW n \in Node, NEW w, Good(n, w), w.distrusted = node[n].distrusted,
         NEW v, Fares(n, w, v), NEW gone, Step(n, v, gone),
         events' = events, sent' \in 0 .. MaxData, delivered' \subseteq 0 .. MaxData - 1
  PROVE  Inv' /\ DataAvoids
<1>1. Good(n, v)
  BY GoodFares
<1> QED
  BY <1>1, QuietStep

\* rt_resolve for a packet of this node.
LEMMA AppSendStep ==
  ASSUME Inv, NEW f \in Traffic, AppSend(f[1], f[2])
  PROVE  Inv' /\ DataAvoids
<1> DEFINE n == f[1]
           d == f[2]
           p == Data(n, d, sent)
           w == node[n]
           kept == [w EXCEPT !.rqueue[d] = Append(@, p)]
<1>1. n \in Node /\ d \in Node
  BY TeaomdvAssumption
<1>2. /\ events' = events /\ sent' \in 0 .. MaxData /\ delivered' \subseteq 0 .. MaxData - 1
      /\ sent \in 0 .. MaxData - 1
  BY TeaomdvAssumption DEF AppSend, Inv, Typed
<1>3. p \in DataType /\ p.dst = d
  BY <1>1, <1>2 DEF Data, DataType
<1>4. Good(n, w) /\ Whole(w) /\ w.distrusted = node[n].distrusted /\ w \in AgentType
  BY <1>1, GoodNode DEF Whole
<1>5. IF w.rt[d].up THEN Step(n, Forward(n, w, p, Zero), {})
      ELSE \E v \in SendRequest(n, kept, d) : Step(n, v, {})
  BY Zenon DEF AppSend
<1> HIDE DEF n, d, p, w
<1>6. CASE w.rt[d].up
  <2>1. Fares(n, w, Forward(n, w, p, Zero))
    BY <1>1, <1>3, <1>4, <1>6, ForwardFares
  <2> QED
    BY <1>1, <1>2, <1>4, <1>5, <1>6, <2>1, FaresStep
<1>7. CASE ~w.rt[d].up
  <2>1. PICK v \in SendRequest(n, kept, d) : Step(n, v, {})
    BY <1>5, <1>7
  <2>2. /\ kept \in AgentType /\ kept.rt = w.rt /\ kept.distrusted = w.distrusted
        /\ kept.out = w.out /\ kept.seqno = w.seqno /\ kept.tries = w.tries
        /\ kept.bid = w.bid
    <3>1. Append(w.rqueue[d], p) \in Seq(DataType)
      BY <1>1, <1>3, <1>4 DEF AgentType
    <3> QED
      BY <1>1, <1>4, <3>1 DEF AgentType
  <2> HIDE DEF kept
  <2>3. Fares(n, w, kept)
    <3>1. \A x \in Node : kept.tries[x] < kept.bid
      BY <1>4, <2>2 DEF Whole
    <3> QED
      BY <1>1, <1>4, <2>2, <3>1, SilentFares
  <2>4. Fares(n, kept, v)
    BY <1>1, <2>1, <2>3, SendRequestFares DEF Fares
  <2>5. Fares(n, w, v)
    BY <1>4, <2>3, <2>4, FaresOn
  <2> QED
    BY <1>1, <1>2, <1>4, <2>1, <2>5, FaresStep
<1> QED
  BY <1>6, <1>7

\* forward() and rt_resolve for a packet of others.
LEMMA RecvDataStep ==
  ASSUME Inv, NEW n \in Node, RecvData(n)
  PROVE  Inv' /\ DataAvoids
<1> DEFINE w == node[n]
<1>1. PICK pk \in net :
        /\ Receives(n, pk, "DATA")
        /\ delivered' = IF n = pk.msg.dst THEN delivered \cup {pk.msg.no} ELSE delivered
        /\ Step(n,
                IF n \in {pk.msg.src, pk.msg.dst} THEN w
                ELSE IF w.rt[pk.msg.dst].up THEN Forward(n, w, pk.msg, pk.from)
                ELSE Send(w, Broadcast(n, Rerr({pk.msg.dst}, w.rt))),
                {pk})
  BY Zenon DEF RecvData
<1>2. /\ pk.msg \in DataType /\ pk.msg.dst \in Node /\ pk.msg.no \in 0 .. MaxData - 1
      /\ pk.from \in Node
  BY <1>1, PacketFields, MessageFields DEF Receives, Inv, Typed
<1>3. events' = events /\ sent' \in 0 .. MaxData /\ delivered' \subseteq 0 .. MaxData - 1
  BY <1>1, <1>2 DEF Receives, Inv, Typed
<1>4. Good(n, w) /\ Whole(w) /\ w.distrusted = node[n].distrusted /\ w \in AgentType
  BY GoodNode DEF Whole
<1>5. CASE n \in {pk.msg.src, pk.msg.dst}
  BY <1>1, <1>3, <1>4, <1>5, FaresSame, FaresStep
<1>6. CASE n \notin {pk.msg.src, pk.msg.dst} /\ w.rt[pk.msg.dst].up
  <2>1. Fares(n, w, Forward(n, w, pk.msg, pk.from))
    BY <1>2, <1>4, <1>6, ForwardFares
  <2> QED
    BY <1>1, <1>3, <1>4, <1>6, <2>1, FaresStep
<1>7. CASE n \notin {pk.msg.src, pk.msg.dst} /\ ~w.rt[pk.msg.dst].up
  <2> DEFINE d == pk.msg.dst
             msg == Rerr({d}, w.rt)
             packets == Broadcast(n, msg)
             v == Send(w, packets)
  <2>1. Step(n, v, {pk})
    BY <1>1, <1>7
  <2>2. w.rt \in [Node -> EntryType]
    BY <1>4 DEF AgentType
  <2>3. msg \in MessageType /\ msg.type = "RERR" /\ msg.dests = {d}
        /\ msg.seqno[d] = w.rt[d].seqno
    <3>1. \A x \in Node : w.rt[x].seqno \in Nat
      BY <2>2, EntryFields
    <3>2. [x \in Node |-> IF x \in {d} THEN w.rt[x].seqno ELSE 0] \in [Node -> Nat]
      BY <3>1
    <3> QED
      BY <1>2, <3>2 DEF Rerr, RerrType, MessageType
  <2>4. packets \subseteq PacketType /\ \A x \in packets : x.from = n /\ x.msg = msg
    BY <2>3, BroadcastPackets
  <2> HIDE DEF packets
  <2>5. /\ v \in AgentType /\ v.rt = w.rt /\ v.distrusted = w.distrusted
        /\ v.out = w.out \cup packets /\ v.seqno = w.seqno /\ v.tries = w.tries
        /\ v.bid = w.bid
    BY <1>4, <2>4 DEF Send, AgentType
  <2> HIDE DEF v, msg, w
  <2>6. \A x \in Node : Alike(w.rt[x], v.rt[x]) /\ v.tries[x] < v.bid
    BY <1>4, <2>5 DEF Alike, Whole
  <2>7. v.seqno >= w.seqno /\ (Lent(w.seqno) => Lent(v.seqno))
    BY <1>4, <2>5 DEF AgentType
  <2>8. Honest(n, w) => \A x \in packets : Truthful(n, v, x)
    BY <1>2, <1>7, <2>3, <2>4 DEF Honest, Clear, Truthful
  <2>9. \A x \in packets : x.from = n /\ x.msg.type # "DATA"
    BY <2>3, <2>4
  <2>10. Fares(n, w, v)
    BY <1>4, <2>5, <2>6, <2>7, <2>8, <2>9, RestFares
  <2> QED
    BY <1>3, <1>4, <2>1, <2>10, FaresStep DEF w
<1> QED
  BY <1>5, <1>6, <1>7
-----------------------------------------------------------------------------
(* Requests. *)

\* The entry of one destination is exchanged for one that keeps the order.
LEMMA GoodEntry ==
  ASSUME Inv, NEW n \in Node, NEW d \in Node, NEW r, Proper(r),
         NoAlarm => /\ Clear(r) /\ AsGood(node[n].rt[d], r)
                    /\ Ordered(d, r) /\ Ranked(n, d, r),
         NEW w \in AgentType, w.rt = [node[n].rt EXCEPT ![d] = r],
         w.seqno = node[n].seqno, w.distrusted = node[n].distrusted, w.out = {},
         w.tries = node[n].tries, w.bid = node[n].bid
  PROVE  Good(n, w)
<1>1. node[n].rt \in [Node -> EntryType] /\ node[n].seqno \in Nat
  BY NodeFacts DEF Inv, AgentType
<1>2. Whole(w)
  BY <1>1, GoodNode DEF Whole
<1>3. ASSUME NoAlarm, NEW x \in Node
      PROVE  /\ Clear(w.rt[x]) /\ AsGood(node[n].rt[x], w.rt[x])
             /\ Ordered(x, w.rt[x]) /\ Ranked(n, x, w.rt[x])
  <2>1. /\ Clear(node[n].rt[x]) /\ AsGood(node[n].rt[x], node[n].rt[x])
        /\ Ordered(x, node[n].rt[x]) /\ Ranked(n, x, node[n].rt[x])
    BY <1>3, GoodNode DEF Good, Honest
  <2>2. w.rt[x] = IF x = d THEN r ELSE node[n].rt[x]
    BY <1>1
  <2> QED
    BY <1>3, <2>1, <2>2
<1>4. NoAlarm => w.distrusted = {} /\ Lent(w.seqno)
  BY GoodNode DEF Good, Honest
<1> QED
  BY <1>1, <1>2, <1>3, <1>4 DEF Good, Honest

\* The agent once recvRequest has learned the path back to the source.
LEMMA ReversePathAgent ==
  ASSUME Inv, NEW n \in Node, NEW pk \in net, Receives(n, pk, "RREQ"), pk.msg.src # n
  PROVE  LET w == WithReversePath(n, pk) IN
         /\ Good(n, w) /\ Whole(w) /\ w.distrusted = node[n].distrusted
         /\ Conserves(node[n], w)
         /\ NoAlarm /\ ~RequestUseless(n, pk, node[n].rt[pk.msg.src]) =>
              w.rt[pk.msg.src].seqno = pk.msg.srcseqno
<1> DEFINE d  == pk.msg.src
           s  == pk.msg.srcseqno
           p  == ReversePath(n, pk)
           e  == node[n].rt[d]
           r  == Learn(e, p, s)
           w0 == [node[n] EXCEPT !.heard = @ \cup {Id(pk)}]
           w1 == [w0 EXCEPT !.rt[d] = r]
           w  == WithReversePath(n, pk)
<1>1. /\ pk \in PacketType /\ pk.from \in Node /\ d \in Node /\ s \in Nat
      /\ pk.msg.id \in 1 .. MaxBid /\ pk.msg.hops \in Nat /\ pk.msg.first \in Node
      /\ pk.msg.type = "RREQ"
  BY PacketFields, MessageFields DEF Receives, Inv, Typed
<1>2. p \in PathType /\ p.trusted /\ p.nexthop = pk.from /\ p.hopcount = pk.msg.hops + 1
  BY <1>1 DEF ReversePath, PathType
<1>3. node[n] \in AgentType /\ Proper(e) /\ node[n].out = {}
  BY <1>1, NodeFacts DEF Inv
<1>4. w = Flush(n, w1, d)
  <2>1. w0.rt[d] = e
    BY <1>3 DEF AgentType
  <2>2. w = Flush(n, [w0 EXCEPT !.rt[d] = Learn(w0.rt[d], p, s)], d)
    BY Zenon DEF WithReversePath
  <2> HIDE DEF w, w0, e, p, s, d
  <2> QED
    BY <2>1, <2>2
<1>5. w0 \in AgentType /\ w0.rt = node[n].rt /\ w0.seqno = node[n].seqno
      /\ w0.distrusted = node[n].distrusted /\ w0.out = node[n].out
      /\ w0.tries = node[n].tries /\ w0.bid = node[n].bid
      /\ w0.rqueue = node[n].rqueue
  <2>1. Id(pk) \in Node \X (1 .. MaxBid)
    BY <1>1 DEF Id
  <2> QED
    BY <1>3, <2>1 DEF AgentType
<1> HIDE DEF w0
<1>6. /\ Proper(r)
      /\ Fresher(e, s) \/ Candidate(e, p, s) => r.seqno = s
      /\ Clear(e) /\ Lent(s) => Clear(r) /\ Follows(e, r, {<<p, s>>})
  BY <1>1, <1>2, <1>3, LearnEntry
<1> HIDE DEF r, p
<1>7. /\ w1 \in AgentType /\ w1.rt = [node[n].rt EXCEPT ![d] = r]
      /\ w1.seqno = node[n].seqno /\ w1.distrusted = node[n].distrusted
      /\ w1.out = {} /\ w1.tries = node[n].tries /\ w1.bid = node[n].bid
      /\ w1.rqueue = node[n].rqueue
  BY <1>1, <1>3, <1>5, <1>6 DEF AgentType, Proper
<1> HIDE DEF w1, w
<1>8. NoAlarm => Clear(r) /\ AsGood(e, r) /\ Ordered(d, r) /\ Ranked(n, d, r)
  <2> SUFFICES ASSUME NoAlarm
               PROVE  Clear(r) /\ AsGood(e, r) /\ Ordered(d, r) /\ Ranked(n, d, r)
    OBVIOUS
  <2>1. Offer(pk, d, s, pk.msg.hops) /\ Clear(e)
    BY <1>1 DEF Inv, ClearNetwork, ClearPacket
  <2>2. Clear(r) /\ Follows(e, r, {<<p, s>>})
    BY <1>6, <2>1 DEF Offer
  <2> DEFINE offers == {<<p, s>>}
  <2>3. \A o \in offers :
          /\ o[2] <= node[d].seqno /\ n # d
          /\ \/ o[1].nexthop = d
             \/ Ahead(node[o[1].nexthop].rt[d], o[2], o[1].hopcount)
          /\ Cardinality(Closer(node, d, o[2], o[1].hopcount)) >= o[1].hopcount
    BY <1>2, <2>1 DEF Offer
  <2>4. Follows(e, r, offers)
    BY <2>2
  <2> HIDE DEF d, s, offers
  <2> QED
    BY <1>1, <1>6, <2>2, <2>3, <2>4, OrderedEntry
<1>9. Good(n, w1)
  BY <1>1, <1>6, <1>7, <1>8, GoodEntry
<1>10. Fares(n, w1, w)
  BY <1>1, <1>4, <1>9, FlushFares DEF Good
<1>11. Good(n, w)
  BY <1>7, <1>9, <1>10, GoodFares
<1>12. w.distrusted = node[n].distrusted
  BY <1>7, <1>10 DEF Fares, Mindful
<1>13. ASSUME NoAlarm, ~RequestUseless(n, pk, e)
       PROVE  w.rt[d].seqno = s
  <2>1. Fresher(e, s) \/ Candidate(e, p, s)
    BY <1>13 DEF RequestUseless, p
  <2>2. Alike(w1.rt[d], w.rt[d])
    BY <1>1, <1>9, <1>10, <1>13 DEF Fares, Good, Quietly
  <2>3. w1.rt[d] = r
    BY <1>1, <1>3, <1>7 DEF AgentType
  <2> QED
    BY <1>6, <2>1, <2>2, <2>3 DEF Alike
<1>14. Conserves(node[n], w)
  <2>1. Conserves(node[n], w1)
    BY <1>3, <1>7, SilentConserves
  <2>2. Conserves(w1, w)
    BY <1>1, <1>4, <1>9, FlushConserves DEF Good
  <2> QED
    BY <2>1, <2>2, ConservesOn
<1> QED
  <2>1. Whole(w)
    BY <1>11 DEF Good
  <2> QED
    BY <1>11, <1>12, <1>13, <1>14, <2>1, Zenon DEF w

\* The number a destination answers with is even and no smaller than its last.
LEMMA ReplySeqnoOf ==
  ASSUME NEW own \in Nat, NEW asked \in Nat
  PROVE  LET s == ReplySeqno(own, asked) IN
         s \in Nat /\ s >= own /\ (Lent(own) => Lent(s))
BY DEF ReplySeqno, Lent

\* recvRequest at the destination.
LEMMA RequestAtDestinationStep ==
  ASSUME Inv, NEW n \in Node, NEW pk \in net, Receives(n, pk, "RREQ"),
         pk.msg.src # n, RequestAtDestination(n, pk)
  PROVE  Inv' /\ DataAvoids
<1> DEFINE w == WithReversePath(n, pk)
           s == ReplySeqno(w.seqno, pk.msg.dstseqno)
           msg == Rrep(pk.msg.src, pk.msg.id, n, s, 0, pk.from, TRUE)
           packets == Unicast(n, pk.from, msg)
           v == Send([w EXCEPT !.seqno = s, !.nb = @ \cup {pk.from}], packets)
<1>1. /\ pk \in PacketType /\ pk.from \in Node /\ pk.msg.src \in Node
      /\ pk.msg.dstseqno \in Nat /\ pk.msg.id \in 1 .. MaxBid
  BY PacketFields, MessageFields DEF Receives, Inv, Typed
<1>2. events' = events /\ sent' \in 0 .. MaxData /\ delivered' \subseteq 0 .. MaxData - 1
  BY DEF Receives, Inv, Typed
<1>3. Step(n, v, {pk})
  BY DEF RequestAtDestination
<1>4. Good(n, w) /\ Whole(w) /\ w.distrusted = node[n].distrusted
  BY ReversePathAgent
<1>5. w \in AgentType /\ w.seqno \in Nat
  BY <1>4 DEF Whole, AgentType
<1> HIDE DEF w
<1>6. s \in Nat /\ s >= w.seqno /\ (Lent(w.seqno) => Lent(s))
  BY <1>1, <1>5, ReplySeqnoOf
<1> HIDE DEF s
<1>7. /\ msg \in MessageType /\ msg.type = "RREP" /\ msg.dst = n /\ msg.seqno = s
        /\ msg.hops = 0 /\ msg.trusted
  BY <1>1, <1>6 DEF Rrep, RrepType, MessageType
<1> HIDE DEF msg
<1>8. packets \subseteq PacketType /\ \A x \in packets : x.from = n /\ x.msg = msg
  BY <1>7, UnicastPackets
<1> HIDE DEF packets
<1>9. /\ v \in AgentType /\ v.rt = w.rt /\ v.seqno = s /\ v.distrusted = w.distrusted
      /\ v.out = w.out \cup packets /\ v.tries = w.tries /\ v.bid = w.bid
  BY <1>1, <1>5, <1>6, <1>8 DEF AgentType, Send
<1> HIDE DEF v
<1>10. \A x \in Node : Alike(w.rt[x], v.rt[x]) /\ v.tries[x] < v.bid
  BY <1>4, <1>9 DEF Alike, Whole
<1>11. Honest(n, w) => \A x \in packets : Truthful(n, v, x)
  BY <1>6, <1>7, <1>8, <1>9 DEF Honest, Truthful, Vouched
<1>12. \A x \in packets : x.from = n /\ x.msg.type # "DATA"
  BY <1>7, <1>8
<1>13. Fares(n, w, v)
  BY <1>4, <1>6, <1>9, <1>10, <1>11, <1>12, RestFares
<1> QED
  BY <1>2, <1>3, <1>4, <1>13, FaresStep

\* A good agent that says something, or leaves everything of interest as it is.
LEMMA GoodRest ==
  ASSUME Inv, NEW n \in Node, NEW w, Good(n, w), w.distrusted = node[n].distrusted,
         NEW v \in AgentType, NEW packets,
         v.distrusted = w.distrusted, v.out = w.out \cup packets,
         \A d \in Node : Alike(w.rt[d], v.rt[d]) /\ v.tries[d] < v.bid,
         v.seqno = w.seqno,
         \A pk \in packets : pk.from = n /\ pk.msg.type # "DATA",
         NoAlarm => \A pk \in packets : Truthful(n, v, pk)
  PROVE  Good(n, v)
<1>1. Whole(w) /\ w.seqno \in Nat
  BY DEF Good, Whole, AgentType
<1>2. CASE NoAlarm
  <2>1. v.seqno >= w.seqno /\ (Lent(w.seqno) => Lent(v.seqno))
    BY <1>1
  <2>2. Honest(n, w) => \A pk \in packets : Truthful(n, v, pk)
    BY <1>2
  <2>3. Fares(n, w, v)
    BY <1>1, <2>1, <2>2, RestFares
  <2> QED
    BY <2>3, GoodFares
<1>3. CASE ~NoAlarm
  <2>1. Whole(v)
    BY <1>1, RestWhole
  <2> QED
    BY <1>3, <2>1 DEF Good
<1> QED
  BY <1>2, <1>3

\* recvRequest answered from the table.
LEMMA RequestAnsweredStep ==
  ASSUME Inv, NEW n \in Node, NEW pk \in net, Receives(n, pk, "RREQ"),
         pk.msg.src # n, RequestAnswered(n, pk)
  PROVE  Inv' /\ DataAvoids
<1> DEFINE w == WithReversePath(n, pk)
           d == pk.msg.dst
           e == Advertise(w.rt[d])
           r == [e EXCEPT !.error = TRUE]
           msg == Rrep(pk.msg.src, pk.msg.id, d, e.seqno, e.adv,
                       path_find(e).lasthop, path_find(e).trusted)
           packets == Unicast(n, pk.from, msg)
           v == Send([w EXCEPT !.answered = @ \cup {Id(pk)}, !.rt[d] = r], packets)
<1>1. /\ pk \in PacketType /\ pk.from \in Node /\ pk.msg.src \in Node /\ d \in Node
      /\ pk.msg.id \in 1 .. MaxBid
  BY PacketFields, MessageFields DEF Receives, Inv, Typed
<1>2. events' = events /\ sent' \in 0 .. MaxData /\ delivered' \subseteq 0 .. MaxData - 1
  BY DEF Receives, Inv, Typed
<1>3. d # n /\ w.rt[d].up /\ (Step(n, w, {pk}) \/ Step(n, v, {pk}))
  <2>1. /\ d # n /\ FreshEnough(w, pk.msg)
        /\ Step(n, IF ~( /\ Id(pk) \notin w.answered
                         /\ Offered(node[n].rt[pk.msg.src], ReversePath(n, pk), pk.msg.srcseqno))
                   THEN w ELSE v, {pk})
    BY Zenon DEF RequestAnswered
  <2> HIDE DEF w, v
  <2> QED
    BY <2>1 DEF FreshEnough
<1>4. Good(n, w) /\ Whole(w) /\ w.distrusted = node[n].distrusted
  BY ReversePathAgent
<1>5. w \in AgentType /\ Proper(w.rt[d])
  BY <1>1, <1>4 DEF Whole
<1> HIDE DEF w
<1>6. CASE Step(n, w, {pk})
  BY <1>2, <1>4, <1>6, QuietStep
<1>7. CASE Step(n, v, {pk})
  <2>1. e \in EntryType /\ Alike(w.rt[d], e) /\ w.rt[d] \in EntryType
    BY <1>5, AdvertiseEntry DEF Proper
  <2>2. /\ r \in EntryType /\ r.seqno = e.seqno /\ r.adv = e.adv /\ r.paths = e.paths
        /\ r.up = e.up /\ r.highest = e.highest
    BY <2>1 DEF EntryType
  <2>3. Alike(w.rt[d], r) /\ (Clear(w.rt[d]) => Settled(r)) /\ (r.up => Stated(r, r.adv))
    BY <1>5, <2>2, AdvertisedEntry
  <2> HIDE DEF r
  <2>4. e.paths = w.rt[d].paths /\ e.up /\ e.seqno = w.rt[d].seqno
    BY <1>3, <2>1 DEF Alike
  <2>5. e.seqno \in Nat /\ e.adv \in Nat
    BY <2>1, EntryFields
  <2>6. 1 \in 1 .. Len(e.paths) /\ path_find(e) = e.paths[1]
    <3>1. e.paths # << >>
      BY <1>3, <1>5, <2>4 DEF Proper
    <3>2. e.paths \in Seq(PathType)
      BY <2>1, EntryFields
    <3> HIDE DEF e
    <3> QED
      BY <3>1, <3>2 DEF path_find
  <2>7. path_find(e) \in PathType
    BY <2>1, <2>6, PathOf
  <2> HIDE DEF e
  <2>8. /\ msg \in MessageType /\ msg.type = "RREP" /\ msg.dst = d /\ msg.seqno = e.seqno
        /\ msg.hops = e.adv /\ msg.trusted = path_find(e).trusted
    BY <1>1, <2>5, <2>7 DEF Rrep, RrepType, MessageType, PathType
  <2> HIDE DEF msg
  <2>9. packets \subseteq PacketType /\ \A x \in packets : x.from = n /\ x.msg = msg
    BY <2>8, UnicastPackets
  <2> HIDE DEF packets
  <2>10. /\ v \in AgentType /\ v.rt = [w.rt EXCEPT ![d] = r] /\ v.seqno = w.seqno
         /\ v.distrusted = w.distrusted
         /\ v.out = w.out \cup packets /\ v.tries = w.tries /\ v.bid = w.bid
    <3>1. Id(pk) \in Node \X (1 .. MaxBid)
      BY <1>1 DEF Id
    <3> QED
      BY <1>1, <1>5, <2>2, <2>9, <3>1 DEF AgentType, Send
  <2> HIDE DEF v
  <2>11. v.rt[d] = r /\ \A x \in Node : Alike(w.rt[x], v.rt[x]) /\ v.tries[x] < v.bid
    <3>1. w.rt \in [Node -> EntryType]
      BY <1>5 DEF AgentType
    <3>2. \A x \in Node : v.rt[x] = IF x = d THEN r ELSE w.rt[x]
      BY <2>10, <3>1
    <3> HIDE DEF d
    <3>3. \A x \in Node : Alike(w.rt[x], w.rt[x])
      BY DEF Alike
    <3> QED
      BY <1>1, <1>4, <2>3, <2>10, <3>2, <3>3 DEF Whole
  <2>12. ASSUME NoAlarm, NEW x \in packets PROVE Truthful(n, v, x)
    <3>1. Clear(w.rt[d])
      BY <1>1, <1>4, <2>12 DEF Good, Honest
    <3>2. Lent(e.seqno) /\ path_find(e).trusted
      BY <1>3, <2>4, <2>6, <3>1 DEF Clear
    <3>3. Vouched(n, v, d, e.seqno, e.adv)
      <4>1. /\ v.rt[d].up /\ v.rt[d].seqno = e.seqno /\ v.rt[d].adv <= e.adv
            /\ Settled(v.rt[d]) /\ Stated(v.rt[d], e.adv)
        <5>1. r.up /\ r.seqno = e.seqno /\ r.adv <= e.adv /\ Settled(r) /\ Stated(r, e.adv)
          BY <2>2, <2>3, <2>4, <2>5, <3>1
        <5> QED
          BY <2>11, <5>1
      <4> HIDE DEF d
      <4> QED
        BY <1>3, <3>2, <4>1 DEF Vouched
    <3> HIDE DEF d
    <3> QED
      BY <2>8, <2>9, <2>12, <3>2, <3>3 DEF Truthful
  <2>13. \A x \in packets : x.from = n /\ x.msg.type # "DATA"
    BY <2>8, <2>9
  <2>14. Good(n, v)
    BY <1>4, <2>10, <2>11, <2>12, <2>13, GoodRest
  <2> QED
    BY <1>2, <1>7, <2>14, QuietStep
<1> QED
  BY <1>3, <1>6, <1>7

\* A handler that leaves the agent crashed.
LEMMA CrashStep ==
  ASSUME Inv, NEW n \in Node, NEW w, Good(n, w), w.distrusted = node[n].distrusted,
         NEW gone, Step(n, [w EXCEPT !.crashed = TRUE], gone),
         events' = events, sent' \in 0 .. MaxData, delivered' \subseteq 0 .. MaxData - 1
  PROVE  Inv' /\ DataAvoids
<1> DEFINE v == [w EXCEPT !.crashed = TRUE]
<1>1. Whole(w) /\ w \in AgentType
  BY DEF Good, Whole
<1>2. /\ v \in AgentType /\ v.rt = w.rt /\ v.distrusted = w.distrusted /\ v.out = w.out
      /\ v.seqno = w.seqno /\ v.tries = w.tries /\ v.bid = w.bid
  BY <1>1 DEF AgentType
<1>3. Step(n, v, gone)
  OBVIOUS
<1> HIDE DEF v
<1>4. \A d \in Node : v.tries[d] < v.bid
  BY <1>1, <1>2 DEF Whole
<1>5. Fares(n, w, v)
  BY <1>1, <1>2, <1>4, SilentFares
<1> QED
  BY <1>3, <1>5, FaresStep

\* recvRequest passing the RREQ on.
LEMMA RequestRelayedStep ==
  ASSUME Inv, NEW n \in Node, NEW pk \in net, Receives(n, pk, "RREQ"),
         NEW trusted \in BOOLEAN, NoAlarm => trusted, pk.msg.src # n,
         ~RequestUseless(n, pk, node[n].rt[pk.msg.src]),
         RequestRelayed(n, pk, trusted)
  PROVE  Inv' /\ DataAvoids
<1> DEFINE w == WithReversePath(n, pk)
           d == pk.msg.src
           e == Advertise(w.rt[d])
           msg == [pk.msg EXCEPT !.dstseqno = Larger(w.rt[pk.msg.dst].seqno, @),
                                 !.hops = e.adv, !.first = path_find(e).lasthop,
                                 !.trusted = trusted]
           packets == Broadcast(n, msg)
           v == Send([w EXCEPT !.rt[d] = e], packets)
<1>1. /\ pk \in PacketType /\ pk.msg \in RreqType /\ d \in Node /\ pk.msg.dst \in Node
      /\ pk.msg.dstseqno \in Nat
  BY PacketFields, MessageFields DEF Receives, Inv, Typed
<1>2. events' = events /\ sent' \in 0 .. MaxData /\ delivered' \subseteq 0 .. MaxData - 1
  BY DEF Receives, Inv, Typed
<1>3. \/ Step(n, w, {pk})
      \/ Step(n, [w EXCEPT !.crashed = TRUE], {pk})
      \/ e.paths # << >> /\ Step(n, v, {pk})
  <2>1. Step(n, IF Id(pk) \in node[n].heard THEN w
                ELSE IF path_empty(e) THEN [w EXCEPT !.crashed = TRUE] ELSE v, {pk})
    BY Zenon DEF RequestRelayed
  <2> HIDE DEF w, v, e
  <2> QED
    BY <2>1 DEF path_empty
<1>4. /\ Good(n, w) /\ Whole(w) /\ w.distrusted = node[n].distrusted
      /\ NoAlarm => w.rt[d].seqno = pk.msg.srcseqno
  BY ReversePathAgent
<1>5. w \in AgentType /\ Proper(w.rt[d]) /\ w.rt[pk.msg.dst].seqno \in Nat
  BY <1>1, <1>4, EntryFields DEF Whole, Proper
<1> HIDE DEF w
<1>6. CASE Step(n, w, {pk})
  BY <1>2, <1>4, <1>6, QuietStep
<1>7. CASE Step(n, [w EXCEPT !.crashed = TRUE], {pk})
  BY <1>2, <1>4, <1>7, CrashStep
<1>8. CASE e.paths # << >> /\ Step(n, v, {pk})
  <2>1. /\ e \in EntryType /\ Alike(w.rt[d], e)
        /\ (Clear(w.rt[d]) => Settled(e)) /\ (e.up => Stated(e, e.adv))
    BY <1>5, AdvertiseEntry DEF Proper
  <2>2. e.paths = w.rt[d].paths /\ e.up = w.rt[d].up /\ e.seqno = w.rt[d].seqno
    BY <2>1 DEF Alike
  <2>3. e.adv \in Nat /\ e.paths \in Seq(PathType)
    BY <2>1, EntryFields
  <2> HIDE DEF e
  <2>4. path_find(e) \in PathType
    BY <1>8, <2>3 DEF path_find
  <2>5. /\ msg \in RreqType /\ msg.type = "RREQ" /\ msg.src = d
        /\ msg.srcseqno = pk.msg.srcseqno /\ msg.hops = e.adv /\ msg.trusted = trusted
    <3>1. Larger(w.rt[pk.msg.dst].seqno, pk.msg.dstseqno) \in Nat
      BY <1>1, <1>5 DEF Larger
    <3>2. path_find(e).lasthop \in Node
      BY <2>4 DEF PathType
    <3> QED
      BY <1>1, <2>3, <3>1, <3>2 DEF RreqType
  <2>6. msg \in MessageType
    BY <2>5 DEF MessageType
  <2> HIDE DEF msg
  <2>7. packets \subseteq PacketType /\ \A x \in packets : x.from = n /\ x.msg = msg
    BY <2>6, BroadcastPackets
  <2> HIDE DEF packets
  <2>8. /\ v \in AgentType /\ v.rt = [w.rt EXCEPT ![d] = e] /\ v.seqno = w.seqno
        /\ v.distrusted = w.distrusted
        /\ v.out = w.out \cup packets /\ v.tries = w.tries /\ v.bid = w.bid
    BY <1>1, <1>5, <2>1, <2>7 DEF AgentType, Send
  <2>9. Step(n, v, {pk})
    BY <1>8
  <2> HIDE DEF v
  <2>10. v.rt[d] = e /\ \A x \in Node : Alike(w.rt[x], v.rt[x]) /\ v.tries[x] < v.bid
    <3>1. w.rt \in [Node -> EntryType]
      BY <1>5 DEF AgentType
    <3>2. \A x \in Node : v.rt[x] = IF x = d THEN e ELSE w.rt[x]
      BY <2>8, <3>1
    <3> HIDE DEF d
    <3>3. \A x \in Node : Alike(w.rt[x], w.rt[x])
      BY DEF Alike
    <3> QED
      BY <1>1, <1>4, <2>1, <2>8, <3>2, <3>3 DEF Whole
  <2>11. ASSUME NoAlarm, NEW x \in packets PROVE Truthful(n, v, x)
    <3>1. Clear(w.rt[d])
      BY <1>1, <1>4, <2>11 DEF Good, Honest
    <3>2. e.up /\ Lent(e.seqno)
      BY <1>8, <2>2, <3>1 DEF Clear
    <3>3. Settled(e) /\ e.seqno = pk.msg.srcseqno /\ e.adv <= e.adv /\ Stated(e, e.adv)
      BY <1>4, <2>1, <2>2, <2>3, <2>11, <3>1, <3>2
    <3>4. Vouched(n, v, d, pk.msg.srcseqno, e.adv)
      <4>1. d # n /\ v.rt[d] = e
        BY <2>10
      <4> HIDE DEF d
      <4> QED
        BY <3>2, <3>3, <4>1 DEF Vouched
    <3> HIDE DEF d
    <3> QED
      BY <2>5, <2>7, <2>11, <3>4 DEF Truthful
  <2>12. \A x \in packets : x.from = n /\ x.msg.type # "DATA"
    BY <2>5, <2>7
  <2>13. Good(n, v)
    BY <1>4, <2>8, <2>10, <2>11, <2>12, GoodRest
  <2> QED
    BY <1>2, <2>9, <2>13, QuietStep
<1> QED
  BY <1>3, <1>6, <1>7, <1>8

\* recvRequest as a whole.
LEMMA RecvRequestStep ==
  ASSUME Inv, NEW n \in Node, RecvRequest(n)
  PROVE  Inv' /\ DataAvoids
<1>1. PICK pk \in net :
        /\ Receives(n, pk, "RREQ")
        /\ \E trusted \in RequestTrust(node[n], pk) :
             \/ RequestDropped(n, pk, trusted)
             \/ /\ pk.msg.src # n
                /\ trusted \/ pk.from = pk.msg.src
                /\ \/ RequestIgnored(n, pk)
                   \/ /\ ~RequestUseless(n, pk, node[n].rt[pk.msg.src])
                      /\ \/ RequestAtDestination(n, pk)
                         \/ RequestAnswered(n, pk)
                         \/ RequestRelayed(n, pk, trusted)
  BY DEF RecvRequest
<1>2. PICK trusted \in RequestTrust(node[n], pk) :
        \/ RequestDropped(n, pk, trusted)
        \/ /\ pk.msg.src # n
           /\ \/ RequestIgnored(n, pk)
              \/ /\ ~RequestUseless(n, pk, node[n].rt[pk.msg.src])
                 /\ \/ RequestAtDestination(n, pk)
                    \/ RequestAnswered(n, pk)
                    \/ RequestRelayed(n, pk, trusted)
  BY <1>1
<1>3. /\ pk \in PacketType /\ pk.msg.src \in Node /\ pk.msg.id \in 1 .. MaxBid
      /\ pk.msg.type = "RREQ" /\ pk.msg.trusted \in BOOLEAN
  BY <1>1, PacketFields, MessageFields DEF Receives, Inv, Typed
<1>4. trusted \in BOOLEAN
  BY <1>3 DEF RequestTrust
<1>5. NoAlarm => trusted
  <2>1. NoAlarm => pk.msg.trusted /\ node[n].distrusted = {}
    BY <1>3 DEF Inv, ClearNetwork, ClearPacket
  <2> QED
    BY <2>1 DEF RequestTrust
<1>6. events' = events /\ sent' \in 0 .. MaxData /\ delivered' \subseteq 0 .. MaxData - 1
  BY <1>1 DEF Receives, Inv, Typed
<1>7. Good(n, node[n]) /\ Whole(node[n]) /\ node[n] \in AgentType
  BY GoodNode DEF Whole
<1>8. CASE RequestDropped(n, pk, trusted)
  BY <1>6, <1>7, <1>8, QuietStep DEF RequestDropped
<1>9. CASE RequestIgnored(n, pk)
  <2> DEFINE w == node[n]
             v == [w EXCEPT !.heard = @ \cup {Id(pk)}]
  <2>1. Step(n, v, {pk})
    BY <1>9 DEF RequestIgnored
  <2>2. Id(pk) \in Node \X (1 .. MaxBid)
    BY <1>3 DEF Id
  <2>3. /\ v \in AgentType /\ v.rt = w.rt /\ v.distrusted = w.distrusted
        /\ v.out = w.out /\ v.seqno = w.seqno /\ v.tries = w.tries /\ v.bid = w.bid
    BY <1>7, <2>2 DEF AgentType
  <2> HIDE DEF v
  <2>4. \A d \in Node : v.tries[d] < v.bid
    BY <1>7, <2>3 DEF Whole
  <2>5. Fares(n, w, v)
    BY <1>7, <2>3, <2>4, SilentFares
  <2> QED
    BY <1>6, <1>7, <2>1, <2>5, FaresStep
<1>10. CASE pk.msg.src # n /\ RequestAtDestination(n, pk)
  BY <1>1, <1>10, RequestAtDestinationStep
<1>11. CASE pk.msg.src # n /\ RequestAnswered(n, pk)
  BY <1>1, <1>11, RequestAnsweredStep
<1>12. CASE pk.msg.src # n /\ ~RequestUseless(n, pk, node[n].rt[pk.msg.src])
            /\ RequestRelayed(n, pk, trusted)
  BY <1>1, <1>4, <1>5, <1>12, RequestRelayedStep
<1> QED
  BY <1>2, <1>8, <1>9, <1>10, <1>11, <1>12

-----------------------------------------------------------------------------
(* Replies. *)

\* The agent once recvReply has learned the path to the destination.
LEMMA ForwardPathAgent ==
  ASSUME Inv, NEW n \in Node, NEW pk \in net, Receives(n, pk, "RREP"), pk.msg.dst # n,
         Offered(node[n].rt[pk.msg.dst], ForwardPath(node[n], pk), pk.msg.seqno)
  PROVE  LET w == WithForwardPath(n, pk) IN
         /\ Good(n, w) /\ Whole(w) /\ w.distrusted = node[n].distrusted
         /\ Conserves(node[n], w)
         /\ NoAlarm => w.rt[pk.msg.dst].seqno = pk.msg.seqno
<1> DEFINE d  == pk.msg.dst
           s  == pk.msg.seqno
           w0 == node[n]
           p  == ForwardPath(w0, pk)
           e  == w0.rt[d]
           r  == LearnReply(w0, e, p, s)
           w1 == [w0 EXCEPT !.rt[d] = r]
           w  == WithForwardPath(n, pk)
<1>1. /\ pk \in PacketType /\ pk.from \in Node /\ d \in Node /\ s \in Nat
      /\ pk.msg.hops \in Nat /\ pk.msg.first \in Node /\ pk.msg.trusted \in BOOLEAN
      /\ pk.msg.type = "RREP"
  BY PacketFields, MessageFields DEF Receives, Inv, Typed
<1>2. p \in PathType /\ p.trusted = ReplyTrust(w0, pk) /\ p.nexthop = pk.from
      /\ p.hopcount = pk.msg.hops + 1
  <2>1. ReplyTrust(w0, pk) \in BOOLEAN
    BY <1>1 DEF ReplyTrust
  <2> QED
    BY <1>1, <2>1 DEF ForwardPath, PathType
<1>3. w0 \in AgentType /\ Proper(e) /\ w0.out = {}
  BY <1>1, NodeFacts DEF Inv
<1>4. w = Flush(n, w1, d)
  <2>1. w = Flush(n, [w0 EXCEPT !.rt[d] = LearnReply(w0, w0.rt[d], p, s)], d)
    BY Zenon DEF WithForwardPath
  <2> QED
    BY <2>1, Zenon
<1>5. /\ Proper(r)
      /\ Fresher(e, s) \/ Candidate(e, p, s) => r.seqno = s
      /\ Clear(e) /\ Lent(s) /\ p.trusted /\ w0.distrusted = {} =>
           Clear(r) /\ Follows(e, r, {<<p, s>>})
  BY <1>1, <1>2, <1>3, LearnReplyEntry
<1>6. Offered(e, p, s)
  BY Zenon
<1> HIDE DEF r, p
<1>7. /\ w1 \in AgentType /\ w1.rt = [node[n].rt EXCEPT ![d] = r]
      /\ w1.seqno = node[n].seqno /\ w1.distrusted = node[n].distrusted
      /\ w1.out = {} /\ w1.tries = node[n].tries /\ w1.bid = node[n].bid
      /\ w1.rqueue = node[n].rqueue
  BY <1>1, <1>3, <1>5 DEF AgentType, Proper
<1> HIDE DEF w1, w
<1>8. NoAlarm => Clear(r) /\ AsGood(e, r) /\ Ordered(d, r) /\ Ranked(n, d, r)
  <2> SUFFICES ASSUME NoAlarm
               PROVE  Clear(r) /\ AsGood(e, r) /\ Ordered(d, r) /\ Ranked(n, d, r)
    OBVIOUS
  <2>1. Offer(pk, d, s, pk.msg.hops) /\ Clear(e) /\ pk.msg.trusted /\ w0.distrusted = {}
    BY <1>1 DEF Inv, ClearNetwork, ClearPacket
  <2>2. Clear(r) /\ Follows(e, r, {<<p, s>>})
    BY <1>2, <1>5, <2>1 DEF Offer, ReplyTrust
  <2> DEFINE offers == {<<p, s>>}
  <2>3. \A o \in offers :
          /\ o[2] <= node[d].seqno /\ n # d
          /\ \/ o[1].nexthop = d
             \/ Ahead(node[o[1].nexthop].rt[d], o[2], o[1].hopcount)
          /\ Cardinality(Closer(node, d, o[2], o[1].hopcount)) >= o[1].hopcount
    BY <1>2, <2>1 DEF Offer
  <2>4. Follows(e, r, offers)
    BY <2>2
  <2> HIDE DEF d, s, offers
  <2> QED
    BY <1>1, <1>5, <2>2, <2>3, <2>4, OrderedEntry
<1>9. Good(n, w1)
  BY <1>1, <1>5, <1>7, <1>8, GoodEntry
<1>10. Fares(n, w1, w)
  BY <1>1, <1>4, <1>9, FlushFares DEF Good
<1>11. Good(n, w)
  BY <1>7, <1>9, <1>10, GoodFares
<1>12. w.distrusted = node[n].distrusted
  BY <1>7, <1>10 DEF Fares, Mindful
<1>13. ASSUME NoAlarm PROVE w.rt[d].seqno = s
  <2>1. Fresher(e, s) \/ Candidate(e, p, s)
    BY <1>6 DEF Offered
  <2>2. Alike(w1.rt[d], w.rt[d])
    BY <1>1, <1>9, <1>10, <1>13 DEF Fares, Good, Quietly
  <2>3. w1.rt[d] = r
    BY <1>1, <1>3, <1>7 DEF AgentType
  <2> QED
    BY <1>5, <2>1, <2>2, <2>3 DEF Alike
<1>14. Conserves(node[n], w)
  <2>1. Conserves(node[n], w1)
    BY <1>3, <1>7, SilentConserves
  <2>2. Conserves(w1, w)
    BY <1>1, <1>4, <1>9, FlushConserves DEF Good
  <2> QED
    BY <2>1, <2>2, ConservesOn
<1> QED
  <2>1. Whole(w)
    BY <1>11 DEF Good
  <2> QED
    BY <1>11, <1>12, <1>13, <1>14, <2>1, Zenon DEF w

\* Agent w relays a reply: the entry for d becomes r, node from is a precursor of the
\* route to the requester x, and hop is heard of.
Relayed(w, id, hop, d, r, x, from, packets) ==
  LET v == [w EXCEPT !.answered = @ \cup {id}, !.nb = @ \cup {hop}, !.rt[d] = r]
  IN  Send([v EXCEPT !.rt[x].pcs = @ \cup {from}], packets)

\* What relaying a reply changes.
LEMMA RelayedAgent ==
  ASSUME NEW w, Whole(w), NEW id \in Node \X (1 .. MaxBid), NEW hop \in Node,
         NEW d \in Node, NEW r \in EntryType, Alike(w.rt[d], r), NEW x \in Node,
         NEW from \in Node, NEW packets \in SUBSET PacketType,
         NEW v, v = Relayed(w, id, hop, d, r, x, from, packets)
  PROVE  /\ v \in AgentType /\ v.seqno = w.seqno /\ v.distrusted = w.distrusted
         /\ v.out = w.out \cup packets
         /\ \A y \in Node : Alike(w.rt[y], v.rt[y]) /\ v.tries[y] < v.bid
         /\ v.rt[d].up = r.up /\ v.rt[d].seqno = r.seqno /\ v.rt[d].adv = r.adv
         /\ v.rt[d].paths = r.paths
<1> DEFINE u == [w EXCEPT !.answered = @ \cup {id}, !.nb = @ \cup {hop}, !.rt[d] = r]
           a == [w.rt EXCEPT ![d] = r]
           q == [a[x] EXCEPT !.pcs = @ \cup {from}]
           b == [a EXCEPT ![x] = q]
<1>1. w \in AgentType /\ w.rt \in [Node -> EntryType]
  BY DEF Whole, AgentType
<1>2. a \in [Node -> EntryType]
  BY <1>1
<1>3. \A y \in Node : a[y] = IF y = d THEN r ELSE w.rt[y]
  BY <1>1
<1>4. v = [[u EXCEPT !.rt[x].pcs = @ \cup {from}] EXCEPT !.out = @ \cup packets]
  BY DEF Relayed, Send
<1>5. u \in AgentType /\ u.rt = a /\ u.nb = w.nb \cup {hop}
      /\ u.seqno = w.seqno /\ u.distrusted = w.distrusted /\ u.out = w.out
      /\ u.tries = w.tries /\ u.bid = w.bid
  BY <1>1, <1>2 DEF AgentType
<1> HIDE DEF a, u
<1>6. /\ q \in EntryType /\ q.seqno = a[x].seqno /\ q.adv = a[x].adv /\ q.paths = a[x].paths
      /\ q.up = a[x].up /\ q.highest = a[x].highest
  BY <1>2 DEF EntryType
<1>7. v = [[u EXCEPT !.rt = b] EXCEPT !.out = @ \cup packets]
  BY <1>4, <1>5 DEF AgentType
<1> HIDE DEF q
<1>8. b \in [Node -> EntryType] /\ \A y \in Node : b[y] = IF y = x THEN q ELSE a[y]
  BY <1>2, <1>6
<1> HIDE DEF b
<1>9. /\ v \in AgentType /\ v.rt = b /\ v.seqno = w.seqno /\ v.distrusted = w.distrusted
      /\ v.out = w.out \cup packets /\ v.tries = w.tries /\ v.bid = w.bid
  <2> DEFINE z == [u EXCEPT !.rt = b]
  <2>1. /\ z \in AgentType /\ z.rt = b /\ z.seqno = w.seqno /\ z.distrusted = w.distrusted
        /\ z.out = w.out /\ z.tries = w.tries /\ z.bid = w.bid
    BY <1>5, <1>8 DEF AgentType
  <2>2. v = [z EXCEPT !.out = @ \cup packets]
    BY <1>7
  <2> HIDE DEF z
  <2> QED
    BY <2>1, <2>2 DEF AgentType
<1>10. \A y \in Node : /\ b[y].seqno = a[y].seqno /\ b[y].adv = a[y].adv
                       /\ b[y].paths = a[y].paths /\ b[y].up = a[y].up
                       /\ b[y].highest = a[y].highest
  BY <1>6, <1>8
<1>11. \A y \in Node : Alike(w.rt[y], a[y])
  BY <1>3 DEF Alike
<1>12. \A y \in Node : Alike(w.rt[y], b[y])
  BY <1>10, <1>11 DEF Alike, Settled
<1>13. \A y \in Node : v.tries[y] < v.bid
  BY <1>9 DEF Whole
<1>14. /\ v.rt[d].up = r.up /\ v.rt[d].seqno = r.seqno /\ v.rt[d].adv = r.adv
       /\ v.rt[d].paths = r.paths
  BY <1>3, <1>9, <1>10
<1> QED
  BY <1>9, <1>12, <1>13, <1>14

\* recvReply passing the RREP on.
LEMMA ReplyRelayedStep ==
  ASSUME Inv, NEW n \in Node, NEW pk \in net, Receives(n, pk, "RREP"), pk.msg.dst # n,
         Offered(node[n].rt[pk.msg.dst], ForwardPath(node[n], pk), pk.msg.seqno),
         ReplyRelayed(n, pk)
  PROVE  Inv' /\ DataAvoids
<1> DEFINE w   == WithForwardPath(n, pk)
           d   == pk.msg.dst
           x   == pk.msg.ipdst
           id  == <<x, pk.msg.id>>
           e   == Advertise(w.rt[d])
           r   == [e EXCEPT !.error = TRUE]
           hop == path_find(w.rt[x]).nexthop
           msg == [pk.msg EXCEPT !.hops = e.adv, !.first = path_find(e).lasthop,
                                 !.trusted = ReplyTrust(node[n], pk)]
           packets == Unicast(n, hop, msg)
           v == Relayed(w, id, hop, d, r, x, pk.from, packets)
<1>1. /\ pk \in PacketType /\ pk.msg \in RrepType /\ pk.from \in Node /\ d \in Node
      /\ x \in Node /\ pk.msg.id \in 1 .. MaxBid /\ pk.msg.trusted \in BOOLEAN
      /\ pk.msg.type = "RREP"
  BY PacketFields, MessageFields DEF Receives, Inv, Typed
<1>2. events' = events /\ sent' \in 0 .. MaxData /\ delivered' \subseteq 0 .. MaxData - 1
  BY DEF Receives, Inv, Typed
<1>3. /\ w.rt[x].up
      /\ \/ Step(n, [w EXCEPT !.crashed = TRUE], {pk})
         \/ e.paths # << >> /\ Step(n, v, {pk})
  <2>1. /\ Relays(n, w, pk)
        /\ Step(n, IF path_empty(e) THEN [w EXCEPT !.crashed = TRUE] ELSE v, {pk})
    BY Zenon DEF ReplyRelayed, Relayed
  <2> HIDE DEF w, v, e
  <2> QED
    BY <2>1 DEF path_empty, Relays
<1>4. /\ Good(n, w) /\ Whole(w) /\ w.distrusted = node[n].distrusted
      /\ NoAlarm => w.rt[d].seqno = pk.msg.seqno
  BY ForwardPathAgent
<1>5. w \in AgentType /\ Proper(w.rt[d]) /\ Proper(w.rt[x])
  BY <1>1, <1>4 DEF Whole
<1> HIDE DEF w
<1>6. CASE Step(n, [w EXCEPT !.crashed = TRUE], {pk})
  BY <1>2, <1>4, <1>6, CrashStep
<1>7. CASE e.paths # << >> /\ Step(n, v, {pk})
  <2>1. e \in EntryType /\ Alike(w.rt[d], e) /\ w.rt[d] \in EntryType
    BY <1>5, AdvertiseEntry DEF Proper
  <2>2. /\ r \in EntryType /\ r.seqno = e.seqno /\ r.adv = e.adv /\ r.paths = e.paths
        /\ r.up = e.up /\ r.highest = e.highest
    BY <2>1 DEF EntryType
  <2>3. Alike(w.rt[d], r) /\ (Clear(w.rt[d]) => Settled(r)) /\ (r.up => Stated(r, r.adv))
    BY <1>5, <2>2, AdvertisedEntry
  <2> HIDE DEF r
  <2>4. e.paths = w.rt[d].paths /\ e.up = w.rt[d].up /\ e.seqno = w.rt[d].seqno
    BY <2>1 DEF Alike
  <2>5. e.adv \in Nat /\ e.seqno \in Nat /\ e.paths \in Seq(PathType)
    BY <2>1, EntryFields
  <2> HIDE DEF e
  <2>6. path_find(e) \in PathType
    BY <1>7, <2>5 DEF path_find
  <2>7. hop \in Node
    <3>1. w.rt[x].paths # << >> /\ w.rt[x].paths \in Seq(PathType)
      BY <1>3, <1>5, EntryFields DEF Proper
    <3>2. path_find(w.rt[x]) \in PathType
      BY <3>1 DEF path_find
    <3> QED
      BY <3>2 DEF PathType
  <2> HIDE DEF hop
  <2>8. /\ msg \in RrepType /\ msg.type = "RREP" /\ msg.dst = d
        /\ msg.seqno = pk.msg.seqno /\ msg.hops = e.adv
        /\ msg.trusted = ReplyTrust(node[n], pk)
    <3>1. ReplyTrust(node[n], pk) \in BOOLEAN
      BY <1>1 DEF ReplyTrust
    <3>2. path_find(e).lasthop \in Node
      BY <2>6 DEF PathType
    <3> QED
      BY <1>1, <2>5, <3>1, <3>2 DEF RrepType
  <2>9. msg \in MessageType
    BY <2>8 DEF MessageType
  <2> HIDE DEF msg
  <2>10. packets \in SUBSET PacketType /\ \A k \in packets : k.from = n /\ k.msg = msg
    BY <2>9, UnicastPackets
  <2> HIDE DEF packets
  <2>11. id \in Node \X (1 .. MaxBid)
    BY <1>1
  <2> HIDE DEF id
  <2>12. /\ v \in AgentType /\ v.seqno = w.seqno /\ v.distrusted = w.distrusted
         /\ v.out = w.out \cup packets
         /\ \A y \in Node : Alike(w.rt[y], v.rt[y]) /\ v.tries[y] < v.bid
         /\ v.rt[d].up = r.up /\ v.rt[d].seqno = r.seqno /\ v.rt[d].adv = r.adv
         /\ v.rt[d].paths = r.paths
    <3> HIDE DEF d, x
    <3>1. v = Relayed(w, id, hop, d, r, x, pk.from, packets)
      OBVIOUS
    <3>2. Alike(w.rt[d], r)
      BY <2>3
    <3> HIDE DEF v
    <3> QED
      BY <1>1, <1>4, <2>2, <2>7, <2>10, <2>11, <3>1, <3>2, RelayedAgent
  <2>13. Step(n, v, {pk})
    BY <1>7
  <2> HIDE DEF v
  <2>14. ASSUME NoAlarm, NEW k \in packets PROVE Truthful(n, v, k)
    <3>1. Clear(w.rt[d])
      BY <1>1, <1>4, <2>14 DEF Good, Honest
    <3>2. e.up /\ Lent(e.seqno) /\ e.seqno = pk.msg.seqno
      BY <1>4, <1>7, <2>4, <2>14, <3>1 DEF Clear
    <3>3. pk.msg.trusted /\ node[n].distrusted = {}
      BY <1>1, <2>14 DEF Inv, ClearNetwork, ClearPacket
    <3>4. ReplyTrust(node[n], pk)
      BY <3>3 DEF ReplyTrust
    <3>5. /\ v.rt[d].up /\ v.rt[d].seqno = pk.msg.seqno /\ v.rt[d].adv <= e.adv
          /\ Settled(v.rt[d]) /\ Stated(v.rt[d], e.adv) /\ d # n
      <4>1. /\ r.up /\ r.seqno = pk.msg.seqno /\ r.adv <= e.adv /\ Settled(r)
            /\ Stated(r, e.adv)
        BY <2>2, <2>3, <2>5, <3>1, <3>2
      <4> QED
        BY <2>12, <4>1 DEF Settled, Stated
    <3> HIDE DEF d
    <3>6. Vouched(n, v, d, pk.msg.seqno, e.adv)
      BY <3>2, <3>5 DEF Vouched
    <3> QED
      BY <2>8, <2>10, <2>14, <3>4, <3>6 DEF Truthful
  <2>15. \A k \in packets : k.from = n /\ k.msg.type # "DATA"
    BY <2>8, <2>10
  <2>16. Good(n, v)
    BY <1>4, <2>12, <2>14, <2>15, GoodRest
  <2> QED
    BY <1>2, <2>13, <2>16, QuietStep
<1> QED
  BY <1>3, <1>6, <1>7

\* recvReply as a whole.
LEMMA RecvReplyStep ==
  ASSUME Inv, NEW n \in Node, RecvReply(n)
  PROVE  Inv' /\ DataAvoids
<1>1. PICK pk \in net :
        /\ Receives(n, pk, "RREP")
        /\ \/ ReplyDropped(n, pk)
           \/ /\ pk.msg.dst # n
              /\ Offered(node[n].rt[pk.msg.dst], ForwardPath(node[n], pk), pk.msg.seqno)
              /\ ReplyKept(n, pk) \/ ReplyRelayed(n, pk)
  BY DEF RecvReply
<1>2. events' = events /\ sent' \in 0 .. MaxData /\ delivered' \subseteq 0 .. MaxData - 1
  BY <1>1 DEF Receives, Inv, Typed
<1>3. CASE ReplyDropped(n, pk)
  BY <1>2, <1>3, GoodNode, QuietStep DEF ReplyDropped
<1>4. CASE /\ pk.msg.dst # n
           /\ Offered(node[n].rt[pk.msg.dst], ForwardPath(node[n], pk), pk.msg.seqno)
           /\ ReplyKept(n, pk)
  <2>1. Good(n, WithForwardPath(n, pk))
    BY <1>1, <1>4, ForwardPathAgent
  <2>2. Step(n, WithForwardPath(n, pk), {pk})
    BY <1>4 DEF ReplyKept
  <2> QED
    BY <1>2, <2>1, <2>2, QuietStep
<1>5. CASE /\ pk.msg.dst # n
           /\ Offered(node[n].rt[pk.msg.dst], ForwardPath(node[n], pk), pk.msg.seqno)
           /\ ReplyRelayed(n, pk)
  BY <1>1, <1>5, ReplyRelayedStep
<1> QED
  BY <1>1, <1>3, <1>4, <1>5

-----------------------------------------------------------------------------
(* Errors and alarms. *)

\* recvError.
LEMMA RecvErrorStep ==
  ASSUME Inv, NEW n \in Node, RecvError(n)
  PROVE  Inv' /\ DataAvoids
<1> DEFINE w == node[n]
<1>1. PICK pk \in net :
        /\ Receives(n, pk, "RERR")
        /\ LET after == [d \in Node |-> IF d \in pk.msg.dests
                                        THEN ErrorReceived(w.rt[d], pk.from, pk.msg.seqno[d])
                                        ELSE w.rt[d]]
           IN  Step(n, ReportErrors(n, w, after), {pk})
  BY DEF RecvError
<1> DEFINE after == [d \in Node |-> IF d \in pk.msg.dests
                                    THEN ErrorReceived(w.rt[d], pk.from, pk.msg.seqno[d])
                                    ELSE w.rt[d]]
           v == ReportErrors(n, w, after)
<1>2. Step(n, v, {pk})
  BY <1>1
<1>3. /\ pk.msg.dests \subseteq Node /\ pk.msg.seqno \in [Node -> Nat]
      /\ pk.msg.type = "RERR"
  BY <1>1, PacketFields, MessageFields DEF Receives, Inv, Typed
<1>4. events' = events /\ sent' \in 0 .. MaxData /\ delivered' \subseteq 0 .. MaxData - 1
  BY <1>1 DEF Receives, Inv, Typed
<1>5. /\ Whole(w) /\ w.out = {} /\ w.seqno \in Nat
      /\ \A d \in Node : Proper(w.rt[d]) /\ w.rt[d] \in EntryType
  BY NodeFacts DEF Inv
<1>6. NoAlarm => /\ w.distrusted = {} /\ Lent(w.seqno)
                 /\ \A d \in Node : Clear(w.rt[d])
                 /\ \A d \in pk.msg.dests : Lost(pk.msg.seqno[d])
  BY <1>3 DEF Inv, ClearNetwork, ClearPacket
<1> HIDE DEF w
<1>7. ASSUME NEW d \in Node
      PROVE  /\ Proper(after[d])
             /\ NoAlarm => Clear(after[d]) /\ Follows(w.rt[d], after[d], {})
  <2>1. CASE d \in pk.msg.dests
    <3>1. after[d] = ErrorReceived(w.rt[d], pk.from, pk.msg.seqno[d])
      BY <2>1
    <3>2. pk.msg.seqno[d] \in Nat
      BY <1>3
    <3> HIDE DEF after
    <3> QED
      BY <1>5, <1>6, <2>1, <3>1, <3>2, ErrorEntry
  <2>2. CASE d \notin pk.msg.dests
    <3>1. after[d] = w.rt[d]
      BY <2>2
    <3> HIDE DEF after
    <3> QED
      BY <1>5, <1>6, <3>1, SameEntry
  <2> QED
    BY <2>1, <2>2
<1> HIDE DEF after
<1>8. /\ Whole(v)
      /\ v.seqno = w.seqno /\ v.distrusted = w.distrusted
      /\ \A d \in Node : Alike(after[d], v.rt[d])
      /\ \A k \in v.out : k.from = n /\ k.msg.type = "RERR"
      /\ (\A d \in Node : Clear(after[d])) => \A k \in v.out : Truthful(n, v, k)
  BY <1>5, <1>7, ReportErrorsAgent
<1> HIDE DEF v
<1>9. ASSUME NoAlarm, NEW d \in Node
      PROVE  Clear(v.rt[d]) /\ Follows(w.rt[d], v.rt[d], {})
  <2>1. /\ w.rt[d] \in EntryType /\ after[d] \in EntryType /\ v.rt[d] \in EntryType
        /\ Proper(after[d]) /\ Alike(after[d], v.rt[d]) /\ Clear(after[d])
        /\ Follows(w.rt[d], after[d], {})
    BY <1>5, <1>7, <1>8, <1>9 DEF Proper, Whole
  <2>2. Clear(v.rt[d])
    BY <2>1, AlikeEntry
  <2> QED
    BY <2>1, <2>2, FollowsOn
<1>10. NoAlarm => /\ Honest(n, v) /\ v.seqno >= w.seqno
                  /\ \A d \in Node : Follows(w.rt[d], v.rt[d], {})
  BY <1>5, <1>6, <1>7, <1>8, <1>9 DEF Honest
<1>11. Good(n, v)
  BY <1>8, <1>10, GoodRoutes DEF w
<1> QED
  BY <1>2, <1>4, <1>11, QuietStep

\* recvPta, which an alarm precedes.
LEMMA RecvPtaStep ==
  ASSUME Inv, NEW n \in Node, RecvPta(n)
  PROVE  Inv' /\ DataAvoids
<1> DEFINE w == node[n]
<1>1. PICK pk \in net, last \in Node \cup {Junk} :
        /\ Receives(n, pk, "PTA")
        /\ LET e == w.rt[pk.msg.dst]
               a == PtaReceived(e, pk.from, pk.msg.seqno, pk.msg.last)
               u == [w EXCEPT !.rt[pk.msg.dst] = a]
           IN  IF PtaApplies(e, pk.from, pk.msg.seqno, pk.msg.last)
               THEN /\ last \in {pk.msg.last, Junk}
                    /\ Step(n, Send(u, UNION {Unicast(n, pc, Pta(pk.msg.dst, a.seqno, last)) :
                                                pc \in e.pcs \ {n}}), {pk})
               ELSE last = Junk /\ Step(n, w, {pk})
  BY DEF RecvPta
<1> DEFINE d == pk.msg.dst
           e == w.rt[d]
           a == PtaReceived(e, pk.from, pk.msg.seqno, pk.msg.last)
           u == [w EXCEPT !.rt[d] = a]
           msg == Pta(d, a.seqno, last)
           packets == UNION {Unicast(n, pc, msg) : pc \in e.pcs \ {n}}
           v == Send(u, packets)
<1>2. Step(n, w, {pk}) \/ Step(n, v, {pk})
  BY <1>1
<1>3. pk \in PacketType /\ d \in Node /\ pk.msg.seqno \in Nat /\ pk.msg.type = "PTA"
  BY <1>1, PacketFields, MessageFields DEF Receives, Inv, Typed
<1>4. events' = events /\ sent' \in 0 .. MaxData /\ delivered' \subseteq 0 .. MaxData - 1
  BY <1>1 DEF Receives, Inv, Typed
<1>5. ~NoAlarm
  BY <1>3 DEF Inv, ClearNetwork, ClearPacket
<1>6. CASE Step(n, w, {pk})
  BY <1>4, <1>6, GoodNode, QuietStep
<1>7. CASE Step(n, v, {pk})
  <2>1. w \in AgentType /\ Whole(w) /\ w.out = {} /\ Proper(e)
    BY <1>3, NodeFacts DEF Inv
  <2>2. Proper(a)
    BY <1>3, <2>1, PtaEntry
  <2>3. a \in EntryType /\ a.seqno \in Nat
    BY <2>2, EntryFields DEF Proper
  <2> HIDE DEF a
  <2>4. msg \in MessageType /\ msg.type = "PTA"
    BY <1>3, <2>3 DEF Pta, PtaType, MessageType
  <2> HIDE DEF msg
  <2>5. packets \subseteq PacketType /\ \A k \in packets : k.from = n /\ k.msg = msg
    BY <2>4, UnicastPackets
  <2> HIDE DEF packets, e
  <2>6. /\ u \in AgentType /\ u.rt = [w.rt EXCEPT ![d] = a] /\ u.out = {}
        /\ u.tries = w.tries /\ u.bid = w.bid
    BY <1>3, <2>1, <2>3 DEF AgentType
  <2> HIDE DEF u
  <2>7. v \in AgentType /\ v.rt = u.rt /\ v.out = packets /\ v.tries = u.tries /\ v.bid = u.bid
    BY <2>5, <2>6 DEF Send, AgentType
  <2> HIDE DEF v
  <2>8. \A x \in Node : v.rt[x] = IF x = d THEN a ELSE w.rt[x]
    BY <2>1, <2>6, <2>7 DEF AgentType
  <2>9. Whole(v)
    BY <2>1, <2>2, <2>6, <2>7, <2>8 DEF Whole
  <2>10. Good(n, v)
    BY <1>5, <2>4, <2>5, <2>7, <2>9 DEF Good
  <2>11. Step(n, v, {pk})
    BY <1>7
  <2> QED
    BY <1>4, <2>10, <2>11, QuietStep
<1> QED
  BY <1>2, <1>6, <1>7

-----------------------------------------------------------------------------
(* Timers. *)

\* What the environment does counts, and only a revision of trust ends NoAlarm.
LEMMA EventFacts ==
  ASSUME Inv, NEW what, Event(what)
  PROVE  /\ events' \in [Events -> Nat] /\ sent' \in 0 .. MaxData
         /\ delivered' \subseteq 0 .. MaxData - 1
         /\ NoAlarm' => NoAlarm
         /\ what = "trust" => ~NoAlarm'
<1>1. /\ what \in Events /\ events' = [events EXCEPT ![what] = @ + 1]
      /\ sent' = sent /\ delivered' = delivered
  BY DEF Event
<1>2. events \in [Events -> Nat] /\ sent \in 0 .. MaxData /\ delivered \subseteq 0 .. MaxData - 1
  BY DEF Inv, Typed
<1>3. events' \in [Events -> Nat]
      /\ \A e \in Events : events'[e] = IF e = what THEN events[e] + 1 ELSE events[e]
  BY <1>1, <1>2
<1>4. \A e \in Events : events[e] > 0 => events'[e] > 0
  BY <1>2, <1>3
<1>5. events'[what] > 0
  BY <1>1, <1>2, <1>3
<1> QED
  BY <1>1, <1>2, <1>3, <1>4, <1>5 DEF NoAlarm, Happened

\* A list of all of a finite set.
LEMMA ListedSet ==
  ASSUME NEW S, IsFiniteSet(S), NEW order \in SetToSeqs(S)
  PROVE  Cardinality(S) \in Nat /\ order \in [1 .. Cardinality(S) -> S]
BY FS_CardinalityType DEF SetToSeqs

\* rt_purge: routes expire, and packets that wait ask again.
LEMMA RtPurgeStep ==
  ASSUME Inv, NEW n \in Node, RtPurge(n)
  PROVE  Inv' /\ DataAvoids
<1> DEFINE w == node[n]
           waiting == {d \in Node : ~w.rt[d].up /\ ~NoPacketFor(w, d)}
<1>1. PICK expired \in SUBSET {x \in Node \X Node :
                                 w.rt[x[1]].up /\ path_lookup(w.rt[x[1]], x[2])} :
        LET gone(d) == {m \in Node : <<d, m>> \in expired}
            after   == [d \in Node |-> IF w.rt[d].up
                                       THEN Purged(w.rt[d], Unexpired(w.rt[d], gone(d)))
                                       ELSE w.rt[d]]
            v       == [w EXCEPT !.rt = after,
                                 !.rqueue = [d \in Node |-> IF w.rt[d].up /\ ~after[d].up
                                                            THEN << >> ELSE @[d]]]
        IN  /\ Quiet
            /\ expired # {} \/ waiting # {}
            /\ IF expired = {} THEN UNCHANGED <<sent, delivered, events>> ELSE Event("expire")
            /\ \E order \in SetToSeqs(waiting) :
                 \E u \in SendRequests(n, v, order) : Step(n, u, {})
  BY Zenon DEF RtPurge
<1> DEFINE gone(d) == {m \in Node : <<d, m>> \in expired}
           after   == [d \in Node |-> IF w.rt[d].up
                                      THEN Purged(w.rt[d], Unexpired(w.rt[d], gone(d)))
                                      ELSE w.rt[d]]
           left    == [d \in Node |-> IF w.rt[d].up /\ ~after[d].up
                                      THEN << >> ELSE w.rqueue[d]]
           v       == [w EXCEPT !.rt = after, !.rqueue = left]
<1>2. PICK order \in SetToSeqs(waiting) : \E u \in SendRequests(n, v, order) : Step(n, u, {})
  BY <1>1, Zenon
<1>3. PICK u \in SendRequests(n, v, order) : Step(n, u, {})
  BY <1>2
<1>4. /\ events' \in [Events -> Nat] /\ sent' \in 0 .. MaxData
      /\ delivered' \subseteq 0 .. MaxData - 1 /\ (NoAlarm' => NoAlarm)
  <2>1. UNCHANGED <<sent, delivered, events>> \/ Event("expire")
    BY <1>1
  <2>2. CASE UNCHANGED <<sent, delivered, events>>
    BY <2>2 DEF Inv, Typed, NoAlarm, Happened
  <2>3. CASE Event("expire")
    BY <2>3, EventFacts
  <2> QED
    BY <2>1, <2>2, <2>3
<1>5. /\ Whole(w) /\ w \in AgentType /\ w.out = {} /\ w.seqno \in Nat
      /\ \A d \in Node : Proper(w.rt[d]) /\ w.rt[d] \in EntryType
  BY NodeFacts DEF Inv
<1>6. NoAlarm => /\ w.distrusted = {} /\ Lent(w.seqno)
                 /\ \A d \in Node : Clear(w.rt[d])
  BY DEF Inv, ClearNetwork
<1>7. IsFiniteSet(waiting) /\ waiting \subseteq Node
  BY FS_Subset, AgentAssumption
<1> HIDE DEF w, waiting
<1>8. Cardinality(waiting) \in Nat /\ order \in [1 .. Cardinality(waiting) -> Node]
  BY <1>7, ListedSet
<1>9. ASSUME NEW d \in Node
      PROVE  /\ Proper(after[d])
             /\ NoAlarm => Clear(after[d]) /\ Follows(w.rt[d], after[d], {})
  <2>1. CASE w.rt[d].up
    <3>1. after[d] = Purged(w.rt[d], Unexpired(w.rt[d], gone(d)))
      BY <2>1
    <3> HIDE DEF after, gone
    <3> QED
      BY <1>5, <1>6, <2>1, <3>1, PurgedEntry
  <2>2. CASE ~w.rt[d].up
    <3>1. after[d] = w.rt[d]
      BY <2>2
    <3> HIDE DEF after, gone
    <3> QED
      BY <1>5, <1>6, <3>1, SameEntry
  <2> QED
    BY <2>1, <2>2
<1>10. after \in [Node -> EntryType]
  <2>1. \A d \in Node : after[d] \in EntryType
    BY <1>9 DEF Proper
  <2>2. after = [d \in Node |-> after[d]]
    OBVIOUS
  <2> HIDE DEF after, gone
  <2> QED
    BY <2>1, <2>2
<1> HIDE DEF after, gone
<1>11. left \in [Node -> Seq(DataType)]
  <2>1. w.rqueue \in [Node -> Seq(DataType)] /\ << >> \in Seq(DataType)
    BY <1>5 DEF AgentType
  <2> QED
    BY <2>1
<1> HIDE DEF left
<1>12. /\ v \in AgentType /\ v.rt = after /\ v.distrusted = w.distrusted /\ v.out = {}
       /\ v.seqno = w.seqno /\ v.tries = w.tries /\ v.bid = w.bid
  BY <1>5, <1>10, <1>11 DEF AgentType
<1> HIDE DEF v
<1>13. Whole(v)
  BY <1>5, <1>9, <1>12 DEF Whole
<1>14. NoAlarm => /\ Honest(n, v) /\ v.seqno >= w.seqno
                  /\ \A d \in Node : Follows(w.rt[d], v.rt[d], {})
  BY <1>5, <1>6, <1>9, <1>12 DEF Honest
<1>15. Good(n, v)
  BY <1>12, <1>13, <1>14, GoodRoutes DEF w
<1>16. Fares(n, v, u)
  BY <1>3, <1>8, <1>13, SendRequestsFares
<1>17. Good(n, u)
  BY <1>12, <1>15, <1>16, GoodFares DEF w
<1> QED
  BY <1>3, <1>4, <1>17, GoodStep

\* id_purge.
LEMMA IdPurgeStep ==
  ASSUME Inv, NEW n \in Node, IdPurge(n)
  PROVE  Inv' /\ DataAvoids
<1> DEFINE w == node[n]
<1>1. PICK old \in SUBSET w.heard :
        /\ Step(n, [w EXCEPT !.heard = @ \ old, !.answered = @ \ old], {})
        /\ Event("forget")
  BY DEF IdPurge
<1> DEFINE v == [w EXCEPT !.heard = @ \ old, !.answered = @ \ old]
<1>2. Good(n, w) /\ Whole(w) /\ w \in AgentType
  BY GoodNode DEF Whole
<1>3. /\ v \in AgentType /\ v.rt = w.rt /\ v.distrusted = w.distrusted
      /\ v.out = w.out /\ v.seqno = w.seqno /\ v.tries = w.tries /\ v.bid = w.bid
  BY <1>2 DEF AgentType
<1>4. Step(n, v, {})
  BY <1>1
<1> HIDE DEF v
<1>5. \A d \in Node : v.tries[d] < v.bid
  BY <1>2, <1>3 DEF Whole
<1>6. Good(n, v)
  BY <1>2, <1>3, <1>5, SilentFares, GoodFares
<1>7. /\ events' \in [Events -> Nat] /\ sent' \in 0 .. MaxData
      /\ delivered' \subseteq 0 .. MaxData - 1 /\ (NoAlarm' => NoAlarm)
  BY <1>1, EventFacts
<1> QED
  BY <1>4, <1>6, <1>7, GoodStep

\* recvHello.
LEMMA RecvHelloStep ==
  ASSUME Inv, NEW n \in Node, NEW m \in Node, RecvHello(n, m)
  PROVE  Inv' /\ DataAvoids
<1> DEFINE w == node[n]
           v == [w EXCEPT !.nb = @ \cup {m}]
<1>1. Step(n, v, {}) /\ events' = events /\ sent' = sent /\ delivered' = delivered
  BY DEF RecvHello
<1>2. sent' \in 0 .. MaxData /\ delivered' \subseteq 0 .. MaxData - 1
  BY <1>1 DEF Inv, Typed
<1>3. Good(n, w) /\ Whole(w) /\ w \in AgentType
  BY GoodNode DEF Whole
<1>4. /\ v \in AgentType /\ v.rt = w.rt /\ v.distrusted = w.distrusted
      /\ v.out = w.out /\ v.seqno = w.seqno /\ v.tries = w.tries /\ v.bid = w.bid
  BY <1>3 DEF AgentType
<1> HIDE DEF v
<1>5. \A d \in Node : v.tries[d] < v.bid
  BY <1>3, <1>4 DEF Whole
<1>6. Good(n, v)
  BY <1>3, <1>4, <1>5, SilentFares, GoodFares
<1> QED
  BY <1>1, <1>2, <1>6, QuietStep

\* set_trust, an alarm or the end of one.
LEMMA SetTrustStep ==
  ASSUME Inv, NEW n \in Node, SetTrust(n)
  PROVE  Inv' /\ DataAvoids
<1> DEFINE w == node[n]
<1>1. PICK low \in SUBSET (w.nb \cap Suspects) :
        Step(n, [w EXCEPT !.distrusted = low], {}) /\ Event("trust")
  BY DEF SetTrust
<1> DEFINE v == [w EXCEPT !.distrusted = low]
<1>2. w \in AgentType /\ w.out = {}
  BY NodeFacts DEF Inv
<1>3. Step(n, v, {})
  BY <1>1
<1>4. node' = [node EXCEPT ![n] = v] /\ net' = net
  <2>1. v \in AgentType /\ v.out = {}
    BY <1>2 DEF AgentType
  <2>2. [v EXCEPT !.out = {}] = v
    BY <2>1 DEF AgentType
  <2> HIDE DEF v
  <2> QED
    BY <1>3, <2>1, <2>2 DEF Step
<1>5. Whole(v) /\ v.out = {}
  <2>1. v \in AgentType /\ v.rt = w.rt /\ v.out = {} /\ v.tries = w.tries /\ v.bid = w.bid
    BY <1>2 DEF AgentType
  <2> QED
    BY <2>1, NodeFacts DEF Whole, Inv
<1> HIDE DEF v, w
<1>6. /\ events' \in [Events -> Nat] /\ sent' \in 0 .. MaxData
      /\ delivered' \subseteq 0 .. MaxData - 1 /\ ~NoAlarm'
  BY <1>1, EventFacts
<1>7. Typed'
  <2>1. node \in [Node -> AgentType] /\ \A m \in Node : Whole(node[m]) /\ node[m].out = {}
    BY DEF Inv, Typed
  <2>2. v \in AgentType
    BY <1>5 DEF Whole
  <2>3. node' \in [Node -> AgentType] /\ \A m \in Node : Whole(node'[m]) /\ node'[m].out = {}
    BY <1>4, <1>5, <2>1, <2>2
  <2> QED
    BY <1>4, <1>6, <2>3 DEF Inv, Typed
<1>8. DataAvoids
  BY <1>4 DEF DataAvoids
<1> QED
  BY <1>6, <1>7, <1>8 DEF Inv

\* The loss of a packet.
LEMMA LoseStep ==
  ASSUME Inv, Lose
  PROVE  Inv' /\ DataAvoids
<1>1. Event("lose") /\ node' = node /\ net' \subseteq net
  BY DEF Lose
<1>2. /\ events' \in [Events -> Nat] /\ sent' \in 0 .. MaxData
      /\ delivered' \subseteq 0 .. MaxData - 1 /\ (NoAlarm' => NoAlarm)
  BY <1>1, EventFacts
<1>3. Typed'
  BY <1>1, <1>2 DEF Inv, Typed
<1>4. ASSUME NoAlarm' PROVE ClearNetwork'
  <2>1. ClearNetwork
    BY <1>2, <1>4 DEF Inv
  <2>2. ASSUME NEW n \in Node, NEW d \in Node
        PROVE  Ordered(d, node[n].rt[d])' /\ Ranked(n, d, node[n].rt[d])'
    <3>1. Ordered(d, node[n].rt[d]) /\ Ranked(n, d, node[n].rt[d])
      BY <2>1 DEF ClearNetwork
    <3>2. Ordered(d, node[n].rt[d])' = Ordered(d, node[n].rt[d])
      BY <1>1 DEF Ordered
    <3>3. Ranked(n, d, node[n].rt[d])' = Ranked(n, d, node[n].rt[d])
      BY <1>1 DEF Ranked
    <3> QED
      BY <3>1, <3>2, <3>3
  <2>3. \A pk \in net : ClearPacket(pk)'
    BY <1>1, <2>1 DEF ClearNetwork, ClearPacket, Offer
  <2>4. /\ \A n \in Node : node'[n].distrusted = {} /\ Lent(node'[n].seqno)
        /\ \A n, d \in Node : Clear(node'[n].rt[d])
    BY <1>1, <2>1 DEF ClearNetwork
  <2> QED
    BY <1>1, <2>2, <2>3, <2>4 DEF ClearNetwork
<1>5. DataAvoids
  BY <1>1 DEF DataAvoids
<1> QED
  BY <1>3, <1>4, <1>5 DEF Inv

\* There are finitely many packets of data.
LEMMA DataFinite == IsFiniteSet(DataType)
<1> DEFINE S == (Node \X Node) \X (0 .. MaxData - 1)
           f == [x \in S |-> [type |-> "DATA", src |-> x[1][1], dst |-> x[1][2], no |-> x[2]]]
<1>1. IsFiniteSet(S)
  <2>1. IsFiniteSet(Node \X Node)
    BY FS_Product, AgentAssumption
  <2>2. IsFiniteSet(0 .. MaxData - 1)
    BY FS_Interval, TeaomdvAssumption
  <2> QED
    BY <2>1, <2>2, FS_Product
<1>2. f \in [S -> DataType]
  BY DEF DataType
<1>3. ASSUME NEW p \in DataType PROVE \E x \in S : f[x] = p
  <2> DEFINE x == <<<<p.src, p.dst>>, p.no>>
  <2>1. x \in S
    BY DEF DataType
  <2>2. f[x] = p
    BY <2>1 DEF DataType
  <2> HIDE DEF f, x, S
  <2> QED
    BY <2>1, <2>2
<1>4. f \in Surjection(S, DataType)
  <2> HIDE DEF f, S
  <2> QED
    BY <1>2, <1>3 DEF Surjection
<1> HIDE DEF f, S
<1> QED
  BY <1>1, <1>4, FS_Surjection

\* nb_purge: a link fails and what was on its way over it is salvaged.
LEMMA NbPurgeStep ==
  ASSUME Inv, NEW n \in Node, NEW id \in Node, NbPurge(n, id)
  PROVE  Inv' /\ DataAvoids
<1> DEFINE a == node[n]
           w == [a EXCEPT !.seqno = @ + 2, !.nb = @ \ {id}, !.distrusted = @ \ {id}]
           v == handle_link_failure(n, w, id)
<1>1. /\ Event("neighbor")
      /\ \E ifq \in SUBSET {pk \in net : /\ pk.from = n /\ pk.to = id
                                         /\ pk.msg.type \in {"DATA", "RREP"}} :
           \E order \in SetToSeqs({pk.msg : pk \in {k \in ifq : k.msg.type = "DATA"}}) :
             Step(n, ForwardAll(n, n, v, order), ifq)
  BY Zenon DEF NbPurge
<1>2. PICK ifq \in SUBSET net :
        \E order \in SetToSeqs({pk.msg : pk \in {k \in ifq : k.msg.type = "DATA"}}) :
          Step(n, ForwardAll(n, n, v, order), ifq)
  <2> HIDE DEF v
  <2> QED
    BY <1>1
<1> DEFINE S == {pk.msg : pk \in {k \in ifq : k.msg.type = "DATA"}}
<1>3. PICK order \in SetToSeqs(S) : Step(n, ForwardAll(n, n, v, order), ifq)
  BY <1>2, Zenon
<1>4. S \subseteq DataType
  BY PacketFields DEF Inv, Typed
<1>5. IsFiniteSet(S)
  BY <1>4, DataFinite, FS_Subset
<1> HIDE DEF S
<1>6. Cardinality(S) \in Nat /\ order \in [1 .. Cardinality(S) -> DataType]
  BY <1>4, <1>5, ListedSet
<1>7. /\ events' \in [Events -> Nat] /\ sent' \in 0 .. MaxData
      /\ delivered' \subseteq 0 .. MaxData - 1 /\ (NoAlarm' => NoAlarm)
  BY <1>1, EventFacts
<1>8. /\ Whole(a) /\ a \in AgentType /\ a.out = {} /\ a.seqno \in Nat
  BY NodeFacts DEF Inv
<1>9. NoAlarm => a.distrusted = {} /\ Lent(a.seqno) /\ \A d \in Node : Clear(a.rt[d])
  BY DEF Inv, ClearNetwork
<1> HIDE DEF a
<1>10. /\ w \in AgentType /\ w.rt = a.rt /\ w.seqno = a.seqno + 2 /\ w.out = {}
       /\ w.distrusted = a.distrusted \ {id} /\ w.tries = a.tries /\ w.bid = a.bid
  <2>1. a.seqno + 2 \in Nat
    BY <1>8
  <2> QED
    BY <1>8, <2>1 DEF AgentType
<1> HIDE DEF w
<1>11. Whole(w) /\ Vias(w) = Vias(a)
  BY <1>8, <1>10 DEF Whole, Vias
<1>12. NoAlarm => Honest(n, w)
  <2>1. Lent(a.seqno) => Lent(w.seqno)
    BY <1>8, <1>10 DEF Lent
  <2> QED
    BY <1>9, <1>10, <2>1 DEF Honest
<1>13. /\ Whole(v)
       /\ v.seqno = w.seqno /\ v.distrusted = w.distrusted
       /\ \A pk \in v.out : pk.from = n /\ pk.msg.type = "RERR"
       /\ Vias(v) \subseteq Vias(w) \ {id}
       /\ Honest(n, w) => /\ Honest(n, v)
                          /\ \A d \in Node : Follows(w.rt[d], v.rt[d], {})
  BY <1>10, <1>11, LinkFailureAgent
<1> HIDE DEF v
<1>14. NoAlarm => /\ Honest(n, v) /\ v.seqno >= a.seqno
                  /\ \A d \in Node : Follows(a.rt[d], v.rt[d], {})
  BY <1>8, <1>10, <1>12, <1>13
<1>15. Good(n, v)
  BY <1>13, <1>14, GoodRoutes DEF a
<1>16. Vias(v) \cap node[n].distrusted \subseteq v.distrusted
  BY <1>10, <1>13 DEF a
<1>17. Fares(n, v, ForwardAll(n, n, v, order))
  BY <1>6, <1>13, ForwardAllFares
<1>18. Good(n, ForwardAll(n, n, v, order))
  BY <1>15, <1>16, <1>17, GoodFares
<1> QED
  BY <1>3, <1>7, <1>18, GoodStep

\* Whatever step the network takes.
LEMMA NextInv ==
  ASSUME Inv, [Next]_vars
  PROVE  Inv' /\ DataAvoids
<1>1. ASSUME NEW n \in Node, Receive(n) PROVE Inv' /\ DataAvoids
  BY <1>1, RecvRequestStep, RecvReplyStep, RecvErrorStep, RecvPtaStep, RecvDataStep DEF Receive
<1>2. ASSUME UNCHANGED vars PROVE Inv' /\ DataAvoids
  <2>1. Typed'
    BY <1>2 DEF vars, Inv, Typed
  <2>2. NoAlarm' = NoAlarm
    BY <1>2 DEF vars, NoAlarm, Happened
  <2>3. ClearNetwork' = ClearNetwork
    BY <1>2 DEF vars, ClearNetwork, Ordered, Ranked, ClearPacket, Offer
  <2>4. DataAvoids
    BY <1>2 DEF vars, DataAvoids
  <2> QED
    BY <2>1, <2>2, <2>3, <2>4 DEF Inv
<1> QED
  BY <1>1, <1>2, RtPurgeStep, IdPurgeStep, SetTrustStep, NbPurgeStep, RecvHelloStep,
     AppSendStep, LoseStep DEF Next

\* The invariant holds always.
THEOREM InvHeld == Spec => []Inv
<1>1. Inv /\ [Next]_vars => Inv'
  BY NextInv
<1> QED
  BY InitInv, <1>1, PTL DEF Spec
-----------------------------------------------------------------------------
(* Theorems. *)

\* The type invariant: whatever arrives in whatever order, with alarms or without, the
\* tables, buffers and packets keep their types, and a route that is up has a path, so
\* that forward, recvRequest and recvReply may dereference path_find().
THEOREM TypeCorrect == Spec => []TypeOK
<1>1. Inv => TypeOK
  BY DEF Inv, Typed, TypeOK, Whole, Proper, Sound, path_empty
<1> QED
  BY <1>1, InvHeld, PTL

\* Up to the first revision of a trust value a route that is up has an even number, as
\* recvRequest, recvError and recvPta assert.
THEOREM EvenWhenUp == Spec => []UpSeqnoEven
<1>1. Inv => UpSeqnoEven
  BY DEF Inv, UpSeqnoEven, ClearNetwork, Clear, Lent
<1> QED
  BY <1>1, InvHeld, PTL

\* Nor does such a route ever carry a number its destination has not issued.
THEOREM NumberIssued == Spec => []SeqnoIssued
<1>1. Inv => SeqnoIssued
  BY DEF Inv, SeqnoIssued, ClearNetwork, Ordered
<1> QED
  BY <1>1, InvHeld, PTL

\* Along every path the next hop is nearer to the destination: a newer sequence number,
\* or the same and a smaller advertised hop count.
THEOREM OrderAlongRoutes == Spec => []RouteOrder
<1>1. Inv => RouteOrder
  <2> SUFFICES ASSUME Inv, NoAlarm, NEW n \in Node, NEW d \in Node, node[n].rt[d].up,
                      NEW i \in DOMAIN node[n].rt[d].paths
               PROVE  LET p == node[n].rt[d].paths[i]
                          f == node[p.nexthop].rt[d]
                      IN  \/ p.nexthop = d
                          \/ f.seqno > node[n].rt[d].seqno
                          \/ f.seqno = node[n].rt[d].seqno /\ f.adv < p.hopcount
    BY Zenon DEF RouteOrder
  <2>1. i \in 1 .. Len(node[n].rt[d].paths)
    BY NodeFacts, PathOf DEF Inv
  <2> QED
    BY <2>1 DEF Inv, ClearNetwork, Ordered, Ahead
<1> QED
  BY <1>1, InvHeld, PTL

\* Data never goes to a neighbour whose trust is below the threshold, when it is sent,
\* relayed, flushed from the buffer or salvaged.
THEOREM NoDataToDistrusted == Spec => DistrustedAvoided
<1>1. Inv /\ [Next]_vars => [DataAvoids]_vars
  BY NextInv
<1>2. DataAvoids = \A pk \in net' \ net :
                     pk.msg.type = "DATA" => pk.to \notin node[pk.from].distrusted
  BY DEF DataAvoids
<1> QED
  BY <1>1, <1>2, InvHeld, PTL DEF Spec, DistrustedAvoided, DataAvoids

\* Up to then the next hops towards a destination, alternates included, form no loop:
\* in any set of nodes that would forward among themselves, those with the newest
\* sequence number have all advertised, and the one that did so with the smallest hop
\* count has a next hop nearer still.
THEOREM NoLoop == Spec => [](NoAlarm => LoopFree)
<1>1. ASSUME Inv, NoAlarm PROVE LoopFree
  <2> SUFFICES ASSUME NEW d \in Node, NEW S \in SUBSET (Node \ {d}), S # {},
                      \A n \in S : NextHops(n, d) \cap S # {}
               PROVE  FALSE
    BY Zenon DEF LoopFree
  <2> DEFINE e(n) == node[n].rt[d]
             top  == node[d].seqno
  <2>1. ASSUME NEW n \in S
        PROVE  /\ e(n).seqno \in Nat /\ e(n).adv \in Nat /\ e(n).seqno <= top
               /\ \E m \in S : \E h \in Nat : /\ Ahead(e(m), e(n).seqno, h)
                                              /\ Settled(e(n)) => h <= e(n).adv
    <3>1. n \in Node
      OBVIOUS
    <3>2. e(n) \in EntryType /\ Ordered(d, e(n))
      BY <1>1, <3>1, NodeFacts DEF Inv, ClearNetwork
    <3>3. PICK m \in S : m \in NextHops(n, d)
      OBVIOUS
    <3> HIDE DEF e
    <3>4. e(n).up /\ \E i \in DOMAIN e(n).paths : e(n).paths[i].nexthop = m
      BY <3>3 DEF NextHops, e
    <3>5. PICK i \in 1 .. Len(e(n).paths) : e(n).paths[i].nexthop = m
      BY <3>2, <3>4, PathOf
    <3>6. Ahead(e(m), e(n).seqno, e(n).paths[i].hopcount) /\ e(n).seqno <= top
      BY <3>2, <3>4, <3>5 DEF Ordered, e
    <3>7. e(n).paths[i].hopcount \in Nat /\ e(n).seqno \in Nat /\ e(n).adv \in Nat
      BY <3>2, <3>5, PathOf, EntryFields
    <3> QED
      BY <3>5, <3>6, <3>7 DEF Settled
  <2>2. top \in Nat
    BY <1>1, NodeFacts DEF Inv
  <2> HIDE DEF e, top
  <2>3. PICK n \in S : \A m \in S : e(m).seqno <= e(n).seqno
    <3> DEFINE gap(m) == top - e(m).seqno
               T == {gap(m) : m \in S}
    <3>1. ASSUME NEW m \in S PROVE gap(m) \in Nat
      <4>1. e(m).seqno \in Nat /\ e(m).seqno <= top
        BY <2>1
      <4> QED
        BY <2>2, <4>1
    <3> HIDE DEF gap
    <3>2. T \subseteq Nat /\ T # {}
      BY <3>1
    <3>3. PICK x \in T : \A y \in T : x <= y
      BY <3>2, Purging!Smallest
    <3>4. PICK n \in S : x = gap(n)
      BY <3>3
    <3>5. ASSUME NEW m \in S PROVE e(m).seqno <= e(n).seqno
      <4>1. gap(n) <= gap(m)
        BY <3>3, <3>4
      <4>2. e(m).seqno \in Nat /\ e(n).seqno \in Nat
        BY <2>1
      <4> QED
        BY <2>2, <4>1, <4>2 DEF gap
    <3> QED
      BY <3>5
  <2> DEFINE s == e(n).seqno
             A == {m \in S : e(m).seqno = s /\ Settled(e(m))}
  <2>4. ASSUME NEW m \in S, e(m).seqno = s
        PROVE  \E k \in A : Settled(e(m)) => e(k).adv < e(m).adv
    <3>1. PICK k \in S : \E h \in Nat : /\ Ahead(e(k), e(m).seqno, h)
                                        /\ Settled(e(m)) => h <= e(m).adv
      BY <2>1
    <3>2. PICK h \in Nat : Ahead(e(k), s, h) /\ (Settled(e(m)) => h <= e(m).adv)
      BY <2>4, <3>1
    <3>3. e(k).seqno \in Nat /\ s \in Nat /\ e(k).seqno <= s /\ e(k).adv \in Nat
          /\ e(m).adv \in Nat
      BY <2>1, <2>3
    <3>4. e(k).seqno = s /\ e(k).adv < h /\ Settled(e(k))
      BY <3>2, <3>3 DEF Ahead
    <3> QED
      BY <3>2, <3>3, <3>4
  <2>5. A # {}
    BY <2>4
  <2> DEFINE T == {e(m).adv : m \in A}
  <2>6. T \subseteq Nat /\ T # {}
    BY <2>1, <2>5
  <2>7. PICK x \in T : \A y \in T : x <= y
    BY <2>6, Purging!Smallest
  <2>8. PICK m \in A : x = e(m).adv
    BY <2>7
  <2>9. PICK k \in A : e(k).adv < e(m).adv
    BY <2>4, <2>8
  <2>10. e(m).adv <= e(k).adv /\ e(m).adv \in Nat /\ e(k).adv \in Nat
    BY <2>1, <2>7, <2>8, <2>9
  <2> QED
    BY <2>9, <2>10
<1> QED
  BY <1>1, InvHeld, PTL

\* Nor is any of those paths longer than a loop-free one can be, so that the hop counts
\* recvRequest and recvReply relay fit their eight bits: a path of h hops has at least
\* h nodes closer to the destination than the node that holds it.
THEOREM FewHops == Spec => []HopsWithinDiameter
<1>1. ASSUME Inv, NoAlarm, NEW n \in Node, NEW d \in Node, NEW h \in Hops(node[n].rt[d])
      PROVE  h < Cardinality(Node)
  <2> DEFINE e == node[n].rt[d]
  <2>1. e \in EntryType /\ Clear(e) /\ Ranked(n, d, e)
    BY <1>1, NodeFacts DEF Inv, ClearNetwork
  <2>2. PICK i \in 1 .. Len(e.paths) : e.paths[i].hopcount = h
    BY <2>1, PathOf DEF Hops
  <2>3. e.up
    <3>1. e.paths # << >>
      BY <2>2
    <3> QED
      BY <2>1, <3>1 DEF Clear
  <2>4. h \in Nat
    BY <2>1, <2>2, PathOf
  <2> DEFINE C == Closer(node, d, e.seqno, h) \ {n}
  <2>5. Cardinality(C) >= h
    BY <2>1, <2>2, <2>3 DEF Ranked
  <2>6. C \subseteq Node \ {n}
    BY DEF Closer
  <2> HIDE DEF C
  <2>7. /\ IsFiniteSet(Node) /\ Cardinality(Node) \in Nat
        /\ Cardinality(Node \ {n}) = Cardinality(Node) - 1
    BY FS_RemoveElement, FS_CardinalityType, AgentAssumption
  <2>8. IsFiniteSet(Node \ {n}) /\ Cardinality(Node \ {n}) \in Nat
    BY <2>7, FS_RemoveElement, FS_CardinalityType
  <2>9. Cardinality(C) \in Nat /\ Cardinality(C) <= Cardinality(Node \ {n})
    BY <2>6, <2>8, FS_Subset, FS_CardinalityType
  <2> QED
    BY <2>4, <2>5, <2>7, <2>8, <2>9
<1>2. Inv => HopsWithinDiameter
  BY <1>1 DEF HopsWithinDiameter
<1> QED
  BY <1>2, InvHeld, PTL

-----------------------------------------------------------------------------
(* Copies of packets. *)

InNet(no) == \E pk \in net : Carries(pk, no)

\* No packet of data is in two places.
Once ==
  /\ \A pk, qk \in net : \A no : Carries(pk, no) /\ Carries(qk, no) => pk = qk
  /\ \A n \in Node : Single(node[n])
  /\ \A n, m \in Node : \A no : Keeps(node[n], no) /\ Keeps(node[m], no) => n = m
  /\ \A n \in Node : \A no : Keeps(node[n], no) => ~InNet(no) /\ no \in 0 .. sent - 1
  /\ \A no : InNet(no) => no \in 0 .. sent - 1
  /\ \A no \in delivered : /\ no \in 0 .. sent - 1
                           /\ ~InNet(no) /\ \A n \in Node : ~Keeps(node[n], no)

\* The numbers issued so far, and those issued next.
LEMMA MoreIssued ==
  ASSUME NEW s \in Nat, NEW t \in Nat, t >= s
  PROVE  /\ \A no : no \in 0 .. s - 1 => no \in 0 .. t - 1 /\ no \notin s .. t - 1
         /\ \A no : no \in s .. t - 1 => no \in 0 .. t - 1
OBVIOUS

\* A step moves packets that were there, or issues new ones.
LEMMA OnceStep ==
  ASSUME Inv, Once, NEW n \in Node, NEW w, Single(w), NEW gone \in SUBSET net, Inv',
         Step(n, w, gone), sent' \in Nat, sent' >= sent,
         \A no \in delivered' :
           no \in delivered \/ (~Has(w, no) /\ \E pk \in gone : Carries(pk, no)),
         \A no : Has(w, no) =>
           \/ Keeps(node[n], no)
           \/ \E pk \in gone : Carries(pk, no)
           \/ no \in sent .. sent' - 1
  PROVE  Once'
<1> DEFINE v == [w EXCEPT !.out = {}]
           Moved(no) == \E pk \in gone : Carries(pk, no)
           New(no) == no \in sent .. sent' - 1
<1>1. node' = [node EXCEPT ![n] = v] /\ net' = (net \ gone) \cup w.out
  BY DEF Step
<1>2. node \in [Node -> AgentType] /\ sent \in Nat
  BY DEF Inv, Typed
<1>3. v.rqueue = w.rqueue /\ v.out = {}
  <2>1. v \in AgentType
    BY <1>1, <1>2 DEF Inv, Typed
  <2> QED
    BY <2>1 DEF AgentType
<1> HIDE DEF v
<1>4. node'[n] = v /\ \A m \in Node : m # n => node'[m] = node[m]
  BY <1>1, <1>2
<1>5. /\ \A no : Keeps(v, no) <=> Keeps(w, no)
      /\ Single(v)
  <2>1. \A no : Keeps(v, no) <=> Keeps(w, no)
    BY <1>3 DEF Keeps
  <2>2. \A no : ~Sends(v, no)
    BY <1>3 DEF Sends
  <2> QED
    BY <1>3, <2>1, <2>2 DEF Single
<1>6. \A no : InNet(no)' <=> (\E pk \in net \ gone : Carries(pk, no)) \/ Sends(w, no)
  BY <1>1 DEF InNet, Sends
<1>7. \A no : Moved(no) => InNet(no) /\ ~\E pk \in net \ gone : Carries(pk, no)
  BY DEF InNet, Once
<1>8. \A no : no \in 0 .. sent - 1 => no \in 0 .. sent' - 1 /\ ~New(no)
  BY <1>2, MoreIssued
<1>9. \A no : New(no) => no \in 0 .. sent' - 1
  BY <1>2, MoreIssued
<1>10. \A no : Moved(no) => no \in 0 .. sent - 1 /\ no \notin delivered
                           /\ \A m \in Node : ~Keeps(node[m], no)
  BY <1>7 DEF Once
<1>11. \A no : Keeps(node[n], no) => no \in 0 .. sent - 1 /\ no \notin delivered /\ ~InNet(no)
                           /\ \A m \in Node : Keeps(node[m], no) => m = n
  BY DEF Once
<1>12. \A no : InNet(no) => no \in 0 .. sent - 1 /\ no \notin delivered
                           /\ \A m \in Node : ~Keeps(node[m], no)
  BY DEF Once
<1>13. \A no : Has(w, no) => Keeps(node[n], no) \/ Moved(no) \/ New(no)
  OBVIOUS
<1>14. \A no : (\E pk \in net \ gone : Carries(pk, no)) => InNet(no) /\ ~Moved(no)
  BY <1>7 DEF InNet
<1> HIDE DEF Moved, New
\* What the agent has is nowhere else.
<1>15. \A no : Has(w, no) =>
          /\ no \in 0 .. sent' - 1
          /\ ~\E pk \in net \ gone : Carries(pk, no)
          /\ \A m \in Node : m # n => ~Keeps(node[m], no)
          /\ no \notin delivered
  <2>1. \A no : New(no) => /\ no \notin delivered /\ ~InNet(no)
                           /\ \A m \in Node : ~Keeps(node[m], no)
    BY <1>8, <1>12 DEF Once
  <2> QED
    BY <1>8, <1>9, <1>10, <1>11, <1>13, <1>14, <2>1
<1>16. \A pk, qk \in net' : \A no : Carries(pk, no) /\ Carries(qk, no) => pk = qk
  <2> SUFFICES ASSUME NEW pk \in net', NEW qk \in net', NEW no, Carries(pk, no), Carries(qk, no)
               PROVE  pk = qk
    OBVIOUS
  <2>1. (pk \in net \ gone \/ pk \in w.out) /\ (qk \in net \ gone \/ qk \in w.out)
    BY <1>1
  <2>2. pk \in w.out \/ qk \in w.out => Has(w, no)
    BY DEF Has, Sends
  <2>3. (pk \in net \ gone /\ qk \in net \ gone) \/ (pk \in w.out /\ qk \in w.out)
    BY <1>15, <2>1, <2>2
  <2> QED
    BY <2>3 DEF Once, Single
<1>17. \A m \in Node : Single(node'[m])
  BY <1>4, <1>5 DEF Once
<1>18. \A m \in Node : \A no : Keeps(node'[m], no) =>
         \/ m = n /\ Keeps(w, no) /\ Has(w, no)
         \/ m # n /\ Keeps(node[m], no) /\ ~Has(w, no)
  <2> SUFFICES ASSUME NEW m \in Node, NEW no, Keeps(node'[m], no)
               PROVE  \/ m = n /\ Keeps(w, no) /\ Has(w, no)
                      \/ m # n /\ Keeps(node[m], no) /\ ~Has(w, no)
    OBVIOUS
  <2>1. CASE m = n
    BY <1>4, <1>5, <2>1 DEF Has
  <2>2. CASE m # n
    <3>1. Keeps(node[m], no)
      BY <1>4, <2>2
    <3> QED
      BY <1>15, <2>2, <3>1
  <2> QED
    BY <2>1, <2>2
<1>19. \A a, m \in Node : \A no : Keeps(node'[a], no) /\ Keeps(node'[m], no) => a = m
  BY <1>18 DEF Once
<1>20. \A m \in Node : \A no : Keeps(node'[m], no) => ~InNet(no)' /\ no \in 0 .. sent' - 1
  <2> SUFFICES ASSUME NEW m \in Node, NEW no, Keeps(node'[m], no)
               PROVE  ~InNet(no)' /\ no \in 0 .. sent' - 1
    OBVIOUS
  <2>1. CASE m = n /\ Keeps(w, no) /\ Has(w, no)
    <3>1. ~Sends(w, no)
      BY <2>1 DEF Single
    <3> QED
      BY <1>6, <1>15, <2>1, <3>1
  <2>2. CASE m # n /\ Keeps(node[m], no) /\ ~Has(w, no)
    <3>1. no \in 0 .. sent - 1 /\ ~InNet(no)
      BY <2>2 DEF Once
    <3> QED
      BY <1>6, <1>8, <1>14, <2>2, <3>1 DEF Has
  <2> QED
    BY <1>18, <2>1, <2>2
<1>21. \A no : InNet(no)' => no \in 0 .. sent' - 1
  BY <1>6, <1>8, <1>12, <1>14, <1>15 DEF Has
<1>22. \A no \in delivered' : /\ no \in 0 .. sent' - 1
                              /\ ~InNet(no)' /\ \A m \in Node : ~Keeps(node'[m], no)
  <2> SUFFICES ASSUME NEW no \in delivered'
               PROVE  /\ no \in 0 .. sent' - 1
                      /\ ~InNet(no)' /\ \A m \in Node : ~Keeps(node'[m], no)
    OBVIOUS
  <2>1. CASE no \in delivered
    <3>1. no \in 0 .. sent - 1 /\ ~InNet(no) /\ \A m \in Node : ~Keeps(node[m], no)
      BY <2>1 DEF Once
    <3>2. ~Has(w, no)
      BY <1>15, <2>1
    <3> QED
      BY <1>6, <1>8, <1>14, <1>18, <3>1, <3>2 DEF Has
  <2>2. CASE ~Has(w, no) /\ Moved(no)
    BY <1>6, <1>7, <1>8, <1>10, <1>18, <2>2 DEF Has
  <2> QED
    BY <2>1, <2>2 DEF Moved
<1> QED
  BY <1>16, <1>17, <1>19, <1>20, <1>21, <1>22 DEF Once

\* What a node has between two events.
LEMMA HasNode ==
  ASSUME Inv, Once, NEW n \in Node
  PROVE  /\ node[n] \in AgentType /\ Whole(node[n]) /\ Single(node[n])
         /\ \A no : Has(node[n], no) <=> Keeps(node[n], no)
         /\ \A no : Keeps(node[n], no) => no \in 0 .. sent - 1 /\ ~InNet(no)
<1>1. /\ node[n] \in AgentType /\ Whole(node[n]) /\ node[n].out = {}
  BY NodeFacts DEF Inv
<1>2. \A no : ~Sends(node[n], no)
  BY <1>1 DEF Sends
<1> QED
  BY <1>1, <1>2 DEF Once, Has

\* A step that issues, delivers and sends on nothing.
LEMMA ConservingStep ==
  ASSUME Inv, Once, Inv', NEW n \in Node, NEW w, Conserves(node[n], w),
         NEW gone \in SUBSET net, Step(n, w, gone), sent' = sent, delivered' = delivered
  PROVE  Once'
<1>1. Single(node[n]) /\ \A no : Has(node[n], no) => Keeps(node[n], no)
  BY HasNode
<1>2. Single(w) /\ \A no : Has(w, no) => Keeps(node[n], no)
  BY <1>1 DEF Conserves
<1>3. sent' \in Nat /\ sent' >= sent
  BY DEF Inv, Typed
<1> QED
  BY <1>2, <1>3, OnceStep

\* rt_resolve for a packet of this node.
LEMMA AppSendOnce ==
  ASSUME Inv, Once, Inv', NEW f \in Traffic, AppSend(f[1], f[2])
  PROVE  Once'
<1> DEFINE n == f[1]
           d == f[2]
           p == Data(n, d, sent)
           w == node[n]
           kept == [w EXCEPT !.rqueue[d] = Append(@, p)]
<1>1. n \in Node /\ d \in Node
  BY TeaomdvAssumption
<1>2. /\ delivered' = delivered /\ sent' = sent + 1 /\ sent \in Nat
      /\ sent \in 0 .. MaxData - 1
  BY TeaomdvAssumption DEF AppSend, Inv, Typed
<1>3. p \in DataType /\ p.dst = d /\ p.no = sent
  BY <1>1, <1>2 DEF Data, DataType
<1>4. /\ w \in AgentType /\ Whole(w) /\ Single(w)
      /\ \A no : Has(w, no) => Keeps(node[n], no)
      /\ \A no : Has(w, no) => no \in 0 .. sent - 1
  BY <1>1, HasNode
<1>5. IF w.rt[d].up THEN Step(n, Forward(n, w, p, Zero), {})
      ELSE \E v \in SendRequest(n, kept, d) : Step(n, v, {})
  BY Zenon DEF AppSend
<1>6. ~Has(w, p.no)
  BY <1>2, <1>3, <1>4
<1> HIDE DEF n, d, p, w
<1>7. ASSUME NEW v, Step(n, v, {}), Single(v), \A no : Has(v, no) => Has(w, no) \/ no = p.no
      PROVE  Once'
  <2>1. sent' \in Nat /\ sent' >= sent /\ sent \in sent .. sent' - 1
    BY <1>2
  <2>2. \A no : Has(v, no) => Keeps(node[n], no) \/ no \in sent .. sent' - 1
    BY <1>3, <1>4, <1>7, <2>1
  <2>3. {} \in SUBSET net
    OBVIOUS
  <2> QED
    BY <1>1, <1>2, <1>7, <2>1, <2>2, <2>3, OnceStep
<1>8. CASE w.rt[d].up
  <2>1. Step(n, Forward(n, w, p, Zero), {})
    BY <1>5, <1>8
  <2>2. /\ Single(Forward(n, w, p, Zero))
        /\ \A no : Has(Forward(n, w, p, Zero), no) => Has(w, no) \/ no = p.no
    BY <1>1, <1>3, <1>4, <1>6, ForwardSingle
  <2> QED
    BY <1>7, <2>1, <2>2
<1>9. CASE ~w.rt[d].up
  <2>1. PICK v \in SendRequest(n, kept, d) : Step(n, v, {})
    BY <1>5, <1>9
  <2>2. Single(kept) /\ \A no : Has(kept, no) => Has(w, no) \/ no = p.no
    BY <1>1, <1>3, <1>4, <1>6, AppendSingle
  <2>3. Whole(kept)
    <3>1. Append(w.rqueue[d], p) \in Seq(DataType)
      BY <1>1, <1>3, <1>4 DEF AgentType
    <3>2. /\ kept \in AgentType /\ kept.rt = w.rt /\ kept.tries = w.tries /\ kept.bid = w.bid
      BY <1>1, <1>4, <3>1 DEF AgentType
    <3> HIDE DEF kept
    <3> QED
      BY <1>4, <3>2 DEF Whole
  <2> HIDE DEF kept
  <2>4. Conserves(kept, v)
    BY <1>1, <2>1, <2>3, SendRequestConserves
  <2>5. Single(v) /\ \A no : Has(v, no) => Has(w, no) \/ no = p.no
    BY <2>2, <2>4 DEF Conserves
  <2> QED
    BY <1>7, <2>1, <2>5
<1> QED
  BY <1>8, <1>9

\* A packet arrives: it is taken to the application, forwarded or dropped.
LEMMA RecvDataOnce ==
  ASSUME Inv, Once, Inv', NEW n \in Node, RecvData(n)
  PROVE  Once'
<1> DEFINE w == node[n]
<1>1. PICK pk \in net :
        /\ Receives(n, pk, "DATA")
        /\ delivered' = IF n = pk.msg.dst THEN delivered \cup {pk.msg.no} ELSE delivered
        /\ Step(n,
                IF n \in {pk.msg.src, pk.msg.dst} THEN w
                ELSE IF w.rt[pk.msg.dst].up THEN Forward(n, w, pk.msg, pk.from)
                ELSE Send(w, Broadcast(n, Rerr({pk.msg.dst}, w.rt))),
                {pk})
  BY Zenon DEF RecvData
<1> DEFINE p == pk.msg
<1>2. p \in DataType /\ pk.from \in Node
  BY <1>1, PacketFields DEF Receives, Inv, Typed
<1>3. Carries(pk, p.no) /\ InNet(p.no)
  BY <1>1 DEF Carries, Receives, InNet
<1>4. sent' = sent /\ sent' \in Nat /\ sent' >= sent
  BY <1>1 DEF Receives, Inv, Typed
<1>5. /\ w \in AgentType /\ Whole(w) /\ Single(w)
      /\ \A no : Has(w, no) => Keeps(node[n], no)
      /\ ~Has(w, p.no)
  BY <1>3, HasNode
<1>6. {pk} \in SUBSET net
  OBVIOUS
<1>7. CASE n \in {p.src, p.dst}
  <2>1. Step(n, w, {pk})
    BY <1>1, <1>7
  <2>2. \A no \in delivered' :
          no \in delivered \/ (~Has(w, no) /\ \E k \in {pk} : Carries(k, no))
    BY <1>1, <1>3, <1>5
  <2> HIDE DEF w
  <2> QED
    BY <1>4, <1>5, <1>6, <2>1, <2>2, OnceStep
<1>8. CASE n \notin {p.src, p.dst} /\ w.rt[p.dst].up
  <2> DEFINE v == Forward(n, w, p, pk.from)
  <2>1. Step(n, v, {pk}) /\ delivered' = delivered
    BY <1>1, <1>8
  <2>2. Single(v) /\ \A no : Has(v, no) => Has(w, no) \/ no = p.no
    BY <1>2, <1>5, ForwardSingle
  <2> HIDE DEF v, w
  <2>3. \A no : Has(v, no) => Keeps(node[n], no) \/ \E k \in {pk} : Carries(k, no)
    BY <1>3, <1>5, <2>2
  <2> QED
    BY <1>4, <1>6, <2>1, <2>2, <2>3, OnceStep
<1>9. CASE n \notin {p.src, p.dst} /\ ~w.rt[p.dst].up
  <2> DEFINE packets == Broadcast(n, Rerr({p.dst}, w.rt))
             v == Send(w, packets)
  <2>1. Step(n, v, {pk}) /\ delivered' = delivered
    BY <1>1, <1>9
  <2>2. \A k \in packets : k.msg.type # "DATA"
    BY DEF Broadcast, Unicast, Rerr
  <2> HIDE DEF packets
  <2>3. v.rqueue = w.rqueue /\ v.out = w.out \cup packets
    BY <1>5 DEF Send, AgentType
  <2> HIDE DEF v
  <2>4. Conserves(node[n], v)
    BY <2>2, <2>3, RestConserves
  <2> QED
    BY <1>4, <1>6, <2>1, <2>4, ConservingStep
<1> QED
  BY <1>7, <1>8, <1>9

\* recvRequest: whatever waits for the source goes out along the path back to it.
LEMMA RecvRequestOnce ==
  ASSUME Inv, Once, Inv', NEW n \in Node, RecvRequest(n)
  PROVE  Once'
<1>1. PICK pk \in net :
        /\ Receives(n, pk, "RREQ")
        /\ \E trusted \in RequestTrust(node[n], pk) :
             \/ RequestDropped(n, pk, trusted)
             \/ /\ pk.msg.src # n
                /\ trusted \/ pk.from = pk.msg.src
                /\ \/ RequestIgnored(n, pk)
                   \/ /\ ~RequestUseless(n, pk, node[n].rt[pk.msg.src])
                      /\ \/ RequestAtDestination(n, pk)
                         \/ RequestAnswered(n, pk)
                         \/ RequestRelayed(n, pk, trusted)
  BY DEF RecvRequest
<1>2. PICK trusted \in RequestTrust(node[n], pk) :
        \/ RequestDropped(n, pk, trusted)
        \/ /\ pk.msg.src # n
           /\ \/ RequestIgnored(n, pk)
              \/ RequestAtDestination(n, pk)
              \/ RequestAnswered(n, pk)
              \/ RequestRelayed(n, pk, trusted)
  BY <1>1
<1>3. sent' = sent /\ delivered' = delivered
  BY <1>1 DEF Receives
<1>4. node[n] \in AgentType
  BY HasNode
<1>5. pk.msg.type = "RREQ" /\ {pk} \in SUBSET net
  BY <1>1 DEF Receives
<1>6. ASSUME NEW v, Step(n, v, {pk}), Conserves(node[n], v)
      PROVE  Once'
  BY <1>3, <1>5, <1>6, ConservingStep
<1> DEFINE w == WithReversePath(n, pk)
<1>7. pk.msg.src # n => w \in AgentType /\ Conserves(node[n], w)
  BY <1>1, ReversePathAgent DEF Whole
<1>8. ASSUME pk.msg.src # n, NEW v, v.rqueue = w.rqueue, NEW packets,
             v.out = w.out \cup packets, \A k \in packets : k.msg.type # "DATA", Step(n, v, {pk})
      PROVE  Once'
  <2>1. Conserves(w, v)
    BY <1>8, RestConserves
  <2>2. Conserves(node[n], v)
    BY <1>7, <1>8, <2>1, ConservesOn
  <2> QED
    BY <1>6, <1>8, <2>2
<1>9. CASE RequestDropped(n, pk, trusted)
  BY <1>6, <1>9, SilentConserves DEF RequestDropped
<1>10. CASE RequestIgnored(n, pk)
  <2> DEFINE v == [node[n] EXCEPT !.heard = @ \cup {Id(pk)}]
  <2>1. v.rqueue = node[n].rqueue /\ v.out = node[n].out
    BY <1>4 DEF AgentType
  <2>2. Step(n, v, {pk})
    BY <1>10 DEF RequestIgnored
  <2> HIDE DEF v
  <2> QED
    BY <1>6, <2>1, <2>2, SilentConserves
<1>11. CASE pk.msg.src # n /\ RequestAtDestination(n, pk)
  <2> DEFINE s == ReplySeqno(w.seqno, pk.msg.dstseqno)
             packets == Unicast(n, pk.from, Rrep(pk.msg.src, pk.msg.id, n, s, 0, pk.from, TRUE))
             v == Send([w EXCEPT !.seqno = s, !.nb = @ \cup {pk.from}], packets)
  <2>1. Step(n, v, {pk})
    BY <1>11 DEF RequestAtDestination
  <2>2. w \in AgentType
    BY <1>7, <1>11
  <2> HIDE DEF w, s
  <2>3. \A k \in packets : k.msg.type # "DATA"
    BY DEF Unicast, Rrep
  <2> HIDE DEF packets
  <2>4. v.rqueue = w.rqueue /\ v.out = w.out \cup packets
    BY <2>2 DEF Send, AgentType
  <2> HIDE DEF v
  <2> QED
    BY <1>8, <1>11, <2>1, <2>3, <2>4
<1>12. CASE pk.msg.src # n /\ RequestAnswered(n, pk)
  <2> DEFINE e == Advertise(w.rt[pk.msg.dst])
             r == [e EXCEPT !.error = TRUE]
             packets == Unicast(n, pk.from,
                                Rrep(pk.msg.src, pk.msg.id, pk.msg.dst, e.seqno, e.adv,
                                     path_find(e).lasthop, path_find(e).trusted))
             v == Send([w EXCEPT !.answered = @ \cup {Id(pk)}, !.rt[pk.msg.dst] = r], packets)
  <2>1. Step(n, w, {pk}) \/ Step(n, v, {pk})
    <3>1. Step(n, IF ~( /\ Id(pk) \notin w.answered
                        /\ Offered(node[n].rt[pk.msg.src], ReversePath(n, pk), pk.msg.srcseqno))
                  THEN w ELSE v, {pk})
      BY <1>12, Zenon DEF RequestAnswered
    <3> HIDE DEF w, v
    <3> QED
      BY <3>1
  <2>2. w \in AgentType /\ Conserves(node[n], w)
    BY <1>7, <1>12
  <2> HIDE DEF w, e, r
  <2>3. \A k \in packets : k.msg.type # "DATA"
    BY DEF Unicast, Rrep
  <2> HIDE DEF packets
  <2>4. v.rqueue = w.rqueue /\ v.out = w.out \cup packets
    BY <2>2 DEF Send, AgentType
  <2> HIDE DEF v
  <2>5. CASE Step(n, w, {pk})
    BY <1>6, <2>2, <2>5
  <2>6. CASE Step(n, v, {pk})
    BY <1>8, <1>12, <2>3, <2>4, <2>6
  <2> QED
    BY <2>1, <2>5, <2>6
<1>13. CASE pk.msg.src # n /\ RequestRelayed(n, pk, trusted)
  <2> DEFINE e == Advertise(w.rt[pk.msg.src])
             msg == [pk.msg EXCEPT !.dstseqno = Larger(w.rt[pk.msg.dst].seqno, @),
                                   !.hops = e.adv, !.first = path_find(e).lasthop,
                                   !.trusted = trusted]
             packets == Broadcast(n, msg)
             v == Send([w EXCEPT !.rt[pk.msg.src] = e], packets)
             u == [w EXCEPT !.crashed = TRUE]
  <2>1. Step(n, w, {pk}) \/ Step(n, u, {pk}) \/ Step(n, v, {pk})
    <3>1. Step(n, IF Id(pk) \in node[n].heard THEN w ELSE IF path_empty(e) THEN u ELSE v, {pk})
      BY <1>13, Zenon DEF RequestRelayed
    <3> HIDE DEF w, u, v, e
    <3> QED
      BY <3>1
  <2>2. w \in AgentType /\ Conserves(node[n], w)
    BY <1>7, <1>13
  <2> HIDE DEF w, e
  <2>3. \A k \in packets : k.msg.type # "DATA"
    <3>1. msg.type = "RREQ"
      <4>1. pk.msg \in RreqType
        BY <1>1, PacketFields DEF Receives, Inv, Typed
      <4> QED
        BY <4>1 DEF RreqType
    <3> HIDE DEF msg
    <3> QED
      BY <3>1 DEF Broadcast, Unicast
  <2> HIDE DEF packets
  <2>4. v.rqueue = w.rqueue /\ v.out = w.out \cup packets
    BY <2>2 DEF Send, AgentType
  <2>5. u.rqueue = w.rqueue /\ u.out = w.out
    BY <2>2 DEF AgentType
  <2> HIDE DEF v, u
  <2>6. CASE Step(n, w, {pk})
    BY <1>6, <2>2, <2>6
  <2>7. CASE Step(n, v, {pk})
    BY <1>8, <1>13, <2>3, <2>4, <2>7
  <2>8. CASE Step(n, u, {pk})
    <3>1. Conserves(w, u)
      BY <2>5, SilentConserves
    <3> QED
      BY <1>6, <2>2, <2>8, <3>1, ConservesOn
  <2> QED
    BY <2>1, <2>6, <2>7, <2>8
<1> QED
  BY <1>2, <1>9, <1>10, <1>11, <1>12, <1>13

\* recvReply likewise, along the path forward.
LEMMA RecvReplyOnce ==
  ASSUME Inv, Once, Inv', NEW n \in Node, RecvReply(n)
  PROVE  Once'
<1>1. PICK pk \in net :
        /\ Receives(n, pk, "RREP")
        /\ \/ ReplyDropped(n, pk)
           \/ /\ pk.msg.dst # n
              /\ Offered(node[n].rt[pk.msg.dst], ForwardPath(node[n], pk), pk.msg.seqno)
              /\ ReplyKept(n, pk) \/ ReplyRelayed(n, pk)
  BY DEF RecvReply
<1>2. sent' = sent /\ delivered' = delivered
  BY <1>1 DEF Receives
<1>3. pk.msg.type = "RREP" /\ {pk} \in SUBSET net
  BY <1>1 DEF Receives
<1>4. ASSUME NEW v, Step(n, v, {pk}), Conserves(node[n], v)
      PROVE  Once'
  BY <1>2, <1>3, <1>4, ConservingStep
<1> DEFINE w == WithForwardPath(n, pk)
           Taken == /\ pk.msg.dst # n
                    /\ Offered(node[n].rt[pk.msg.dst], ForwardPath(node[n], pk), pk.msg.seqno)
<1>5. Taken => w \in AgentType /\ Conserves(node[n], w)
  BY <1>1, ForwardPathAgent DEF Whole
<1>6. CASE ReplyDropped(n, pk)
  BY <1>4, <1>6, SilentConserves DEF ReplyDropped
<1>7. CASE Taken /\ ReplyKept(n, pk)
  BY <1>4, <1>5, <1>7 DEF ReplyKept
<1>8. CASE Taken /\ ReplyRelayed(n, pk)
  <2> DEFINE d   == pk.msg.dst
             x   == pk.msg.ipdst
             id  == <<x, pk.msg.id>>
             e   == Advertise(w.rt[d])
             r   == [e EXCEPT !.error = TRUE]
             hop == path_find(w.rt[x]).nexthop
             msg == [pk.msg EXCEPT !.hops = e.adv, !.first = path_find(e).lasthop,
                                   !.trusted = ReplyTrust(node[n], pk)]
             packets == Unicast(n, hop, msg)
             v == Relayed(w, id, hop, d, r, x, pk.from, packets)
             u == [w EXCEPT !.crashed = TRUE]
  <2>1. Step(n, u, {pk}) \/ Step(n, v, {pk})
    <3>1. Step(n, IF path_empty(e) THEN u ELSE v, {pk})
      BY <1>8, Zenon DEF ReplyRelayed, Relayed
    <3> HIDE DEF w, u, v, e
    <3> QED
      BY <3>1
  <2>2. w \in AgentType /\ Conserves(node[n], w)
    BY <1>5, <1>8
  <2> HIDE DEF w, e, hop, id, r
  <2>3. \A k \in packets : k.msg.type # "DATA"
    <3>1. msg.type = "RREP"
      <4>1. pk.msg \in RrepType
        BY <1>1, PacketFields DEF Receives, Inv, Typed
      <4> QED
        BY <4>1 DEF RrepType
    <3> HIDE DEF msg
    <3> QED
      BY <3>1 DEF Unicast
  <2> HIDE DEF packets
  <2>4. v.rqueue = w.rqueue /\ v.out = w.out \cup packets
    BY <2>2 DEF Relayed, Send, AgentType
  <2>5. u.rqueue = w.rqueue /\ u.out = w.out
    BY <2>2 DEF AgentType
  <2> HIDE DEF v, u
  <2>6. Conserves(w, v)
    BY <2>3, <2>4, RestConserves
  <2>7. Conserves(w, u)
    BY <2>5, SilentConserves
  <2> QED
    BY <1>4, <2>1, <2>2, <2>6, <2>7, ConservesOn
<1> QED
  BY <1>1, <1>6, <1>7, <1>8

\* recvError sends no data.
LEMMA RecvErrorOnce ==
  ASSUME Inv, Once, Inv', NEW n \in Node, RecvError(n)
  PROVE  Once'
<1>1. PICK pk \in net :
        /\ Receives(n, pk, "RERR")
        /\ LET after == [d \in Node |-> IF d \in pk.msg.dests
                                        THEN ErrorReceived(node[n].rt[d], pk.from, pk.msg.seqno[d])
                                        ELSE node[n].rt[d]]
           IN  Step(n, ReportErrors(n, node[n], after), {pk})
  BY DEF RecvError
<1>2. PICK after : Step(n, ReportErrors(n, node[n], after), {pk})
  BY <1>1
<1>3. Conserves(node[n], ReportErrors(n, node[n], after))
  BY HasNode, ReportConserves
<1>4. sent' = sent /\ delivered' = delivered /\ {pk} \in SUBSET net
  BY <1>1 DEF Receives
<1> QED
  BY <1>2, <1>3, <1>4, ConservingStep

\* Nor does recvPta.
LEMMA RecvPtaOnce ==
  ASSUME Inv, Once, Inv', NEW n \in Node, RecvPta(n)
  PROVE  Once'
<1> DEFINE w == node[n]
<1>1. PICK pk \in net, last \in Node \cup {Junk} :
        /\ Receives(n, pk, "PTA")
        /\ LET e == w.rt[pk.msg.dst]
               a == PtaReceived(e, pk.from, pk.msg.seqno, pk.msg.last)
               u == [w EXCEPT !.rt[pk.msg.dst] = a]
           IN  IF PtaApplies(e, pk.from, pk.msg.seqno, pk.msg.last)
               THEN /\ last \in {pk.msg.last, Junk}
                    /\ Step(n, Send(u, UNION {Unicast(n, pc, Pta(pk.msg.dst, a.seqno, last)) :
                                                pc \in e.pcs \ {n}}), {pk})
               ELSE last = Junk /\ Step(n, w, {pk})
  BY DEF RecvPta
<1> DEFINE d == pk.msg.dst
           e == w.rt[d]
           a == PtaReceived(e, pk.from, pk.msg.seqno, pk.msg.last)
           msg == Pta(d, a.seqno, last)
           packets == UNION {Unicast(n, pc, msg) : pc \in e.pcs \ {n}}
           v == Send([w EXCEPT !.rt[d] = a], packets)
<1>2. Step(n, w, {pk}) \/ Step(n, v, {pk})
  BY <1>1
<1>3. \A k \in packets : k.msg.type # "DATA"
  BY DEF Unicast, Pta
<1>4. w \in AgentType
  BY HasNode
<1> HIDE DEF packets, a, w
<1>5. v.rqueue = w.rqueue /\ v.out = w.out \cup packets
  BY <1>4 DEF Send, AgentType
<1> HIDE DEF v
<1>6. Conserves(w, v) /\ Conserves(w, w)
  BY <1>3, <1>5, RestConserves, SilentConserves
<1>7. sent' = sent /\ delivered' = delivered /\ {pk} \in SUBSET net
  BY <1>1 DEF Receives
<1> QED
  BY <1>2, <1>6, <1>7, ConservingStep DEF w

\* rt_purge drops what waits for a route that expires.
LEMMA RtPurgeOnce ==
  ASSUME Inv, Once, Inv', NEW n \in Node, RtPurge(n)
  PROVE  Once'
<1> DEFINE w == node[n]
           waiting == {d \in Node : ~w.rt[d].up /\ ~NoPacketFor(w, d)}
<1>1. PICK expired \in SUBSET {x \in Node \X Node :
                                 w.rt[x[1]].up /\ path_lookup(w.rt[x[1]], x[2])} :
        LET gone(d) == {m \in Node : <<d, m>> \in expired}
            after   == [d \in Node |-> IF w.rt[d].up
                                       THEN Purged(w.rt[d], Unexpired(w.rt[d], gone(d)))
                                       ELSE w.rt[d]]
            v       == [w EXCEPT !.rt = after,
                                 !.rqueue = [d \in Node |-> IF w.rt[d].up /\ ~after[d].up
                                                            THEN << >> ELSE @[d]]]
        IN  /\ Quiet
            /\ expired # {} \/ waiting # {}
            /\ IF expired = {} THEN UNCHANGED <<sent, delivered, events>> ELSE Event("expire")
            /\ \E order \in SetToSeqs(waiting) :
                 \E u \in SendRequests(n, v, order) : Step(n, u, {})
  BY Zenon DEF RtPurge
<1> DEFINE gone(d) == {m \in Node : <<d, m>> \in expired}
           after   == [d \in Node |-> IF w.rt[d].up
                                      THEN Purged(w.rt[d], Unexpired(w.rt[d], gone(d)))
                                      ELSE w.rt[d]]
           left    == [d \in Node |-> IF w.rt[d].up /\ ~after[d].up
                                      THEN << >> ELSE w.rqueue[d]]
           v       == [w EXCEPT !.rt = after, !.rqueue = left]
<1>2. PICK order \in SetToSeqs(waiting) : \E u \in SendRequests(n, v, order) : Step(n, u, {})
  BY <1>1, Zenon
<1>3. PICK u \in SendRequests(n, v, order) : Step(n, u, {})
  BY <1>2
<1>4. sent' = sent /\ delivered' = delivered
  BY <1>1 DEF Event
<1>5. w \in AgentType /\ Whole(w) /\ \A d \in Node : Proper(w.rt[d])
  BY HasNode DEF Whole
<1>6. IsFiniteSet(waiting) /\ waiting \subseteq Node
  BY FS_Subset, AgentAssumption
<1> HIDE DEF w, waiting
<1>7. Cardinality(waiting) \in Nat /\ order \in [1 .. Cardinality(waiting) -> Node]
  BY <1>6, ListedSet
<1>8. ASSUME NEW d \in Node PROVE Proper(after[d])
  <2>1. after[d] = IF w.rt[d].up THEN Purged(w.rt[d], Unexpired(w.rt[d], gone(d))) ELSE w.rt[d]
    OBVIOUS
  <2> HIDE DEF after, gone
  <2> QED
    BY <1>5, <2>1, PurgedEntry
<1>9. after \in [Node -> EntryType]
  <2>1. \A d \in Node : after[d] \in EntryType
    BY <1>8 DEF Proper
  <2>2. after = [d \in Node |-> after[d]]
    OBVIOUS
  <2> HIDE DEF after, gone
  <2> QED
    BY <2>1, <2>2
<1> HIDE DEF after, gone
<1>10. /\ left \in [Node -> Seq(DataType)]
       /\ \A d \in Node : left[d] = w.rqueue[d] \/ left[d] = << >>
  <2>1. w.rqueue \in [Node -> Seq(DataType)] /\ << >> \in Seq(DataType)
    BY <1>5 DEF AgentType
  <2> QED
    BY <2>1
<1> HIDE DEF left
<1>11. /\ v \in AgentType /\ v.rt = after /\ v.out = w.out /\ v.rqueue = left
       /\ v.tries = w.tries /\ v.bid = w.bid
  BY <1>5, <1>9, <1>10 DEF AgentType
<1> HIDE DEF v
<1>12. Whole(v)
  BY <1>5, <1>8, <1>11 DEF Whole
<1>13. Conserves(w, v)
  <2>1. \A d \in Node : v.rqueue[d] = w.rqueue[d] \/ v.rqueue[d] = << >>
    BY <1>10, <1>11
  <2>2. \A pk \in v.out : pk.msg.type = "DATA" => pk \in w.out
    BY <1>11
  <2> QED
    BY <2>1, <2>2, DropsConserve
<1>14. Conserves(v, u)
  BY <1>3, <1>7, <1>12, SendRequestsConserves
<1>15. Conserves(node[n], u)
  BY <1>13, <1>14, ConservesOn DEF w
<1>16. {} \in SUBSET net
  OBVIOUS
<1> QED
  BY <1>3, <1>4, <1>15, <1>16, ConservingStep

\* id_purge, set_trust and recvHello touch neither buffer nor link.
LEMMA QuietOnce ==
  ASSUME Inv, Once, Inv', NEW n \in Node, IdPurge(n) \/ SetTrust(n) \/ \E m \in Node : RecvHello(n, m)
  PROVE  Once'
<1> DEFINE w == node[n]
<1>1. w \in AgentType
  BY HasNode
<1>2. ASSUME NEW v, Step(n, v, {}), v.rqueue = w.rqueue, v.out = w.out,
             sent' = sent /\ delivered' = delivered
      PROVE  Once'
  <2>1. Conserves(w, v) /\ {} \in SUBSET net
    BY <1>2, SilentConserves
  <2> QED
    BY <1>2, <2>1, ConservingStep
<1>3. CASE IdPurge(n)
  <2>1. PICK old : Step(n, [w EXCEPT !.heard = @ \ old, !.answered = @ \ old], {})
    BY <1>3 DEF IdPurge
  <2> DEFINE v == [w EXCEPT !.heard = @ \ old, !.answered = @ \ old]
  <2>2. v.rqueue = w.rqueue /\ v.out = w.out
    BY <1>1 DEF AgentType
  <2>3. Step(n, v, {})
    BY <2>1
  <2>4. sent' = sent /\ delivered' = delivered
    BY <1>3 DEF IdPurge, Event
  <2> HIDE DEF v
  <2> QED
    BY <1>2, <2>2, <2>3, <2>4
<1>4. CASE SetTrust(n)
  <2>1. PICK low : Step(n, [w EXCEPT !.distrusted = low], {})
    BY <1>4 DEF SetTrust
  <2> DEFINE v == [w EXCEPT !.distrusted = low]
  <2>2. v.rqueue = w.rqueue /\ v.out = w.out
    BY <1>1 DEF AgentType
  <2>3. Step(n, v, {})
    BY <2>1
  <2>4. sent' = sent /\ delivered' = delivered
    BY <1>4 DEF SetTrust, Event
  <2> HIDE DEF v
  <2> QED
    BY <1>2, <2>2, <2>3, <2>4
<1>5. CASE \E m \in Node : RecvHello(n, m)
  <2>1. PICK m \in Node : RecvHello(n, m)
    BY <1>5
  <2> DEFINE v == [w EXCEPT !.nb = @ \cup {m}]
  <2>2. v.rqueue = w.rqueue /\ v.out = w.out
    BY <1>1 DEF AgentType
  <2>3. Step(n, v, {})
    BY <2>1 DEF RecvHello
  <2>4. sent' = sent /\ delivered' = delivered
    BY <2>1 DEF RecvHello, Event
  <2> HIDE DEF v
  <2> QED
    BY <1>2, <2>2, <2>3, <2>4
<1> QED
  BY <1>3, <1>4, <1>5

\* A list of all of a finite set names nothing twice.
LEMMA ListedOnce ==
  ASSUME NEW S, IsFiniteSet(S), NEW order \in SetToSeqs(S)
  PROVE  \A i, j \in 1 .. Cardinality(S) : order[i] = order[j] => i = j
BY DEF SetToSeqs

\* nb_delete salvages what is in the interface queue, each packet once.
LEMMA NbPurgeOnce ==
  ASSUME Inv, Once, Inv', NEW n \in Node, NEW id \in Node, NbPurge(n, id)
  PROVE  Once'
<1> DEFINE a == node[n]
           w == [a EXCEPT !.seqno = @ + 2, !.nb = @ \ {id}, !.distrusted = @ \ {id}]
           v == handle_link_failure(n, w, id)
<1>1. /\ Event("neighbor")
      /\ \E ifq \in SUBSET {pk \in net : /\ pk.from = n /\ pk.to = id
                                         /\ pk.msg.type \in {"DATA", "RREP"}} :
           \E order \in SetToSeqs({pk.msg : pk \in {k \in ifq : k.msg.type = "DATA"}}) :
             Step(n, ForwardAll(n, n, v, order), ifq)
  BY Zenon DEF NbPurge
<1>2. PICK ifq \in SUBSET net :
        \E order \in SetToSeqs({pk.msg : pk \in {k \in ifq : k.msg.type = "DATA"}}) :
          Step(n, ForwardAll(n, n, v, order), ifq)
  <2> HIDE DEF v
  <2> QED
    BY <1>1
<1> DEFINE S == {pk.msg : pk \in {k \in ifq : k.msg.type = "DATA"}}
<1>3. PICK order \in SetToSeqs(S) : Step(n, ForwardAll(n, n, v, order), ifq)
  BY <1>2, Zenon
<1>4. S \subseteq DataType
  BY PacketFields DEF Inv, Typed
<1>5. IsFiniteSet(S)
  BY <1>4, DataFinite, FS_Subset
<1>6. \A p \in S : InNet(p.no) /\ \E pk \in ifq : Carries(pk, p.no)
  BY DEF InNet, Carries
<1>7. \A p, q \in S : p.no = q.no => p = q
  <2> SUFFICES ASSUME NEW pk \in ifq, NEW qk \in ifq, pk.msg.type = "DATA", qk.msg.type = "DATA",
                      pk.msg.no = qk.msg.no
               PROVE  pk.msg = qk.msg
    OBVIOUS
  <2>1. pk \in net /\ qk \in net /\ Carries(pk, pk.msg.no) /\ Carries(qk, pk.msg.no)
    BY DEF Carries
  <2> QED
    BY <2>1, Zenon DEF Once
<1> HIDE DEF S
<1> DEFINE k == Cardinality(S)
<1>8. /\ k \in Nat /\ order \in [1 .. k -> S] /\ order \in [1 .. k -> DataType]
      /\ \A i, j \in 1 .. k : order[i] = order[j] => i = j
  BY <1>4, <1>5, ListedSet, ListedOnce
<1> HIDE DEF k
<1>9. \A i, j \in 1 .. k : order[i].no = order[j].no => i = j
  BY <1>7, <1>8
<1>10. sent' = sent /\ delivered' = delivered /\ sent' \in Nat /\ sent' >= sent
  BY <1>1 DEF Event, Inv, Typed
<1>11. /\ Whole(a) /\ a \in AgentType /\ Single(a) /\ a.out = {}
       /\ \A no : Has(a, no) => Keeps(node[n], no) /\ ~InNet(no)
  BY HasNode, NodeFacts DEF Inv
<1> HIDE DEF a
<1>12. /\ w \in AgentType /\ w.rt = a.rt /\ w.out = {} /\ w.rqueue = a.rqueue
       /\ w.tries = a.tries /\ w.bid = a.bid
  <2>1. a.seqno + 2 \in Nat
    BY <1>11 DEF AgentType
  <2> QED
    BY <1>11, <2>1 DEF AgentType
<1> HIDE DEF w
<1>13. Whole(w)
  BY <1>11, <1>12 DEF Whole
<1>14. Whole(v)
  BY <1>12, <1>13, LinkFailureAgent
<1>15. Conserves(a, v)
  <2>1. Conserves(a, w)
    BY <1>11, <1>12, SilentConserves
  <2>2. Conserves(w, v)
    BY <1>13, ReportConserves DEF handle_link_failure
  <2> QED
    BY <2>1, <2>2, ConservesOn
<1> HIDE DEF v
<1>16. Single(v) /\ \A no : Has(v, no) => Keeps(node[n], no) /\ ~InNet(no)
  BY <1>11, <1>15 DEF Conserves
<1>17. \A i \in 1 .. k : ~Has(v, order[i].no)
  BY <1>6, <1>8, <1>16
<1> DEFINE u == ForwardAll(n, n, v, order)
<1>18. /\ Single(u)
       /\ \A no : Has(u, no) => Has(v, no) \/ \E i \in 1 .. k : order[i].no = no
  BY <1>8, <1>9, <1>14, <1>16, <1>17, ForwardAllSingle
<1>19. Step(n, u, ifq)
  BY <1>3
<1> HIDE DEF u
<1>20. \A no : Has(u, no) => Keeps(node[n], no) \/ \E pk \in ifq : Carries(pk, no)
  BY <1>6, <1>8, <1>16, <1>18
<1> QED
  BY <1>10, <1>18, <1>19, <1>20, OnceStep

\* A packet lost is not there twice.
LEMMA LoseOnce ==
  ASSUME Inv, Once, Lose
  PROVE  Once'
<1>1. sent' = sent /\ delivered' = delivered /\ node' = node /\ net' \subseteq net
  BY DEF Lose, Event
<1>2. \A no : InNet(no)' => InNet(no)
  BY <1>1 DEF InNet
<1> QED
  BY <1>1, <1>2 DEF Once

\* At first there are no packets.
LEMMA InitOnce == Init => Once
<1> SUFFICES ASSUME Init PROVE Once
  OBVIOUS
<1>1. \A n \in Node : /\ node[n].rqueue = [d \in Node |-> << >>] /\ node[n].out = {}
  BY DEF Init, NewAgent
<1>2. \A n \in Node : \A d \in Node : 1 .. Len(node[n].rqueue[d]) = {}
  BY <1>1
<1>3. \A n \in Node : \A no : ~Keeps(node[n], no) /\ ~Sends(node[n], no)
  BY <1>1, <1>2 DEF Keeps, Sends
<1>4. \A n \in Node : Single(node[n])
  BY <1>1, <1>2, <1>3 DEF Single
<1>5. net = {} /\ delivered = {}
  BY DEF Init
<1> QED
  BY <1>3, <1>4, <1>5 DEF Once, InNet

\* Every step keeps each packet in one place.
LEMMA NextOnce ==
  ASSUME Inv, Once, [Next]_vars
  PROVE  Once'
<1>1. Inv'
  BY NextInv
<1>2. ASSUME NEW n \in Node, Receive(n) PROVE Once'
  BY <1>1, <1>2, RecvRequestOnce, RecvReplyOnce, RecvErrorOnce, RecvPtaOnce, RecvDataOnce
  DEF Receive
<1>3. ASSUME UNCHANGED vars PROVE Once'
  BY <1>3 DEF vars, Once, InNet
<1> QED
  BY <1>1, <1>2, <1>3, RtPurgeOnce, QuietOnce, NbPurgeOnce, AppSendOnce, LoseOnce DEF Next

\* A packet of data is in one place only, whatever is flushed, salvaged or given up.
THEOREM OnePlace == Spec => []OneCopy
<1>1. Inv /\ Once => OneCopy
  <2> SUFFICES ASSUME Inv, Once, NEW no \in 0 .. sent
               PROVE  Cardinality(InFlight(no)) + Cardinality(Buffered(no))
                        + (IF no \in delivered THEN 1 ELSE 0) <= 1
    BY Zenon DEF OneCopy
  <2>1. \/ InFlight(no) = {} /\ ~InNet(no)
        \/ InNet(no) /\ \E x : InFlight(no) = {x}
    <3>1. \A x, y \in InFlight(no) : x = y
      BY DEF InFlight, Once, Carries
    <3>2. InFlight(no) # {} <=> InNet(no)
      BY DEF InFlight, InNet, Carries
    <3> QED
      BY <3>1, <3>2
  <2>2. \A x \in Buffered(no) : Keeps(node[x[1]], no) /\ x[1] \in Node
    <3> SUFFICES ASSUME NEW x \in Buffered(no)
                 PROVE  Keeps(node[x[1]], no) /\ x[1] \in Node
      OBVIOUS
    <3> DEFINE q == node[x[1]].rqueue[x[2]]
    <3>1. x[1] \in Node /\ x[2] \in Node /\ x[3] \in DOMAIN q /\ q[x[3]].no = no
      BY DEF Buffered
    <3>2. q \in Seq(DataType)
      BY <3>1, NodeFacts DEF Inv, AgentType
    <3>3. x[3] \in 1 .. Len(q)
      <4>1. x[3] \in DOMAIN q
        BY <3>1
      <4> HIDE DEF q
      <4> QED
        BY <3>2, <4>1
    <3> QED
      BY <3>1, <3>3 DEF Keeps
  <2>3. Buffered(no) = {} \/ \E x : Buffered(no) = {x}
    <3> SUFFICES ASSUME NEW x \in Buffered(no), NEW y \in Buffered(no)
                 PROVE  x = y
      OBVIOUS
    <3> DEFINE q == node[x[1]].rqueue[x[2]]
               r == node[y[1]].rqueue[y[2]]
    <3>1. /\ x \in Node \X Node \X (1 .. MaxData) /\ x[3] \in DOMAIN q /\ q[x[3]].no = no
          /\ y \in Node \X Node \X (1 .. MaxData) /\ y[3] \in DOMAIN r /\ r[y[3]].no = no
      BY DEF Buffered
    <3>2. x[1] = y[1]
      BY <2>2 DEF Once
    <3>3. q \in Seq(DataType) /\ r \in Seq(DataType)
      BY <3>1, NodeFacts DEF Inv, AgentType
    <3>4. x[3] \in 1 .. Len(q) /\ y[3] \in 1 .. Len(r)
      BY <3>1, <3>3
    <3>5. x[2] = y[2] /\ x[3] = y[3]
      <4>1. Single(node[x[1]]) /\ x[2] \in Node /\ y[2] \in Node
        BY <3>1, HasNode
      <4> QED
        BY <3>1, <3>2, <3>4, <4>1 DEF Single
    <3> QED
      BY <3>1, <3>2, <3>5
  <2>4. /\ Cardinality({}) = 0
        /\ \A x : Cardinality({x}) = 1
    BY FS_EmptySet, FS_Singleton
  <2>5. CASE InNet(no)
    <3>1. Buffered(no) = {} /\ no \notin delivered
      BY <2>2, <2>5 DEF Once
    <3>2. Cardinality(InFlight(no)) = 1
      BY <2>1, <2>4, <2>5
    <3> QED
      BY <2>4, <3>1, <3>2
  <2>6. CASE ~InNet(no)
    <3>1. Cardinality(InFlight(no)) = 0
      BY <2>1, <2>4, <2>6
    <3>2. CASE no \in delivered
      <4>1. Buffered(no) = {}
        BY <2>2, <3>2 DEF Once
      <4> QED
        BY <2>4, <3>1, <3>2, <4>1
    <3>3. CASE no \notin delivered
      <4>1. Cardinality(Buffered(no)) \in {0, 1}
        BY <2>3, <2>4
      <4> QED
        BY <3>1, <3>3, <4>1
    <3> QED
      BY <3>2, <3>3
  <2> QED
    BY <2>5, <2>6
<1>2. Inv /\ Once /\ [Next]_vars => Once'
  BY NextOnce
<1> QED
  BY <1>1, <1>2, InvHeld, InitOnce, PTL DEF Spec
=============================================================================
