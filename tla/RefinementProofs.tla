------------------------- MODULE RefinementProofs -------------------------
(***************************************************************************)
(* Every entry of every agent of Teaomdv behaves as RouteEntry says,       *)
(* whatever a handler calls, for any network; and what follows from that   *)
(* step: an advertised hop count is final, and no RERR names more          *)
(* destinations than there are other nodes.                                *)
(*                                                                         *)
(* The lemmas Bare... are about entries as RouteEntry sees them.           *)
(* EntryStep is what RouteEntry lets happen to one; Conforms(n, w) is what *)
(* the handlers of node n make sure of the agent w they leave, and         *)
(* ConformStep shows it is enough.                                         *)
(***************************************************************************)
EXTENDS TeaomdvProofs, TeaomdvRefinement

-----------------------------------------------------------------------------
(* Bare entries. *)

\* A path, bare: what RouteEntry knows of it.
WayType == [nexthop : Node, hopcount : Nat, lasthop : Node]

\* The bare list of a list of paths.
LEMMA BareList ==
  ASSUME NEW s \in Seq(PathType)
  PROVE  /\ BarePaths(s) \in Seq(WayType) /\ Len(BarePaths(s)) = Len(s)
         /\ DOMAIN BarePaths(s) = 1 .. Len(s)
         /\ \A i \in 1 .. Len(s) : /\ BarePaths(s)[i] = BarePath(s[i])
                                   /\ BarePaths(s)[i].nexthop = s[i].nexthop
                                   /\ BarePaths(s)[i].hopcount = s[i].hopcount
                                   /\ BarePaths(s)[i].lasthop = s[i].lasthop
<1> DEFINE t == BarePaths(s)
<1>1. Len(s) \in Nat /\ DOMAIN s = 1 .. Len(s) /\ \A i \in 1 .. Len(s) : s[i] \in PathType
  BY ElementOfSeq
<1>2. t = [i \in 1 .. Len(s) |-> BarePath(s[i])]
  BY <1>1 DEF BarePaths
<1>3. \A i \in 1 .. Len(s) : BarePath(s[i]) \in WayType
  BY <1>1 DEF BarePath, WayType, PathType
<1>4. t \in Seq(WayType) /\ Len(t) = Len(s)
  <2> HIDE DEF t
  <2> QED
    BY <1>1, <1>2, <1>3
<1>5. DOMAIN t = 1 .. Len(s) /\ \A i \in 1 .. Len(s) : t[i] = BarePath(s[i])
  BY <1>2
<1> HIDE DEF t
<1>6. \A i \in 1 .. Len(s) : /\ t[i].nexthop = s[i].nexthop
                             /\ t[i].hopcount = s[i].hopcount
                             /\ t[i].lasthop = s[i].lasthop
  BY <1>5 DEF BarePath
<1> QED
  BY <1>4, <1>5, <1>6 DEF t

\* A list whose elements are those of the bare list is the bare list.
LEMMA BareListIs ==
  ASSUME NEW s \in Seq(PathType), NEW S, NEW t \in Seq(S), Len(t) = Len(s),
         \A i \in 1 .. Len(s) : t[i] = BarePath(s[i])
  PROVE  t = BarePaths(s)
<1>1. BarePaths(s) \in Seq(WayType) /\ Len(BarePaths(s)) = Len(s)
      /\ \A i \in 1 .. Len(s) : BarePaths(s)[i] = BarePath(s[i])
  BY BareList
<1> DEFINE u == BarePaths(s)
<1> HIDE DEF u
<1>2. /\ t = [i \in 1 .. Len(s) |-> t[i]]
      /\ u = [i \in 1 .. Len(s) |-> u[i]]
  BY <1>1 DEF u
<1>3. \A i \in 1 .. Len(s) : t[i] = u[i]
  BY <1>1 DEF u
<1> QED
  BY <1>2, <1>3 DEF u

\* Lists that agree on next hops, hop counts and last hops are the same, bare.
LEMMA BareListSame ==
  ASSUME NEW s \in Seq(PathType), NEW t \in Seq(PathType), Len(s) = Len(t),
         \A i \in 1 .. Len(s) : /\ s[i].nexthop = t[i].nexthop
                                /\ s[i].hopcount = t[i].hopcount
                                /\ s[i].lasthop = t[i].lasthop
  PROVE  BarePaths(s) = BarePaths(t)
<1>1. \A i \in 1 .. Len(t) : BarePath(s[i]) = BarePath(t[i])
  BY DEF BarePath
<1>2. /\ BarePaths(s) \in Seq(WayType) /\ Len(BarePaths(s)) = Len(s)
      /\ \A i \in 1 .. Len(s) : BarePaths(s)[i] = BarePath(s[i])
  BY BareList
<1>3. \A i \in 1 .. Len(t) : BarePaths(s)[i] = BarePath(t[i])
  BY <1>1, <1>2
<1> QED
  BY <1>2, <1>3, BareListIs

\* Appending a path, taking one out, and the list of one path.
LEMMA BareAppend ==
  ASSUME NEW s \in Seq(PathType), NEW p \in PathType
  PROVE  Append(BarePaths(s), BarePath(p)) = BarePaths(Append(s, p))
<1> DEFINE u == Append(s, p)
           t == Append(BarePaths(s), BarePath(p))
<1>1. u \in Seq(PathType) /\ Len(u) = Len(s) + 1 /\ Len(s) \in Nat
      /\ \A i \in 1 .. Len(s) + 1 : u[i] = IF i <= Len(s) THEN s[i] ELSE p
  OBVIOUS
<1>2. /\ BarePaths(s) \in Seq(WayType) /\ Len(BarePaths(s)) = Len(s)
      /\ \A i \in 1 .. Len(s) : BarePaths(s)[i] = BarePath(s[i])
  BY BareList
<1>3. BarePath(p) \in WayType
  BY DEF BarePath, WayType, PathType
<1>4. t \in Seq(WayType) /\ Len(t) = Len(s) + 1
      /\ \A i \in 1 .. Len(s) + 1 : t[i] = IF i <= Len(s) THEN BarePaths(s)[i] ELSE BarePath(p)
  BY <1>1, <1>2, <1>3
<1> HIDE DEF t, u
<1>5. \A i \in 1 .. Len(u) : t[i] = BarePath(u[i])
  BY <1>1, <1>2, <1>4
<1>6. t = BarePaths(u)
  BY <1>1, <1>4, <1>5, BareListIs
<1> QED
  BY <1>6 DEF t, u

\* A list with one path less.
LEMMA BareRemoveAt ==
  ASSUME NEW s \in Seq(PathType), NEW k \in 1 .. Len(s)
  PROVE  RemoveAt(BarePaths(s), k) = BarePaths(RemoveAt(s, k))
<1> DEFINE b == BarePaths(s)
           u == RemoveAt(s, k)
           t == RemoveAt(b, k)
<1>1. /\ b \in Seq(WayType) /\ Len(b) = Len(s)
      /\ \A i \in 1 .. Len(s) : b[i] = BarePath(s[i])
  BY BareList
<1>2. /\ u \in Seq(PathType) /\ Len(u) = Len(s) - 1
      /\ \A i \in 1 .. Len(s) - 1 : u[i] = IF i < k THEN s[i] ELSE s[i + 1]
  BY RemoveAtList
<1> HIDE DEF b
<1>3. k \in 1 .. Len(b)
  BY <1>1
<1>4. /\ t \in Seq(WayType) /\ Len(t) = Len(b) - 1
      /\ \A i \in 1 .. Len(b) - 1 : t[i] = IF i < k THEN b[i] ELSE b[i + 1]
  BY <1>1, <1>3, RemoveAtList
<1> HIDE DEF t, u
<1>5. \A i \in 1 .. Len(u) : t[i] = BarePath(u[i])
  <2> SUFFICES ASSUME NEW i \in 1 .. Len(u) PROVE t[i] = BarePath(u[i])
    OBVIOUS
  <2>1. i \in 1 .. Len(s) - 1 /\ i \in 1 .. Len(s) /\ i + 1 \in 1 .. Len(s)
    BY <1>2
  <2>2. u[i] = (IF i < k THEN s[i] ELSE s[i + 1]) /\ t[i] = (IF i < k THEN b[i] ELSE b[i + 1])
    BY <1>1, <1>2, <1>4, <2>1
  <2>3. b[i] = BarePath(s[i]) /\ b[i + 1] = BarePath(s[i + 1])
    BY <1>1, <2>1
  <2> QED
    BY <2>2, <2>3
<1>6. Len(t) = Len(u)
  BY <1>1, <1>2, <1>4
<1>7. t = BarePaths(u)
  BY <1>2, <1>4, <1>5, <1>6, BareListIs
<1> QED
  BY <1>7 DEF t, u, b

\* The empty list, and a list of one path.
LEMMA BareSingle ==
  /\ BarePaths(<< >>) = << >>
  /\ \A p : BarePaths(<< p >>) = << BarePath(p) >>
  /\ \A s \in Seq(PathType) : BarePaths(s) = << >> <=> s = << >>
<1>1. BarePaths(<< >>) = << >>
  BY DEF BarePaths
<1>2. \A p : BarePaths(<< p >>) = << BarePath(p) >>
  BY DEF BarePaths
<1>3. ASSUME NEW s \in Seq(PathType) PROVE BarePaths(s) = << >> <=> s = << >>
  <2>1. BarePaths(s) \in Seq(WayType) /\ Len(BarePaths(s)) = Len(s)
    BY BareList
  <2> DEFINE b == BarePaths(s)
  <2> HIDE DEF b
  <2>2. (b = << >> <=> Len(b) = 0) /\ (s = << >> <=> Len(s) = 0)
    BY <2>1 DEF b
  <2> QED
    BY <2>1, <2>2 DEF b
<1> QED
  BY <1>1, <1>2, <1>3

-----------------------------------------------------------------------------
\* A bare entry.
BareType == [seqno : Nat, adv : Nat, paths : Seq(WayType), up : BOOLEAN, highest : Nat]

\* The fields of a bare entry.
LEMMA BareFields ==
  ASSUME NEW e \in EntryType
  PROVE  /\ Bare(e) \in BareType
         /\ Bare(e).seqno = e.seqno /\ Bare(e).adv = e.adv /\ Bare(e).up = e.up
         /\ Bare(e).highest = e.highest /\ Bare(e).paths = BarePaths(e.paths)
         /\ Bare(e).seqno \in Nat /\ Bare(e).adv \in Nat /\ Bare(e).up \in BOOLEAN
         /\ Bare(e).highest \in Nat /\ Bare(e).paths \in Seq(WayType)
         /\ Len(Bare(e).paths) = Len(e.paths) /\ DOMAIN Bare(e).paths = 1 .. Len(e.paths)
<1>1. /\ e.seqno \in Nat /\ e.adv \in Nat /\ e.highest \in Nat /\ e.up \in BOOLEAN
      /\ e.paths \in Seq(PathType)
  BY EntryFields
<1>2. BarePaths(e.paths) \in Seq(WayType) /\ Len(BarePaths(e.paths)) = Len(e.paths)
      /\ DOMAIN BarePaths(e.paths) = 1 .. Len(e.paths)
  BY <1>1, BareList
<1> QED
  BY <1>1, <1>2 DEF Bare, BareType

\* What is looked up among the paths is found there alike.
LEMMA BareLookups ==
  ASSUME NEW e \in EntryType
  PROVE  /\ path_empty(Bare(e)) <=> path_empty(e)
         /\ \A id : path_lookup(Bare(e), id) <=> path_lookup(e, id)
         /\ \A a, b : disjoint_path_lookup(Bare(e), a, b) <=> disjoint_path_lookup(e, a, b)
         /\ \A a, b : new_disjoint_path(Bare(e), a, b) <=> new_disjoint_path(e, a, b)
         /\ Hops(Bare(e)) = Hops(e)
<1> DEFINE s == e.paths
           b == Bare(e).paths
<1>1. /\ s \in Seq(PathType) /\ DOMAIN s = 1 .. Len(s)
      /\ b = BarePaths(s) /\ DOMAIN b = 1 .. Len(s)
  BY BareFields, PathOf
<1>2. \A i \in 1 .. Len(s) : /\ b[i].nexthop = s[i].nexthop
                             /\ b[i].hopcount = s[i].hopcount
                             /\ b[i].lasthop = s[i].lasthop
  BY <1>1, BareList
<1>3. b = << >> <=> s = << >>
  BY <1>1, BareSingle
<1> HIDE DEF s, b
<1>4. path_empty(Bare(e)) <=> path_empty(e)
  BY <1>3 DEF path_empty, s, b
<1>5. \A id : path_lookup(Bare(e), id) <=> path_lookup(e, id)
  <2>1. \A id : (\E i \in DOMAIN b : b[i].nexthop = id) <=> (\E i \in DOMAIN s : s[i].nexthop = id)
    BY <1>1, <1>2
  <2> QED
    BY <2>1 DEF path_lookup, s, b
<1>6. \A x, y : disjoint_path_lookup(Bare(e), x, y) <=> disjoint_path_lookup(e, x, y)
  <2>1. \A x, y : (\E i \in DOMAIN b : b[i].nexthop = x /\ b[i].lasthop = y)
                  <=> (\E i \in DOMAIN s : s[i].nexthop = x /\ s[i].lasthop = y)
    BY <1>1, <1>2
  <2> QED
    BY <2>1 DEF disjoint_path_lookup, s, b
<1>7. \A x, y : new_disjoint_path(Bare(e), x, y) <=> new_disjoint_path(e, x, y)
  <2>1. \A x, y : (\A i \in DOMAIN b : b[i].nexthop # x /\ b[i].lasthop # y)
                  <=> (\A i \in DOMAIN s : s[i].nexthop # x /\ s[i].lasthop # y)
    BY <1>1, <1>2
  <2> QED
    BY <2>1 DEF new_disjoint_path, s, b
<1>8. Hops(Bare(e)) = Hops(e)
  <2>1. {b[i].hopcount : i \in DOMAIN b} = {s[i].hopcount : i \in DOMAIN s}
    BY <1>1, <1>2
  <2> QED
    BY <2>1 DEF Hops, s, b
<1> QED
  BY <1>4, <1>5, <1>6, <1>7, <1>8

\* The longest and the shortest path are as long.
LEMMA BareHopcounts ==
  ASSUME NEW e \in EntryType
  PROVE  /\ path_get_max_hopcount(Bare(e)) = path_get_max_hopcount(e)
         /\ path_get_min_hopcount(Bare(e)) = path_get_min_hopcount(e)
<1> DEFINE Greatest(H) == CHOOSE h \in H : \A k \in H : k <= h
           Least(H) == CHOOSE h \in H \cup {INFINITY2} : \A k \in H \cup {INFINITY2} : h <= k
<1>1. /\ path_get_max_hopcount(e) = IF path_empty(e) THEN INFINITY2 ELSE Greatest(Hops(e))
      /\ path_get_max_hopcount(Bare(e)) =
           IF path_empty(Bare(e)) THEN INFINITY2 ELSE Greatest(Hops(Bare(e)))
  BY Zenon DEF path_get_max_hopcount
<1>2. /\ path_get_min_hopcount(e) = Least(Hops(e))
      /\ path_get_min_hopcount(Bare(e)) = Least(Hops(Bare(e)))
  BY Zenon DEF path_get_min_hopcount
<1> HIDE DEF Greatest, Least
<1>3. Hops(Bare(e)) = Hops(e) /\ (path_empty(Bare(e)) <=> path_empty(e))
  BY BareLookups
<1> QED
  BY <1>1, <1>2, <1>3

\* The first path over a next hop is at the same place.
LEMMA BareFirstVia ==
  ASSUME NEW e \in EntryType, NEW id, path_lookup(e, id)
  PROVE  FirstVia(Bare(e), id) = FirstVia(e, id)
<1> DEFINE s == e.paths
           b == Bare(e).paths
           T == {i \in DOMAIN s : s[i].nexthop = id}
<1>1. /\ s \in Seq(PathType) /\ DOMAIN s = 1 .. Len(s) /\ Len(s) \in Nat
      /\ b = BarePaths(s) /\ DOMAIN b = 1 .. Len(s)
  BY BareFields, PathOf
<1>2. \A i \in 1 .. Len(s) : b[i].nexthop = s[i].nexthop
  BY <1>1, BareList
<1> HIDE DEF s, b
<1>3. T # {} /\ T \subseteq Nat
  BY <1>1 DEF path_lookup, s
<1>4. PICK k \in T : \A j \in T : k <= j
  <2> HIDE DEF T
  <2> QED
    BY <1>3, Purging!Smallest
<1>5. \A i \in DOMAIN s :
        (s[i].nexthop = id /\ \A j \in 1 .. i - 1 : s[j].nexthop # id) <=> i = k
  <2> SUFFICES ASSUME NEW i \in DOMAIN s
               PROVE  (s[i].nexthop = id /\ \A j \in 1 .. i - 1 : s[j].nexthop # id) <=> i = k
    OBVIOUS
  <2>1. ASSUME s[i].nexthop = id, \A j \in 1 .. i - 1 : s[j].nexthop # id PROVE i = k
    <3>1. i \in T /\ k <= i /\ k \in Nat /\ k >= 1 /\ s[k].nexthop = id
      BY <1>1, <1>4, <2>1
    <3> QED
      BY <1>1, <2>1, <3>1
  <2>2. ASSUME i = k PROVE s[i].nexthop = id /\ \A j \in 1 .. i - 1 : s[j].nexthop # id
    <3>1. \A j \in 1 .. k - 1 : j \in DOMAIN s /\ ~(k <= j)
      BY <1>1, <1>4
    <3> QED
      BY <1>4, <2>2, <3>1
  <2> QED
    BY <2>1, <2>2
<1>6. \A i \in DOMAIN b :
        (b[i].nexthop = id /\ \A j \in 1 .. i - 1 : b[j].nexthop # id) <=> i = k
  <2> SUFFICES ASSUME NEW i \in DOMAIN s
               PROVE  (b[i].nexthop = id /\ \A j \in 1 .. i - 1 : b[j].nexthop # id) <=> i = k
    BY <1>1
  <2>1. \A j \in 1 .. i - 1 : j \in 1 .. Len(s)
    BY <1>1
  <2>2. (b[i].nexthop = id /\ \A j \in 1 .. i - 1 : b[j].nexthop # id)
        <=> (s[i].nexthop = id /\ \A j \in 1 .. i - 1 : s[j].nexthop # id)
    BY <1>1, <1>2, <2>1
  <2> QED
    BY <1>5, <2>2
<1>7. k \in DOMAIN s /\ k \in DOMAIN b
  BY <1>1, <1>4
<1>8. FirstVia(e, id) = k
  <2>1. FirstVia(e, id) = CHOOSE i \in DOMAIN s :
                            s[i].nexthop = id /\ \A j \in 1 .. i - 1 : s[j].nexthop # id
    BY Zenon DEF FirstVia, s
  <2> QED
    BY <1>5, <1>7, <2>1
<1>9. FirstVia(Bare(e), id) = k
  <2>1. FirstVia(Bare(e), id) = CHOOSE i \in DOMAIN b :
                            b[i].nexthop = id /\ \A j \in 1 .. i - 1 : b[j].nexthop # id
    BY Zenon DEF FirstVia, b
  <2> QED
    BY <1>6, <1>7, <2>1
<1> QED
  BY <1>8, <1>9

-----------------------------------------------------------------------------
(* What is done to an entry is done to the bare entry. *)

\* A bare entry is told by its fields.
LEMMA BareIs ==
  ASSUME NEW r, NEW b \in BareType, b.seqno = r.seqno, b.adv = r.adv, b.up = r.up,
         b.highest = r.highest, b.paths = BarePaths(r.paths)
  PROVE  b = Bare(r)
BY DEF Bare, BareType

\* An entry with other paths, or another number.
LEMMA BareWithPaths ==
  ASSUME NEW e \in EntryType, NEW t \in Seq(PathType)
  PROVE  /\ [Bare(e) EXCEPT !.paths = BarePaths(t)] = Bare([e EXCEPT !.paths = t])
         /\ [e EXCEPT !.paths = t] \in EntryType /\ [e EXCEPT !.paths = t].paths = t
BY DEF Bare, EntryType

\* An entry with another number.
LEMMA BareWithSeqno ==
  ASSUME NEW e \in EntryType, NEW s \in Nat
  PROVE  /\ [Bare(e) EXCEPT !.seqno = s] = Bare([e EXCEPT !.seqno = s])
         /\ [e EXCEPT !.seqno = s] \in EntryType
BY DEF Bare, EntryType

\* An entry with another advertised hop count.
LEMMA BareWithAdv ==
  ASSUME NEW e \in EntryType, NEW a \in Nat
  PROVE  /\ [Bare(e) EXCEPT !.adv = a] = Bare([e EXCEPT !.adv = a])
         /\ [e EXCEPT !.adv = a] \in EntryType
BY DEF Bare, EntryType

\* An entry that has heard of another number.
LEMMA BareWithHighest ==
  ASSUME NEW e \in EntryType, NEW h \in Nat
  PROVE  /\ [Bare(e) EXCEPT !.highest = h] = Bare([e EXCEPT !.highest = h])
         /\ [e EXCEPT !.highest = h] \in EntryType
BY DEF Bare, EntryType

\* An entry that is down, or up with a new number.
LEMMA BareGone ==
  ASSUME NEW e \in EntryType
  PROVE  /\ [Bare(e) EXCEPT !.up = FALSE, !.adv = INFINITY, !.paths = << >>]
              = Bare([e EXCEPT !.up = FALSE, !.adv = INFINITY, !.paths = << >>])
         /\ [e EXCEPT !.up = FALSE, !.adv = INFINITY, !.paths = << >>] \in EntryType
<1> DEFINE b == [Bare(e) EXCEPT !.up = FALSE, !.adv = INFINITY, !.paths = << >>]
           r == [e EXCEPT !.up = FALSE, !.adv = INFINITY, !.paths = << >>]
<1>1. /\ << >> \in Seq(PathType) /\ << >> \in Seq(WayType) /\ INFINITY \in Nat
      /\ BarePaths(<< >>) = << >>
  BY BareSingle DEF INFINITY
<1>2. /\ r \in EntryType /\ r.seqno = e.seqno /\ r.adv = INFINITY /\ r.paths = << >>
      /\ r.up = FALSE /\ r.highest = e.highest
  BY <1>1 DEF EntryType
<1>3. Bare(e) \in BareType /\ Bare(e).seqno = e.seqno /\ Bare(e).highest = e.highest
  BY BareFields
<1>4. /\ b \in BareType /\ b.seqno = e.seqno /\ b.adv = INFINITY /\ b.paths = << >>
      /\ b.up = FALSE /\ b.highest = e.highest
  BY <1>1, <1>3 DEF BareType
<1> HIDE DEF b, r
<1>5. b = Bare(r)
  BY <1>1, <1>2, <1>4, BareIs
<1> QED
  BY <1>2, <1>5 DEF b, r

\* An entry up over new paths with a new number.
LEMMA BareNew ==
  ASSUME NEW e \in EntryType, NEW t \in Seq(PathType), NEW s \in Nat
  PROVE  /\ [Bare(e) EXCEPT !.seqno = s, !.adv = INFINITY, !.paths = BarePaths(t), !.up = TRUE]
              = Bare([e EXCEPT !.seqno = s, !.adv = INFINITY, !.paths = t, !.up = TRUE])
         /\ [e EXCEPT !.seqno = s, !.adv = INFINITY, !.paths = t, !.up = TRUE] \in EntryType
<1> DEFINE v == BarePaths(t)
           b == [Bare(e) EXCEPT !.seqno = s, !.adv = INFINITY, !.paths = v, !.up = TRUE]
           r == [e EXCEPT !.seqno = s, !.adv = INFINITY, !.paths = t, !.up = TRUE]
<1>1. v \in Seq(WayType) /\ INFINITY \in Nat
  BY BareList DEF INFINITY
<1> HIDE DEF v
<1>2. /\ r \in EntryType /\ r.seqno = s /\ r.adv = INFINITY /\ r.paths = t
      /\ r.up = TRUE /\ r.highest = e.highest
  BY <1>1 DEF EntryType
<1>3. Bare(e) \in BareType /\ Bare(e).highest = e.highest
  BY BareFields
<1>4. /\ b \in BareType /\ b.seqno = s /\ b.adv = INFINITY /\ b.paths = v
      /\ b.up = TRUE /\ b.highest = e.highest
  BY <1>1, <1>3 DEF BareType
<1> HIDE DEF b, r
<1>5. b = Bare(r)
  BY <1>2, <1>4, BareIs DEF v
<1> QED
  BY <1>2, <1>5 DEF b, r, v

\* rt_down, also when the last path is gone, and path_delete.
LEMMA BareDown ==
  ASSUME NEW e \in EntryType
  PROVE  /\ Bare(rt_down(e)) = rt_down(Bare(e)) /\ rt_down(e) \in EntryType
         /\ Bare(DownIfEmpty(e)) = DownIfEmpty(Bare(e)) /\ DownIfEmpty(e) \in EntryType
<1>2. Bare(rt_down(e)) = rt_down(Bare(e)) /\ rt_down(e) \in EntryType
  BY BareGone, BareFields DEF rt_down
<1>3. path_empty(Bare(e)) <=> path_empty(e)
  BY BareLookups
<1> QED
  BY <1>2, <1>3 DEF DownIfEmpty

\* path_delete looks at nothing but next hops.
LEMMA BareDelete ==
  ASSUME NEW e \in EntryType, NEW id
  PROVE  /\ Bare(path_delete(e, id)) = path_delete(Bare(e), id)
         /\ path_delete(e, id) \in EntryType
         /\ \E t \in Seq(PathType) : path_delete(e, id) = [e EXCEPT !.paths = t]
<1>1. path_lookup(Bare(e), id) <=> path_lookup(e, id)
  BY BareLookups
<1>2. CASE ~path_lookup(e, id)
  <2>1. path_delete(e, id) = e /\ path_delete(Bare(e), id) = Bare(e)
    BY <1>1, <1>2 DEF path_delete
  <2>2. e.paths \in Seq(PathType) /\ e = [e EXCEPT !.paths = e.paths]
    BY DEF EntryType
  <2> QED
    BY <2>1, <2>2
<1>3. CASE path_lookup(e, id)
  <2> DEFINE k == FirstVia(e, id)
             t == RemoveAt(e.paths, k)
  <2>1. k \in 1 .. Len(e.paths) /\ e.paths \in Seq(PathType)
    BY <1>3, FirstViaPosition, PathOf
  <2>2. FirstVia(Bare(e), id) = k
    BY <1>3, BareFirstVia
  <2>3. path_delete(e, id) = [e EXCEPT !.paths = t]
    BY <1>3 DEF path_delete
  <2>4. path_delete(Bare(e), id) = [Bare(e) EXCEPT !.paths = RemoveAt(@, k)]
    BY <1>1, <1>3, <2>2 DEF path_delete
  <2>5. path_delete(Bare(e), id) = [Bare(e) EXCEPT !.paths = RemoveAt(BarePaths(e.paths), k)]
    <3>1. Bare(e).paths = BarePaths(e.paths)
      BY BareFields
    <3> QED
      BY <2>4, <3>1
  <2> HIDE DEF k
  <2>6. t \in Seq(PathType)
    BY <2>1, RemoveAtList
  <2>7. RemoveAt(BarePaths(e.paths), k) = BarePaths(t)
    BY <2>1, BareRemoveAt
  <2> HIDE DEF t
  <2> QED
    BY <2>3, <2>5, <2>6, <2>7, BareWithPaths
<1> QED
  BY <1>2, <1>3

\* Learning and advertising.
LEMMA BareAdvertise ==
  ASSUME NEW e \in EntryType
  PROVE  Bare(Advertise(e)) = Advertise(Bare(e)) /\ Advertise(e) \in EntryType
<1> DEFINE m == path_get_max_hopcount(e)
           a == IF e.adv = INFINITY THEN m ELSE e.adv
<1>1. e.adv \in Nat /\ Bare(e).adv = e.adv
  BY BareFields, EntryFields
<1>2. m \in Nat /\ path_get_max_hopcount(Bare(e)) = m
  <2>1. e.paths = << >> => m = INFINITY2
    BY DEF path_get_max_hopcount, path_empty
  <2>2. INFINITY2 \in Nat
    BY DEF INFINITY2
  <2> QED
    BY <2>1, <2>2, MaxHopcount, BareHopcounts
<1> HIDE DEF m
<1>3. a \in Nat
  BY <1>1, <1>2
<1>4. Advertise(e) = [e EXCEPT !.adv = a] /\ Advertise(Bare(e)) = [Bare(e) EXCEPT !.adv = a]
  BY <1>1, <1>2 DEF Advertise, m
<1> HIDE DEF a
<1> QED
  BY <1>3, <1>4, BareWithAdv

\* So does the update rule at next hops, last hops and hop counts.
LEMMA BareLearn ==
  ASSUME NEW e \in EntryType, NEW p \in PathType, NEW s \in Nat
  PROVE  Bare(Learn(e, p, s)) = Learn(Bare(e), BarePath(p), s) /\ Learn(e, p, s) \in EntryType
<1> DEFINE b == Bare(e)
           q == BarePath(p)
<1>1. /\ b.seqno = e.seqno /\ b.adv = e.adv /\ b.paths = BarePaths(e.paths)
      /\ Len(b.paths) = Len(e.paths)
  BY BareFields
<1>2. q.nexthop = p.nexthop /\ q.hopcount = p.hopcount /\ q.lasthop = p.lasthop
  BY DEF BarePath
<1>3. e.paths \in Seq(PathType) /\ << p >> \in Seq(PathType) /\ Append(e.paths, p) \in Seq(PathType)
  BY PathOf
<1> HIDE DEF b, q
<1>4. Fresher(b, s) <=> Fresher(e, s)
  BY <1>1 DEF Fresher
<1>5. Candidate(b, q, s) <=> Candidate(e, p, s)
  BY <1>1, <1>2 DEF Candidate
<1>6. Known(b, q) <=> Known(e, p)
  BY <1>2, BareLookups DEF Known, b
<1>7. Admits(b, q) <=> Admits(e, p)
  <2>1. path_get_min_hopcount(b) = path_get_min_hopcount(e)
    BY BareHopcounts DEF b
  <2>2. new_disjoint_path(b, q.nexthop, q.lasthop) <=> new_disjoint_path(e, p.nexthop, p.lasthop)
    BY <1>2, BareLookups DEF b
  <2> QED
    BY <1>1, <1>2, <2>1, <2>2 DEF Admits, TooLong
<1>8. CASE Fresher(e, s)
  <2> DEFINE one == << p >>
  <2>1. BarePaths(one) = << q >> /\ one \in Seq(PathType)
    BY BareSingle DEF q
  <2>2. /\ Learn(e, p, s) = [e EXCEPT !.seqno = s, !.adv = INFINITY, !.paths = one, !.up = TRUE]
        /\ Learn(b, q, s) = [b EXCEPT !.seqno = s, !.adv = INFINITY, !.paths = BarePaths(one),
                                      !.up = TRUE]
    BY <1>4, <1>8, <2>1 DEF Learn
  <2> HIDE DEF one
  <2>3. /\ [b EXCEPT !.seqno = s, !.adv = INFINITY, !.paths = BarePaths(one), !.up = TRUE]
             = Bare([e EXCEPT !.seqno = s, !.adv = INFINITY, !.paths = one, !.up = TRUE])
        /\ [e EXCEPT !.seqno = s, !.adv = INFINITY, !.paths = one, !.up = TRUE] \in EntryType
    BY <2>1, BareNew DEF b
  <2> QED
    BY <2>2, <2>3 DEF b, q
<1>9. CASE ~Fresher(e, s) /\ Candidate(e, p, s) /\ ~Known(e, p) /\ Admits(e, p)
  <2> DEFINE more == Append(e.paths, p)
  <2>1. BarePaths(more) = Append(BarePaths(e.paths), q) /\ more \in Seq(PathType)
    BY <1>3, BareAppend DEF q
  <2>2. /\ Learn(e, p, s) = [e EXCEPT !.paths = more]
        /\ Learn(b, q, s) = [b EXCEPT !.paths = BarePaths(more)]
    BY <1>1, <1>4, <1>5, <1>6, <1>7, <1>9, <2>1 DEF Learn, path_insert
  <2> HIDE DEF more
  <2>3. /\ [b EXCEPT !.paths = BarePaths(more)] = Bare([e EXCEPT !.paths = more])
        /\ [e EXCEPT !.paths = more] \in EntryType
    BY <2>1, BareWithPaths DEF b
  <2> QED
    BY <2>2, <2>3 DEF b, q
<1>10. CASE ~Fresher(e, s) /\ ~(Candidate(e, p, s) /\ ~Known(e, p) /\ Admits(e, p))
  BY <1>4, <1>5, <1>6, <1>7, <1>10 DEF Learn, b, q
<1> QED
  BY <1>8, <1>9, <1>10

\* A path that a RREP confirms changes only in its trust.
LEMMA BareLearnReply ==
  ASSUME NEW w, NEW e \in EntryType, NEW p \in PathType, NEW s \in Nat, LearnReply(w, e, p, s) \in EntryType
  PROVE  Bare(LearnReply(w, e, p, s)) = Bare(Learn(e, p, s))
<1>1. CASE ~(~Fresher(e, s) /\ Candidate(e, p, s) /\ Known(e, p))
  BY <1>1, Zenon DEF LearnReply
<1>2. CASE ~Fresher(e, s) /\ Candidate(e, p, s) /\ Known(e, p)
  <2> DEFINE q == e.paths
             t == [i \in DOMAIN q |-> Refreshed(w, q[i], p)]
             r == [e EXCEPT !.paths = t]
  <2>1. Learn(e, p, s) = e
    BY <1>2, Zenon DEF Learn
  <2>2. LearnReply(w, e, p, s) = r
    BY <1>2, Zenon DEF LearnReply
  <2>3. q \in Seq(PathType) /\ DOMAIN q = 1 .. Len(q) /\ Len(q) \in Nat
        /\ \A i \in 1 .. Len(q) : q[i] \in PathType
    BY PathOf
  <2> HIDE DEF q
  <2>4. \A i \in 1 .. Len(q) : /\ t[i].nexthop = q[i].nexthop
                               /\ t[i].hopcount = q[i].hopcount
                               /\ t[i].lasthop = q[i].lasthop
    BY <2>3 DEF Refreshed, PathType
  <2>5. DOMAIN t = 1 .. Len(q)
    BY <2>3
  <2> HIDE DEF t
  <2>6. /\ r.paths = t /\ r.seqno = e.seqno /\ r.adv = e.adv /\ r.up = e.up
        /\ r.highest = e.highest
    BY DEF EntryType
  <2> HIDE DEF r
  <2>7. t \in Seq(PathType) /\ Len(t) = Len(q)
    <3>1. t \in Seq(PathType)
      BY <2>2, <2>6, EntryFields
    <3> QED
      BY <2>3, <2>5, <3>1
  <2>8. BarePaths(t) = BarePaths(q)
    BY <2>3, <2>4, <2>7, BareListSame
  <2>9. Bare(r) = Bare(e)
    BY <2>6, <2>8 DEF Bare, q
  <2> QED
    BY <2>1, <2>2, <2>9
<1> QED
  BY <1>1, <1>2

\* The number a lost route gets, and what remains of an entry that has it.
LEMMA LargerNat ==
  ASSUME NEW a \in Nat, NEW b \in Nat
  PROVE  /\ Larger(a, b) \in Nat /\ Larger(a + 1, b) \in Nat
         /\ Larger(a, b) >= a /\ Larger(a, b) >= b /\ Larger(a + 1, b) >= a
BY DEF Larger

\* The link to id is gone.
LEMMA BareLinkFailure ==
  ASSUME NEW e \in EntryType, NEW id
  PROVE  Bare(LinkFailure(e, id)) = LinkFailure(Bare(e), id)
<1> DEFINE d == path_delete(e, id)
           s == Larger(d.seqno + 1, e.highest)
           c == [d EXCEPT !.seqno = s]
           b == path_delete(Bare(e), id)
<1>1. path_lookup(Bare(e), id) <=> path_lookup(e, id)
  BY BareLookups
<1>2. Bare(e).up = e.up /\ Bare(e).highest = e.highest /\ e.highest \in Nat
  BY BareFields, EntryFields
<1>3. Bare(d) = b /\ d \in EntryType
  BY BareDelete
<1>4. d.seqno \in Nat /\ b.seqno = d.seqno /\ (path_empty(b) <=> path_empty(d))
  <2> HIDE DEF d, b
  <2> QED
    BY <1>3, BareFields, EntryFields, BareLookups
<1>5. s \in Nat
  <2> HIDE DEF d
  <2> QED
    BY <1>2, <1>4, LargerNat
<1>6. /\ LinkFailure(e, id) = IF ~(e.up /\ path_lookup(e, id)) THEN e
                              ELSE IF path_empty(d) THEN rt_down(c) ELSE d
      /\ LinkFailure(Bare(e), id) =
           IF ~(e.up /\ path_lookup(e, id)) THEN Bare(e)
           ELSE IF path_empty(b) THEN rt_down([b EXCEPT !.seqno = s]) ELSE b
  <2>1. /\ LinkFailure(e, id) = IF ~(e.up /\ path_lookup(e, id)) THEN e
                                ELSE IF path_empty(d) THEN rt_down(c) ELSE d
        /\ LinkFailure(Bare(e), id) =
             IF ~(Bare(e).up /\ path_lookup(Bare(e), id)) THEN Bare(e)
             ELSE IF path_empty(b)
                  THEN rt_down([b EXCEPT !.seqno = Larger(b.seqno + 1, Bare(e).highest)]) ELSE b
    BY Zenon DEF LinkFailure
  <2> HIDE DEF d, b
  <2> QED
    BY <1>1, <1>2, <1>4, <2>1
<1> HIDE DEF d, s, b
<1>7. c \in EntryType /\ [b EXCEPT !.seqno = s] = Bare(c)
  BY <1>3, <1>5, BareWithSeqno
<1> HIDE DEF c
<1>8. Bare(rt_down(c)) = rt_down(Bare(c))
  BY <1>7, BareDown
<1> QED
  BY <1>3, <1>4, <1>6, <1>7, <1>8

\* A RERR says the destination is lost.
LEMMA BareErrorReceived ==
  ASSUME NEW e \in EntryType, NEW from, NEW s \in Nat
  PROVE  Bare(ErrorReceived(e, from, s)) = ErrorReceived(Bare(e), from, s)
<1> DEFINE h == Larger(e.highest, s)
           f == path_delete(e, from)
           d == [f EXCEPT !.highest = Larger(@, s)]
           c == [d EXCEPT !.seqno = d.highest]
           b == path_delete(Bare(e), from)
           a == [b EXCEPT !.highest = Larger(@, s)]
<1>1. ErrorApplies(Bare(e), from, s) <=> ErrorApplies(e, from, s)
  BY BareLookups, BareFields DEF ErrorApplies
<1>2. f \in EntryType /\ Bare(f) = b /\ b.highest = f.highest
  <2>1. f \in EntryType /\ Bare(f) = b
    BY BareDelete
  <2> HIDE DEF f, b
  <2> QED
    BY <2>1, BareFields
<1>3. /\ ErrorReceived(e, from, s) =
           IF ~ErrorApplies(e, from, s) THEN e
           ELSE IF path_empty(d) THEN rt_down(c) ELSE d
      /\ ErrorReceived(Bare(e), from, s) =
           IF ~ErrorApplies(Bare(e), from, s) THEN Bare(e)
           ELSE IF path_empty(a) THEN rt_down([a EXCEPT !.seqno = a.highest]) ELSE a
  BY Zenon DEF ErrorReceived
<1> HIDE DEF f, b
<1>4. f.highest \in Nat /\ Larger(f.highest, s) \in Nat
  BY <1>2, EntryFields, LargerNat
<1>5. /\ d \in EntryType /\ a = Bare(d)
  <2>1. d = [f EXCEPT !.highest = Larger(f.highest, s)] /\ a = [b EXCEPT !.highest = Larger(f.highest, s)]
    BY <1>2
  <2> QED
    BY <1>2, <1>4, <2>1, BareWithHighest
<1> HIDE DEF d, a
<1>6. /\ d.highest \in Nat /\ a.highest = d.highest /\ (path_empty(a) <=> path_empty(d))
  BY <1>5, BareFields, EntryFields, BareLookups
<1>7. c \in EntryType /\ [a EXCEPT !.seqno = a.highest] = Bare(c)
  BY <1>5, <1>6, BareWithSeqno
<1> HIDE DEF c
<1>8. Bare(rt_down(c)) = rt_down(Bare(c))
  BY <1>7, BareDown
<1> QED
  BY <1>1, <1>3, <1>5, <1>6, <1>7, <1>8

\* A PTA says that the path through last can no longer be trusted.
LEMMA BarePtaReceived ==
  ASSUME NEW e \in EntryType, NEW from, NEW s \in Nat, NEW last
  PROVE  Bare(PtaReceived(e, from, s, last)) = PtaReceived(Bare(e), from, s, last)
<1> DEFINE f == path_delete(e, from)
           d == [f EXCEPT !.highest = Larger(@, s)]
           b == path_delete(Bare(e), from)
           a == [b EXCEPT !.highest = Larger(@, s)]
<1>1. PtaApplies(Bare(e), from, s, last) <=> PtaApplies(e, from, s, last)
  <2>1. ErrorApplies(Bare(e), from, s) <=> ErrorApplies(e, from, s)
    BY BareLookups, BareFields DEF ErrorApplies
  <2>2. ASSUME path_lookup(e, from)
        PROVE  Bare(e).paths[FirstVia(Bare(e), from)].lasthop = e.paths[FirstVia(e, from)].lasthop
    <3>1. FirstVia(Bare(e), from) = FirstVia(e, from) /\ FirstVia(e, from) \in 1 .. Len(e.paths)
      BY <2>2, BareFirstVia, FirstViaPosition
    <3>2. e.paths \in Seq(PathType) /\ Bare(e).paths = BarePaths(e.paths)
      BY EntryFields, BareFields
    <3> QED
      BY <3>1, <3>2, BareList
  <2> QED
    BY <2>1, <2>2 DEF PtaApplies, ErrorApplies
<1>2. f \in EntryType /\ Bare(f) = b /\ b.highest = f.highest
  <2>1. f \in EntryType /\ Bare(f) = b
    BY BareDelete
  <2> HIDE DEF f, b
  <2> QED
    BY <2>1, BareFields
<1>3. /\ PtaReceived(e, from, s, last) =
           IF ~PtaApplies(e, from, s, last) THEN e
           ELSE [DownIfEmpty(d) EXCEPT !.seqno = d.highest]
      /\ PtaReceived(Bare(e), from, s, last) =
           IF ~PtaApplies(Bare(e), from, s, last) THEN Bare(e)
           ELSE [DownIfEmpty(a) EXCEPT !.seqno = a.highest]
  BY Zenon DEF PtaReceived
<1> HIDE DEF f, b
<1>4. f.highest \in Nat /\ Larger(f.highest, s) \in Nat
  BY <1>2, EntryFields, LargerNat
<1>5. /\ d \in EntryType /\ a = Bare(d)
  <2>1. d = [f EXCEPT !.highest = Larger(f.highest, s)] /\ a = [b EXCEPT !.highest = Larger(f.highest, s)]
    BY <1>2
  <2> QED
    BY <1>2, <1>4, <2>1, BareWithHighest
<1> HIDE DEF d, a
<1>6. /\ d.highest \in Nat /\ a.highest = d.highest
      /\ DownIfEmpty(d) \in EntryType /\ DownIfEmpty(a) = Bare(DownIfEmpty(d))
  BY <1>5, BareFields, EntryFields, BareDown
<1>7. [DownIfEmpty(a) EXCEPT !.seqno = a.highest]
        = Bare([DownIfEmpty(d) EXCEPT !.seqno = d.highest])
  BY <1>6, BareWithSeqno
<1> QED
  BY <1>1, <1>3, <1>7

\* Only the paths in t have not expired.
LEMMA BarePurged ==
  ASSUME NEW e \in EntryType, NEW t \in Seq(PathType)
  PROVE  Bare(Purged(e, t)) = Purged(Bare(e), BarePaths(t))
<1> DEFINE d    == [e EXCEPT !.paths = t]
           next == Larger(e.seqno + 1, e.highest)
           s    == IF next % 2 = 0 THEN next + 1 ELSE next
           c    == [d EXCEPT !.seqno = s]
           b    == [Bare(e) EXCEPT !.paths = BarePaths(t)]
<1>1. /\ Purged(e, t) = IF path_empty(d) THEN rt_down(c) ELSE d
      /\ Purged(Bare(e), BarePaths(t)) =
           LET k == Larger(Bare(e).seqno + 1, Bare(e).highest)
           IN  IF path_empty(b) THEN rt_down([b EXCEPT !.seqno = IF k % 2 = 0 THEN k + 1 ELSE k])
               ELSE b
  BY Zenon DEF Purged
<1>2. Bare(e).seqno = e.seqno /\ Bare(e).highest = e.highest /\ e.seqno \in Nat /\ e.highest \in Nat
  BY BareFields, EntryFields
<1>3. next \in Nat
  BY <1>2, LargerNat
<1>4. Purged(Bare(e), BarePaths(t)) = IF path_empty(b) THEN rt_down([b EXCEPT !.seqno = s]) ELSE b
  <2> HIDE DEF b
  <2> QED
    BY <1>1, <1>2
<1> HIDE DEF next
<1>5. s \in Nat
  BY <1>3
<1> HIDE DEF s
<1>6. d \in EntryType /\ b = Bare(d)
  BY BareWithPaths
<1> HIDE DEF d, b
<1>7. path_empty(b) <=> path_empty(d)
  BY <1>6, BareLookups
<1>8. c \in EntryType /\ [b EXCEPT !.seqno = s] = Bare(c)
  BY <1>5, <1>6, BareWithSeqno
<1> HIDE DEF c
<1>9. Bare(rt_down(c)) = rt_down(Bare(c))
  BY <1>8, BareDown
<1> QED
  BY <1>1, <1>4, <1>6, <1>7, <1>8, <1>9

\* Numbers that only go up reach at least as far as there are of them.
LEMMA IncreasingBound ==
  ASSUME NEW k \in Nat, NEW n \in Nat, NEW f \in [1 .. k -> 1 .. n],
         \A i, j \in 1 .. k : i < j => f[i] < f[j]
  PROVE  k <= n
<1> DEFINE T == {i \in 1 .. k : f[i] < i}
<1>1. \A i \in 1 .. k : f[i] \in 1 .. n
  OBVIOUS
<1>2. T = {}
  <2>1. SUFFICES ASSUME T # {} PROVE FALSE
    OBVIOUS
  <2>2. PICK m \in T : \A y \in T : m <= y
    <3>1. T \subseteq Nat
      OBVIOUS
    <3> HIDE DEF T
    <3> QED
      BY <2>1, <3>1, Purging!Smallest
  <2>3. m \in 1 .. k /\ f[m] < m /\ f[m] \in 1 .. n
    BY <1>1, <2>2
  <2>4. m - 1 \in 1 .. k
    BY <2>3
  <2>5. m - 1 \notin T
    BY <2>2, <2>3
  <2>6. f[m - 1] < f[m] /\ f[m - 1] \in 1 .. n
    BY <1>1, <2>3, <2>4
  <2>7. ~(f[m - 1] < m - 1)
    BY <2>4, <2>5
  <2> QED
    BY <2>3, <2>6, <2>7
<1>3. CASE k = 0
  BY <1>3
<1>4. CASE k # 0
  <2>1. k \in 1 .. k
    BY <1>4
  <2>2. f[k] \in 1 .. n /\ ~(f[k] < k)
    BY <1>1, <1>2, <2>1
  <2> QED
    BY <2>2
<1> QED
  BY <1>3, <1>4

\* What path_purge leaves is one of the lists it may leave.
LEMMA BareUnexpired ==
  ASSUME NEW e \in EntryType, NEW gone
  PROVE  /\ Unexpired(e, gone) \in Seq(PathType)
         /\ BarePaths(Unexpired(e, gone)) \in path_purge(Bare(e))
<1> DEFINE t == Unexpired(e, gone)
           s == e.paths
           b == Bare(e)
           k == Len(t)
           n == Len(s)
<1>1. Sublist(t, s, n)
  BY UnexpiredSublist
<1> HIDE DEF t
<1>2. t \in Seq(PathType) /\ k \in Nat /\ n \in Nat
  BY <1>1, PathOf DEF Sublist
<1>3. PICK f \in [1 .. k -> 1 .. n] : /\ \A i \in 1 .. k : t[i] = s[f[i]]
                                      /\ \A i, j \in 1 .. k : i < j => f[i] < f[j]
  BY <1>1 DEF Sublist
<1>4. b.paths = BarePaths(s) /\ DOMAIN b.paths = 1 .. n /\ Len(b.paths) = n /\ s \in Seq(PathType)
  BY BareFields, EntryFields
<1>5. \A i \in 1 .. n : b.paths[i] = BarePath(s[i])
  BY <1>4, BareList
<1> HIDE DEF b, s
<1>6. k \in 0 .. n
  <2> HIDE DEF k, n
  <2>1. k <= n
    BY <1>2, <1>3, IncreasingBound
  <2> QED
    BY <1>2, <2>1
<1>7. BarePaths(t) = [i \in 1 .. k |-> b.paths[f[i]]]
  <2>1. DOMAIN t = 1 .. k
    BY <1>2
  <2>2. BarePaths(t) = [i \in 1 .. k |-> BarePath(t[i])]
    BY <2>1 DEF BarePaths
  <2>3. \A i \in 1 .. k : BarePath(t[i]) = b.paths[f[i]]
    <3>1. \A i \in 1 .. k : f[i] \in 1 .. n
      OBVIOUS
    <3> QED
      BY <1>3, <1>5, <3>1
  <2> QED
    BY <2>2, <2>3
<1> HIDE DEF k, n
<1> DEFINE Kept(l) == { [i \in 1 .. l |-> b.paths[keep[i]]] :
                          keep \in { g \in [1 .. l -> DOMAIN b.paths] :
                                       \A i, j \in 1 .. l : i < j => g[i] < g[j] } }
<1>8. BarePaths(t) \in Kept(k)
  BY <1>3, <1>4, <1>7
<1>9. path_purge(b) = UNION {Kept(l) : l \in 0 .. Len(b.paths)}
  BY Zenon DEF path_purge
<1>10. k \in 0 .. Len(b.paths)
  BY <1>4, <1>6
<1> HIDE DEF Kept
<1>11. BarePaths(t) \in path_purge(b)
  BY <1>8, <1>9, <1>10
<1> QED
  BY <1>2, <1>11 DEF t, b
-----------------------------------------------------------------------------
(* Paths given up one after the other, from the front of the list. *)

\* What is left of a list without its first j paths.
Rest(s, j) == SubSeq(s, j + 1, Len(s))

\* What forward() leaves of a bare entry, up or not, that gives up its first j paths.
Shed(b, j) == IF b.up THEN DownIfEmpty([b EXCEPT !.paths = SubSeq(@, j + 1, Len(@))]) ELSE b

\* c is b after forward() has given up some of its paths.
Sheds(b, c) == \E j \in 0 .. Len(b.paths) : c = Shed(b, j)

\* Giving up paths, and some more.
LEMMA RestOf ==
  ASSUME NEW s \in Seq(WayType), NEW j \in 0 .. Len(s)
  PROVE  /\ Rest(s, j) \in Seq(WayType) /\ Len(Rest(s, j)) = Len(s) - j
         /\ \A i \in 1 .. Len(s) - j : Rest(s, j)[i] = s[j + i]
         /\ Rest(s, 0) = s
         /\ j = Len(s) => Rest(s, j) = << >>
         /\ \A k \in 0 .. Len(s) - j : Rest(Rest(s, j), k) = Rest(s, j + k)
<1>1. Len(s) \in Nat /\ j \in Nat
  OBVIOUS
<1>2. ASSUME NEW i \in 0 .. Len(s)
      PROVE  /\ Rest(s, i) \in Seq(WayType) /\ Len(Rest(s, i)) = Len(s) - i
             /\ \A k \in 1 .. Len(s) - i : Rest(s, i)[k] = s[i + k]
  <2>1. \A k \in i + 1 .. Len(s) : s[k] \in WayType
    BY <1>1
  <2> DEFINE t == SubSeq(s, i + 1, Len(s))
  <2>2. /\ t \in Seq(WayType) /\ Len(t) = IF i + 1 <= Len(s) THEN Len(s) - (i + 1) + 1 ELSE 0
        /\ \A k \in 1 .. Len(s) - (i + 1) + 1 : t[k] = s[i + 1 + k - 1]
    BY <1>1, <2>1, SubSeqProperties
  <2> HIDE DEF t
  <2>3. t \in Seq(WayType) /\ Len(t) = Len(s) - i /\ \A k \in 1 .. Len(s) - i : t[k] = s[i + k]
    BY <1>1, <2>2
  <2> QED
    BY <2>3 DEF t, Rest
<1>3. Rest(s, 0) = s
  BY SubSeqFull DEF Rest
<1>4. j = Len(s) => Rest(s, j) = << >>
  BY <1>1, <1>2
<1>5. ASSUME NEW k \in 0 .. Len(s) - j
      PROVE  Rest(Rest(s, j), k) = Rest(s, j + k)
  <2> DEFINE t == Rest(s, j)
             u == Rest(t, k)
             v == Rest(s, j + k)
  <2>1. /\ t \in Seq(WayType) /\ Len(t) = Len(s) - j
        /\ \A i \in 1 .. Len(s) - j : t[i] = s[j + i]
    BY <1>2
  <2>2. j + k \in 0 .. Len(s)
    BY <1>1
  <2>3. /\ v \in Seq(WayType) /\ Len(v) = Len(s) - (j + k)
        /\ \A i \in 1 .. Len(s) - (j + k) : v[i] = s[j + k + i]
    BY <1>2, <2>2
  <2> HIDE DEF t
  <2>4. /\ u \in Seq(WayType) /\ Len(u) = Len(t) - k
        /\ \A i \in 1 .. Len(t) - k : u[i] = t[k + i]
    <3>1. \A i \in k + 1 .. Len(t) : t[i] \in WayType
      BY <2>1
    <3>2. Len(t) \in Nat /\ k \in Nat /\ k <= Len(t)
      BY <1>1, <2>1
    <3> DEFINE x == SubSeq(t, k + 1, Len(t))
    <3>3. /\ x \in Seq(WayType) /\ Len(x) = IF k + 1 <= Len(t) THEN Len(t) - (k + 1) + 1 ELSE 0
          /\ \A i \in 1 .. Len(t) - (k + 1) + 1 : x[i] = t[k + 1 + i - 1]
      BY <3>1, <3>2, SubSeqProperties
    <3> HIDE DEF x
    <3>4. x \in Seq(WayType) /\ Len(x) = Len(t) - k /\ \A i \in 1 .. Len(t) - k : x[i] = t[k + i]
      BY <3>2, <3>3
    <3> QED
      BY <3>4 DEF x, Rest
  <2> HIDE DEF u, v
  <2>5. Len(u) = Len(v)
    BY <1>1, <2>1, <2>3, <2>4
  <2>6. ASSUME NEW i \in 1 .. Len(u) PROVE u[i] = v[i]
    <3>1. i \in 1 .. Len(t) - k /\ k + i \in 1 .. Len(s) - j /\ i \in 1 .. Len(s) - (j + k)
          /\ j + (k + i) = j + k + i
      BY <1>1, <2>1, <2>4
    <3> QED
      BY <2>1, <2>3, <2>4, <3>1
  <2>7. u = v
    BY <2>3, <2>4, <2>5, <2>6, SeqEqual
  <2> QED
    BY <2>7 DEF u, v, t
<1> QED
  BY <1>2, <1>3, <1>4, <1>5

\* A bare entry that has a path if it is up.
Routed(b) == b \in BareType /\ (b.up => b.paths # << >>)

\* As long as a path is left the entry stays up, then it is down.
LEMMA ShedFields ==
  ASSUME NEW b, Routed(b), NEW j \in 0 .. Len(b.paths)
  PROVE  /\ Routed(Shed(b, j)) /\ Shed(b, j).seqno = b.seqno /\ (Shed(b, j).up => b.up)
         /\ ~b.up => Shed(b, j) = b
         /\ b.up /\ j < Len(b.paths) => /\ Shed(b, j) = [b EXCEPT !.paths = Rest(@, j)]
                                        /\ Shed(b, j).paths = Rest(b.paths, j) /\ Shed(b, j).up
         /\ b.up /\ j = Len(b.paths) =>
              /\ Shed(b, j) = [b EXCEPT !.up = FALSE, !.adv = INFINITY, !.paths = << >>]
              /\ ~Shed(b, j).up
         /\ j = 0 => Shed(b, j) = b
<1> DEFINE s == b.paths
           t == Rest(s, j)
           d == [b EXCEPT !.paths = t]
           c == Shed(b, j)
<1>1. b \in BareType /\ s \in Seq(WayType) /\ Len(s) \in Nat /\ b.up \in BOOLEAN
      /\ (b.up => s # << >>) /\ j \in 0 .. Len(s)
  BY DEF Routed, BareType
<1>2. /\ t \in Seq(WayType) /\ Len(t) = Len(s) - j /\ (j = 0 => t = s)
      /\ (j = Len(s) => t = << >>)
  BY <1>1, RestOf
<1>3. c = IF b.up THEN DownIfEmpty(d) ELSE b
  BY DEF Shed, Rest
<1> HIDE DEF s, t
<1>4. d \in BareType /\ d.paths = t /\ d.up = b.up /\ d.seqno = b.seqno
  BY <1>1, <1>2 DEF BareType
<1>5. d = [b EXCEPT !.paths = t]
  OBVIOUS
<1>6. t = << >> <=> j = Len(s)
  BY <1>1, <1>2
<1>7. CASE ~b.up
  BY <1>1, <1>3, <1>7 DEF Routed, c
<1>8. CASE b.up /\ j < Len(s)
  <2>1. c = d
    <3>1. t # << >>
      BY <1>1, <1>6, <1>8
    <3> QED
      BY <1>3, <1>4, <1>8, <3>1 DEF DownIfEmpty, path_empty
  <2>2. Routed(c) /\ c.seqno = b.seqno /\ c.up /\ c.paths = t
    <3>1. t # << >>
      BY <1>1, <1>6, <1>8
    <3> HIDE DEF c, d
    <3> QED
      BY <1>4, <1>8, <2>1, <3>1 DEF Routed
  <2>3. j = 0 => c = b
    <3>1. j = 0 => d = b
      BY <1>1, <1>2 DEF s, BareType
    <3> QED
      BY <2>1, <3>1
  <2>4. j # Len(s)
    BY <1>1, <1>8
  <2> QED
    BY <1>5, <1>8, <2>1, <2>2, <2>3, <2>4 DEF s, t, c
<1>9. CASE b.up /\ j = Len(s)
  <2> DEFINE g == [b EXCEPT !.up = FALSE, !.adv = INFINITY, !.paths = << >>]
  <2>1. t = << >> /\ j # 0 /\ ~(j < Len(s))
    BY <1>1, <1>2, <1>9
  <2>2. c = [d EXCEPT !.up = FALSE, !.adv = INFINITY, !.paths = << >>]
    BY <1>3, <1>4, <1>9, <2>1 DEF DownIfEmpty, path_empty, rt_down
  <2>3. c = g
    BY <1>1, <2>2 DEF BareType
  <2>4. g \in BareType /\ g.seqno = b.seqno /\ ~g.up
    <3>1. << >> \in Seq(WayType) /\ INFINITY \in Nat
      BY DEF INFINITY
    <3> QED
      BY <1>1, <3>1 DEF BareType
  <2> HIDE DEF g
  <2>5. Routed(c) /\ c.seqno = b.seqno /\ ~c.up
    BY <2>3, <2>4 DEF Routed
  <2> QED
    BY <1>9, <2>1, <2>3, <2>5 DEF s, g, c
<1>10. j < Len(s) \/ j = Len(s)
  BY <1>1
<1> QED
  BY <1>1, <1>7, <1>8, <1>9, <1>10

\* Nothing given up.
LEMMA ShedsNone ==
  ASSUME NEW b, Routed(b)
  PROVE  Sheds(b, b)
<1>1. 0 \in 0 .. Len(b.paths)
  <2>1. b.paths \in Seq(WayType)
    BY DEF Routed, BareType
  <2> QED
    BY <2>1
<1> QED
  BY <1>1, ShedFields DEF Sheds

\* What is kept.
LEMMA ShedsKeep ==
  ASSUME NEW b, Routed(b), NEW c, Sheds(b, c)
  PROVE  Routed(c) /\ c.seqno = b.seqno /\ (c.up => b.up)
<1>1. PICK j \in 0 .. Len(b.paths) : c = Shed(b, j)
  BY DEF Sheds
<1>2. Routed(Shed(b, j)) /\ Shed(b, j).seqno = b.seqno /\ (Shed(b, j).up => b.up)
  BY ShedFields
<1> QED
  BY <1>1, <1>2

\* Giving up paths twice.
LEMMA ShedsTwice ==
  ASSUME NEW b, Routed(b), NEW c, Sheds(b, c), NEW d, Sheds(c, d)
  PROVE  Sheds(b, d)
<1>1. PICK j \in 0 .. Len(b.paths) : c = Shed(b, j)
  BY DEF Sheds
<1>2. PICK k \in 0 .. Len(c.paths) : d = Shed(c, k)
  BY DEF Sheds
<1>3. Routed(c)
  BY ShedsKeep
<1>4. /\ b.paths \in Seq(WayType) /\ Len(b.paths) \in Nat /\ b \in BareType
      /\ c.paths \in Seq(WayType) /\ Len(c.paths) \in Nat /\ c \in BareType
  BY <1>3 DEF Routed, BareType
<1>5. CASE ~c.up
  <2>1. d = c
    BY <1>2, <1>3, <1>5, ShedFields
  <2> QED
    BY <2>1
<1>6. CASE c.up
  <2>1. b.up
    BY <1>1, <1>6, ShedFields
  <2>2. j < Len(b.paths)
    <3>1. j # Len(b.paths)
      BY <1>1, <1>6, <2>1, ShedFields
    <3> QED
      BY <1>4, <3>1
  <2>3. c = [b EXCEPT !.paths = Rest(@, j)] /\ c.paths = Rest(b.paths, j)
    BY <1>1, <2>1, <2>2, ShedFields
  <2>4. Len(c.paths) = Len(b.paths) - j
    BY <1>4, <2>3, RestOf
  <2>5. j + k \in 0 .. Len(b.paths) /\ k \in 0 .. Len(b.paths) - j
    BY <1>4, <2>4
  <2>6. Shed(b, j + k) = d
    <3>1. CASE k < Len(c.paths)
      <4>1. d = [c EXCEPT !.paths = Rest(@, k)]
        BY <1>2, <1>3, <1>6, <3>1, ShedFields
      <4>2. j + k < Len(b.paths)
        BY <1>4, <2>4, <3>1
      <4>3. Shed(b, j + k) = [b EXCEPT !.paths = Rest(@, j + k)]
        BY <2>1, <2>5, <4>2, ShedFields
      <4>4. Rest(c.paths, k) = Rest(b.paths, j + k)
        BY <1>4, <2>3, <2>5, RestOf
      <4>5. d = [c EXCEPT !.paths = Rest(b.paths, j + k)]
        BY <4>1, <4>4
      <4> QED
        BY <1>4, <2>3, <4>3, <4>5 DEF BareType
    <3>2. CASE k = Len(c.paths)
      <4>1. d = [c EXCEPT !.up = FALSE, !.adv = INFINITY, !.paths = << >>]
        BY <1>2, <1>3, <1>6, <3>2, ShedFields
      <4>2. j + k = Len(b.paths)
        BY <1>4, <2>4, <3>2
      <4>3. Shed(b, j + k) = [b EXCEPT !.up = FALSE, !.adv = INFINITY, !.paths = << >>]
        BY <2>1, <2>5, <4>2, ShedFields
      <4> QED
        BY <1>4, <2>3, <4>1, <4>3 DEF BareType
    <3>3. k < Len(c.paths) \/ k = Len(c.paths)
      BY <1>4
    <3> QED
      BY <3>1, <3>2, <3>3
  <2> QED
    BY <2>5, <2>6 DEF Sheds
<1> QED
  BY <1>5, <1>6

\* forward() gives up the first path.
LEMMA BareDistrusted ==
  ASSUME NEW e, Proper(e), e.up
  PROVE  LET r == DownIfEmpty(path_delete(e, path_find(e).nexthop)) IN
         /\ r \in EntryType /\ Bare(r) = Shed(Bare(e), 1) /\ Sheds(Bare(e), Bare(r))
<1> DEFINE id == path_find(e).nexthop
           s  == e.paths
           b  == Bare(e)
           f  == path_delete(e, id)
           r  == DownIfEmpty(f)
<1>1. /\ e \in EntryType /\ s \in Seq(PathType) /\ Len(s) \in Nat /\ s # << >>
      /\ DOMAIN s = 1 .. Len(s)
  BY PathOf DEF Proper
<1>2. 1 \in 1 .. Len(s) /\ s[1].nexthop = id
  BY <1>1 DEF path_find
<1> HIDE DEF id
<1>3. path_lookup(e, id)
  BY <1>1, <1>2 DEF path_lookup
<1>4. FirstVia(b, id) = 1 /\ path_lookup(b, id)
  <2>1. FirstVia(b, id) = FirstVia(e, id) /\ FirstVia(e, id) \in 1 .. Len(s)
    BY <1>1, <1>3, BareFirstVia, FirstViaPosition
  <2>2. FirstVia(e, id) = 1
    <3>1. \A i \in DOMAIN s : (s[i].nexthop = id /\ \A j \in 1 .. i - 1 : s[j].nexthop # id) => i = 1
      <4>1. \A i \in DOMAIN s : i # 1 => 1 \in 1 .. i - 1
        BY <1>1
      <4> QED
        BY <1>2, <4>1
    <3>2. s[1].nexthop = id /\ \A j \in 1 .. 1 - 1 : s[j].nexthop # id
      BY <1>2
    <3>3. 1 \in DOMAIN s
      BY <1>1, <1>2
    <3>4. FirstVia(e, id) = CHOOSE i \in DOMAIN s :
                              s[i].nexthop = id /\ \A j \in 1 .. i - 1 : s[j].nexthop # id
      BY Zenon DEF FirstVia
    <3> HIDE DEF s
    <3> QED
      BY <3>1, <3>2, <3>3, <3>4
  <2> QED
    BY <1>1, <1>3, <2>1, <2>2, BareLookups
<1>5. /\ b \in BareType /\ b.paths \in Seq(WayType) /\ Len(b.paths) = Len(s) /\ b.up
  BY <1>1, BareFields
<1>6. f \in EntryType /\ Bare(f) = path_delete(b, id)
  BY <1>1, BareDelete
<1>7. path_delete(b, id) = [b EXCEPT !.paths = Rest(@, 1)]
  <2> DEFINE t == b.paths
             q == SubSeq(t, 1, 0)
             u == SubSeq(t, 2, Len(t))
  <2>1. path_delete(b, id) = [b EXCEPT !.paths = RemoveAt(@, 1)]
    BY <1>4 DEF path_delete
  <2>2. RemoveAt(t, 1) = q \o u
    BY DEF RemoveAt
  <2>3. q = << >>
    BY SubSeqEmpty
  <2>4. u = Rest(t, 1)
    BY DEF Rest
  <2>5. Rest(t, 1) \in Seq(WayType)
    <3>1. 1 \in 0 .. Len(t)
      BY <1>1, <1>2, <1>5
    <3> HIDE DEF t
    <3> QED
      BY <1>5, <3>1, RestOf DEF t
  <2>6. q \o u = Rest(t, 1)
    <3> HIDE DEF u
    <3> QED
      BY <2>3, <2>4, <2>5
  <2>7. RemoveAt(b.paths, 1) = Rest(b.paths, 1)
    BY <2>2, <2>6
  <2> QED
    BY <2>1, <2>7
<1> HIDE DEF f
<1>8. r \in EntryType /\ Bare(r) = DownIfEmpty(Bare(f))
  BY <1>6, BareDown
<1>9. Shed(b, 1) = DownIfEmpty([b EXCEPT !.paths = Rest(@, 1)])
  BY <1>5 DEF Shed, Rest
<1>10. 1 \in 0 .. Len(b.paths)
  BY <1>1, <1>2, <1>5
<1> HIDE DEF r, b
<1>11. r \in EntryType /\ Bare(r) = Shed(b, 1) /\ Sheds(b, Bare(r))
  BY <1>6, <1>7, <1>8, <1>9, <1>10 DEF Sheds
<1> QED
  BY <1>11 DEF r, b, f, id

-----------------------------------------------------------------------------
(* Agents: forwarding only gives up paths. *)

\* The numbers a message carries are numbers of routes, and nobody reports itself lost.
NeatPacket(pk) ==
  /\ pk.msg.type = "RREQ" => pk.msg.srcseqno # 0
  /\ pk.msg.type = "RREP" => pk.msg.seqno # 0
  /\ pk.msg.type = "RERR" => pk.from \notin pk.msg.dests

\* Agent w of node n has no route to itself, and none without a number; what it buffers
\* is where Flush looks for it.
Neat(n, w) ==
  /\ w.seqno # 0
  /\ ~w.rt[n].up
  /\ \A d \in Node : w.rt[d].up => w.rt[d].seqno # 0
  /\ \A d \in Node : \A i \in 1 .. Len(w.rqueue[d]) : w.rqueue[d][i].dst = d
  /\ \A pk \in w.out : NeatPacket(pk)

\* What agent w may have become after forwarding data for destinations in D.
Thins(D, w, v) ==
  /\ Whole(v)
  /\ v.seqno = w.seqno /\ v.rqueue = w.rqueue
  /\ \A d \in Node : /\ Sheds(Bare(w.rt[d]), Bare(v.rt[d]))
                     /\ d \notin D => Bare(v.rt[d]) = Bare(w.rt[d])
  /\ \A pk \in v.out : pk \in w.out \/ pk.msg.type \in {"DATA", "PTA"}

\* An entry of an agent, bare.
LEMMA BareEntry ==
  ASSUME NEW w, Whole(w), NEW d \in Node
  PROVE  /\ w.rt[d] \in EntryType /\ Proper(w.rt[d])
         /\ Routed(Bare(w.rt[d])) /\ Bare(w.rt[d]).up = w.rt[d].up
         /\ Bare(w.rt[d]).seqno = w.rt[d].seqno
<1> DEFINE e == w.rt[d]
           b == Bare(e)
<1>1. Proper(e) /\ e \in EntryType
  BY DEF Whole, Proper
<1> HIDE DEF e
<1>2. b \in BareType /\ b.up = e.up /\ b.seqno = e.seqno
      /\ (path_empty(b) <=> path_empty(e)) /\ (e.up => ~path_empty(e))
  BY <1>1, BareFields, BareLookups DEF Proper, path_empty
<1> HIDE DEF b
<1>3. Routed(b)
  BY <1>2 DEF Routed, path_empty
<1> QED
  BY <1>1, <1>2, <1>3 DEF e, b

\* Doing nothing, and forwarding twice.
LEMMA ThinsSame ==
  ASSUME NEW D, NEW w, Whole(w)
  PROVE  Thins(D, w, w)
BY BareEntry, ShedsNone DEF Thins

\* One handler of data after another.
LEMMA ThinsOn ==
  ASSUME NEW D, NEW w, Whole(w), NEW v, Thins(D, w, v), NEW u, Thins(D, v, u)
  PROVE  Thins(D, w, u)
<1>1. ASSUME NEW d \in Node PROVE Sheds(Bare(w.rt[d]), Bare(u.rt[d]))
  <2>1. Routed(Bare(w.rt[d]))
    BY BareEntry
  <2>2. Sheds(Bare(w.rt[d]), Bare(v.rt[d])) /\ Sheds(Bare(v.rt[d]), Bare(u.rt[d]))
    BY DEF Thins
  <2> QED
    BY <2>1, <2>2, ShedsTwice
<1> QED
  BY <1>1 DEF Thins

\* A neat agent stays neat.
LEMMA ThinsNeat ==
  ASSUME NEW n \in Node, NEW D, NEW w, Whole(w), NEW v, Thins(D, w, v), Neat(n, w)
  PROVE  Neat(n, v)
<1>1. ASSUME NEW d \in Node
      PROVE  (v.rt[d].up => w.rt[d].up) /\ v.rt[d].seqno = w.rt[d].seqno
  <2> DEFINE b == Bare(w.rt[d])
             c == Bare(v.rt[d])
  <2>1. Routed(b) /\ b.up = w.rt[d].up /\ b.seqno = w.rt[d].seqno
    BY BareEntry
  <2>2. c.up = v.rt[d].up /\ c.seqno = v.rt[d].seqno
    BY BareEntry DEF Thins
  <2>3. Sheds(b, c)
    BY DEF Thins
  <2> HIDE DEF b, c
  <2>4. c.seqno = b.seqno /\ (c.up => b.up)
    BY <2>1, <2>3, ShedsKeep
  <2> QED
    BY <2>1, <2>2, <2>4
<1>2. \A pk \in v.out : NeatPacket(pk)
  BY DEF Thins, Neat, NeatPacket
<1> QED
  BY <1>1, <1>2 DEF Thins, Neat

\* forward() of one packet of data gives up one path, or none.
LEMMA ForwardThins ==
  ASSUME NEW n \in Node, NEW w, Whole(w), NEW p \in DataType, NEW prev \in Node \cup {Zero},
         w.rt[p.dst].up
  PROVE  LET v == Forward(n, w, p, prev) IN
         /\ Thins({p.dst}, w, v)
         /\ \/ Bare(v.rt[p.dst]) = Bare(w.rt[p.dst])
            \/ Bare(v.rt[p.dst]) = Shed(Bare(w.rt[p.dst]), 1)
<1> DEFINE d    == p.dst
           e0   == w.rt[d]
           e    == [e0 EXCEPT !.pcs = @ \cup {prev}]
           path == path_find(e)
           hop  == path.nexthop
           good == [e EXCEPT !.error = @ \/ p.src # n]
           bad  == DownIfEmpty(path_delete(e, hop))
           msg  == Pta(d, e.seqno, path.lasthop)
           told == UNION {Unicast(n, pc, msg) : pc \in e.pcs}
           data == Unicast(n, hop, p)
           v    == Forward(n, w, p, prev)
<1>1. d \in Node /\ p.type = "DATA"
  BY DEF DataType
<1>2. Proper(e0) /\ e0 \in EntryType /\ e0.up /\ Routed(Bare(e0))
  BY <1>1, BareEntry
<1>3. w \in AgentType /\ Whole(v) /\ v.rqueue = w.rqueue
  <2>1. Fares(n, w, v) /\ v.rqueue = w.rqueue
    BY ForwardFares, ForwardSends
  <2> HIDE DEF v
  <2> QED
    BY <2>1 DEF Fares, Whole
<1>4. \/ v = Heard(w, hop, d, good, data)
      \/ v = Heard(w, hop, d, bad, told)
  BY Zenon DEF Forward, Heard
<1>5. /\ \A pk \in data : pk.msg.type \in {"DATA", "PTA"}
      /\ \A pk \in told : pk.msg.type \in {"DATA", "PTA"}
  BY <1>1 DEF Unicast, Pta
<1>6. e \in EntryType /\ Proper(e) /\ e.up /\ Bare(e) = Bare(e0)
  <2>1. /\ e \in EntryType /\ e.paths = e0.paths /\ e.up = e0.up /\ e.seqno = e0.seqno
        /\ e.adv = e0.adv /\ e.highest = e0.highest
    BY <1>2 DEF EntryType
  <2> HIDE DEF e, e0
  <2> QED
    BY <1>2, <2>1 DEF Proper, Bare
<1> HIDE DEF told, data
<1>7. good \in EntryType /\ Bare(good) = Bare(e)
  <2>1. /\ good \in EntryType /\ good.paths = e.paths /\ good.up = e.up
        /\ good.seqno = e.seqno /\ good.adv = e.adv /\ good.highest = e.highest
    BY <1>6 DEF EntryType
  <2> HIDE DEF e, good
  <2> QED
    BY <2>1 DEF Bare
<1>8. bad \in EntryType /\ Bare(bad) = Shed(Bare(e), 1) /\ Sheds(Bare(e), Bare(bad))
  <2> HIDE DEF e
  <2> QED
    BY <1>6, BareDistrusted
<1> HIDE DEF v, good, bad, e, hop
<1>9. ASSUME NEW r, Sheds(Bare(e0), Bare(r)), NEW packets,
             \A pk \in packets : pk.msg.type \in {"DATA", "PTA"},
             v = Heard(w, hop, d, r, packets)
      PROVE  Thins({d}, w, v) /\ v.rt[d] = r
  <2>1. v.rt = [w.rt EXCEPT ![d] = r] /\ v.seqno = w.seqno /\ v.out = w.out \cup packets
        /\ w.rt \in [Node -> EntryType]
    BY <1>3, <1>9 DEF Heard, Send, AgentType
  <2>2. \A x \in Node : v.rt[x] = IF x = d THEN r ELSE w.rt[x]
    BY <2>1
  <2>3. \A x \in Node : Sheds(Bare(w.rt[x]), Bare(v.rt[x]))
    <3>1. \A x \in Node : Sheds(Bare(w.rt[x]), Bare(w.rt[x]))
      BY BareEntry, ShedsNone
    <3> QED
      BY <1>9, <2>2, <3>1
  <2> QED
    BY <1>1, <1>3, <1>9, <2>1, <2>2, <2>3 DEF Thins
<1>10. Sheds(Bare(e0), Bare(e0))
  BY <1>2, ShedsNone
<1> HIDE DEF e0
<1>11. CASE v = Heard(w, hop, d, good, data)
  <2>1. Thins({d}, w, v) /\ v.rt[d] = good
    BY <1>5, <1>6, <1>7, <1>9, <1>10, <1>11
  <2> QED
    BY <1>6, <1>7, <2>1 DEF v, e0
<1>12. CASE v = Heard(w, hop, d, bad, told)
  <2>1. Thins({d}, w, v) /\ v.rt[d] = bad
    BY <1>5, <1>6, <1>8, <1>9, <1>12
  <2> QED
    BY <1>6, <1>8, <2>1 DEF v, e0
<1> QED
  BY <1>4, <1>11, <1>12

\* The loop that forwards a list of packets.
ThinnedSoFar(c, v, k) == Thins(c[1], c[2], v)

\* The packets nb_delete takes back, one by one.
Thinning == INSTANCE FoldFacts WITH Op <- ForwardIfUp, Inv <- ThinnedSoFar

\* Forwarding several.
LEMMA ForwardAllThins ==
  ASSUME NEW n \in Node, NEW w, Whole(w), NEW prev \in Node \cup {Zero}, NEW D,
         NEW k \in Nat, NEW packets \in [1 .. k -> DataType],
         \A i \in 1 .. k : packets[i].dst \in D
  PROVE  Thins(D, w, ForwardAll(n, prev, w, packets))
<1>1. ForwardAll(n, prev, w, packets) = Thinning!Fold(n, prev, w, packets)
  BY Zenon DEF ForwardAll, Thinning!Fold, FoldLeft, MapThenFoldSet, Max,
               Thinning!IsIteration, Thinning!Top
<1> DEFINE c == <<D, w>>
<1>2. ThinnedSoFar(c, w, 0)
  BY ThinsSame DEF ThinnedSoFar
<1>3. ASSUME NEW i \in 1 .. k, NEW v, ThinnedSoFar(c, v, i - 1)
      PROVE  ThinnedSoFar(c, ForwardIfUp(n, prev, v, packets[i]), i)
  <2> DEFINE p == packets[i]
             u == ForwardIfUp(n, prev, v, p)
  <2>1. Thins(D, w, v) /\ Whole(v) /\ p \in DataType /\ p.dst \in D
    BY <1>3 DEF ThinnedSoFar, Thins
  <2> HIDE DEF p
  <2>2. CASE v.rt[p.dst].up
    <3>1. Thins({p.dst}, v, u)
      BY <2>1, <2>2, ForwardThins DEF ForwardIfUp
    <3> HIDE DEF u
    <3>2. Thins(D, v, u)
      BY <2>1, <3>1 DEF Thins
    <3>3. Thins(D, w, u)
      BY <2>1, <3>2, ThinsOn
    <3> QED
      BY <3>3 DEF ThinnedSoFar, u, p
  <2>3. CASE ~v.rt[p.dst].up
    <3>1. u = v
      BY <2>3 DEF ForwardIfUp
    <3> HIDE DEF u
    <3> QED
      BY <2>1, <3>1 DEF ThinnedSoFar, u, p
  <2> QED
    BY <2>2, <2>3
<1> HIDE DEF c
<1>4. ThinnedSoFar(c, Thinning!Fold(n, prev, w, packets), k)
  BY <1>2, <1>3, Thinning!FoldInvariant
<1> QED
  BY <1>1, <1>4 DEF ThinnedSoFar, c

\* Flushing the buffer along a route touches that route alone.
LEMMA FlushThins ==
  ASSUME NEW n \in Node, NEW w, Whole(w), NEW d \in Node, Neat(n, w)
  PROVE  LET v == Flush(n, w, d) IN
         /\ Whole(v) /\ Neat(n, v) /\ v.seqno = w.seqno
         /\ Sheds(Bare(w.rt[d]), Bare(v.rt[d]))
         /\ \A x \in Node : x # d => Bare(v.rt[x]) = Bare(w.rt[x])
<1>1. CASE ~w.rt[d].up
  <2>1. Flush(n, w, d) = w
    BY <1>1 DEF Flush
  <2> QED
    BY <2>1, BareEntry, ShedsNone
<1>2. CASE w.rt[d].up
  <2> DEFINE u == [w EXCEPT !.asked = @ \ {d}, !.tries[d] = 0, !.rqueue[d] = << >>]
             q == w.rqueue[d]
             v == ForwardAll(n, Zero, u, q)
  <2>0. w \in AgentType /\ w.bid \in Nat \ {0} /\ w.tries \in [Node -> 0 .. MaxBid]
        /\ w.rqueue \in [Node -> Seq(DataType)]
    BY AgentAssumption DEF Whole, AgentType
  <2>1. u \in AgentType
    <3>1. << >> \in Seq(DataType) /\ 0 \in 0 .. MaxBid
      BY AgentAssumption
    <3> QED
      BY <2>0, <3>1 DEF AgentType
  <2>2. /\ u.rt = w.rt /\ u.out = w.out /\ u.seqno = w.seqno /\ u.bid = w.bid
        /\ u.tries = [w.tries EXCEPT ![d] = 0] /\ u.rqueue = [w.rqueue EXCEPT ![d] = << >>]
    BY <2>0 DEF AgentType
  <2>3. Flush(n, w, d) = v
    BY <1>2 DEF Flush
  <2>4. q \in [1 .. Len(q) -> DataType] /\ Len(q) \in Nat
    <3>1. q \in Seq(DataType)
      BY <2>0
    <3> HIDE DEF q
    <3> QED
      BY <3>1
  <2>5. \A i \in 1 .. Len(q) : q[i].dst \in {d}
    BY DEF Neat
  <2> HIDE DEF u, q
  <2>6. \A x \in Node : u.tries[x] < u.bid
    BY <2>0, <2>2 DEF Whole
  <2>7. Whole(u)
    BY <2>1, <2>2, <2>6 DEF Whole
  <2>8. Neat(n, u)
    <3>1. \A x \in Node : u.rqueue[x] = IF x = d THEN << >> ELSE w.rqueue[x]
      BY <2>0, <2>2
    <3>2. \A x \in Node : \A i \in 1 .. Len(u.rqueue[x]) : u.rqueue[x][i].dst = x
      <4> SUFFICES ASSUME NEW x \in Node, NEW i \in 1 .. Len(u.rqueue[x])
                   PROVE  u.rqueue[x][i].dst = x
        OBVIOUS
      <4>1. CASE x = d
        <5>1. u.rqueue[x] = << >>
          BY <3>1, <4>1
        <5> QED
          BY <5>1
      <4>2. CASE x # d
        BY <3>1, <4>2 DEF Neat
      <4> QED
        BY <4>1, <4>2
    <3> QED
      BY <2>2, <3>2 DEF Neat
  <2>9. Thins({d}, u, v)
    <3> DEFINE D == {d}
    <3>1. \A i \in 1 .. Len(q) : q[i].dst \in D
      BY <2>5
    <3> HIDE DEF D
    <3>2. Thins(D, u, ForwardAll(n, Zero, u, q))
      BY <2>4, <2>7, <3>1, ForwardAllThins
    <3> QED
      BY <3>2 DEF D
  <2> HIDE DEF v
  <2>10. Neat(n, v)
    BY <2>7, <2>8, <2>9, ThinsNeat
  <2>11. Sheds(Bare(w.rt[d]), Bare(v.rt[d])) /\ Whole(v) /\ v.seqno = w.seqno
         /\ \A x \in Node : x # d => Bare(v.rt[x]) = Bare(w.rt[x])
    BY <2>2, <2>9 DEF Thins
  <2> QED
    BY <2>3, <2>10, <2>11
<1> QED
  BY <1>1, <1>2

-----------------------------------------------------------------------------
(* Agents: requests and errors. *)

\* What agent w may have become by asking for routes.
Asks(n, w, v) == Whole(v) /\ v.rt = w.rt /\ (Neat(n, w) => Neat(n, v))

\* sendRequest leaves the routes alone.
LEMMA SendRequestAsks ==
  ASSUME NEW n \in Node, NEW w, Whole(w), NEW d \in Node, NEW v \in SendRequest(n, w, d)
  PROVE  Asks(n, w, v)
<1> DEFINE requested == [w EXCEPT !.bid = @ + 1, !.seqno = @ + 2, !.asked = @ \cup {d},
                                  !.tries[d] = @ + 1]
           msg == Rreq(n, w.bid, w.seqno + 2, d, w.rt[d].seqno, 0, n, TRUE)
           packets == Broadcast(n, msg)
<1>0. w \in AgentType /\ w.seqno \in Nat /\ w.rqueue \in [Node -> Seq(DataType)]
  BY DEF Whole, AgentType
<1>1. \/ v = w \/ v = GiveUp(w, d)
      \/ v = Send(requested, packets)
  BY DEF SendRequest
<1>2. Whole(v)
  BY SendRequestFares DEF Fares
<1>3. CASE v = w
  BY <1>2, <1>3 DEF Asks
<1>4. CASE v = GiveUp(w, d)
  <2>1. /\ v.rt = w.rt /\ v.out = w.out /\ v.seqno = w.seqno
        /\ v.rqueue = [w.rqueue EXCEPT ![d] = << >>]
    BY <1>0, <1>4 DEF AgentType, GiveUp
  <2>2. \A x \in Node : v.rqueue[x] = IF x = d THEN << >> ELSE w.rqueue[x]
    BY <1>0, <2>1
  <2>3. ASSUME Neat(n, w), NEW x \in Node, NEW i \in 1 .. Len(v.rqueue[x])
        PROVE  v.rqueue[x][i].dst = x
    <3>1. CASE x = d
      <4>1. v.rqueue[x] = << >>
        BY <2>2, <3>1
      <4> QED
        BY <4>1
    <3>2. CASE x # d
      BY <2>2, <2>3, <3>2 DEF Neat
    <3> QED
      BY <3>1, <3>2
  <2> QED
    BY <1>2, <2>1, <2>3 DEF Asks, Neat
<1>5. CASE v = Send(requested, packets)
  <2>1. \A pk \in packets : pk.msg = msg
    <3> HIDE DEF msg
    <3> QED
      BY DEF Broadcast, Unicast
  <2>2. msg.type = "RREQ" /\ msg.srcseqno = w.seqno + 2
    BY DEF Rreq
  <2> HIDE DEF packets, msg
  <2>3. /\ v.rt = w.rt /\ v.out = w.out \cup packets /\ v.seqno = w.seqno + 2
        /\ v.rqueue = w.rqueue
    BY <1>0, <1>5 DEF AgentType, Send
  <2>4. \A pk \in packets : NeatPacket(pk)
    BY <1>0, <2>1, <2>2 DEF NeatPacket
  <2>5. v.seqno # 0
    BY <1>0, <2>3
  <2> QED
    BY <1>2, <2>3, <2>4, <2>5 DEF Asks, Neat
<1> QED
  BY <1>1, <1>3, <1>4, <1>5

\* The loop that asks for a list of destinations.
AskedSoFar(c, vs, k) == \A v \in vs : Asks(c[1], c[2], v)

\* The requests of rt_purge, one by one.
Inquiring == INSTANCE FoldFacts WITH Op <- RequestNext, Inv <- AskedSoFar

\* Nor does asking for several.
LEMMA SendRequestsAsks ==
  ASSUME NEW n \in Node, NEW w, Whole(w), NEW k \in Nat, NEW ds \in [1 .. k -> Node],
         NEW u \in SendRequests(n, w, ds)
  PROVE  Asks(n, w, u)
<1>1. SendRequests(n, w, ds) = Inquiring!Fold(n, n, {w}, ds)
  BY Zenon DEF SendRequests, RequestNext, Inquiring!Fold, FoldLeft, MapThenFoldSet, Max,
               Inquiring!IsIteration, Inquiring!Top
<1> DEFINE c == <<n, w>>
<1>2. AskedSoFar(c, {w}, 0)
  BY DEF AskedSoFar, Asks
<1>3. ASSUME NEW i \in 1 .. k, NEW vs, AskedSoFar(c, vs, i - 1)
      PROVE  AskedSoFar(c, RequestNext(n, n, vs, ds[i]), i)
  <2>1. ASSUME NEW v \in vs, NEW x \in SendRequest(n, v, ds[i])
        PROVE  Asks(n, w, x)
    <3>1. Asks(n, w, v) /\ Whole(v) /\ ds[i] \in Node
      BY <1>3 DEF AskedSoFar, Asks
    <3>2. Asks(n, v, x)
      BY <3>1, SendRequestAsks
    <3> QED
      BY <3>1, <3>2 DEF Asks
  <2> QED
    BY <2>1 DEF AskedSoFar, RequestNext
<1> HIDE DEF c
<1>4. AskedSoFar(c, Inquiring!Fold(n, n, {w}, ds), k)
  BY <1>2, <1>3, Inquiring!FoldInvariant
<1> QED
  BY <1>1, <1>4 DEF AskedSoFar, c

\* A RERR names only routes that were up, so never the node itself.
LEMMA ReportErrorsNeat ==
  ASSUME NEW n \in Node, NEW w, Whole(w), w.out = {}, Neat(n, w), NEW after,
         \A d \in Node : Proper(after[d]) /\ (after[d].up => w.rt[d].up /\ after[d].seqno # 0)
  PROVE  LET v == ReportErrors(n, w, after) IN
         Whole(v) /\ Neat(n, v) /\ \A d \in Node : Bare(v.rt[d]) = Bare(after[d])
<1> DEFINE v == ReportErrors(n, w, after)
           lost == {d \in Node : w.rt[d].up /\ ~after[d].up /\ w.rt[d].error}
           rt == [d \in Node |-> [after[d] EXCEPT !.error = @ /\ d \notin lost]]
           packets == IF lost = {} THEN {} ELSE Broadcast(n, Rerr(lost, after))
<1>1. v = Send([w EXCEPT !.rt = rt], packets) /\ w \in AgentType
  BY Zenon DEF ReportErrors, Whole
<1>2. Whole(v)
  BY ReportErrorsAgent
<1>3. n \notin lost
  BY DEF Neat
<1>4. \A pk \in packets : pk.msg.type = "RERR" /\ pk.msg.dests = lost /\ pk.from = n
  BY DEF Broadcast, Unicast, Rerr
<1>5. ASSUME NEW d \in Node
      PROVE  Bare(rt[d]) = Bare(after[d]) /\ rt[d].up = after[d].up /\ rt[d].seqno = after[d].seqno
  <2>1. after[d] \in EntryType
    BY DEF Proper
  <2>2. /\ rt[d].seqno = after[d].seqno /\ rt[d].adv = after[d].adv
        /\ rt[d].paths = after[d].paths /\ rt[d].up = after[d].up
        /\ rt[d].highest = after[d].highest
    BY <2>1 DEF EntryType
  <2> HIDE DEF rt
  <2> QED
    BY <2>2 DEF Bare
<1> HIDE DEF rt, packets, lost
<1>6. /\ v.rt = rt /\ v.out = packets /\ v.seqno = w.seqno /\ v.rqueue = w.rqueue
  BY <1>1 DEF AgentType, Send
<1> HIDE DEF v
<1>7. \A pk \in v.out : NeatPacket(pk)
  BY <1>3, <1>4, <1>6 DEF NeatPacket
<1>8. Neat(n, v)
  BY <1>5, <1>6, <1>7 DEF Neat
<1> QED
  BY <1>2, <1>5, <1>6, <1>8 DEF v
-----------------------------------------------------------------------------
(* Whatever is done to an entry, it has a number while it is up. *)

\* An entry that is up has a number.
Numbered(e) == e.up => e.seqno # 0

\* It keeps one over a link failure.
LEMMA LinkFailureNumbered ==
  ASSUME NEW e, Proper(e), NEW id
  PROVE  LET r == LinkFailure(e, id) IN
         Proper(r) /\ (r.up => e.up /\ r.seqno = e.seqno)
<1> DEFINE d == path_delete(e, id)
           c == [d EXCEPT !.seqno = Larger(@ + 1, e.highest)]
           r == LinkFailure(e, id)
<1>1. e \in EntryType /\ Proper(r)
  BY LinkFailureEntry DEF Proper
<1>2. PICK t \in Seq(PathType) : d = [e EXCEPT !.paths = t] /\ d \in EntryType
  BY <1>1, BareDelete
<1>3. d.up = e.up /\ d.seqno = e.seqno
  BY <1>1, <1>2 DEF EntryType
<1>4. r = IF ~(e.up /\ path_lookup(e, id)) THEN e
          ELSE IF path_empty(d) THEN rt_down(c) ELSE d
  BY Zenon DEF LinkFailure
<1>5. d.up => ~rt_down(c).up
  BY <1>2 DEF rt_down, EntryType
<1> HIDE DEF d, c, r
<1>6. r.up => e.up /\ r.seqno = e.seqno
  BY <1>3, <1>4, <1>5
<1> QED
  BY <1>1, <1>6 DEF r

\* And over an RERR.
LEMMA ErrorNumbered ==
  ASSUME NEW e, Proper(e), NEW from, NEW s \in Nat
  PROVE  LET r == ErrorReceived(e, from, s) IN
         Proper(r) /\ (r.up => e.up /\ r.seqno = e.seqno)
<1> DEFINE f == path_delete(e, from)
           d == [f EXCEPT !.highest = Larger(@, s)]
           c == [d EXCEPT !.seqno = d.highest]
           r == ErrorReceived(e, from, s)
<1>1. e \in EntryType /\ Proper(r)
  BY ErrorEntry DEF Proper
<1>2. PICK t \in Seq(PathType) : f = [e EXCEPT !.paths = t] /\ f \in EntryType
  BY <1>1, BareDelete
<1>3. d.up = e.up /\ d.seqno = e.seqno
  BY <1>1, <1>2 DEF EntryType
<1>4. r = IF ~ErrorApplies(e, from, s) THEN e
          ELSE IF path_empty(d) THEN rt_down(c) ELSE d
  BY Zenon DEF ErrorReceived
<1>5. d.up => ~rt_down(c).up
  BY <1>2 DEF rt_down, EntryType
<1> HIDE DEF f, d, c, r
<1>6. r.up => e.up /\ r.seqno = e.seqno
  BY <1>3, <1>4, <1>5 DEF ErrorApplies
<1> QED
  BY <1>1, <1>6 DEF r

\* And over expiry.
LEMMA PurgedNumbered ==
  ASSUME NEW e, Proper(e), NEW t
  PROVE  LET r == Purged(e, t) IN r.up => e.up /\ r.seqno = e.seqno
<1> DEFINE d == [e EXCEPT !.paths = t]
           next == Larger(e.seqno + 1, e.highest)
           c == [d EXCEPT !.seqno = IF next % 2 = 0 THEN next + 1 ELSE next]
           r == Purged(e, t)
<1>1. e \in EntryType
  BY DEF Proper
<1>2. d.up = e.up /\ d.seqno = e.seqno
  BY <1>1 DEF EntryType
<1>3. r = IF path_empty(d) THEN rt_down(c) ELSE d
  BY Zenon DEF Purged
<1>4. c.up = e.up /\ ~rt_down(c).up
  BY <1>1 DEF rt_down, EntryType
<1> HIDE DEF d, c, r
<1>5. r.up => e.up /\ r.seqno = e.seqno
  BY <1>2, <1>3, <1>4
<1> QED
  BY <1>5 DEF r

\* recvPta raises the number of a route that stays up.
LEMMA PtaNumbered ==
  ASSUME NEW e, Proper(e), NEW from, NEW s \in Nat, NEW last, Numbered(e)
  PROVE  LET r == PtaReceived(e, from, s, last) IN
         Proper(r) /\ (r.up => e.up) /\ Numbered(r)
<1> DEFINE f == path_delete(e, from)
           h == Larger(e.highest, s)
           d == [f EXCEPT !.highest = Larger(@, s)]
           g == DownIfEmpty(d)
           c == [g EXCEPT !.seqno = d.highest]
           r == PtaReceived(e, from, s, last)
<1>1. e \in EntryType /\ Proper(r) /\ e.highest \in Nat /\ e.seqno \in Nat
  BY PtaEntry, EntryFields DEF Proper
<1>2. PICK t \in Seq(PathType) : f = [e EXCEPT !.paths = t] /\ f \in EntryType
  BY <1>1, BareDelete
<1>3. h \in Nat /\ h >= s
  BY <1>1, LargerNat
<1>4. f.highest = e.highest /\ f.up = e.up
  BY <1>1, <1>2 DEF EntryType
<1> HIDE DEF f
<1>5. d = [f EXCEPT !.highest = h]
  BY <1>4
<1> HIDE DEF h
<1>6. d.up = e.up /\ d.highest = h /\ d \in EntryType
  BY <1>2, <1>3, <1>4, <1>5 DEF EntryType
<1> HIDE DEF d
<1>7. g \in EntryType /\ (g.up => e.up)
  BY <1>6, BareDown DEF DownIfEmpty, rt_down, EntryType
<1> HIDE DEF g
<1>8. c.up = g.up /\ c.seqno = h
  BY <1>6, <1>7 DEF EntryType
<1>9. r = IF ~PtaApplies(e, from, s, last) THEN e ELSE c
  BY Zenon DEF PtaReceived, f, d, g
<1>10. PtaApplies(e, from, s, last) => e.up /\ e.seqno <= s
  BY DEF PtaApplies, ErrorApplies
<1> HIDE DEF c, r
<1>11. (r.up => e.up) /\ Numbered(r)
  BY <1>1, <1>3, <1>7, <1>8, <1>9, <1>10 DEF Numbered
<1> QED
  BY <1>1, <1>11 DEF r

\* A path learned comes with a number, or with the one there is.
LEMMA LearnNumbered ==
  ASSUME NEW e, Proper(e), NEW p, NEW s \in Nat, s # 0, Numbered(e)
  PROVE  Numbered(Learn(e, p, s))
<1>1. e \in EntryType /\ e.seqno \in Nat
  BY EntryFields DEF Proper
<1>2. CASE Fresher(e, s)
  BY <1>1, <1>2 DEF Learn, Numbered, EntryType
<1>3. CASE ~Fresher(e, s)
  <2>1. Learn(e, p, s) = e \/ Learn(e, p, s) = path_insert(e, p)
    BY <1>3 DEF Learn
  <2>2. path_insert(e, p).up = e.up /\ path_insert(e, p).seqno = e.seqno
    BY <1>1 DEF path_insert, EntryType
  <2> QED
    BY <2>1, <2>2 DEF Numbered
<1> QED
  BY <1>2, <1>3

-----------------------------------------------------------------------------
(* The network is regular, and every entry steps as RouteEntry has it. *)

\* The strengthening of Inv the refinement needs: the agents and the packets in flight
\* are neat.
Regular ==
  /\ \A n \in Node : Neat(n, node[n])
  /\ \A pk \in net : NeatPacket(pk)

\* The paths RouteEntry lets a message offer.
Ways == [nexthop : Node, hopcount : 1 .. MaxHops + 1, lasthop : Node]

\* b learns a path within bounds, sheds some and may be advertised.
EntryLearns(b, c) ==
  \E p \in Ways, s \in 1 .. MaxSeqno : \E j \in 0 .. Len(Learn(b, p, s).paths) :
    \/ c = Shed(Learn(b, p, s), j)
    \/ ~path_empty(Shed(Learn(b, p, s), j)) /\ c = Advertise(Shed(Learn(b, p, s), j))

\* What RouteEntry lets happen to an entry in one step.
EntryStep(b, c) ==
  \/ c = b
  \/ EntryLearns(b, c)
  \/ b.up /\ c = Advertise(b)
  \/ b.up /\ c = Shed(b, 1)
  \/ \E id \in Node : Sheds(LinkFailure(b, id), c)
  \/ \E from \in Node, s \in 0 .. MaxSeqno : c = ErrorReceived(b, from, s)
  \/ \E from, last \in Node, s \in 0 .. MaxSeqno : c = PtaReceived(b, from, s, last)
  \/ b.up /\ \E kept \in path_purge(b) : c = Purged(b, kept)

\* What every handler of node n makes sure of the agent w it leaves.
Conforms(n, w) ==
  /\ w \in AgentType
  /\ Neat(n, w)
  /\ InBounds => \A d \in Node : EntryStep(Bare(node[n].rt[d]), Bare(w.rt[d]))

\* All entries step that way.
EntriesStep == \A n, d \in Node : EntryStep(EntryOf(n, d), EntryOf(n, d)')

\* That is all the network needs.
LEMMA ConformStep ==
  ASSUME Inv, Regular, NEW n \in Node, NEW w, Conforms(n, w), NEW gone, Step(n, w, gone)
  PROVE  Regular' /\ (InBounds => EntriesStep)
<1> DEFINE v == [w EXCEPT !.out = {}]
<1>1. /\ node' = [node EXCEPT ![n] = v] /\ net' = (net \ gone) \cup w.out
      /\ node \in [Node -> AgentType]
  BY DEF Step, Inv, Typed
<1>2. v.rt = w.rt /\ v.seqno = w.seqno /\ v.rqueue = w.rqueue /\ v.out = {}
  BY DEF Conforms, AgentType
<1> HIDE DEF v
<1>3. \A m \in Node : node'[m] = IF m = n THEN v ELSE node[m]
  BY <1>1
<1>4. Neat(n, v)
  BY <1>2 DEF Conforms, Neat
<1>5. \A pk \in net' : NeatPacket(pk)
  BY <1>1 DEF Regular, Conforms, Neat
<1>6. Regular'
  BY <1>3, <1>4, <1>5 DEF Regular
<1>7. ASSUME InBounds, NEW m \in Node, NEW d \in Node
      PROVE  EntryStep(EntryOf(m, d), EntryOf(m, d)')
  <2>1. EntryOf(m, d)' = Bare(node'[m].rt[d]) /\ EntryOf(m, d) = Bare(node[m].rt[d])
    BY DEF EntryOf, Bare, BarePaths
  <2>2. CASE m = n
    <3>1. EntryStep(Bare(node[n].rt[d]), Bare(w.rt[d]))
      BY <1>7 DEF Conforms
    <3> QED
      BY <1>2, <1>3, <2>1, <2>2, <3>1
  <2>3. CASE m # n
    <3>1. EntryOf(m, d)' = EntryOf(m, d)
      BY <1>3, <2>1, <2>3
    <3> QED
      BY <3>1 DEF EntryStep
  <2> QED
    BY <2>2, <2>3
<1> QED
  BY <1>6, <1>7 DEF EntriesStep

\* An agent whose routes are as they were.
LEMMA SameConforms ==
  ASSUME NEW n \in Node, NEW w \in AgentType, Neat(n, w),
         \A d \in Node : Bare(w.rt[d]) = Bare(node[n].rt[d])
  PROVE  Conforms(n, w)
BY DEF Conforms, EntryStep

\* What the network invariants say of an agent.
LEMMA NeatNode ==
  ASSUME Inv, Regular, NEW n \in Node
  PROVE  /\ node[n] \in AgentType /\ Whole(node[n]) /\ node[n].out = {}
         /\ Neat(n, node[n]) /\ Conforms(n, node[n])
<1>1. node[n] \in AgentType /\ Whole(node[n]) /\ node[n].out = {} /\ Neat(n, node[n])
  BY NodeFacts DEF Inv, Regular
<1> QED
  BY <1>1, SameConforms

\* An agent that only sends messages.
LEMMA SendConforms ==
  ASSUME Inv, Regular, NEW n \in Node, NEW v \in AgentType, v.rt = node[n].rt,
         v.seqno = node[n].seqno, v.rqueue = node[n].rqueue,
         \A pk \in v.out : NeatPacket(pk)
  PROVE  Conforms(n, v)
<1>1. Neat(n, v)
  BY NeatNode DEF Neat
<1> QED
  BY <1>1, SameConforms
-----------------------------------------------------------------------------
(* Data. *)

\* forward() of one packet.
LEMMA ForwardConforms ==
  ASSUME Inv, Regular, NEW n \in Node, NEW p \in DataType, NEW prev \in Node \cup {Zero},
         node[n].rt[p.dst].up
  PROVE  Conforms(n, Forward(n, node[n], p, prev))
<1> DEFINE w == node[n]
           d == p.dst
           v == Forward(n, w, p, prev)
<1>1. Whole(w) /\ Neat(n, w) /\ d \in Node
  BY NeatNode DEF DataType
<1>2. Thins({d}, w, v) /\ (Bare(v.rt[d]) = Bare(w.rt[d]) \/ Bare(v.rt[d]) = Shed(Bare(w.rt[d]), 1))
  BY <1>1, ForwardThins
<1>3. Bare(w.rt[d]).up
  BY <1>1, BareEntry
<1> HIDE DEF v, w, d
<1>4. Neat(n, v) /\ v \in AgentType
  BY <1>1, <1>2, ThinsNeat DEF Thins, Whole
<1>5. \A x \in Node : EntryStep(Bare(w.rt[x]), Bare(v.rt[x]))
  BY <1>2, <1>3 DEF Thins, EntryStep
<1> QED
  BY <1>4, <1>5 DEF Conforms, v, w

\* recv and rt_resolve for a packet of this node.
LEMMA AppSendConforms ==
  ASSUME Inv, Regular, NEW f \in Traffic, AppSend(f[1], f[2])
  PROVE  Regular' /\ (InBounds => EntriesStep)
<1> DEFINE n == f[1]
           d == f[2]
           p == Data(n, d, sent)
           w == node[n]
           kept == [w EXCEPT !.rqueue[d] = Append(@, p)]
<1>1. n \in Node /\ d \in Node
  BY TeaomdvAssumption
<1>2. sent \in 0 .. MaxData - 1
  BY TeaomdvAssumption DEF AppSend, Inv, Typed
<1>3. p \in DataType /\ p.dst = d
  BY <1>1, <1>2 DEF Data, DataType
<1>4. w \in AgentType /\ Whole(w) /\ Neat(n, w)
  BY <1>1, NeatNode
<1>5. IF w.rt[d].up THEN Step(n, Forward(n, w, p, Zero), {})
      ELSE \E v \in SendRequest(n, kept, d) : Step(n, v, {})
  BY Zenon DEF AppSend
<1> HIDE DEF n, d, p
<1>6. CASE w.rt[d].up
  <2>1. Conforms(n, Forward(n, w, p, Zero))
    BY <1>1, <1>3, <1>6, ForwardConforms
  <2>2. Step(n, Forward(n, w, p, Zero), {})
    BY <1>5, <1>6
  <2> QED
    BY <1>1, <2>1, <2>2, ConformStep
<1>7. CASE ~w.rt[d].up
  <2>1. PICK v \in SendRequest(n, kept, d) : Step(n, v, {})
    BY <1>5, <1>7
  <2>2. /\ w.rqueue[d] \in Seq(DataType) /\ Append(w.rqueue[d], p) \in Seq(DataType)
        /\ w.rqueue \in [Node -> Seq(DataType)]
    BY <1>1, <1>3, <1>4 DEF AgentType
  <2> HIDE DEF w
  <2>3. /\ kept \in AgentType /\ kept.rt = w.rt /\ kept.tries = w.tries /\ kept.bid = w.bid
        /\ kept.seqno = w.seqno /\ kept.out = w.out
        /\ kept.rqueue = [w.rqueue EXCEPT ![d] = Append(w.rqueue[d], p)]
    BY <1>1, <1>4, <2>2 DEF AgentType
  <2> HIDE DEF kept
  <2>4. Whole(kept)
    BY <1>4, <2>3 DEF Whole
  <2>5. ASSUME NEW x \in Node, NEW i \in 1 .. Len(kept.rqueue[x])
        PROVE  kept.rqueue[x][i].dst = x
    <3> DEFINE q == w.rqueue[d]
               u == Append(q, p)
    <3>1. CASE x = d
      <4>1. kept.rqueue[x] = u
        BY <2>2, <2>3, <3>1
      <4>2. q \in Seq(DataType)
        BY <2>2
      <4>3. \A j \in 1 .. Len(q) : q[j].dst = d
        BY <1>1, <1>4 DEF Neat
      <4> HIDE DEF q
      <4>4. \A j \in 1 .. Len(u) : u[j] = p \/ (j \in 1 .. Len(q) /\ u[j] = q[j])
        BY <4>2
      <4> HIDE DEF u
      <4> QED
        BY <1>3, <3>1, <4>1, <4>3, <4>4
    <3>2. CASE x # d
      <4>1. kept.rqueue[x] = w.rqueue[x]
        BY <2>2, <2>3, <3>2
      <4> QED
        BY <1>4, <4>1 DEF Neat
    <3> QED
      BY <3>1, <3>2
  <2>6. Neat(n, kept)
    BY <1>4, <2>3, <2>5 DEF Neat
  <2>7. Asks(n, kept, v)
    BY <1>1, <2>1, <2>4, SendRequestAsks
  <2>8. v \in AgentType /\ Neat(n, v) /\ v.rt = w.rt
    BY <2>3, <2>6, <2>7 DEF Asks, Whole
  <2>9. Conforms(n, v)
    BY <1>1, <2>8, SameConforms DEF w
  <2> QED
    BY <1>1, <2>1, <2>9, ConformStep
<1> QED
  BY <1>6, <1>7

\* A packet arrives: forwarded, or an error sent for a route to another node.
LEMMA RecvDataConforms ==
  ASSUME Inv, Regular, NEW n \in Node, RecvData(n)
  PROVE  Regular' /\ (InBounds => EntriesStep)
<1> DEFINE w == node[n]
<1>1. PICK pk \in net :
        /\ Receives(n, pk, "DATA")
        /\ Step(n,
                IF n \in {pk.msg.src, pk.msg.dst} THEN w
                ELSE IF w.rt[pk.msg.dst].up THEN Forward(n, w, pk.msg, pk.from)
                ELSE Send(w, Broadcast(n, Rerr({pk.msg.dst}, w.rt))),
                {pk})
  BY Zenon DEF RecvData
<1> DEFINE p == pk.msg
           packets == Broadcast(n, Rerr({p.dst}, w.rt))
           v == Send(w, packets)
           gone == {pk}
<1>2. p \in DataType /\ pk.from \in Node /\ p.dst \in Node /\ p \in MessageType /\ p.type = "DATA"
  BY <1>1, PacketFields DEF Receives, Inv, Typed, DataType
<1>3. w \in AgentType /\ Conforms(n, w) /\ w.out = {}
  BY NeatNode
<1>4. \/ Step(n, w, gone)
      \/ w.rt[p.dst].up /\ Step(n, Forward(n, w, p, pk.from), gone)
      \/ n # p.dst /\ Step(n, v, gone)
  BY <1>1
<1> HIDE DEF gone
<1>5. CASE Step(n, w, gone)
  BY <1>3, <1>5, ConformStep
<1>6. CASE w.rt[p.dst].up /\ Step(n, Forward(n, w, p, pk.from), gone)
  <2>1. Conforms(n, Forward(n, w, p, pk.from))
    BY <1>2, <1>6, ForwardConforms
  <2> QED
    BY <1>6, <2>1, ConformStep
<1>7. CASE n # p.dst /\ Step(n, v, gone)
  <2>1. \A k \in packets : k.msg.type = "RERR" /\ k.msg.dests = {p.dst} /\ k.from = n
    BY DEF Broadcast, Unicast, Rerr
  <2>2. packets \subseteq PacketType
    <3>1. [x \in Node |-> IF x \in {p.dst} THEN w.rt[x].seqno ELSE 0] \in [Node -> Nat]
      <4>1. \A x \in Node : w.rt[x].seqno \in Nat
        BY NeatNode, EntryFields DEF AgentType
      <4> QED
        BY <4>1
    <3>2. Rerr({p.dst}, w.rt) \in MessageType
      BY <1>2, <3>1 DEF Rerr, RerrType, MessageType
    <3> QED
      BY <3>2, BroadcastPackets
  <2> HIDE DEF packets, w
  <2>3. /\ v \in AgentType /\ v.rt = w.rt /\ v.seqno = w.seqno /\ v.rqueue = w.rqueue
        /\ v.out = packets
    BY <1>3, <2>2 DEF Send, AgentType
  <2>4. \A k \in v.out : NeatPacket(k)
    BY <1>7, <2>1, <2>3 DEF NeatPacket
  <2> HIDE DEF v
  <2>5. Conforms(n, v)
    BY <2>3, <2>4, SendConforms DEF w
  <2> QED
    BY <1>7, <2>5, ConformStep
<1> QED
  BY <1>4, <1>5, <1>6, <1>7

-----------------------------------------------------------------------------
(* Requests and replies. *)

\* Entry c is b once a path within bounds is in and some have been given up.
Takes(b, c) == \E p \in Ways, s \in 1 .. MaxSeqno : Sheds(Learn(b, p, s), c)

\* Agent w is node n once it has taken in a path to d and flushed the buffer along it.
TakesIn(n, d, w) ==
  /\ Whole(w) /\ Neat(n, w)
  /\ \A x \in Node : x # d => Bare(w.rt[x]) = Bare(node[n].rt[x])
  /\ InBounds => Takes(Bare(node[n].rt[d]), Bare(w.rt[d]))

\* Taking in a path is learning it, advertised at once or not.
LEMMA TakesLearns ==
  ASSUME NEW b, NEW c, Takes(b, c)
  PROVE  EntryLearns(b, c) /\ (~path_empty(c) => EntryLearns(b, Advertise(c)))
<1>1. PICK p \in Ways, s \in 1 .. MaxSeqno : Sheds(Learn(b, p, s), c)
  BY DEF Takes
<1>2. PICK j \in 0 .. Len(Learn(b, p, s).paths) : c = Shed(Learn(b, p, s), j)
  BY <1>1 DEF Sheds
<1> QED
  BY <1>2, Zenon DEF EntryLearns

\* The paths of messages within bounds.
LEMMA WayOf ==
  ASSUME NEW p \in PathType, p.hopcount <= MaxHops + 1
  PROVE  BarePath(p) \in Ways
<1>1. p.nexthop \in Node /\ p.lasthop \in Node /\ p.hopcount \in Nat \ {0}
  BY DEF PathType
<1>2. p.hopcount \in 1 .. MaxHops + 1
  BY <1>1, RefinementAssumption DEF INFINITY2
<1> QED
  BY <1>1, <1>2 DEF BarePath, Ways

\* Agent w is node n with entry r for d, before anything is sent.
Exchanges(n, d, r, w) ==
  /\ w \in AgentType /\ w.rt = [node[n].rt EXCEPT ![d] = r]
  /\ w.seqno = node[n].seqno /\ w.rqueue = node[n].rqueue /\ w.out = {}
  /\ w.tries = node[n].tries /\ w.bid = node[n].bid

\* Learning a path keeps an agent neat.
LEMMA Learned ==
  ASSUME Inv, Regular, NEW n \in Node, NEW d \in Node, d # n, NEW p \in PathType,
         NEW s \in Nat, s # 0,
         NEW r, Proper(r), Bare(r) = Bare(Learn(node[n].rt[d], p, s)),
         NEW w1, Exchanges(n, d, r, w1)
  PROVE  /\ Whole(w1) /\ Neat(n, w1)
         /\ Bare(w1.rt[d]) = Learn(Bare(node[n].rt[d]), BarePath(p), s)
         /\ \A x \in Node : x # d => w1.rt[x] = node[n].rt[x]
<1> DEFINE w0 == node[n]
           e  == w0.rt[d]
           k  == Learn(e, p, s)
<1>0. /\ w1 \in AgentType /\ w1.rt = [node[n].rt EXCEPT ![d] = r]
      /\ w1.seqno = node[n].seqno /\ w1.rqueue = node[n].rqueue /\ w1.out = {}
      /\ w1.tries = node[n].tries /\ w1.bid = node[n].bid
  BY DEF Exchanges
<1>1. w0 \in AgentType /\ Whole(w0) /\ Neat(n, w0) /\ w0.rt \in [Node -> EntryType]
  BY NeatNode DEF AgentType
<1>2. Proper(e) /\ e \in EntryType /\ Numbered(e)
  BY <1>1 DEF Whole, Proper, Neat, Numbered
<1>3. \A x \in Node : w1.rt[x] = IF x = d THEN r ELSE w0.rt[x]
  BY <1>0, <1>1
<1>4. Whole(w1)
  BY <1>0, <1>1, <1>3 DEF Whole
<1> HIDE DEF w0, e
<1>5. k \in EntryType /\ Bare(k) = Learn(Bare(e), BarePath(p), s)
  BY <1>2, BareLearn
<1>6. Numbered(k)
  BY <1>2, LearnNumbered
<1> HIDE DEF k
<1>7. Bare(r) = Bare(k)
  BY DEF e, k, w0
<1>8. Numbered(r)
  <2>1. r \in EntryType
    BY DEF Proper
  <2>2. r.up = k.up /\ r.seqno = k.seqno
    BY <1>5, <1>7, <2>1, BareFields
  <2> QED
    BY <1>6, <2>2 DEF Numbered
<1>9. Neat(n, w1)
  <2>1. ~w1.rt[n].up
    BY <1>1, <1>3 DEF Neat
  <2>2. \A x \in Node : w1.rt[x].up => w1.rt[x].seqno # 0
    BY <1>1, <1>3, <1>8 DEF Neat, Numbered
  <2>3. w1.seqno = w0.seqno /\ w1.rqueue = w0.rqueue
    BY <1>0 DEF w0
  <2> QED
    BY <1>0, <1>1, <2>1, <2>2, <2>3 DEF Neat
<1>10. Bare(w1.rt[d]) = Learn(Bare(e), BarePath(p), s)
  BY <1>3, <1>5, <1>7
<1> QED
  BY <1>3, <1>4, <1>9, <1>10 DEF e, w0

\* And so does the flush of the buffer along it.
LEMMA TakenIn ==
  ASSUME NEW n \in Node, NEW d \in Node, NEW p \in PathType, NEW s \in Nat, s # 0,
         InBounds => p.hopcount <= MaxHops + 1 /\ s <= MaxSeqno,
         NEW w1, Whole(w1), Neat(n, w1),
         Bare(w1.rt[d]) = Learn(Bare(node[n].rt[d]), BarePath(p), s),
         \A x \in Node : x # d => w1.rt[x] = node[n].rt[x]
  PROVE  TakesIn(n, d, Flush(n, w1, d))
<1> DEFINE w == Flush(n, w1, d)
<1>1. /\ Whole(w) /\ Neat(n, w) /\ Sheds(Bare(w1.rt[d]), Bare(w.rt[d]))
      /\ \A x \in Node : x # d => Bare(w.rt[x]) = Bare(w1.rt[x])
  BY FlushThins
<1> HIDE DEF w
<1>2. \A x \in Node : x # d => Bare(w.rt[x]) = Bare(node[n].rt[x])
  BY <1>1
<1>3. ASSUME InBounds PROVE Takes(Bare(node[n].rt[d]), Bare(w.rt[d]))
  <2>1. BarePath(p) \in Ways
    BY <1>3, WayOf
  <2>2. s \in 1 .. MaxSeqno
    BY <1>3, RefinementAssumption
  <2>3. Sheds(Learn(Bare(node[n].rt[d]), BarePath(p), s), Bare(w.rt[d]))
    BY <1>1
  <2> QED
    BY <2>1, <2>2, <2>3 DEF Takes
<1> QED
  BY <1>1, <1>2, <1>3 DEF TakesIn, w

\* The agent once recvRequest has learned the path back to the source.
LEMMA ReverseTaken ==
  ASSUME Inv, Regular, NEW n \in Node, NEW pk \in net, Receives(n, pk, "RREQ"), pk.msg.src # n
  PROVE  TakesIn(n, pk.msg.src, WithReversePath(n, pk))
<1> DEFINE d  == pk.msg.src
           s  == pk.msg.srcseqno
           p  == ReversePath(n, pk)
           e  == node[n].rt[d]
           r  == Learn(e, p, s)
           w0 == [node[n] EXCEPT !.heard = @ \cup {Id(pk)}]
           w1 == [w0 EXCEPT !.rt[d] = r]
           w  == WithReversePath(n, pk)
<1>1. /\ pk \in PacketType /\ pk.from \in Node /\ d \in Node /\ s \in Nat
      /\ pk.msg.id \in 1 .. MaxBid /\ pk.msg.hops \in Nat /\ pk.msg.first \in Node
      /\ pk.msg.type = "RREQ"
  BY PacketFields, MessageFields DEF Receives, Inv, Typed
<1>0. d # n
  OBVIOUS
<1>2. p \in PathType /\ p.hopcount = pk.msg.hops + 1
  BY <1>1 DEF ReversePath, PathType
<1>3. node[n] \in AgentType /\ Proper(e) /\ node[n].out = {}
  BY <1>1, NodeFacts DEF Inv
<1>4. w = Flush(n, w1, d)
  <2>1. w0.rt[d] = e
    BY <1>3 DEF AgentType
  <2>2. w = Flush(n, [w0 EXCEPT !.rt[d] = Learn(w0.rt[d], p, s)], d)
    BY Zenon DEF WithReversePath
  <2> HIDE DEF w, w0, e, p, s, d
  <2> QED
    BY <2>1, <2>2
<1>5. w0 \in AgentType /\ w0.rt = node[n].rt /\ w0.seqno = node[n].seqno
      /\ w0.out = node[n].out /\ w0.tries = node[n].tries /\ w0.bid = node[n].bid
      /\ w0.rqueue = node[n].rqueue
  <2>1. Id(pk) \in Node \X (1 .. MaxBid)
    BY <1>1 DEF Id
  <2> QED
    BY <1>3, <2>1 DEF AgentType
<1> HIDE DEF w0
<1>6. Proper(r)
  BY <1>1, <1>2, <1>3, LearnEntry
<1>7. Bare(r) = Bare(Learn(node[n].rt[d], p, s))
  OBVIOUS
<1>8. s # 0
  BY <1>1 DEF Regular, NeatPacket
<1>9. InBounds => p.hopcount <= MaxHops + 1 /\ s <= MaxSeqno
  <2>1. InBounds => pk.msg.srcseqno <= MaxSeqno /\ pk.msg.hops <= MaxHops
    BY <1>1 DEF InBounds
  <2> HIDE DEF p
  <2> QED
    BY <1>1, <1>2, <2>1, RefinementAssumption DEF INFINITY2
<1> HIDE DEF r, p
<1>10. /\ w1 \in AgentType /\ w1.rt = [node[n].rt EXCEPT ![d] = r]
       /\ w1.seqno = node[n].seqno /\ w1.out = {} /\ w1.tries = node[n].tries
       /\ w1.bid = node[n].bid /\ w1.rqueue = node[n].rqueue
  BY <1>1, <1>3, <1>5, <1>6 DEF AgentType, Proper
<1> HIDE DEF w1, w, d, s, e
<1>11. Exchanges(n, d, r, w1)
  BY <1>10 DEF Exchanges
<1>12. /\ Whole(w1) /\ Neat(n, w1)
       /\ Bare(w1.rt[d]) = Learn(Bare(node[n].rt[d]), BarePath(p), s)
       /\ \A x \in Node : x # d => w1.rt[x] = node[n].rt[x]
  BY <1>1, <1>2, <1>6, <1>7, <1>8, <1>0, <1>11, Learned
<1>13. TakesIn(n, d, Flush(n, w1, d))
  BY <1>1, <1>2, <1>8, <1>9, <1>12, TakenIn
<1> QED
  BY <1>4, <1>13 DEF w, d

\* The agent once recvReply has learned the path to the destination.
LEMMA ForwardTaken ==
  ASSUME Inv, Regular, NEW n \in Node, NEW pk \in net, Receives(n, pk, "RREP"), pk.msg.dst # n
  PROVE  TakesIn(n, pk.msg.dst, WithForwardPath(n, pk))
<1> DEFINE d  == pk.msg.dst
           s  == pk.msg.seqno
           w0 == node[n]
           p  == ForwardPath(w0, pk)
           e  == w0.rt[d]
           r  == LearnReply(w0, e, p, s)
           w1 == [w0 EXCEPT !.rt[d] = r]
           w  == WithForwardPath(n, pk)
<1>1. /\ pk \in PacketType /\ pk.from \in Node /\ d \in Node /\ s \in Nat
      /\ pk.msg.hops \in Nat /\ pk.msg.first \in Node /\ pk.msg.trusted \in BOOLEAN
      /\ pk.msg.type = "RREP"
  BY PacketFields, MessageFields DEF Receives, Inv, Typed
<1>0. d # n
  OBVIOUS
<1>2. p \in PathType /\ p.hopcount = pk.msg.hops + 1
  <2>1. ReplyTrust(w0, pk) \in BOOLEAN
    BY <1>1 DEF ReplyTrust
  <2> QED
    BY <1>1, <2>1 DEF ForwardPath, PathType
<1>3. w0 \in AgentType /\ Proper(e) /\ w0.out = {} /\ e \in EntryType
  BY <1>1, NodeFacts DEF Inv, Proper
<1>4. w = Flush(n, w1, d)
  <2>1. w = Flush(n, [w0 EXCEPT !.rt[d] = LearnReply(w0, w0.rt[d], p, s)], d)
    BY Zenon DEF WithForwardPath
  <2> QED
    BY <2>1, Zenon
<1>5. s # 0
  BY <1>1 DEF Regular, NeatPacket
<1>6. InBounds => p.hopcount <= MaxHops + 1 /\ s <= MaxSeqno
  <2>1. InBounds => pk.msg.seqno <= MaxSeqno /\ pk.msg.hops <= MaxHops
    BY <1>1 DEF InBounds
  <2> HIDE DEF p
  <2> QED
    BY <1>1, <1>2, <2>1, RefinementAssumption DEF INFINITY2
<1> HIDE DEF p
<1>7. Proper(r)
  BY <1>1, <1>2, <1>3, LearnReplyEntry
<1>8. Bare(r) = Bare(Learn(e, p, s))
  <2>1. r \in EntryType
    BY <1>7 DEF Proper
  <2> HIDE DEF e, s, w0
  <2> QED
    BY <1>1, <1>2, <1>3, <2>1, BareLearnReply
<1> HIDE DEF r
<1>9. /\ w1 \in AgentType /\ w1.rt = [w0.rt EXCEPT ![d] = r]
      /\ w1.seqno = w0.seqno /\ w1.out = {} /\ w1.tries = w0.tries
      /\ w1.bid = w0.bid /\ w1.rqueue = w0.rqueue
  BY <1>1, <1>3, <1>7 DEF AgentType, Proper
<1> HIDE DEF w1, w, d, s, e
<1>10. Exchanges(n, d, r, w1)
  BY <1>9 DEF Exchanges, w0
<1>11. Bare(r) = Bare(Learn(node[n].rt[d], p, s))
  BY <1>8 DEF e, w0
<1>12. /\ Whole(w1) /\ Neat(n, w1)
       /\ Bare(w1.rt[d]) = Learn(Bare(node[n].rt[d]), BarePath(p), s)
       /\ \A x \in Node : x # d => w1.rt[x] = node[n].rt[x]
  BY <1>1, <1>2, <1>5, <1>7, <1>0, <1>10, <1>11, Learned
<1>13. TakesIn(n, d, Flush(n, w1, d))
  BY <1>1, <1>2, <1>5, <1>6, <1>12, TakenIn
<1> QED
  BY <1>4, <1>13 DEF w, d

\* What agent v of node n may be that took in a path to d as w, and then advertised routes.
Advertised(w, v, d) ==
  \A x \in Node :
    \/ Bare(v.rt[x]) = Bare(w.rt[x])
    \/ /\ Bare(v.rt[x]) = Bare(Advertise(w.rt[x])) /\ ~path_empty(w.rt[x])
       /\ x # d => w.rt[x].up

\* An entry advertised, bare.
LEMMA BareAdvertised ==
  ASSUME NEW w, Whole(w), NEW x \in Node, NEW c, Bare(c) = Bare(Advertise(w.rt[x])), c \in EntryType
  PROVE  /\ Bare(c) = Advertise(Bare(w.rt[x]))
         /\ c.up = w.rt[x].up /\ c.seqno = w.rt[x].seqno
         /\ path_empty(w.rt[x]) <=> path_empty(Bare(w.rt[x]))
<1> DEFINE e == w.rt[x]
           a == Advertise(e)
<1>1. e \in EntryType
  BY BareEntry
<1>2. Bare(a) = Advertise(Bare(e)) /\ a \in EntryType /\ Alike(e, a)
  BY <1>1, BareEntry, BareAdvertise, AdvertiseEntry
<1>3. a.up = e.up /\ a.seqno = e.seqno
  BY <1>2 DEF Alike
<1> HIDE DEF a, e
<1>4. Bare(c) = Bare(a)
  BY DEF a, e
<1>5. c.up = a.up /\ c.seqno = a.seqno
  BY <1>2, <1>4, BareFields
<1>6. path_empty(Bare(e)) <=> path_empty(e)
  BY <1>1, BareLookups
<1> QED
  BY <1>2, <1>3, <1>4, <1>5, <1>6 DEF e

\* Taking in a path, advertising and sending neat messages.
LEMMA AfterTaking ==
  ASSUME Inv, Regular, NEW n \in Node, NEW d \in Node, NEW w, TakesIn(n, d, w),
         NEW v \in AgentType, v.seqno # 0, v.rqueue = w.rqueue,
         \A pk \in v.out : pk \in w.out \/ NeatPacket(pk), Advertised(w, v, d)
  PROVE  Conforms(n, v)
<1>1. Whole(w) /\ Neat(n, w) /\ \A x \in Node : v.rt[x] \in EntryType /\ w.rt[x] \in EntryType
  BY BareEntry DEF TakesIn, AgentType
<1>2. ASSUME NEW x \in Node
      PROVE  v.rt[x].up = w.rt[x].up /\ v.rt[x].seqno = w.rt[x].seqno
  <2>1. CASE Bare(v.rt[x]) = Bare(w.rt[x])
    BY <1>1, <2>1, BareFields
  <2>2. CASE Bare(v.rt[x]) = Bare(Advertise(w.rt[x]))
    BY <1>1, <2>2, BareAdvertised
  <2> QED
    BY <2>1, <2>2 DEF Advertised
<1>3. Neat(n, v)
  <2>1. \A pk \in v.out : NeatPacket(pk)
    BY <1>1 DEF Neat
  <2> QED
    BY <1>1, <1>2, <2>1 DEF Neat
<1>4. ASSUME InBounds, NEW x \in Node
      PROVE  EntryStep(Bare(node[n].rt[x]), Bare(v.rt[x]))
  <2> DEFINE b == Bare(node[n].rt[x])
             c == Bare(w.rt[x])
  <2>1. \/ Bare(v.rt[x]) = c
        \/ /\ Bare(v.rt[x]) = Advertise(c) /\ ~path_empty(c) /\ (x # d => w.rt[x].up)
    <3>1. CASE Bare(v.rt[x]) = Bare(w.rt[x])
      BY <3>1
    <3>2. CASE /\ Bare(v.rt[x]) = Bare(Advertise(w.rt[x])) /\ ~path_empty(w.rt[x])
               /\ x # d => w.rt[x].up
      BY <1>1, <3>2, BareAdvertised
    <3> QED
      BY <3>1, <3>2 DEF Advertised
  <2>2. c.up = w.rt[x].up
    BY <1>1, BareFields
  <2>3. x # d => c = b
    BY DEF TakesIn
  <2>4. x = d => Takes(b, c)
    BY <1>4 DEF TakesIn
  <2> HIDE DEF b, c
  <2>5. CASE x = d
    <3>1. EntryLearns(b, c) /\ (~path_empty(c) => EntryLearns(b, Advertise(c)))
      BY <2>4, <2>5, TakesLearns
    <3>2. EntryLearns(b, Bare(v.rt[x]))
      BY <2>1, <3>1
    <3> QED
      BY <3>2 DEF EntryStep, b
  <2>6. CASE x # d
    <3>1. Bare(v.rt[x]) = b \/ (b.up /\ Bare(v.rt[x]) = Advertise(b))
      BY <2>1, <2>2, <2>3, <2>6
    <3> QED
      BY <3>1 DEF EntryStep, b
  <2> QED
    BY <2>5, <2>6
<1> QED
  BY <1>3, <1>4 DEF Conforms

\* recvRequest at the destination.
LEMMA AtDestinationConforms ==
  ASSUME Inv, Regular, NEW n \in Node, NEW pk \in net, Receives(n, pk, "RREQ"),
         pk.msg.src # n, RequestAtDestination(n, pk)
  PROVE  Regular' /\ (InBounds => EntriesStep)
<1> DEFINE w == WithReversePath(n, pk)
           s == ReplySeqno(w.seqno, pk.msg.dstseqno)
           msg == Rrep(pk.msg.src, pk.msg.id, n, s, 0, pk.from, TRUE)
           packets == Unicast(n, pk.from, msg)
           v == Send([w EXCEPT !.seqno = s, !.nb = @ \cup {pk.from}], packets)
           d == pk.msg.src
           gone == {pk}
<1>1. /\ pk \in PacketType /\ pk.from \in Node /\ d \in Node
      /\ pk.msg.dstseqno \in Nat /\ pk.msg.id \in 1 .. MaxBid
  BY PacketFields, MessageFields DEF Receives, Inv, Typed
<1>2. Step(n, v, gone)
  BY DEF RequestAtDestination
<1>3. TakesIn(n, d, w)
  BY ReverseTaken
<1>4. w \in AgentType /\ w.seqno \in Nat /\ w.seqno # 0
  BY <1>3 DEF TakesIn, Whole, AgentType, Neat
<1> HIDE DEF w, gone
<1>5. s \in Nat /\ s # 0
  BY <1>1, <1>4, ReplySeqnoOf
<1> HIDE DEF s
<1>6. /\ msg \in MessageType /\ msg.type = "RREP" /\ msg.seqno = s
  BY <1>1, <1>5 DEF Rrep, RrepType, MessageType
<1> HIDE DEF msg
<1>7. packets \subseteq PacketType /\ \A x \in packets : x.msg = msg
  BY <1>6, UnicastPackets
<1> HIDE DEF packets
<1>8. /\ v \in AgentType /\ v.rt = w.rt /\ v.seqno = s /\ v.rqueue = w.rqueue
      /\ v.out = w.out \cup packets
  BY <1>1, <1>4, <1>5, <1>7 DEF AgentType, Send
<1> HIDE DEF v, d
<1>9. \A x \in v.out : x \in w.out \/ NeatPacket(x)
  BY <1>5, <1>6, <1>7, <1>8 DEF NeatPacket
<1>10. Advertised(w, v, d)
  BY <1>8 DEF Advertised
<1>11. v.seqno # 0
  BY <1>5, <1>8
<1>12. Conforms(n, v)
  BY <1>1, <1>3, <1>8, <1>9, <1>10, <1>11, AfterTaking
<1> QED
  BY <1>2, <1>12, ConformStep

\* An agent that only took in a path, or crashed on it.
LEMMA TakenConforms ==
  ASSUME Inv, Regular, NEW n \in Node, NEW d \in Node, NEW w, TakesIn(n, d, w)
  PROVE  Conforms(n, w) /\ Conforms(n, [w EXCEPT !.crashed = TRUE])
<1> DEFINE v == [w EXCEPT !.crashed = TRUE]
<1>1. w \in AgentType /\ w.seqno # 0
  BY DEF TakesIn, Whole, Neat
<1>2. /\ v \in AgentType /\ v.rt = w.rt /\ v.seqno = w.seqno /\ v.rqueue = w.rqueue
      /\ v.out = w.out
  BY <1>1 DEF AgentType
<1> HIDE DEF v
<1>3. Advertised(w, w, d) /\ Advertised(w, v, d)
  BY <1>2 DEF Advertised
<1>4. Conforms(n, w)
  BY <1>1, <1>3, AfterTaking
<1>5. Conforms(n, v)
  BY <1>1, <1>2, <1>3, AfterTaking
<1> QED
  BY <1>4, <1>5 DEF v

\* One entry changed to the one advertised.
LEMMA OneAdvertised ==
  ASSUME NEW n \in Node, NEW w, Whole(w), NEW d \in Node, NEW y \in Node, y # d => w.rt[y].up,
         ~path_empty(w.rt[y]), NEW r, Bare(r) = Bare(Advertise(w.rt[y])),
         NEW v, v.rt = [w.rt EXCEPT ![y] = r]
  PROVE  Advertised(w, v, d)
<1>1. w.rt \in [Node -> EntryType]
  BY DEF Whole, AgentType
<1>2. \A x \in Node : v.rt[x] = IF x = y THEN r ELSE w.rt[x]
  BY <1>1
<1> QED
  BY <1>2 DEF Advertised

\* An entry advertised and marked, and its first path.
LEMMA AdvertisedFirst ==
  ASSUME NEW w, Whole(w), NEW d \in Node, ~path_empty(w.rt[d])
  PROVE  LET e == Advertise(w.rt[d])
             r == [e EXCEPT !.error = TRUE]
         IN  /\ e \in EntryType /\ r \in EntryType /\ Bare(r) = Bare(e)
             /\ e.seqno = w.rt[d].seqno /\ e.seqno \in Nat /\ e.adv \in Nat
             /\ path_find(e) \in PathType
<1> DEFINE f == w.rt[d]
           e == Advertise(f)
           r == [e EXCEPT !.error = TRUE]
<1>1. f \in EntryType /\ Proper(f)
  BY BareEntry
<1>2. e \in EntryType /\ Alike(f, e)
  BY <1>1, BareAdvertise, AdvertiseEntry
<1>3. e.seqno = f.seqno /\ e.paths = f.paths /\ e.paths # << >>
  BY <1>2 DEF Alike, path_empty
<1> HIDE DEF f, e
<1>4. e.seqno \in Nat /\ e.adv \in Nat /\ e.paths \in Seq(PathType)
  BY <1>2, EntryFields
<1>5. path_find(e) \in PathType
  <2> DEFINE s == e.paths
  <2>1. s \in Seq(PathType) /\ s # << >>
    BY <1>3, <1>4
  <2> HIDE DEF s
  <2>2. Head(s) \in PathType
    BY <2>1
  <2> QED
    BY <2>2 DEF s, path_find
<1>6. /\ r \in EntryType /\ r.seqno = e.seqno /\ r.adv = e.adv /\ r.paths = e.paths
      /\ r.up = e.up /\ r.highest = e.highest
  BY <1>2 DEF EntryType
<1> HIDE DEF r
<1>7. Bare(r) = Bare(e)
  BY <1>6 DEF Bare
<1> QED
  BY <1>2, <1>3, <1>4, <1>5, <1>6, <1>7 DEF r, e, f

\* recvRequest answered from the table.
LEMMA AnsweredConforms ==
  ASSUME Inv, Regular, NEW n \in Node, NEW pk \in net, Receives(n, pk, "RREQ"),
         pk.msg.src # n, RequestAnswered(n, pk)
  PROVE  Regular' /\ (InBounds => EntriesStep)
<1> DEFINE w == WithReversePath(n, pk)
           x == pk.msg.src
           d == pk.msg.dst
           e == Advertise(w.rt[d])
           r == [e EXCEPT !.error = TRUE]
           msg == Rrep(x, pk.msg.id, d, e.seqno, e.adv, path_find(e).lasthop,
                       path_find(e).trusted)
           packets == Unicast(n, pk.from, msg)
           v == Send([w EXCEPT !.answered = @ \cup {Id(pk)}, !.rt[d] = r], packets)
           gone == {pk}
<1>1. /\ pk \in PacketType /\ pk.from \in Node /\ x \in Node /\ d \in Node
      /\ pk.msg.id \in 1 .. MaxBid
  BY PacketFields, MessageFields DEF Receives, Inv, Typed
<1>2. w.rt[d].up /\ (Step(n, w, gone) \/ Step(n, v, gone))
  <2>1. /\ FreshEnough(w, pk.msg)
        /\ Step(n, IF ~( /\ Id(pk) \notin w.answered
                         /\ Offered(node[n].rt[pk.msg.src], ReversePath(n, pk), pk.msg.srcseqno))
                   THEN w ELSE v, gone)
    BY Zenon DEF RequestAnswered
  <2> HIDE DEF w, v, gone
  <2> QED
    BY <2>1 DEF FreshEnough
<1>3. TakesIn(n, x, w)
  BY ReverseTaken
<1> HIDE DEF w, x, gone
<1>4. w \in AgentType /\ Whole(w) /\ w.seqno # 0 /\ Neat(n, w)
  BY <1>3 DEF TakesIn, Whole, Neat
<1>5. CASE Step(n, w, gone)
  <2>1. Conforms(n, w)
    BY <1>1, <1>3, TakenConforms
  <2> QED
    BY <1>5, <2>1, ConformStep
<1>6. CASE Step(n, v, gone)
  <2>1. ~path_empty(w.rt[d]) /\ w.rt[d].seqno # 0
    BY <1>1, <1>2, <1>4 DEF Whole, Proper, path_empty, Neat
  <2>2. /\ e \in EntryType /\ r \in EntryType /\ Bare(r) = Bare(e)
        /\ e.seqno = w.rt[d].seqno /\ e.seqno \in Nat /\ e.adv \in Nat
        /\ path_find(e) \in PathType
    BY <1>1, <1>4, <2>1, AdvertisedFirst
  <2>3. Bare(r) = Bare(Advertise(w.rt[d]))
    BY <2>2
  <2> HIDE DEF e, r
  <2>4. msg \in MessageType /\ msg.type = "RREP" /\ msg.seqno # 0
    BY <1>1, <2>1, <2>2 DEF Rrep, RrepType, MessageType, PathType, x
  <2> HIDE DEF msg
  <2>5. packets \subseteq PacketType /\ \A k \in packets : k.msg = msg
    BY <2>4, <1>1, UnicastPackets
  <2> HIDE DEF packets
  <2>6. /\ v \in AgentType /\ v.rt = [w.rt EXCEPT ![d] = r] /\ v.seqno = w.seqno
        /\ v.rqueue = w.rqueue /\ v.out = w.out \cup packets
    <3>1. Id(pk) \in Node \X (1 .. MaxBid)
      BY <1>1 DEF Id, x
    <3> QED
      BY <1>1, <1>4, <2>2, <2>5, <3>1 DEF AgentType, Send
  <2> HIDE DEF v, d
  <2>7. \A k \in v.out : k \in w.out \/ NeatPacket(k)
    BY <2>4, <2>5, <2>6 DEF NeatPacket
  <2>8. Advertised(w, v, x)
    BY <1>1, <1>2, <1>4, <2>1, <2>3, <2>6, OneAdvertised
  <2>9. v.seqno # 0
    BY <1>4, <2>6
  <2>10. Conforms(n, v)
    BY <1>1, <1>3, <2>6, <2>7, <2>8, <2>9, AfterTaking
  <2> QED
    BY <1>6, <2>10, ConformStep
<1> QED
  BY <1>2, <1>5, <1>6

\* recvRequest passing the RREQ on.
LEMMA RequestRelayedConforms ==
  ASSUME Inv, Regular, NEW n \in Node, NEW pk \in net, Receives(n, pk, "RREQ"),
         NEW trusted \in BOOLEAN, pk.msg.src # n, RequestRelayed(n, pk, trusted)
  PROVE  Regular' /\ (InBounds => EntriesStep)
<1> DEFINE w == WithReversePath(n, pk)
           d == pk.msg.src
           e == Advertise(w.rt[d])
           msg == [pk.msg EXCEPT !.dstseqno = Larger(w.rt[pk.msg.dst].seqno, @),
                                 !.hops = e.adv, !.first = path_find(e).lasthop,
                                 !.trusted = trusted]
           packets == Broadcast(n, msg)
           v == Send([w EXCEPT !.rt[d] = e], packets)
           u == [w EXCEPT !.crashed = TRUE]
           gone == {pk}
<1>1. /\ pk \in PacketType /\ pk.msg \in RreqType /\ d \in Node /\ pk.msg.dst \in Node
      /\ pk.msg.dstseqno \in Nat /\ pk.msg.type = "RREQ" /\ pk.msg.srcseqno # 0
  BY PacketFields, MessageFields DEF Receives, Inv, Typed, Regular, NeatPacket
<1>2. \/ Step(n, w, gone)
      \/ Step(n, u, gone)
      \/ ~path_empty(e) /\ Step(n, v, gone)
  <2>1. Step(n, IF Id(pk) \in node[n].heard THEN w
                ELSE IF path_empty(e) THEN u ELSE v, gone)
    BY Zenon DEF RequestRelayed
  <2> HIDE DEF w, v, e, u, gone
  <2> QED
    BY <2>1
<1>3. TakesIn(n, d, w)
  BY ReverseTaken
<1> HIDE DEF w, gone
<1>4. w \in AgentType /\ Whole(w) /\ w.seqno # 0 /\ w.rt[pk.msg.dst].seqno \in Nat
  BY <1>1, <1>3, BareEntry, EntryFields DEF TakesIn, Whole, Neat
<1>5. Conforms(n, w) /\ Conforms(n, u)
  BY <1>1, <1>3, TakenConforms
<1>6. CASE Step(n, w, gone)
  BY <1>5, <1>6, ConformStep
<1>7. CASE Step(n, u, gone)
  <2> HIDE DEF u
  <2> QED
    BY <1>5, <1>7, ConformStep
<1>8. CASE ~path_empty(e) /\ Step(n, v, gone)
  <2>1. ~path_empty(w.rt[d])
    <3>1. w.rt[d] \in EntryType /\ e.paths = w.rt[d].paths
      BY <1>1, <1>4, BareEntry, AdvertiseEntry DEF Alike
    <3> QED
      BY <1>8, <3>1 DEF path_empty
  <2>2. e \in EntryType /\ e.adv \in Nat /\ path_find(e) \in PathType
    BY <1>1, <1>4, <2>1, AdvertisedFirst
  <2>3. Bare(e) = Bare(Advertise(w.rt[d]))
    OBVIOUS
  <2> HIDE DEF e
  <2>4. /\ msg \in RreqType /\ msg.type = "RREQ" /\ msg.srcseqno = pk.msg.srcseqno
    <3>1. Larger(w.rt[pk.msg.dst].seqno, pk.msg.dstseqno) \in Nat
      BY <1>1, <1>4 DEF Larger
    <3>2. path_find(e).lasthop \in Node
      BY <2>2 DEF PathType
    <3> QED
      BY <1>1, <2>2, <3>1, <3>2 DEF RreqType
  <2>5. msg \in MessageType
    BY <2>4 DEF MessageType
  <2> HIDE DEF msg
  <2>6. packets \subseteq PacketType /\ \A k \in packets : k.msg = msg
    BY <2>5, BroadcastPackets
  <2> HIDE DEF packets
  <2>7. /\ v \in AgentType /\ v.rt = [w.rt EXCEPT ![d] = e] /\ v.seqno = w.seqno
        /\ v.rqueue = w.rqueue /\ v.out = w.out \cup packets
    BY <1>1, <1>4, <2>2, <2>6 DEF AgentType, Send
  <2>8. Step(n, v, gone)
    BY <1>8
  <2> HIDE DEF v, d
  <2>9. \A k \in v.out : k \in w.out \/ NeatPacket(k)
    BY <1>1, <2>4, <2>6, <2>7 DEF NeatPacket
  <2>10. Advertised(w, v, d)
    BY <1>1, <1>4, <2>1, <2>3, <2>7, OneAdvertised
  <2>11. v.seqno # 0
    BY <1>4, <2>7
  <2>12. Conforms(n, v)
    BY <1>1, <1>3, <2>7, <2>9, <2>10, <2>11, AfterTaking
  <2> QED
    BY <2>8, <2>12, ConformStep
<1> QED
  BY <1>2, <1>6, <1>7, <1>8

\* recvRequest as a whole.
LEMMA RecvRequestConforms ==
  ASSUME Inv, Regular, NEW n \in Node, RecvRequest(n)
  PROVE  Regular' /\ (InBounds => EntriesStep)
<1>1. PICK pk \in net :
        /\ Receives(n, pk, "RREQ")
        /\ \E trusted \in RequestTrust(node[n], pk) :
             \/ RequestDropped(n, pk, trusted)
             \/ /\ pk.msg.src # n
                /\ trusted \/ pk.from = pk.msg.src
                /\ \/ RequestIgnored(n, pk)
                   \/ /\ ~RequestUseless(n, pk, node[n].rt[pk.msg.src])
                      /\ \/ RequestAtDestination(n, pk)
                         \/ RequestAnswered(n, pk)
                         \/ RequestRelayed(n, pk, trusted)
  BY DEF RecvRequest
<1>2. PICK trusted \in RequestTrust(node[n], pk) :
        \/ RequestDropped(n, pk, trusted)
        \/ /\ pk.msg.src # n
           /\ \/ RequestIgnored(n, pk)
              \/ RequestAtDestination(n, pk)
              \/ RequestAnswered(n, pk)
              \/ RequestRelayed(n, pk, trusted)
  BY <1>1
<1>3. /\ pk \in PacketType /\ pk.msg.src \in Node /\ pk.msg.id \in 1 .. MaxBid
      /\ pk.msg.trusted \in BOOLEAN
  BY <1>1, PacketFields, MessageFields DEF Receives, Inv, Typed
<1>4. trusted \in BOOLEAN
  BY <1>3 DEF RequestTrust
<1> DEFINE w == node[n]
           gone == {pk}
<1>5. w \in AgentType /\ Conforms(n, w) /\ w.out = {}
  BY NeatNode
<1>6. CASE RequestDropped(n, pk, trusted)
  <2>1. Step(n, w, gone)
    BY <1>6 DEF RequestDropped
  <2> HIDE DEF w, gone
  <2> QED
    BY <1>5, <2>1, ConformStep
<1>7. CASE RequestIgnored(n, pk)
  <2> DEFINE v == [w EXCEPT !.heard = @ \cup {Id(pk)}]
  <2>1. Step(n, v, gone)
    BY <1>7 DEF RequestIgnored
  <2>2. Id(pk) \in Node \X (1 .. MaxBid)
    BY <1>3 DEF Id
  <2> HIDE DEF w, gone
  <2>3. /\ v \in AgentType /\ v.rt = w.rt /\ v.out = {} /\ v.seqno = w.seqno
        /\ v.rqueue = w.rqueue
    BY <1>5, <2>2 DEF AgentType
  <2> HIDE DEF v
  <2>4. Conforms(n, v)
    BY <2>3, SendConforms DEF w
  <2> QED
    BY <2>1, <2>4, ConformStep
<1> QED
  BY <1>1, <1>2, <1>4, <1>6, <1>7, AtDestinationConforms, AnsweredConforms,
     RequestRelayedConforms

\* Relaying a reply changes one entry, but for precursors.
LEMMA RelayedBare ==
  ASSUME NEW w, Whole(w), NEW id \in Node \X (1 .. MaxBid), NEW hop \in Node,
         NEW d \in Node, NEW r \in EntryType, NEW x \in Node, NEW from \in Node,
         NEW packets \in SUBSET PacketType,
         NEW v, v = Relayed(w, id, hop, d, r, x, from, packets)
  PROVE  /\ v \in AgentType /\ v.seqno = w.seqno /\ v.rqueue = w.rqueue
         /\ v.out = w.out \cup packets
         /\ \A y \in Node : Bare(v.rt[y]) = IF y = d THEN Bare(r) ELSE Bare(w.rt[y])
<1> DEFINE u == [w EXCEPT !.answered = @ \cup {id}, !.nb = @ \cup {hop}, !.rt[d] = r]
           a == [w.rt EXCEPT ![d] = r]
           q == [a[x] EXCEPT !.pcs = @ \cup {from}]
           b == [a EXCEPT ![x] = q]
<1>1. w \in AgentType /\ w.rt \in [Node -> EntryType]
  BY DEF Whole, AgentType
<1>2. a \in [Node -> EntryType]
  BY <1>1
<1>3. \A y \in Node : a[y] = IF y = d THEN r ELSE w.rt[y]
  BY <1>1
<1>4. v = [[u EXCEPT !.rt[x].pcs = @ \cup {from}] EXCEPT !.out = @ \cup packets]
  BY DEF Relayed, Send
<1>5. u \in AgentType /\ u.rt = a /\ u.nb = w.nb \cup {hop}
      /\ u.seqno = w.seqno /\ u.out = w.out /\ u.rqueue = w.rqueue
  BY <1>1, <1>2 DEF AgentType
<1> HIDE DEF a, u
<1>6. /\ q \in EntryType /\ q.seqno = a[x].seqno /\ q.adv = a[x].adv /\ q.paths = a[x].paths
      /\ q.up = a[x].up /\ q.highest = a[x].highest
  BY <1>2 DEF EntryType
<1>7. v = [[u EXCEPT !.rt = b] EXCEPT !.out = @ \cup packets]
  BY <1>4, <1>5 DEF AgentType
<1> HIDE DEF q
<1>8. b \in [Node -> EntryType] /\ \A y \in Node : b[y] = IF y = x THEN q ELSE a[y]
  BY <1>2, <1>6
<1> HIDE DEF b
<1>9. /\ v \in AgentType /\ v.rt = b /\ v.seqno = w.seqno /\ v.rqueue = w.rqueue
      /\ v.out = w.out \cup packets
  <2> DEFINE z == [u EXCEPT !.rt = b]
  <2>1. /\ z \in AgentType /\ z.rt = b /\ z.seqno = w.seqno /\ z.out = w.out
        /\ z.rqueue = w.rqueue
    BY <1>5, <1>8 DEF AgentType
  <2> HIDE DEF z
  <2>2. v = [z EXCEPT !.out = @ \cup packets]
    BY <1>7 DEF z
  <2>3. z.out \cup packets \in SUBSET PacketType
    BY <2>1 DEF AgentType
  <2> QED
    BY <2>1, <2>2, <2>3 DEF AgentType
<1>10. Bare(q) = Bare(a[x])
  BY <1>6 DEF Bare
<1>11. \A y \in Node : Bare(b[y]) = Bare(a[y])
  BY <1>8, <1>10
<1> QED
  BY <1>3, <1>9, <1>11

\* recvReply passing the RREP on.
LEMMA ReplyRelayedConforms ==
  ASSUME Inv, Regular, NEW n \in Node, NEW pk \in net, Receives(n, pk, "RREP"),
         pk.msg.dst # n, ReplyRelayed(n, pk)
  PROVE  Regular' /\ (InBounds => EntriesStep)
<1> DEFINE w   == WithForwardPath(n, pk)
           d   == pk.msg.dst
           x   == pk.msg.ipdst
           id  == <<x, pk.msg.id>>
           e   == Advertise(w.rt[d])
           r   == [e EXCEPT !.error = TRUE]
           hop == path_find(w.rt[x]).nexthop
           msg == [pk.msg EXCEPT !.hops = e.adv, !.first = path_find(e).lasthop,
                                 !.trusted = ReplyTrust(node[n], pk)]
           packets == Unicast(n, hop, msg)
           v == Relayed(w, id, hop, d, r, x, pk.from, packets)
           u == [w EXCEPT !.crashed = TRUE]
           gone == {pk}
<1>1. /\ pk \in PacketType /\ pk.msg \in RrepType /\ pk.from \in Node /\ d \in Node
      /\ x \in Node /\ pk.msg.id \in 1 .. MaxBid /\ pk.msg.trusted \in BOOLEAN
      /\ pk.msg.type = "RREP" /\ pk.msg.seqno # 0
  BY PacketFields, MessageFields DEF Receives, Inv, Typed, Regular, NeatPacket
<1>2. /\ w.rt[x].up
      /\ Step(n, u, gone) \/ (~path_empty(e) /\ Step(n, v, gone))
  <2>1. /\ Relays(n, w, pk)
        /\ Step(n, IF path_empty(e) THEN u ELSE v, gone)
    BY Zenon DEF ReplyRelayed, Relayed
  <2> HIDE DEF w, v, e, u, gone
  <2> QED
    BY <2>1 DEF Relays
<1>3. TakesIn(n, d, w)
  BY ForwardTaken
<1> HIDE DEF w, gone
<1>4. w \in AgentType /\ Whole(w) /\ w.seqno # 0
  BY <1>3 DEF TakesIn, Whole, Neat
<1>5. Conforms(n, u)
  BY <1>1, <1>3, TakenConforms
<1>6. CASE Step(n, u, gone)
  <2> HIDE DEF u
  <2> QED
    BY <1>5, <1>6, ConformStep
<1>7. CASE ~path_empty(e) /\ Step(n, v, gone)
  <2>1. ~path_empty(w.rt[d])
    <3>1. w.rt[d] \in EntryType /\ e.paths = w.rt[d].paths
      BY <1>1, <1>4, BareEntry, AdvertiseEntry DEF Alike
    <3> QED
      BY <1>7, <3>1 DEF path_empty
  <2>2. /\ e \in EntryType /\ r \in EntryType /\ Bare(r) = Bare(e) /\ e.adv \in Nat
        /\ path_find(e) \in PathType
    BY <1>1, <1>4, <2>1, AdvertisedFirst
  <2>3. Bare(r) = Bare(Advertise(w.rt[d]))
    BY <2>2
  <2> HIDE DEF e, r
  <2>4. hop \in Node
    <3>1. w.rt[x].paths # << >> /\ w.rt[x].paths \in Seq(PathType)
      BY <1>1, <1>2, <1>4, BareEntry, EntryFields DEF Proper
    <3>2. path_find(w.rt[x]) \in PathType
      BY <3>1 DEF path_find
    <3> QED
      BY <3>2 DEF PathType
  <2> HIDE DEF hop
  <2>5. /\ msg \in RrepType /\ msg.type = "RREP" /\ msg.seqno = pk.msg.seqno
    <3>1. ReplyTrust(node[n], pk) \in BOOLEAN
      BY <1>1 DEF ReplyTrust
    <3>2. path_find(e).lasthop \in Node
      BY <2>2 DEF PathType
    <3> QED
      BY <1>1, <2>2, <3>1, <3>2 DEF RrepType
  <2>6. msg \in MessageType
    BY <2>5 DEF MessageType
  <2> HIDE DEF msg
  <2>7. packets \in SUBSET PacketType /\ \A k \in packets : k.msg = msg
    BY <2>6, UnicastPackets
  <2> HIDE DEF packets
  <2>8. id \in Node \X (1 .. MaxBid)
    BY <1>1
  <2> HIDE DEF id
  <2>9. /\ v \in AgentType /\ v.seqno = w.seqno /\ v.rqueue = w.rqueue
        /\ v.out = w.out \cup packets
        /\ \A y \in Node : Bare(v.rt[y]) = IF y = d THEN Bare(r) ELSE Bare(w.rt[y])
    <3> HIDE DEF d, x
    <3>1. v = Relayed(w, id, hop, d, r, x, pk.from, packets)
      OBVIOUS
    <3> HIDE DEF v
    <3> QED
      BY <1>1, <1>4, <2>2, <2>4, <2>7, <2>8, <3>1, RelayedBare
  <2>10. Step(n, v, gone)
    BY <1>7
  <2> HIDE DEF v, d, x
  <2>11. \A k \in v.out : k \in w.out \/ NeatPacket(k)
    BY <1>1, <2>5, <2>7, <2>9 DEF NeatPacket
  <2>12. Advertised(w, v, d)
    BY <2>1, <2>3, <2>9 DEF Advertised
  <2>13. v.seqno # 0
    BY <1>4, <2>9
  <2>14. Conforms(n, v)
    BY <1>1, <1>3, <2>9, <2>11, <2>12, <2>13, AfterTaking
  <2> QED
    BY <2>10, <2>14, ConformStep
<1> QED
  BY <1>2, <1>6, <1>7

\* recvReply as a whole.
LEMMA RecvReplyConforms ==
  ASSUME Inv, Regular, NEW n \in Node, RecvReply(n)
  PROVE  Regular' /\ (InBounds => EntriesStep)
<1>1. PICK pk \in net :
        /\ Receives(n, pk, "RREP")
        /\ \/ ReplyDropped(n, pk)
           \/ pk.msg.dst # n /\ (ReplyKept(n, pk) \/ ReplyRelayed(n, pk))
  BY DEF RecvReply
<1> DEFINE w == WithForwardPath(n, pk)
           gone == {pk}
<1>2. CASE ReplyDropped(n, pk)
  <2>1. Step(n, node[n], gone)
    BY <1>2 DEF ReplyDropped
  <2> HIDE DEF gone
  <2> QED
    BY <2>1, NeatNode, ConformStep
<1>3. CASE pk.msg.dst # n /\ ReplyKept(n, pk)
  <2>1. Step(n, w, gone)
    BY <1>3 DEF ReplyKept
  <2>2. TakesIn(n, pk.msg.dst, w) /\ pk.msg.dst \in Node
    BY <1>1, <1>3, ForwardTaken, PacketFields, MessageFields DEF Receives, Inv, Typed
  <2> HIDE DEF w, gone
  <2>3. Conforms(n, w)
    BY <2>2, TakenConforms
  <2> QED
    BY <2>1, <2>3, ConformStep
<1> QED
  BY <1>1, <1>2, <1>3, ReplyRelayedConforms

-----------------------------------------------------------------------------
(* Errors and alarms. *)

\* recvError: RERRs of a message within bounds.
LEMMA RecvErrorConforms ==
  ASSUME Inv, Regular, NEW n \in Node, RecvError(n)
  PROVE  Regular' /\ (InBounds => EntriesStep)
<1>1. PICK pk \in net :
        /\ Receives(n, pk, "RERR")
        /\ LET after == [d \in Node |-> IF d \in pk.msg.dests
                                        THEN ErrorReceived(node[n].rt[d], pk.from, pk.msg.seqno[d])
                                        ELSE node[n].rt[d]]
           IN  Step(n, ReportErrors(n, node[n], after), {pk})
  BY DEF RecvError
<1> DEFINE w == node[n]
           after == [d \in Node |-> IF d \in pk.msg.dests
                                    THEN ErrorReceived(w.rt[d], pk.from, pk.msg.seqno[d])
                                    ELSE w.rt[d]]
           v == ReportErrors(n, w, after)
           gone == {pk}
<1>2. Step(n, v, gone)
  BY <1>1
<1>3. /\ pk \in PacketType /\ pk.from \in Node /\ pk.msg.type = "RERR"
      /\ \A d \in Node : pk.msg.seqno[d] \in Nat
  BY <1>1, PacketFields, MessageFields DEF Receives, Inv, Typed
<1>4. w \in AgentType /\ Whole(w) /\ Neat(n, w) /\ w.out = {}
  BY NeatNode
<1>5. \A d \in Node : after[d] = IF d \in pk.msg.dests
                                 THEN ErrorReceived(w.rt[d], pk.from, pk.msg.seqno[d])
                                 ELSE w.rt[d]
  OBVIOUS
<1> HIDE DEF after, gone, w
<1>6. ASSUME NEW d \in Node
      PROVE  Proper(after[d]) /\ (after[d].up => w.rt[d].up /\ after[d].seqno # 0)
  <2> DEFINE e == w.rt[d]
             s == pk.msg.seqno[d]
             r == ErrorReceived(e, pk.from, s)
  <2>1. Proper(e) /\ s \in Nat /\ (e.up => e.seqno # 0)
    BY <1>3, <1>4 DEF Whole, Neat
  <2>2. after[d] = IF d \in pk.msg.dests THEN r ELSE e
    BY <1>5
  <2> HIDE DEF e, s
  <2>3. Proper(r) /\ (r.up => e.up /\ r.seqno = e.seqno)
    BY <2>1, ErrorNumbered
  <2> HIDE DEF r
  <2>4. Proper(after[d]) /\ (after[d].up => e.up /\ after[d].seqno # 0)
    BY <2>1, <2>2, <2>3
  <2> QED
    BY <2>4 DEF e
<1>7. Whole(v) /\ Neat(n, v) /\ \A d \in Node : Bare(v.rt[d]) = Bare(after[d])
  BY <1>4, <1>6, ReportErrorsNeat
<1> HIDE DEF v
<1>8. ASSUME InBounds, NEW d \in Node
      PROVE  EntryStep(Bare(w.rt[d]), Bare(v.rt[d]))
  <2> DEFINE e == w.rt[d]
             s == pk.msg.seqno[d]
  <2>1. CASE d \in pk.msg.dests
    <3>1. s \in Nat /\ s <= MaxSeqno /\ e \in EntryType
      BY <1>3, <1>4, <1>8, <2>1, BareEntry DEF InBounds
    <3>2. s \in 0 .. MaxSeqno
      BY <3>1, RefinementAssumption
    <3>3. Bare(v.rt[d]) = Bare(ErrorReceived(e, pk.from, s))
      BY <1>5, <1>7, <2>1
    <3> HIDE DEF e, s
    <3>4. Bare(v.rt[d]) = ErrorReceived(Bare(e), pk.from, s)
      BY <3>1, <3>3, BareErrorReceived
    <3> QED
      BY <1>3, <3>2, <3>4, Zenon DEF EntryStep, e
  <2>2. CASE d \notin pk.msg.dests
    BY <1>5, <1>7, <2>2 DEF EntryStep
  <2> QED
    BY <2>1, <2>2
<1>9. Conforms(n, v)
  BY <1>7, <1>8 DEF Conforms, Whole, w
<1> QED
  BY <1>2, <1>9, ConformStep

\* recvPta: an alarm that applies names the last hop of a path of the entry.
LEMMA RecvPtaConforms ==
  ASSUME Inv, Regular, NEW n \in Node, RecvPta(n)
  PROVE  Regular' /\ (InBounds => EntriesStep)
<1> DEFINE w == node[n]
<1>1. PICK pk \in net, last \in Node \cup {Junk} :
        /\ Receives(n, pk, "PTA")
        /\ LET e == w.rt[pk.msg.dst]
               a == PtaReceived(e, pk.from, pk.msg.seqno, pk.msg.last)
               u == [w EXCEPT !.rt[pk.msg.dst] = a]
           IN  IF PtaApplies(e, pk.from, pk.msg.seqno, pk.msg.last)
               THEN /\ last \in {pk.msg.last, Junk}
                    /\ Step(n, Send(u, UNION {Unicast(n, pc, Pta(pk.msg.dst, a.seqno, last)) :
                                                pc \in e.pcs \ {n}}), {pk})
               ELSE last = Junk /\ Step(n, w, {pk})
  BY DEF RecvPta
<1> DEFINE d == pk.msg.dst
           s == pk.msg.seqno
           e == w.rt[d]
           a == PtaReceived(e, pk.from, s, pk.msg.last)
           msg == Pta(d, a.seqno, last)
           packets == UNION {Unicast(n, pc, msg) : pc \in e.pcs \ {n}}
           v == Send([w EXCEPT !.rt[d] = a], packets)
           gone == {pk}
<1>2. \/ Step(n, w, gone)
      \/ PtaApplies(e, pk.from, s, pk.msg.last) /\ Step(n, v, gone)
  BY <1>1
<1>3. /\ pk \in PacketType /\ pk.from \in Node /\ d \in Node /\ s \in Nat /\ pk.msg.type = "PTA"
  BY <1>1, PacketFields, MessageFields DEF Receives, Inv, Typed
<1>4. w \in AgentType /\ Whole(w) /\ Neat(n, w) /\ w.out = {} /\ Conforms(n, w)
  BY NeatNode
<1> HIDE DEF gone
<1>5. CASE Step(n, w, gone)
  <2> HIDE DEF w
  <2> QED
    BY <1>4, <1>5, ConformStep
<1>6. CASE PtaApplies(e, pk.from, s, pk.msg.last) /\ Step(n, v, gone)
  <2> HIDE DEF w
  <2>1. Proper(e) /\ e \in EntryType /\ Numbered(e)
    BY <1>3, <1>4, BareEntry DEF Neat, Numbered
  <2>2. pk.msg.last \in Node
    <3>1. path_lookup(e, pk.from) /\ e.paths[FirstVia(e, pk.from)].lasthop = pk.msg.last
      BY <1>6 DEF PtaApplies, ErrorApplies
    <3> HIDE DEF e
    <3>2. FirstVia(e, pk.from) \in 1 .. Len(e.paths)
      BY <2>1, <3>1, FirstViaPosition
    <3> QED
      BY <2>1, <3>1, <3>2, PathOf
  <2> HIDE DEF e
  <2>3. Proper(a) /\ (a.up => e.up) /\ Numbered(a)
    BY <1>3, <2>1, PtaNumbered
  <2>4. Bare(a) = PtaReceived(Bare(e), pk.from, s, pk.msg.last)
    BY <1>3, <2>1, BarePtaReceived
  <2> HIDE DEF a
  <2>5. a \in EntryType /\ a.seqno \in Nat
    BY <2>3, EntryFields DEF Proper
  <2>6. msg \in MessageType /\ msg.type = "PTA"
    BY <1>3, <2>5 DEF Pta, PtaType, MessageType
  <2> HIDE DEF msg
  <2>7. packets \subseteq PacketType /\ \A k \in packets : k.msg = msg
    BY <2>6, UnicastPackets
  <2> HIDE DEF packets
  <2>8. /\ v \in AgentType /\ v.rt = [w.rt EXCEPT ![d] = a] /\ v.seqno = w.seqno
        /\ v.rqueue = w.rqueue /\ v.out = packets
    BY <1>3, <1>4, <2>5, <2>7 DEF AgentType, Send
  <2>9. Step(n, v, gone)
    BY <1>6
  <2> HIDE DEF v, d
  <2>10. \A x \in Node : v.rt[x] = IF x = d THEN a ELSE w.rt[x]
    BY <1>4, <2>8 DEF AgentType
  <2>11. \A k \in v.out : NeatPacket(k)
    BY <2>6, <2>7, <2>8 DEF NeatPacket
  <2>12. Neat(n, v)
    <3>1. e = w.rt[d]
      BY DEF e, d
    <3>2. \A x \in Node : (v.rt[x].up => w.rt[x].up /\ v.rt[x].seqno # 0)
      BY <1>4, <2>3, <2>10, <3>1 DEF Neat, Numbered
    <3> QED
      BY <1>4, <2>8, <2>11, <3>2 DEF Neat
  <2>13. ASSUME InBounds, NEW x \in Node
         PROVE  EntryStep(Bare(w.rt[x]), Bare(v.rt[x]))
    <3>1. CASE x = d
      <4>1. s \in 0 .. MaxSeqno
        BY <1>3, <2>13, RefinementAssumption DEF InBounds
      <4>2. Bare(v.rt[x]) = PtaReceived(Bare(w.rt[x]), pk.from, s, pk.msg.last)
        BY <2>4, <2>10, <3>1 DEF e, d
      <4> HIDE DEF s
      <4> QED
        BY <1>3, <2>2, <4>1, <4>2, Zenon DEF EntryStep
    <3>2. CASE x # d
      BY <2>10, <3>2 DEF EntryStep
    <3> QED
      BY <3>1, <3>2
  <2>14. Conforms(n, v)
    BY <2>8, <2>12, <2>13 DEF Conforms, w
  <2> QED
    BY <2>9, <2>14, ConformStep
<1> QED
  BY <1>2, <1>5, <1>6
-----------------------------------------------------------------------------
(* Timers. *)

\* rt_purge.
LEMMA RtPurgeConforms ==
  ASSUME Inv, Regular, NEW n \in Node, RtPurge(n)
  PROVE  Regular' /\ (InBounds => EntriesStep)
<1> DEFINE w == node[n]
           waiting == {d \in Node : ~w.rt[d].up /\ ~NoPacketFor(w, d)}
<1>1. PICK expired \in SUBSET {x \in Node \X Node :
                                 w.rt[x[1]].up /\ path_lookup(w.rt[x[1]], x[2])} :
        LET gone(d) == {m \in Node : <<d, m>> \in expired}
            after   == [d \in Node |-> IF w.rt[d].up
                                       THEN Purged(w.rt[d], Unexpired(w.rt[d], gone(d)))
                                       ELSE w.rt[d]]
            v       == [w EXCEPT !.rt = after,
                                 !.rqueue = [d \in Node |-> IF w.rt[d].up /\ ~after[d].up
                                                            THEN << >> ELSE @[d]]]
        IN  /\ Quiet
            /\ expired # {} \/ waiting # {}
            /\ IF expired = {} THEN UNCHANGED <<sent, delivered, events>> ELSE Event("expire")
            /\ \E order \in SetToSeqs(waiting) :
                 \E u \in SendRequests(n, v, order) : Step(n, u, {})
  BY Zenon DEF RtPurge
<1> DEFINE gone(d) == {m \in Node : <<d, m>> \in expired}
           after   == [d \in Node |-> IF w.rt[d].up
                                      THEN Purged(w.rt[d], Unexpired(w.rt[d], gone(d)))
                                      ELSE w.rt[d]]
           left    == [d \in Node |-> IF w.rt[d].up /\ ~after[d].up
                                      THEN << >> ELSE w.rqueue[d]]
           v       == [w EXCEPT !.rt = after, !.rqueue = left]
<1>2. PICK order \in SetToSeqs(waiting) : \E u \in SendRequests(n, v, order) : Step(n, u, {})
  BY <1>1, Zenon
<1>3. PICK u \in SendRequests(n, v, order) : Step(n, u, {})
  BY <1>2
<1>5. w \in AgentType /\ Whole(w) /\ Neat(n, w) /\ \A d \in Node : Proper(w.rt[d])
  BY NeatNode DEF Whole
<1>6. IsFiniteSet(waiting) /\ waiting \subseteq Node
  BY FS_Subset, AgentAssumption
<1> HIDE DEF w, waiting
<1>7. Cardinality(waiting) \in Nat /\ order \in [1 .. Cardinality(waiting) -> Node]
  BY <1>6, ListedSet
<1>8. ASSUME NEW d \in Node
      PROVE  /\ Proper(after[d]) /\ (after[d].up => w.rt[d].up /\ after[d].seqno # 0)
             /\ EntryStep(Bare(w.rt[d]), Bare(after[d]))
  <2> DEFINE e == w.rt[d]
             t == Unexpired(e, gone(d))
             r == Purged(e, t)
  <2>1. after[d] = IF e.up THEN r ELSE e
    OBVIOUS
  <2>2. Proper(e) /\ e \in EntryType /\ (e.up => e.seqno # 0)
    BY <1>5 DEF Proper, Neat
  <2> HIDE DEF after, gone, e
  <2>3. e.up => Proper(r)
    BY <2>2, PurgedEntry
  <2>4. r.up => e.up /\ r.seqno = e.seqno
    BY <2>2, PurgedNumbered
  <2>5. e.up => EntryStep(Bare(e), Bare(r))
    <3>1. t \in Seq(PathType) /\ BarePaths(t) \in path_purge(Bare(e))
      BY <2>2, BareUnexpired
    <3> HIDE DEF t
    <3>2. Bare(r) = Purged(Bare(e), BarePaths(t))
      BY <2>2, <3>1, BarePurged
    <3>3. Bare(e).up = e.up
      BY <2>2, BareFields
    <3> HIDE DEF r
    <3> QED
      BY <3>1, <3>2, <3>3, Zenon DEF EntryStep
  <2>6. EntryStep(Bare(e), Bare(e))
    BY DEF EntryStep
  <2> HIDE DEF r
  <2>7. /\ Proper(after[d]) /\ (after[d].up => e.up /\ after[d].seqno # 0)
        /\ EntryStep(Bare(e), Bare(after[d]))
    BY <2>1, <2>2, <2>3, <2>4, <2>5, <2>6
  <2> QED
    BY <2>7 DEF e
<1>9. after \in [Node -> EntryType]
  <2>1. \A d \in Node : after[d] \in EntryType
    BY <1>8 DEF Proper
  <2>2. after = [d \in Node |-> after[d]]
    OBVIOUS
  <2> HIDE DEF after, gone
  <2> QED
    BY <2>1, <2>2
<1> HIDE DEF after, gone
<1>10. /\ left \in [Node -> Seq(DataType)]
       /\ \A d \in Node : left[d] = w.rqueue[d] \/ left[d] = << >>
  <2>1. w.rqueue \in [Node -> Seq(DataType)] /\ << >> \in Seq(DataType)
    BY <1>5 DEF AgentType
  <2> QED
    BY <2>1
<1> HIDE DEF left
<1>11. /\ v \in AgentType /\ v.rt = after /\ v.out = w.out /\ v.rqueue = left
       /\ v.tries = w.tries /\ v.bid = w.bid /\ v.seqno = w.seqno
  BY <1>5, <1>9, <1>10 DEF AgentType
<1> HIDE DEF v
<1>12. Whole(v)
  BY <1>5, <1>8, <1>11 DEF Whole
<1>13. Neat(n, v)
  <2>1. ASSUME NEW d \in Node, NEW i \in 1 .. Len(v.rqueue[d])
        PROVE  v.rqueue[d][i].dst = d
    <3>1. v.rqueue[d] = w.rqueue[d]
      <4>1. v.rqueue[d] # << >>
        BY <2>1
      <4> QED
        BY <1>10, <1>11, <4>1
    <3> QED
      BY <1>5, <2>1, <3>1 DEF Neat
  <2> QED
    BY <1>5, <1>8, <1>11, <2>1 DEF Neat
<1> DEFINE k == Cardinality(waiting)
<1>14. Asks(n, v, u)
  <2>1. k \in Nat /\ order \in [1 .. k -> Node]
    BY <1>7
  <2> HIDE DEF k
  <2> QED
    BY <1>3, <1>12, <2>1, SendRequestsAsks
<1>15. u \in AgentType /\ Neat(n, u) /\ u.rt = after
  BY <1>11, <1>13, <1>14 DEF Asks, Whole
<1>16. Conforms(n, u)
  BY <1>8, <1>15 DEF Conforms, w
<1> QED
  BY <1>3, <1>16, ConformStep

\* nb_purge, with what nb_delete salvages.
LEMMA NbPurgeConforms ==
  ASSUME Inv, Regular, NEW n \in Node, NEW id \in Node, NbPurge(n, id)
  PROVE  Regular' /\ (InBounds => EntriesStep)
<1> DEFINE a == node[n]
           w == [a EXCEPT !.seqno = @ + 2, !.nb = @ \ {id}, !.distrusted = @ \ {id}]
           v == handle_link_failure(n, w, id)
<1>1. \E ifq \in SUBSET {pk \in net : /\ pk.from = n /\ pk.to = id
                                      /\ pk.msg.type \in {"DATA", "RREP"}} :
        \E order \in SetToSeqs({pk.msg : pk \in {k \in ifq : k.msg.type = "DATA"}}) :
          Step(n, ForwardAll(n, n, v, order), ifq)
  BY Zenon DEF NbPurge
<1>2. PICK ifq \in SUBSET net :
        \E order \in SetToSeqs({pk.msg : pk \in {k \in ifq : k.msg.type = "DATA"}}) :
          Step(n, ForwardAll(n, n, v, order), ifq)
  <2> HIDE DEF v
  <2> QED
    BY <1>1
<1> DEFINE S == {pk.msg : pk \in {k \in ifq : k.msg.type = "DATA"}}
<1>3. PICK order \in SetToSeqs(S) : Step(n, ForwardAll(n, n, v, order), ifq)
  BY <1>2, Zenon
<1>4. S \subseteq DataType
  BY PacketFields DEF Inv, Typed
<1>5. IsFiniteSet(S)
  BY <1>4, DataFinite, FS_Subset
<1> HIDE DEF S
<1> DEFINE k == Cardinality(S)
<1>6. k \in Nat /\ order \in [1 .. k -> DataType]
  BY <1>4, <1>5, ListedSet
<1> HIDE DEF k
<1>7. a \in AgentType /\ Whole(a) /\ Neat(n, a) /\ a.out = {}
  BY NeatNode
<1> HIDE DEF a
<1>8. /\ w \in AgentType /\ w.rt = a.rt /\ w.out = {} /\ w.rqueue = a.rqueue
      /\ w.tries = a.tries /\ w.bid = a.bid /\ w.seqno = a.seqno + 2 /\ a.seqno \in Nat
  <2>1. a.seqno + 2 \in Nat /\ a.seqno \in Nat
    BY <1>7 DEF AgentType
  <2> QED
    BY <1>7, <2>1 DEF AgentType
<1> HIDE DEF w
<1>9. Whole(w) /\ Neat(n, w)
  <2>1. w.seqno # 0
    BY <1>8
  <2> QED
    BY <1>7, <1>8, <2>1 DEF Whole, Neat
<1> DEFINE after == [d \in Node |-> LinkFailure(w.rt[d], id)]
<1>10. v = ReportErrors(n, w, after)
  BY DEF handle_link_failure
<1>11. ASSUME NEW d \in Node
       PROVE  /\ Proper(after[d]) /\ (after[d].up => w.rt[d].up /\ after[d].seqno # 0)
              /\ Bare(after[d]) = LinkFailure(Bare(w.rt[d]), id)
  <2> DEFINE e == w.rt[d]
             r == LinkFailure(e, id)
  <2>1. Proper(e) /\ e \in EntryType /\ (e.up => e.seqno # 0)
    BY <1>9 DEF Whole, Neat, Proper
  <2>2. after[d] = r
    OBVIOUS
  <2> HIDE DEF e, after
  <2>3. Proper(r) /\ (r.up => e.up /\ r.seqno = e.seqno) /\ Bare(r) = LinkFailure(Bare(e), id)
    BY <2>1, LinkFailureNumbered, BareLinkFailure
  <2> HIDE DEF r
  <2>4. /\ Proper(after[d]) /\ (after[d].up => e.up /\ after[d].seqno # 0)
        /\ Bare(after[d]) = LinkFailure(Bare(e), id)
    BY <2>1, <2>2, <2>3
  <2> QED
    BY <2>4 DEF e
<1> HIDE DEF after
<1>12. Whole(v) /\ Neat(n, v) /\ \A d \in Node : Bare(v.rt[d]) = Bare(after[d])
  <2> HIDE DEF v
  <2>1. \A d \in Node : Proper(after[d]) /\ (after[d].up => w.rt[d].up /\ after[d].seqno # 0)
    BY <1>11
  <2> QED
    BY <1>8, <1>9, <1>10, <2>1, ReportErrorsNeat
<1> HIDE DEF v
<1> DEFINE u == ForwardAll(n, n, v, order)
<1>13. Thins(Node, v, u)
  <2>1. \A i \in 1 .. k : order[i].dst \in Node
    BY <1>6 DEF DataType
  <2> DEFINE D == Node
  <2>2. \A i \in 1 .. k : order[i].dst \in D
    BY <2>1
  <2> HIDE DEF D
  <2>3. n \in Node \cup {Zero}
    OBVIOUS
  <2>4. Thins(D, v, ForwardAll(n, n, v, order))
    BY <1>6, <1>12, <2>2, <2>3, ForwardAllThins
  <2> QED
    BY <2>4 DEF D
<1>14. Step(n, u, ifq)
  BY <1>3
<1> HIDE DEF u
<1>15. u \in AgentType /\ Neat(n, u)
  BY <1>12, <1>13, ThinsNeat DEF Thins, Whole
<1>16. \A d \in Node : EntryStep(Bare(a.rt[d]), Bare(u.rt[d]))
  <2> SUFFICES ASSUME NEW d \in Node PROVE EntryStep(Bare(a.rt[d]), Bare(u.rt[d]))
    OBVIOUS
  <2>1. Sheds(LinkFailure(Bare(a.rt[d]), id), Bare(u.rt[d]))
    BY <1>8, <1>11, <1>12, <1>13 DEF Thins
  <2> QED
    BY <2>1, Zenon DEF EntryStep
<1>17. Conforms(n, u)
  BY <1>15, <1>16 DEF Conforms, a
<1> QED
  BY <1>14, <1>17, ConformStep

\* id_purge, set_trust and recvHello leave the routes alone.
LEMMA QuietConforms ==
  ASSUME Inv, Regular, NEW n \in Node,
         IdPurge(n) \/ SetTrust(n) \/ \E m \in Node : RecvHello(n, m)
  PROVE  Regular' /\ (InBounds => EntriesStep)
<1> DEFINE w == node[n]
<1>1. w \in AgentType /\ w.out = {}
  BY NeatNode
<1>2. ASSUME NEW v, Step(n, v, {}), v \in AgentType, v.rt = w.rt, v.seqno = w.seqno,
             v.rqueue = w.rqueue, v.out = {}
      PROVE  Regular' /\ (InBounds => EntriesStep)
  <2>1. Conforms(n, v)
    BY <1>2, SendConforms
  <2> QED
    BY <1>2, <2>1, ConformStep
<1>3. CASE IdPurge(n)
  <2>1. PICK old : Step(n, [w EXCEPT !.heard = @ \ old, !.answered = @ \ old], {})
    BY <1>3 DEF IdPurge
  <2> DEFINE v == [w EXCEPT !.heard = @ \ old, !.answered = @ \ old]
  <2>2. /\ v \in AgentType /\ v.rt = w.rt /\ v.seqno = w.seqno /\ v.rqueue = w.rqueue
        /\ v.out = {}
    BY <1>1 DEF AgentType
  <2>3. Step(n, v, {})
    BY <2>1
  <2> HIDE DEF v
  <2> QED
    BY <1>2, <2>2, <2>3
<1>4. CASE SetTrust(n)
  <2>1. PICK low \in SUBSET (w.nb \cap Suspects) : Step(n, [w EXCEPT !.distrusted = low], {})
    BY <1>4 DEF SetTrust
  <2> DEFINE v == [w EXCEPT !.distrusted = low]
  <2>2. /\ v \in AgentType /\ v.rt = w.rt /\ v.seqno = w.seqno /\ v.rqueue = w.rqueue
        /\ v.out = {}
    BY <1>1 DEF AgentType
  <2>3. Step(n, v, {})
    BY <2>1
  <2> HIDE DEF v
  <2> QED
    BY <1>2, <2>2, <2>3
<1>5. CASE \E m \in Node : RecvHello(n, m)
  <2>1. PICK m \in Node : Step(n, [w EXCEPT !.nb = @ \cup {m}], {})
    BY <1>5 DEF RecvHello
  <2> DEFINE v == [w EXCEPT !.nb = @ \cup {m}]
  <2>2. /\ v \in AgentType /\ v.rt = w.rt /\ v.seqno = w.seqno /\ v.rqueue = w.rqueue
        /\ v.out = {}
    BY <1>1 DEF AgentType
  <2>3. Step(n, v, {})
    BY <2>1
  <2> HIDE DEF v
  <2> QED
    BY <1>2, <2>2, <2>3
<1> QED
  BY <1>3, <1>4, <1>5

\* Where no agent changes, no entry does.
LEMMA StillConforms ==
  ASSUME Regular, node' = node, net' \subseteq net
  PROVE  Regular' /\ EntriesStep
<1>1. \A n, d \in Node : EntryOf(n, d)' = EntryOf(n, d)
  BY DEF EntryOf, Bare, BarePaths
<1>2. EntriesStep
  BY <1>1 DEF EntriesStep, EntryStep
<1>3. Regular'
  BY DEF Regular, Neat
<1> QED
  BY <1>2, <1>3

\* At first.
LEMMA InitRegular == Init => Regular
<1> SUFFICES ASSUME Init PROVE Regular
  OBVIOUS
<1>1. ASSUME NEW n \in Node PROVE Neat(n, node[n])
  <2> DEFINE w == node[n]
  <2>1. /\ w.rt = [d \in Node |-> NewEntry] /\ w.out = {} /\ w.seqno = 2
        /\ w.rqueue = [d \in Node |-> << >>]
    BY DEF Init, NewAgent
  <2> HIDE DEF w
  <2>2. \A d \in Node : ~w.rt[d].up /\ 1 .. Len(w.rqueue[d]) = {}
    BY <2>1 DEF NewEntry
  <2> QED
    BY <2>1, <2>2 DEF Neat, w
<1> QED
  BY <1>1 DEF Init, Regular

\* Every step keeps the network regular, and takes every entry along.
LEMMA NextConforms ==
  ASSUME Inv, Regular, [Next]_vars
  PROVE  Regular' /\ (InBounds => EntriesStep)
<1>1. ASSUME NEW n \in Node, Receive(n) PROVE Regular' /\ (InBounds => EntriesStep)
  BY <1>1, RecvRequestConforms, RecvReplyConforms, RecvErrorConforms, RecvPtaConforms,
     RecvDataConforms DEF Receive
<1>2. ASSUME UNCHANGED vars PROVE Regular' /\ EntriesStep
  BY <1>2, StillConforms DEF vars
<1>3. ASSUME Lose PROVE Regular' /\ EntriesStep
  BY <1>3, StillConforms DEF Lose
<1> QED
  BY <1>1, <1>2, <1>3, RtPurgeConforms, QuietConforms, NbPurgeConforms, AppSendConforms DEF Next

-----------------------------------------------------------------------------
(* The refinement.  RouteEntry takes its operators from the same module as the
   network, with the same constants, so they are the same functions. *)

\* The two infinities.
LEMMA SameConstants == Abstract!INFINITY = INFINITY /\ Abstract!INFINITY2 = INFINITY2
BY DEF Abstract!INFINITY, INFINITY, Abstract!INFINITY2, INFINITY2

\* Tests of the list.
LEMMA SameEmpty == \A e : Abstract!path_empty(e) = path_empty(e)
BY DEF Abstract!path_empty, path_empty

\* The same for path_lookup.
LEMMA SameLookup == \A e, id : Abstract!path_lookup(e, id) = path_lookup(e, id)
BY Zenon DEF Abstract!path_lookup, path_lookup

\* The larger of two numbers.
LEMMA SameLarger == \A a, b : Abstract!Larger(a, b) = Larger(a, b)
BY DEF Abstract!Larger, Larger

\* Hop counts.
LEMMA SameHops == \A e : Abstract!Hops(e) = Hops(e)
BY DEF Abstract!Hops, Hops

\* The largest of them.
LEMMA SameMax == \A e : Abstract!path_get_max_hopcount(e) = path_get_max_hopcount(e)
<1> TAKE e
<1>1. Abstract!Hops(e) = Hops(e) /\ Abstract!path_empty(e) = path_empty(e)
  BY SameHops, SameEmpty
<1> QED
  BY <1>1, SameConstants DEF Abstract!path_get_max_hopcount, path_get_max_hopcount

\* The smallest of them.
LEMMA SameMin == \A e : Abstract!path_get_min_hopcount(e) = path_get_min_hopcount(e)
BY SameHops, SameConstants, Zenon DEF Abstract!path_get_min_hopcount, path_get_min_hopcount

\* rt_down.
LEMMA SameDown == \A e : Abstract!rt_down(e) = rt_down(e)
BY SameConstants, Zenon DEF Abstract!rt_down, rt_down

\* rt_down of a route without paths.
LEMMA SameDownIfEmpty == \A e : Abstract!DownIfEmpty(e) = DownIfEmpty(e)
BY SameDown, SameEmpty, Zenon DEF Abstract!DownIfEmpty, DownIfEmpty

\* The hop count advertised.
LEMMA SameAdvertise == \A e : Abstract!Advertise(e) = Advertise(e)
BY SameMax, SameConstants, Zenon DEF Abstract!Advertise, Advertise

\* The comparison with the number of a message.
LEMMA SameFresher == \A e, s : Abstract!Fresher(e, s) = Fresher(e, s)
BY Zenon DEF Abstract!Fresher, Fresher

\* And with its hop count.
LEMMA SameCandidate == \A e, p, s : Abstract!Candidate(e, p, s) = Candidate(e, p, s)
BY Zenon DEF Abstract!Candidate, Candidate

\* Whether the path is there.
LEMMA SameKnown == \A e, p : Abstract!Known(e, p) = Known(e, p)
BY Zenon DEF Abstract!Known, Known, Abstract!disjoint_path_lookup, disjoint_path_lookup

\* Whether it is too long.
LEMMA SameTooLong == \A e, p : Abstract!TooLong(e, p) = TooLong(e, p)
BY SameMin, Zenon DEF Abstract!TooLong, TooLong

\* Whether it is disjoint from the others.
LEMMA SameDisjoint ==
  \A e, m, n : Abstract!new_disjoint_path(e, m, n) = new_disjoint_path(e, m, n)
BY Zenon DEF Abstract!new_disjoint_path, new_disjoint_path

\* Whether it is let in.
LEMMA SameAdmits == \A e, p : Abstract!Admits(e, p) = Admits(e, p)
BY SameTooLong, SameDisjoint, Zenon DEF Abstract!Admits, Admits

\* path_insert.
LEMMA SameInsert == \A e, p : Abstract!path_insert(e, p) = path_insert(e, p)
BY Zenon DEF Abstract!path_insert, path_insert

\* The update rule of recvRequest and recvReply.
LEMMA SameLearn == \A e, p, s : Abstract!Learn(e, p, s) = Learn(e, p, s)
BY SameFresher, SameCandidate, SameKnown, SameAdmits, SameInsert, SameConstants, Zenon
DEF Abstract!Learn, Learn

\* path_delete.
LEMMA SameDelete == \A e, id : Abstract!path_delete(e, id) = path_delete(e, id)
BY Zenon DEF Abstract!path_delete, path_delete, Abstract!path_lookup, path_lookup,
   Abstract!RemoveAt, RemoveAt, Abstract!FirstVia, FirstVia

\* The paths forward() gives up.
LEMMA SameDistrusted == \A e, j : Abstract!Distrusted(e, j) = Shed(e, j)
BY SameDownIfEmpty, Zenon DEF Abstract!Distrusted, Shed

\* handle_link_failure.
LEMMA SameLinkFailure == \A e, id : Abstract!LinkFailure(e, id) = LinkFailure(e, id)
BY SameDelete, SameLookup, SameEmpty, SameDown, SameLarger, Zenon
DEF Abstract!LinkFailure, LinkFailure

\* Whether an RERR concerns the entry.
LEMMA SameErrorApplies ==
  \A e, from, s : Abstract!ErrorApplies(e, from, s) = ErrorApplies(e, from, s)
BY SameLookup, Zenon DEF Abstract!ErrorApplies, ErrorApplies

\* recvError.
LEMMA SameErrorReceived ==
  \A e, from, s : Abstract!ErrorReceived(e, from, s) = ErrorReceived(e, from, s)
<1> TAKE e, from, s
<1> DEFINE d == [path_delete(e, from) EXCEPT !.highest = Larger(@, s)]
           c == [Abstract!path_delete(e, from) EXCEPT !.highest = Abstract!Larger(@, s)]
<1>1. c = d
  BY SameDelete, SameLarger, Zenon
<1>2. ErrorReceived(e, from, s) =
        IF ~ErrorApplies(e, from, s) THEN e
        ELSE IF path_empty(d) THEN rt_down([d EXCEPT !.seqno = d.highest]) ELSE d
  BY Zenon DEF ErrorReceived
<1>3. Abstract!ErrorReceived(e, from, s) =
        IF ~Abstract!ErrorApplies(e, from, s) THEN e
        ELSE IF Abstract!path_empty(c)
             THEN Abstract!rt_down([c EXCEPT !.seqno = c.highest]) ELSE c
  BY Zenon DEF Abstract!ErrorReceived
<1> HIDE DEF c, d
<1>4. Abstract!rt_down([c EXCEPT !.seqno = c.highest]) = rt_down([d EXCEPT !.seqno = d.highest])
  BY <1>1, SameDown, Zenon
<1>5. Abstract!path_empty(c) = path_empty(d)
  BY <1>1, SameEmpty, Zenon
<1>6. Abstract!ErrorApplies(e, from, s) = ErrorApplies(e, from, s)
  BY SameErrorApplies, Zenon
<1>7. CASE ErrorApplies(e, from, s)
  BY <1>1, <1>2, <1>3, <1>4, <1>5, <1>6, <1>7, Zenon
<1>8. CASE ~ErrorApplies(e, from, s)
  BY <1>2, <1>3, <1>6, <1>8, Zenon
<1> QED
  BY <1>7, <1>8

\* Whether a PTA does.
LEMMA SamePtaApplies ==
  \A e, from, s, last : Abstract!PtaApplies(e, from, s, last) = PtaApplies(e, from, s, last)
BY SameErrorApplies, Zenon
DEF Abstract!PtaApplies, PtaApplies, Abstract!FirstVia, FirstVia

\* recvPta.
LEMMA SamePtaReceived ==
  \A e, from, s, last : Abstract!PtaReceived(e, from, s, last) = PtaReceived(e, from, s, last)
<1> TAKE e, from, s, last
<1> DEFINE d == [path_delete(e, from) EXCEPT !.highest = Larger(@, s)]
           c == [Abstract!path_delete(e, from) EXCEPT !.highest = Abstract!Larger(@, s)]
<1>1. c = d
  BY SameDelete, SameLarger, Zenon
<1>2. PtaReceived(e, from, s, last) =
        IF ~PtaApplies(e, from, s, last) THEN e
        ELSE [DownIfEmpty(d) EXCEPT !.seqno = d.highest]
  BY Zenon DEF PtaReceived
<1>3. Abstract!PtaReceived(e, from, s, last) =
        IF ~Abstract!PtaApplies(e, from, s, last) THEN e
        ELSE [Abstract!DownIfEmpty(c) EXCEPT !.seqno = c.highest]
  BY Zenon DEF Abstract!PtaReceived
<1> HIDE DEF c, d
<1> QED
  BY <1>1, <1>2, <1>3, SamePtaApplies, SameDownIfEmpty, Zenon

\* rt_purge.
LEMMA SamePurged == \A e, kept : Abstract!Purged(e, kept) = Purged(e, kept)
BY SameEmpty, SameDown, SameLarger, Zenon DEF Abstract!Purged, Purged

\* The lists path_purge may leave.
LEMMA SamePurge == \A e : Abstract!path_purge(e) = path_purge(e)
BY Zenon DEF Abstract!path_purge, path_purge

\* What happens to an entry is a step of RouteEntry, or none.
LEMMA EntryStepNext ==
  ASSUME EntryStep(EntryOf(self, dest), EntryOf(self, dest)')
  PROVE  [Abstract!Next]_(EntryOf(self, dest))
<1> DEFINE b == EntryOf(self, dest)
           c == b'
<1>1. \/ c = b
      \/ EntryLearns(b, c)
      \/ b.up /\ c = Advertise(b)
      \/ b.up /\ c = Shed(b, 1)
      \/ \E id \in Node : Sheds(LinkFailure(b, id), c)
      \/ \E from \in Node, s \in 0 .. MaxSeqno : c = ErrorReceived(b, from, s)
      \/ \E from, last \in Node, s \in 0 .. MaxSeqno : c = PtaReceived(b, from, s, last)
      \/ b.up /\ \E kept \in path_purge(b) : c = Purged(b, kept)
  BY Zenon DEF EntryStep
<1>2. CASE EntryLearns(b, c)
  <2>1. Abstract!ReceiveRoute
    BY <1>2, SameLearn, SameDistrusted, SameAdvertise, Zenon
    DEF EntryLearns, Ways, Abstract!ReceiveRoute, Abstract!Path, path_empty, Abstract!path_empty
  <2> QED
    BY <2>1 DEF Abstract!Next
<1>3. CASE b.up /\ c = Advertise(b)
  BY <1>3, SameAdvertise, Zenon DEF Abstract!Next, Abstract!AnswerRequest
<1>4. CASE b.up /\ c = Shed(b, 1)
  BY <1>4, SameDistrusted, Zenon DEF Abstract!Next, Abstract!ForwardDistrusted
<1>5. CASE \E id \in Node : Sheds(LinkFailure(b, id), c)
  BY <1>5, SameLinkFailure, SameDistrusted, Zenon DEF Abstract!Next, Abstract!NeighborLost, Sheds
<1>6. CASE \E from \in Node, s \in 0 .. MaxSeqno : c = ErrorReceived(b, from, s)
  BY <1>6, SameErrorReceived, Zenon DEF Abstract!Next, Abstract!recvError
<1>7. CASE \E from, last \in Node, s \in 0 .. MaxSeqno : c = PtaReceived(b, from, s, last)
  BY <1>7, SamePtaReceived, Zenon DEF Abstract!Next, Abstract!recvPta
<1>8. CASE b.up /\ \E kept \in path_purge(b) : c = Purged(b, kept)
  BY <1>8, SamePurged, SamePurge, Zenon DEF Abstract!Next, Abstract!rt_purge
<1>9. CASE c = b
  BY <1>9
<1> QED
  BY <1>1, <1>2, <1>3, <1>4, <1>5, <1>6, <1>7, <1>8, <1>9

\* The entry a node starts with.
LEMMA InitEntry == Init => Abstract!Init
<1> SUFFICES ASSUME Init PROVE Abstract!Init
  OBVIOUS
<1>1. node[self].rt[dest] = NewEntry
  BY RefinementAssumption DEF Init, NewAgent
<1>2. BarePaths(<< >>) = << >>
  BY BareSingle
<1>3. Bare(NewEntry) = [seqno |-> 0, adv |-> INFINITY2, paths |-> << >>, up |-> FALSE,
                        highest |-> 0]
  BY <1>2 DEF Bare, NewEntry
<1>4. EntryOf(self, dest) = [seqno |-> 0, adv |-> INFINITY2, paths |-> << >>, up |-> FALSE,
                             highest |-> 0]
  BY <1>1, <1>3 DEF EntryOf
<1> QED
  BY <1>4 DEF Abstract!Init, Abstract!INFINITY2, INFINITY2

\* Whatever the network does to the entry of self for dest is what RouteEntry says: the
\* rules of recvRequest, recvReply, recvError, recvPta, forward, nb_delete and rt_purge
\* for one entry describe every handler of teaomdv.cc, with all the calls it makes.
THEOREM EntryRefined == Spec /\ []InBounds => EntryImplementsRouteEntry
<1>1. Inv /\ Regular /\ [Next]_vars => Regular'
  BY NextConforms
<1>2. Inv /\ Regular /\ InBounds /\ [Next]_vars => [Abstract!Next]_(EntryOf(self, dest))
  <2> SUFFICES ASSUME Inv, Regular, InBounds, [Next]_vars
               PROVE  [Abstract!Next]_(EntryOf(self, dest))
    OBVIOUS
  <2>1. EntriesStep
    BY NextConforms
  <2>2. EntryStep(EntryOf(self, dest), EntryOf(self, dest)')
    BY <2>1, RefinementAssumption DEF EntriesStep
  <2> QED
    BY <2>2, EntryStepNext
<1> QED
  BY <1>1, <1>2, InvHeld, InitRegular, InitEntry, PTL
  DEF Spec, EntryImplementsRouteEntry, Abstract!Spec

\* What an RERR lists fits in its array: no agent ever has a route to itself to lose.
THEOREM ErrorsFitAlways == Spec => []ErrorsFit
<1>1. Inv /\ Regular => ErrorsFit
  <2> SUFFICES ASSUME Inv, Regular PROVE ErrorsFit
    OBVIOUS
  <2>1. \A n \in Node : ~node[n].rt[n].up
    BY DEF Regular, Neat
  <2>2. ASSUME NEW pk \in net, pk.msg.type = "RERR"
        PROVE  Cardinality(pk.msg.dests) < Cardinality(Node)
    <3> DEFINE D == pk.msg.dests
    <3>1. pk.from \in Node /\ D \subseteq Node
      BY <2>2, PacketFields DEF Inv, Typed, RerrType
    <3>2. pk.from \notin D
      BY <2>2 DEF Regular, NeatPacket
    <3>3. IsFiniteSet(Node)
      BY AgentAssumption
    <3> HIDE DEF D
    <3>4. IsFiniteSet(D) /\ Cardinality(D) <= Cardinality(Node) /\ Cardinality(D) # Cardinality(Node)
      BY <3>1, <3>2, <3>3, FS_Subset
    <3>5. Cardinality(D) \in Nat /\ Cardinality(Node) \in Nat
      BY <3>3, <3>4, FS_CardinalityType
    <3>6. Cardinality(D) < Cardinality(Node)
      BY <3>4, <3>5
    <3> QED
      BY <3>6 DEF D
  <2> QED
    BY <2>1, <2>2 DEF ErrorsFit
<1>2. Inv /\ Regular /\ [Next]_vars => Regular'
  BY NextConforms
<1> QED
  BY <1>1, <1>2, InvHeld, InitRegular, PTL DEF Spec

-----------------------------------------------------------------------------
(* What the network inherits from it. *)

\* From b to c an advertised hop count is not changed while the route lasts.
Lasting(b, c) ==
  b.up /\ c.up /\ c.seqno = b.seqno /\ b.adv # INFINITY => c.adv = b.adv

\* A bare entry, whatever is in its list.
Loose(b) == b \in [seqno : Nat, adv : Nat, paths : {b.paths}, up : BOOLEAN, highest : Nat]

\* The list may change without anything else.
LEMMA LooseWithPaths ==
  ASSUME NEW b, Loose(b), NEW t, NEW c, c = [b EXCEPT !.paths = t]
  PROVE  /\ Loose(c) /\ c.paths = t
         /\ c.up = b.up /\ c.adv = b.adv /\ c.seqno = b.seqno /\ c.highest = b.highest
BY DEF Loose

\* So may a number.
LEMMA LooseWithSeqno ==
  ASSUME NEW b, Loose(b), NEW s \in Nat, NEW c, c = [b EXCEPT !.seqno = s]
  PROVE  Loose(c) /\ c.paths = b.paths /\ c.up = b.up /\ c.adv = b.adv /\ c.highest = b.highest
         /\ c.seqno = s
BY DEF Loose

\* And the highest heard of.
LEMMA LooseWithHighest ==
  ASSUME NEW b, Loose(b), NEW h \in Nat, NEW c, c = [b EXCEPT !.highest = h]
  PROVE  Loose(c) /\ c.paths = b.paths /\ c.up = b.up /\ c.adv = b.adv /\ c.seqno = b.seqno
         /\ c.highest = h
BY DEF Loose

\* Going down, an entry is down.
LEMMA LooseDown ==
  ASSUME NEW b, Loose(b)
  PROVE  /\ ~rt_down(b).up /\ Loose(rt_down(b)) /\ rt_down(b).seqno = b.seqno
<1>1. CASE b.up
  <2> DEFINE c == [b EXCEPT !.up = FALSE, !.adv = INFINITY, !.paths = << >>]
  <2>1. rt_down(b) = c
    BY <1>1 DEF rt_down
  <2>2. INFINITY \in Nat
    BY DEF INFINITY
  <2>3. /\ ~c.up /\ c.seqno = b.seqno /\ c.paths = << >>
        /\ c \in [seqno : Nat, adv : Nat, paths : {<< >>}, up : BOOLEAN, highest : Nat]
    BY <2>2 DEF Loose
  <2> HIDE DEF c
  <2>4. Loose(c)
    BY <2>3 DEF Loose
  <2> QED
    BY <2>1, <2>3, <2>4
<1>2. CASE ~b.up
  BY <1>2 DEF rt_down
<1> QED
  BY <1>1, <1>2

\* Deleting a path leaves the rest of the entry alone.
LEMMA LooseDelete ==
  ASSUME NEW b, Loose(b), NEW id, NEW d, d = path_delete(b, id)
  PROVE  /\ Loose(d) /\ d.up = b.up /\ d.adv = b.adv /\ d.seqno = b.seqno
         /\ d.highest = b.highest
<1> DEFINE q == RemoveAt(b.paths, FirstVia(b, id))
<1>1. d = [b EXCEPT !.paths = q] \/ d = b
  BY Zenon DEF path_delete
<1> HIDE DEF q
<1> QED
  BY <1>1, LooseWithPaths

\* An entry that has shed paths and is still up has kept its hop count.
LEMMA LooseShed ==
  ASSUME NEW b, Loose(b), NEW j, NEW c, c = Shed(b, j)
  PROVE  Loose(c) /\ c.seqno = b.seqno /\ (c.up => b.up /\ c.adv = b.adv)
<1> DEFINE t == SubSeq(b.paths, j + 1, Len(b.paths))
           d == [b EXCEPT !.paths = t]
<1>1. c = b \/ c = d \/ c = rt_down(d)
  BY Zenon DEF Shed, DownIfEmpty
<1> HIDE DEF t
<1>2. Loose(d) /\ d.up = b.up /\ d.adv = b.adv /\ d.seqno = b.seqno
  BY LooseWithPaths
<1> HIDE DEF d
<1>3. ~rt_down(d).up /\ Loose(rt_down(d)) /\ rt_down(d).seqno = d.seqno
  BY <1>2, LooseDown
<1>4. CASE c = b
  BY <1>4
<1>5. CASE c = d
  BY <1>2, <1>5
<1>6. CASE c = rt_down(d)
  BY <1>2, <1>3, <1>6
<1> QED
  BY <1>1, <1>4, <1>5, <1>6

\* Advertising fixes the hop count only if it was open.
LEMMA LooseAdvertise ==
  ASSUME NEW b, Loose(b), NEW c, c = Advertise(b)
  PROVE  c.up = b.up /\ c.seqno = b.seqno /\ (b.adv # INFINITY => c.adv = b.adv)
<1> DEFINE m == path_get_max_hopcount(b)
<1>1. c = [b EXCEPT !.adv = IF @ = INFINITY THEN m ELSE @]
  BY DEF Advertise
<1> HIDE DEF m
<1> QED
  BY <1>1 DEF Loose

\* A path learned comes with a newer number, or leaves all but the list alone.
LEMMA LooseLearn ==
  ASSUME NEW b, Loose(b), NEW p, NEW s \in Nat, NEW c, c = Learn(b, p, s)
  PROVE  /\ Loose(c)
         /\ c.seqno # b.seqno \/ (c.seqno = b.seqno /\ c.adv = b.adv /\ c.up = b.up)
<1>1. CASE Fresher(b, s)
  <2>1. c = [b EXCEPT !.seqno = s, !.adv = INFINITY, !.paths = << p >>, !.up = TRUE]
    BY <1>1 DEF Learn
  <2>0. INFINITY \in Nat
    BY DEF INFINITY
  <2> DEFINE q == << p >>
  <2> HIDE DEF q
  <2>4. /\ c.seqno = s /\ c.paths = q
        /\ c \in [seqno : Nat, adv : Nat, paths : {q}, up : BOOLEAN, highest : Nat]
    BY <2>0, <2>1 DEF Loose, q
  <2>2. Loose(c) /\ c.seqno = s
    BY <2>4 DEF Loose
  <2>3. s # b.seqno
    BY <1>1 DEF Fresher, Loose
  <2> QED
    BY <2>2, <2>3
<1>2. CASE c = path_insert(b, p)
  <2> DEFINE u == Append(b.paths, p)
             d == [b EXCEPT !.paths = u]
  <2>1. c = d
    BY <1>2 DEF path_insert
  <2> HIDE DEF u
  <2>2. Loose(d) /\ d.seqno = b.seqno /\ d.adv = b.adv /\ d.up = b.up
    BY LooseWithPaths
  <2> HIDE DEF d
  <2> QED
    BY <2>1, <2>2, Zenon
<1>3. Fresher(b, s) \/ c = path_insert(b, p) \/ c = b
  BY Zenon DEF Learn
<1>4. CASE c = b
  BY <1>4
<1> QED
  BY <1>1, <1>2, <1>3, <1>4, Zenon

\* A path learned, shed again, advertised.
LEMMA LearnsLasting ==
  ASSUME NEW b, Loose(b), NEW c, EntryLearns(b, c)
  PROVE  Lasting(b, c)
<1>0. PICK p \in Ways, s \in 1 .. MaxSeqno :
        \E j \in 0 .. Len(Learn(b, p, s).paths) :
          \/ c = Shed(Learn(b, p, s), j)
          \/ c = Advertise(Shed(Learn(b, p, s), j))
  BY Zenon DEF EntryLearns
<1>1. PICK j : \/ c = Shed(Learn(b, p, s), j)
               \/ c = Advertise(Shed(Learn(b, p, s), j))
  BY <1>0, Zenon
<1> DEFINE x == Learn(b, p, s)
           y == Shed(x, j)
           z == Advertise(y)
<1>2. s \in Nat
  BY RefinementAssumption
<1>3. /\ Loose(x)
      /\ x.seqno # b.seqno \/ (x.seqno = b.seqno /\ x.adv = b.adv /\ x.up = b.up)
  BY <1>2, LooseLearn
<1>4. c = y \/ c = z
  BY <1>1
<1> HIDE DEF x
<1>5. Loose(y) /\ y.seqno = x.seqno /\ (y.up => x.up /\ y.adv = x.adv)
  BY <1>3, LooseShed
<1> HIDE DEF y
<1>6. z.up = y.up /\ z.seqno = y.seqno /\ (y.adv # INFINITY => z.adv = y.adv)
  BY <1>5, LooseAdvertise
<1> HIDE DEF z
<1> QED
  BY <1>3, <1>4, <1>5, <1>6 DEF Lasting

\* A link gone, then paths shed by the packets taken back.
LEMMA FailureLasting ==
  ASSUME NEW b, Loose(b), NEW id, NEW c, Sheds(LinkFailure(b, id), c)
  PROVE  Lasting(b, c)
<1> DEFINE d == path_delete(b, id)
           n == Larger(d.seqno + 1, b.highest)
           f == [d EXCEPT !.seqno = n]
           x == LinkFailure(b, id)
           r == rt_down(f)
<1>1. PICK j : c = Shed(x, j)
  BY DEF Sheds
<1>2. Loose(d) /\ d.up = b.up /\ d.adv = b.adv /\ d.seqno = b.seqno
  BY LooseDelete
<1>3. d.seqno \in Nat /\ b.highest \in Nat
  BY <1>2 DEF Loose
<1>4. x = b \/ x = r \/ x = d
  <2>1. d.highest = b.highest
    BY LooseDelete
  <2>2. x = b \/ x = d \/ x = rt_down([d EXCEPT !.seqno = Larger(d.seqno + 1, d.highest)])
               \/ x = r
    BY Zenon DEF LinkFailure
  <2> QED
    BY <2>1, <2>2
<1>5. n \in Nat
  BY <1>3, LargerNat
<1> HIDE DEF d, n, x
<1>6. Loose(f)
  BY <1>2, <1>5, LooseWithSeqno
<1> HIDE DEF f
<1>7. ~r.up /\ Loose(r)
  BY <1>6, LooseDown
<1> HIDE DEF r
<1>8. Loose(x) /\ (x.up => x.adv = b.adv)
  BY <1>2, <1>4, <1>7
<1>9. c.up => x.up /\ c.adv = x.adv
  BY <1>1, <1>8, LooseShed
<1> QED
  BY <1>8, <1>9 DEF Lasting

\* An RERR: the route goes down, or loses a path.
LEMMA ErrorLasting ==
  ASSUME NEW b, Loose(b), NEW from, NEW s \in Nat, NEW c, c = ErrorReceived(b, from, s)
  PROVE  Lasting(b, c)
<1> DEFINE f == path_delete(b, from)
           h == Larger(f.highest, s)
           d == [f EXCEPT !.highest = h]
           g == [d EXCEPT !.seqno = d.highest]
           r == rt_down(g)
<1>1. c = b \/ c = r \/ c = d
  BY Zenon DEF ErrorReceived
<1>2. Loose(f) /\ f.up = b.up /\ f.adv = b.adv /\ f.highest \in Nat
  BY LooseDelete DEF Loose
<1> HIDE DEF f
<1>3. h \in Nat
  BY <1>2, LargerNat
<1> HIDE DEF h
<1>4. Loose(d) /\ d.up = f.up /\ d.adv = f.adv /\ d.highest = h
  BY <1>2, <1>3, LooseWithHighest
<1> HIDE DEF d
<1>5. Loose(g)
  BY <1>3, <1>4, LooseWithSeqno
<1> HIDE DEF g
<1>6. ~r.up
  BY <1>5, LooseDown
<1> HIDE DEF r
<1> QED
  BY <1>1, <1>2, <1>4, <1>6 DEF Lasting

\* A PTA takes the number heard of, whether the route goes down or not.
LEMMA PtaLasting ==
  ASSUME NEW b, Loose(b), NEW from, NEW s \in Nat, NEW last,
         NEW c, c = PtaReceived(b, from, s, last)
  PROVE  Lasting(b, c)
<1> DEFINE f == path_delete(b, from)
           h == Larger(f.highest, s)
           d == [f EXCEPT !.highest = h]
           r == rt_down(d)
           g == DownIfEmpty(d)
<1>1. c = b \/ c = [g EXCEPT !.seqno = d.highest]
  BY Zenon DEF PtaReceived
<1>2. g = d \/ g = r
  BY Zenon DEF DownIfEmpty
<1>3. Loose(f) /\ f.up = b.up /\ f.adv = b.adv /\ f.highest \in Nat
  BY LooseDelete DEF Loose
<1> HIDE DEF f
<1>4. h \in Nat
  BY <1>3, LargerNat
<1> HIDE DEF h
<1>5. Loose(d) /\ d.up = f.up /\ d.adv = f.adv /\ d.highest = h
  BY <1>3, <1>4, LooseWithHighest
<1> HIDE DEF d
<1>6. ~r.up /\ Loose(r)
  BY <1>5, LooseDown
<1> HIDE DEF r
<1>7. Loose(g) /\ (g.up => g.adv = b.adv)
  BY <1>2, <1>3, <1>5, <1>6
<1> HIDE DEF g
<1>8. c = b \/ (c.up = g.up /\ c.adv = g.adv)
  BY <1>1, <1>4, <1>5, <1>7, LooseWithSeqno
<1> QED
  BY <1>7, <1>8 DEF Lasting

\* Expiry: the route goes down, or loses paths.
LEMMA PurgeLasting ==
  ASSUME NEW b, Loose(b), NEW kept, NEW c, c = Purged(b, kept)
  PROVE  Lasting(b, c)
<1> DEFINE d == [b EXCEPT !.paths = kept]
           next == Larger(b.seqno + 1, b.highest)
           s == IF next % 2 = 0 THEN next + 1 ELSE next
           g == [d EXCEPT !.seqno = s]
           r == rt_down(g)
<1>1. c = r \/ c = d
  BY Zenon DEF Purged
<1>2. b.seqno \in Nat /\ b.highest \in Nat
  BY DEF Loose
<1>3. next \in Nat
  BY <1>2, LargerNat
<1> HIDE DEF next
<1>4. s \in Nat
  BY <1>3
<1> HIDE DEF s
<1>5. Loose(d) /\ d.up = b.up /\ d.adv = b.adv
  BY LooseWithPaths
<1> HIDE DEF d
<1>6. Loose(g)
  BY <1>4, <1>5, LooseWithSeqno
<1> HIDE DEF g
<1>7. ~r.up
  BY <1>6, LooseDown
<1> HIDE DEF r
<1> QED
  BY <1>1, <1>5, <1>7 DEF Lasting

\* Every step.
LEMMA StepLasting ==
  ASSUME NEW b, Loose(b), NEW c, EntryStep(b, c)
  PROVE  Lasting(b, c)
<1>1. MaxSeqno \in Nat
  BY RefinementAssumption
<1>2. CASE c = b
  BY <1>2 DEF Lasting
<1>3. CASE EntryLearns(b, c)
  BY <1>3, LearnsLasting
<1>4. CASE c = Advertise(b)
  BY <1>4, LooseAdvertise DEF Lasting
<1>5. CASE c = Shed(b, 1)
  BY <1>5, LooseShed DEF Lasting
<1>6. CASE \E id \in Node : Sheds(LinkFailure(b, id), c)
  BY <1>6, FailureLasting
<1>7. CASE \E from \in Node, s \in 0 .. MaxSeqno : c = ErrorReceived(b, from, s)
  BY <1>1, <1>7, ErrorLasting
<1>8. CASE \E from, last \in Node, s \in 0 .. MaxSeqno : c = PtaReceived(b, from, s, last)
  BY <1>1, <1>8, PtaLasting
<1>9. CASE \E kept \in path_purge(b) : c = Purged(b, kept)
  BY <1>9, PurgeLasting
<1> QED
  BY <1>2, <1>3, <1>4, <1>5, <1>6, <1>7, <1>8, <1>9, Zenon DEF EntryStep

\* A hop count once advertised is final while the route stays up at one sequence number,
\* in every agent and for every destination.
THEOREM AdvertisedStays == Spec /\ []InBounds => AdvertisedFinal
<1> DEFINE A == \A n, d \in Node :
                  LET e == node[n].rt[d]
                      f == node'[n].rt[d]
                  IN  e.up /\ f.up /\ f.seqno = e.seqno /\ e.adv # INFINITY => f.adv = e.adv
<1>1. Inv /\ Regular /\ InBounds /\ [Next]_vars => A
  <2> SUFFICES ASSUME Inv, Regular, InBounds, [Next]_vars, NEW n \in Node, NEW d \in Node
               PROVE  LET e == node[n].rt[d]
                          f == node'[n].rt[d]
                      IN  e.up /\ f.up /\ f.seqno = e.seqno /\ e.adv # INFINITY => f.adv = e.adv
    OBVIOUS
  <2> DEFINE b == Bare(node[n].rt[d])
             c == Bare(node'[n].rt[d])
  <2>1. EntryStep(EntryOf(n, d), EntryOf(n, d)')
    BY NextConforms DEF EntriesStep
  <2>2. EntryOf(n, d) = b /\ EntryOf(n, d)' = c
    BY DEF EntryOf, Bare, BarePaths
  <2>3. node[n].rt[d] \in EntryType
    BY NodeFacts DEF Inv, Proper
  <2>4. Loose(b)
    BY <2>3, BareFields DEF Loose, BareType
  <2>5. /\ b.up = node[n].rt[d].up /\ b.seqno = node[n].rt[d].seqno /\ b.adv = node[n].rt[d].adv
        /\ c.up = node'[n].rt[d].up /\ c.seqno = node'[n].rt[d].seqno
        /\ c.adv = node'[n].rt[d].adv
    BY DEF Bare
  <2> HIDE DEF b, c
  <2>6. Lasting(b, c)
    BY <2>1, <2>2, <2>4, StepLasting
  <2> QED
    BY <2>5, <2>6 DEF Lasting
<1>2. Inv /\ Regular /\ [Next]_vars => Regular'
  BY NextConforms
<1> QED
  BY <1>1, <1>2, InvHeld, InitRegular, PTL DEF Spec, AdvertisedFinal
=============================================================================
