------------------------------- MODULE RtEntry -------------------------------
(***************************************************************************)
(* A routing-table entry (teaomdv_rt_entry) as a record, and the           *)
(* operations of teaomdv_rtable.cc and teaomdv.cc that act on one entry.   *)
(*                                                                         *)
(* An entry is a record with at least the fields                           *)
(*   seqno    rt_seqno, the freshest destination sequence number accepted  *)
(*   adv      rt_advertised_hops                                           *)
(*   paths    rt_path_list, in list order (rt_num_paths_ is its length)    *)
(*   up       rt_flags = RTF_UP; RTF_IN_REPAIR is set only by              *)
(*            local_rt_repair, which the build compiles out of every call  *)
(*   highest  rt_highest_seqno_heard                                       *)
(* and a path is a record with at least nexthop, hopcount and lasthop.     *)
(* Modules that need more (trust, precursors) add fields of their own.     *)
(***************************************************************************)
EXTENDS Integers, Sequences, SequencesExt

CONSTANTS MaxPaths,   \* teaomdv_max_paths_
          LenDiff     \* teaomdv_prim_alt_path_len_diff_

ASSUME RtEntryAssumption == MaxPaths \in Nat \ {0} /\ LenDiff \in Nat

INFINITY  == 16383    \* ns-2's INFINITY, 0x3fff in the shipped object file
INFINITY2 == 255      \* 0xff
-----------------------------------------------------------------------------
(* The path list. *)

path_empty(e) == e.paths = << >>

path_find(e) == Head(e.paths)

path_lookup(e, id) == \E i \in DOMAIN e.paths : e.paths[i].nexthop = id

\* The list position path_lookup and path_delete stop at.
FirstVia(e, id) ==
  CHOOSE i \in DOMAIN e.paths :
    /\ e.paths[i].nexthop = id
    /\ \A j \in 1 .. i - 1 : e.paths[j].nexthop # id

disjoint_path_lookup(e, nexthop, lasthop) ==
  \E i \in DOMAIN e.paths : /\ e.paths[i].nexthop = nexthop
                            /\ e.paths[i].lasthop = lasthop

new_disjoint_path(e, nexthop, lasthop) ==
  \A i \in DOMAIN e.paths : /\ e.paths[i].nexthop # nexthop
                            /\ e.paths[i].lasthop # lasthop

path_insert(e, p) == [e EXCEPT !.paths = Append(@, p)]

path_delete(e, id) ==
  IF path_lookup(e, id) THEN [e EXCEPT !.paths = RemoveAt(@, FirstVia(e, id))]
                        ELSE e

Hops(e) == {e.paths[i].hopcount : i \in DOMAIN e.paths}

path_get_max_hopcount(e) ==
  IF path_empty(e) THEN INFINITY2
  ELSE CHOOSE h \in Hops(e) : \A k \in Hops(e) : k <= h

path_get_min_hopcount(e) ==
  CHOOSE h \in Hops(e) \cup {INFINITY2} : \A k \in Hops(e) \cup {INFINITY2} : h <= k

\* The lists path_purge can leave: the unexpired paths, in their old order.
path_purge(e) ==
  UNION { { [i \in 1 .. k |-> e.paths[keep[i]]] :
              keep \in { f \in [1 .. k -> DOMAIN e.paths] :
                           \A i, j \in 1 .. k : i < j => f[i] < f[j] } } :
          k \in 0 .. Len(e.paths) }
\* The one it leaves when the paths over the next hops in gone have expired.
Unexpired(e, gone) ==
  FoldLeft(LAMBDA kept, p : IF p.nexthop \in gone THEN kept ELSE Append(kept, p),
           << >>, e.paths)
-----------------------------------------------------------------------------
(* What the handlers do to one entry. *)

Larger(a, b) == IF a >= b THEN a ELSE b

rt_down(e) ==
  IF e.up THEN [e EXCEPT !.up = FALSE, !.adv = INFINITY, !.paths = << >>] ELSE e

\* Faulty: a route without paths stays up.
DownIfEmpty_Stays(e) == e

DownIfEmpty(e) == IF path_empty(e) THEN rt_down(e) ELSE e

\* The message carries a newer sequence number than the entry.
Fresher(e, s) == e.seqno < s

\* Faulty: no comparison with the advertised hop count.
Candidate_AnyLength(e, p, s) == e.seqno = s

\* Same sequence number and a hop count below the advertised one.
Candidate(e, p, s) == e.seqno = s /\ e.adv > p.hopcount - 1

Known(e, p) == disjoint_path_lookup(e, p.nexthop, p.lasthop)

TooLong(e, p) == p.hopcount - path_get_min_hopcount(e) > LenDiff

\* Faulty: no test of disjointness.
Admits_AnyPath(e, p) == Len(e.paths) < MaxPaths /\ ~TooLong(e, p)

Admits(e, p) == /\ new_disjoint_path(e, p.nexthop, p.lasthop)
                /\ Len(e.paths) < MaxPaths
                /\ ~TooLong(e, p)

\* Faulty: an alternate opens the advertised hop count again.
Learn_Reopens(e, p, s) ==
  IF Fresher(e, s)
  THEN [e EXCEPT !.seqno = s, !.adv = INFINITY, !.paths = << p >>, !.up = TRUE]
  ELSE IF Candidate(e, p, s) /\ ~Known(e, p) /\ Admits(e, p)
  THEN [path_insert(e, p) EXCEPT !.adv = INFINITY]
  ELSE e

\* A RREQ (for the route to its source) or a RREP offers path p at seqno s.
Learn(e, p, s) ==
  IF Fresher(e, s)
  THEN [e EXCEPT !.seqno = s, !.adv = INFINITY, !.paths = << p >>, !.up = TRUE]
  ELSE IF Candidate(e, p, s) /\ ~Known(e, p) /\ Admits(e, p)
  THEN path_insert(e, p)
  ELSE e

\* Faulty: advertises one hop too many; advertises anew each time; never advertises.
Advertise_OffByOne(e) ==
  [e EXCEPT !.adv = IF @ = INFINITY THEN path_get_max_hopcount(e) + 1 ELSE @]

Advertise_Again(e) == [e EXCEPT !.adv = path_get_max_hopcount(e)]

Advertise_Never(e) == e

Advertise(e) ==
  [e EXCEPT !.adv = IF @ = INFINITY THEN path_get_max_hopcount(e) ELSE @]

\* Faulty: the lost route keeps its sequence number.
LinkFailure_KeepsSeqno(e, id) ==
  IF ~(e.up /\ path_lookup(e, id)) THEN e ELSE DownIfEmpty(path_delete(e, id))

\* handle_link_failure(id), the part for one entry.
LinkFailure(e, id) ==
  IF ~(e.up /\ path_lookup(e, id)) THEN e
  ELSE LET d == path_delete(e, id)
       IN  IF path_empty(d)
           THEN rt_down([d EXCEPT !.seqno = Larger(@ + 1, e.highest)])
           ELSE d

\* Faulty: the sequence numbers are not compared; are compared the wrong way round.
ErrorApplies_AnySeqno(e, from, s) == e.up /\ path_lookup(e, from)

ErrorApplies_Swapped(e, from, s) == e.up /\ path_lookup(e, from) /\ e.seqno > s

ErrorApplies(e, from, s) == e.up /\ path_lookup(e, from) /\ e.seqno <= s

\* recvError, the part for one unreachable destination reported at seqno s.
ErrorReceived(e, from, s) ==
  IF ~ErrorApplies(e, from, s) THEN e
  ELSE LET d == [path_delete(e, from) EXCEPT !.highest = Larger(@, s)]
       IN  IF path_empty(d) THEN rt_down([d EXCEPT !.seqno = d.highest]) ELSE d

\* Faulty: an alarm must be newer than the route.
PtaApplies_Newer(e, from, s, last) ==
  /\ ErrorApplies(e, from, s) /\ e.seqno < s
  /\ e.paths[FirstVia(e, from)].lasthop = last

PtaApplies(e, from, s, last) ==
  ErrorApplies(e, from, s) /\ e.paths[FirstVia(e, from)].lasthop = last

\* recvPta: rt_seqno becomes rt_highest_seqno_heard whether or not it is down.
PtaReceived(e, from, s, last) ==
  IF ~PtaApplies(e, from, s, last) THEN e
  ELSE LET d == [path_delete(e, from) EXCEPT !.highest = Larger(@, s)]
       IN  [DownIfEmpty(d) EXCEPT !.seqno = d.highest]

\* rt_purge for an UP entry of which only the paths in kept have not expired.
\* rt_expire is only ever 0, so an UP entry always takes this branch.
Purged(e, kept) ==
  LET d    == [e EXCEPT !.paths = kept]
      next == Larger(e.seqno + 1, e.highest)
  IN  IF path_empty(d)
      THEN rt_down([d EXCEPT !.seqno = IF next % 2 = 0 THEN next + 1 ELSE next])
      ELSE d

\* What RouteEntry sees of a path, and of an entry: not the trust, the precursors or
\* rt_error.
BarePath(p) == [nexthop |-> p.nexthop, hopcount |-> p.hopcount, lasthop |-> p.lasthop]

BarePaths(paths) == [i \in DOMAIN paths |-> BarePath(paths[i])]

Bare(e) == [seqno |-> e.seqno, adv |-> e.adv, paths |-> BarePaths(e.paths), up |-> e.up,
            highest |-> e.highest]
=============================================================================
