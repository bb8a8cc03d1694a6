---------------------------- MODULE MCRouteEntry ----------------------------
(* A model of RouteEntry with addresses as interchangeable model values. *)
EXTENDS RouteEntry, TLC

Symmetry == Permutations(Addr)

\* The sequence numbers the entry may reach are bounded, since rt_purge and
\* handle_link_failure increment them.
SeqnoBound == rt.seqno <= MaxSeqno + 1
=============================================================================
