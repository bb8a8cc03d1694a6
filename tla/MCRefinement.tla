---------------------------- MODULE MCRefinement ----------------------------
(***************************************************************************)
(* A small network, one entry of which is compared with RouteEntry.        *)
(***************************************************************************)
EXTENDS MCTeaomdv, TeaomdvRefinement
=============================================================================
