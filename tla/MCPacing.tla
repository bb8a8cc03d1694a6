------------------------------ MODULE MCPacing ------------------------------
(* A destination that moves and one out of reach share the buffer of a source. *)
EXTENDS Pacing

CONSTANTS destD, destE

\* One hop: found by the first of three rings.  Six: by the first ring, once
\* known, but not from one hop.  99: never.
Moving == [d \in Dest |-> IF d = destD THEN {1, 6} ELSE {99}]
=============================================================================
