------------------------------ MODULE MCTrust ------------------------------
(* Routes lead over one of two neighbours, which recommend each other. *)
EXTENDS Trust

CONSTANTS nodeA, nodeB,
          MaxWindows   \* bound on the windows

Arrays == [k \in Kind |-> IF k = "data" THEN 4 ELSE 2]

Minima == [k \in Kind |-> 2]

WindowBound == windows < MaxWindows
=============================================================================
