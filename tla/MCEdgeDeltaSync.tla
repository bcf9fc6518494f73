--------------------------- MODULE MCEdgeDeltaSync ---------------------------
(***************************************************************************)
(* Two partitions; the first carries the deltas of two entities.           *)
(***************************************************************************)
EXTENDS EdgeDeltaSync, TLC

CONSTANTS p1, p2, e1, e2, e3
MCPartitionOf == (e1 :> p1) @@ (e2 :> p1) @@ (e3 :> p2)
=============================================================================
