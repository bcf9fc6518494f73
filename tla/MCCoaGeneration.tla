---------------------------- MODULE MCCoaGeneration ----------------------------
(***************************************************************************)
(* Two decisions, one after the other or overlapping, on a course of       *)
(* action that is generated while the doctrine is ingested twice, once     *)
(* from a document of more chunks than a search returns and once from a    *)
(* shorter one.                                                            *)
(***************************************************************************)
EXTENDS CoaGeneration, TLC

CONSTANTS ingest1, ingest2

MCChunks == ingest1 :> {1, 2, 3} @@ ingest2 :> {1}

Symmetry == Permutations(Requests)
===============================================================================
