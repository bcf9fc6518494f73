--------------------------- MODULE MCBlueForceZones ---------------------------
(***************************************************************************)
(* Three requests about two assets: one creates an asset, two meet while   *)
(* moving it.  Three zone ids: each request may need one.                  *)
(***************************************************************************)
EXTENDS BlueForceZones, TLC

Symmetry ==
    Permutations(Assets) \cup Permutations(Footprints) \cup Permutations(ZoneIds) \cup Permutations(Requests)
===============================================================================
