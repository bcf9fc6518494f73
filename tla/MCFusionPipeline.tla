-------------------------- MODULE MCFusionPipeline --------------------------
(***************************************************************************)
(* Two sources that are sure of what they see, one with a wider gate.      *)
(* Positions 0 and 1 are within both gates of each other, 3 only within    *)
(* the wider: another target for ais.  The two timeouts are equal, as      *)
(* 300 s and 5 min are in the code.                                        *)
(***************************************************************************)
EXTENDS FusionPipeline, TLC

CONSTANTS ais, adsb

MCPositions == {0, 1, 3}
MCGate == [source \in Sources |-> IF source = adsb THEN 3 ELSE 1]
Symmetry == Permutations(EntityIds)
=============================================================================
