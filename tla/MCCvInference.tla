----------------------------- MODULE MCCvInference -----------------------------
(***************************************************************************)
(* Two detections a frame compete for up to three tracks; a track may be   *)
(* missed twice.  Two uploads of any kind race each other and the frames.  *)
(***************************************************************************)
EXTENDS CvInference, TLC

Symmetry == Permutations(TrackIds) \cup Permutations(Detections) \cup Permutations(Uploads)
===============================================================================
