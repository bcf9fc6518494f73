--------------------------- MODULE MCFusionIngest ---------------------------
(***************************************************************************)
(* Three messages over two domains with timestamps 1, 2 and 3; the last is *)
(* past the watermark of both others, which one poll then releases.  The   *)
(* consumer joins once more, crashed or running, and one XADD fails.       *)
(***************************************************************************)
EXTENDS FusionIngest

MCTimestamps == 1..3
MCNegInf == -1
=============================================================================
