--------------------------- MODULE MCReportDispatch ---------------------------
(***************************************************************************)
(* One schedule that fires every other minute, one that fires once, and a  *)
(* third whose expression does not parse: every tick ends at that one, as  *)
(* its first row, its last or in between.  Two recipients, so that a       *)
(* delivery can stop between them.                                         *)
(***************************************************************************)
EXTENDS ReportDispatch

CONSTANTS often, once, broken

MCFires == [s \in Schedules |-> CASE s = often -> {1, 3} [] s = once -> {2} [] s = broken -> {}]
===============================================================================
