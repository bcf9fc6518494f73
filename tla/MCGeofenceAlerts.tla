-------------------------- MODULE MCGeofenceAlerts --------------------------
(***************************************************************************)
(* A zone within another one, and a position outside of both.              *)
(***************************************************************************)
EXTENDS GeofenceAlerts, TLC

CONSTANTS outer, inner, far, edge, core
MCHolds == (outer :> {edge, core}) @@ (inner :> {core})
MCTrigger == (outer :> {"ENTRY", "EXIT"}) @@ (inner :> {"EXIT"})
=============================================================================
