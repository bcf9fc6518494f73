------------------------- MODULE MCInventoryForecast -------------------------
(***************************************************************************)
(* Two recomputations that may overlap.  An item is low at 1, the          *)
(* threshold, and at 2 when it has been falling: three changes suffice for *)
(* two spells of being low (1, 2, 1), and after 2, 1, 2 the trend falls    *)
(* only when a restart had the first two points inserted again.  Items     *)
(* share only the topic and the cycle; one of them is followed.            *)
(***************************************************************************)
EXTENDS InventoryForecast, TLC
==============================================================================
