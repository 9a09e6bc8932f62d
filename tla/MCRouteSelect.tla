--------------------------- MODULE MCRouteSelect ---------------------------
(***************************************************************************)
(* Instances of RouteSelect for TLC.                                       *)
(***************************************************************************)
EXTENDS RouteSelect, TLC
=============================================================================
