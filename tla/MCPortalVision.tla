--------------------------- MODULE MCPortalVision ---------------------------
(***************************************************************************)
(* Instances of PortalVision for TLC.                                      *)
(***************************************************************************)
EXTENDS PortalVision
=============================================================================
