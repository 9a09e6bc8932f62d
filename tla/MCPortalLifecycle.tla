------------------------- MODULE MCPortalLifecycle -------------------------
(***************************************************************************)
(* Instances of PortalLifecycle for TLC.                                   *)
(***************************************************************************)
EXTENDS PortalLifecycle, TLC
=============================================================================
