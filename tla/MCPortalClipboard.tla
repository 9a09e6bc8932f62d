------------------------- MODULE MCPortalClipboard -------------------------
(***************************************************************************)
(* Instances of PortalClipboard for TLC.                                   *)
(***************************************************************************)
EXTENDS PortalClipboard, TLC
=============================================================================
