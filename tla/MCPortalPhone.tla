---------------------------- MODULE MCPortalPhone ----------------------------
(***************************************************************************)
(* Two pages of one phone.  The polls of page a overlap.                   *)
(***************************************************************************)
EXTENDS PortalPhone, TLC

CONSTANTS a, b

Polls == a :> 2 @@ b :> 1
=============================================================================
