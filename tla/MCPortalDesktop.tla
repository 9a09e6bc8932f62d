-------------------------- MODULE MCPortalDesktop --------------------------
(***************************************************************************)
(* Instances of PortalDesktop for TLC.                                     *)
(***************************************************************************)
EXTENDS PortalDesktop

CONSTANTS r1, r2

Everything == UNION {Required(kind) : kind \in Kinds}
SomeGrants == {Everything, {"send_receive"}}

\* One movement is within the limit, the other is not.
Movements == [r \in Requests |-> IF r = r1 THEN -1 ELSE 3]
=============================================================================
