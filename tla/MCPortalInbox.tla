--------------------------- MODULE MCPortalInbox ---------------------------
(***************************************************************************)
(* Instances of PortalInbox for TLC.                                       *)
(***************************************************************************)
EXTENDS PortalInbox, TLC

CONSTANTS i1, i2, a, a1, a11

\* Two names that compete: a file a is stored as a, a-1, ..., a file a-1 as
\* a-1, a-1-1, ...
CompetingNames == {"a", "a-1"}
CompetingCandidates == [n \in CompetingNames |->
                          IF n = "a" THEN <<a, a1>> ELSE <<a1, a11>>]
AnyName == [i \in Items |-> CompetingNames]

\* Every item has a name of its own.
OwnCandidates == [n \in Names |-> IF n = "n1" THEN <<a>> ELSE <<a1>>]
OwnName == [i \in Items |-> IF i = i1 THEN {"n1"} ELSE {"n2"}]
=============================================================================
