---------------------------- MODULE MCPortalAuth ----------------------------
(***************************************************************************)
(* Instances of PortalAuth for TLC.                                        *)
(***************************************************************************)
EXTENDS PortalAuth, TLC

CONSTANTS s1, s2, r1, r2, f1, p1, p2, h1, h2, c1, c2

\* Interchangeable values. Requests are tokens, but tokens are not permuted
\* with each other, so each set can be permuted on its own.
Symmetry == Permutations(Secrets) \cup Permutations(Requests)
              \cup Permutations(Phones) \cup Permutations(Handlers)
              \cup Permutations(Clis)
=============================================================================
