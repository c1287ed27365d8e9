-------------------------- MODULE MCSessionManager --------------------------
(***************************************************************************)
(* Small instances of SessionManager for TLC.                              *)
(***************************************************************************)
EXTENDS SessionManager, TLC

CONSTANTS s1, s2, s3, h1

\* Every Run belongs to the one OpenCode session: each supersedes the last.
SameHost == [s \in Sessions |-> h1]

Symmetry == Permutations(Pumps) \cup Permutations(Sessions)

=============================================================================
