----------------------------- MODULE MCChallenge -----------------------------
(* Instances of Challenge for TLC. *)
EXTENDS Challenge, TLC

\* Connections are not told apart.
Symmetry == Permutations(Conns)
=============================================================================
