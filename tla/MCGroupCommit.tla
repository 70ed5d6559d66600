---------------------------- MODULE MCGroupCommit ----------------------------
(* Instances of GroupCommit for TLC. *)
EXTENDS GroupCommit, TLC

\* Writers run the same code, and so do the other threads.
Symmetry == Permutations(Writers) \cup Permutations(Others)
=============================================================================
