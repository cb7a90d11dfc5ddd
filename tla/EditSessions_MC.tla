-------------------------- MODULE EditSessions_MC --------------------------
(* Instances of EditSessions for TLC. *)
EXTENDS EditSessions, TLC

CONSTANTS s1, s2, s3, f1, f2, a1, a2, a3, a4

Symmetry == Permutations(Sock) \cup Permutations(File) \cup Permutations(Addr)
=============================================================================
