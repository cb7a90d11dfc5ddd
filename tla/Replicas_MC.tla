----------------------------- MODULE Replicas_MC ----------------------------
(* Instances of Replicas for TLC. *)
EXTENDS Replicas, TLC

Symmetry ==
  Permutations(Name) \cup Permutations(Sock) \cup Permutations(Slot) \cup Permutations(Machine)
=============================================================================
