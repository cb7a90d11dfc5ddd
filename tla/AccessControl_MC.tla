-------------------------- MODULE AccessControl_MC --------------------------
(* Instances of AccessControl for TLC. *)
EXTENDS AccessControl, TLC

Symmetry == Permutations(User) \cup Permutations(Path)
=============================================================================
