----------------------------- MODULE Catalog_MC -----------------------------
(* Instances of Catalog for TLC. *)
EXTENDS Catalog, TLC

Symmetry == Permutations(Name) \cup Permutations(Sock) \cup Permutations(Slot)
=============================================================================
