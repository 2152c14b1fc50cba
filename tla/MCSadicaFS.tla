----------------------------- MODULE MCSadicaFS -----------------------------
(* Instances of SadicaFS for TLC. *)
EXTENDS SadicaFS, TLC

Symmetry == Permutations(Path) \cup Permutations(Byte)
=============================================================================
