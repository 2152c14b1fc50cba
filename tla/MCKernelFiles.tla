--------------------------- MODULE MCKernelFiles ---------------------------
(* Instances of KernelFiles for TLC. *)
EXTENDS KernelFiles, TLC

Symmetry == Permutations(Pid) \cup Permutations(Path)

\* To read, and to write what may have to be created.
ReadOrCreate == {{"r"}, {"c", "w"}}
=============================================================================
