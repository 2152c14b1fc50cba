----------------------------- MODULE MCMemoria -----------------------------
(* Instances of Memoria for TLC. *)
EXTENDS Memoria, TLC

CONSTANTS p1, p2

OneCodePage == [p \in Pid |-> 1]
\* The first program has two pages of code.
TwoAndOne == [p \in Pid |-> IF p = p1 THEN 2 ELSE 1]

\* The frames that no name tells apart, the entries of the cache and the CPUs.
Symmetry == Permutations(Frame \ {Zero}) \cup Permutations(Slot) \cup Permutations(Cpu)
\* And the programs, when they are of the same size.
PidSymmetry == Symmetry \cup Permutations(Pid)
=============================================================================
