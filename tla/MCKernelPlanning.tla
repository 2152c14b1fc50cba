-------------------------- MODULE MCKernelPlanning --------------------------
(* Instances of KernelPlanning for TLC. *)
EXTENDS KernelPlanning, TLC

CONSTANTS p1, p2, p3, s1

NoSems == <<>>
NoSemInit == [s \in {} |-> 0]
OneSem == <<s1>>
SemZero == [s \in {s1} |-> 0]
SemOne == [s \in {s1} |-> 1]

Stepping == [p \in Pid |-> {[op |-> "step"]}]
Ending == [p \in Pid |-> {[op |-> "step"], [op |-> "end"]}]
EndingAtOnce == [p \in Pid |-> {[op |-> "end"]}]
Waiting == [p \in Pid |-> {[op |-> "wait", sem |-> s1], [op |-> "signal", sem |-> s1]}]
WaitingAndEnding == [p \in Pid |-> Waiting[p] \cup {[op |-> "end"]}]

PidSymmetry == Permutations(Pid)
=============================================================================
