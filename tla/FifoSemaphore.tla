---------------------------- MODULE FifoSemaphore ----------------------------
(* What semaphores promise: permits are never invented or lost, who has to wait *)
(* waits on one of them, and those who wait for one are served in the order in  *)
(* which they came.                                                             *)
EXTENDS Naturals, Sequences

CONSTANTS Pid, Sem, InitialPermits

VARIABLES permits, waiting

Waits(p, s) == \E i \in 1 .. Len(waiting[s]) : waiting[s][i] = p

Acquire(s) ==
    /\ permits[s] > 0
    /\ permits' = [permits EXCEPT ![s] = @ - 1]
    /\ UNCHANGED waiting

Enqueue(p, s) ==
    /\ permits[s] = 0
    /\ \A r \in Sem : ~Waits(p, r)
    /\ waiting' = [waiting EXCEPT ![s] = Append(@, p)]
    /\ UNCHANGED permits

Release(s) ==
    \/ /\ waiting[s] = <<>>
       /\ permits' = [permits EXCEPT ![s] = @ + 1]
       /\ UNCHANGED waiting
    \/ /\ waiting[s] # <<>>
       /\ waiting' = [waiting EXCEPT ![s] = Tail(@)]
       /\ UNCHANGED permits

Init == permits = InitialPermits /\ waiting = [s \in Sem |-> <<>>]

Next == \E s \in Sem : Acquire(s) \/ Release(s) \/ \E p \in Pid : Enqueue(p, s)

Spec == Init /\ [][Next]_<<permits, waiting>>
=============================================================================
