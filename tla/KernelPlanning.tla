--------------------------- MODULE KernelPlanning ---------------------------
(***************************************************************************)
(* The kernel's process planning: long-term admission (NEW to READY),      *)
(* short-term dispatching to the CPUs, the semaphores and every way in     *)
(* which a process ends.                                                   *)
(*                                                                         *)
(* The kernel runs one receiver thread per connection: one per console     *)
(* program, one per CPU, one for the memory; the main thread serves the    *)
(* menu. A thread runs the handler of one message to its end before it     *)
(* takes the next. Handlers call helpers that take locks, and many shared  *)
(* lists are touched under no lock, so handlers interleave. todo[t] is     *)
(* what thread t has still to run: a stack of calls. An action runs the    *)
(* call on top, one critical section or one unprotected access long, and   *)
(* pushes the calls that follow from it.                                   *)
(***************************************************************************)
EXTENDS Integers, FiniteSets, SequencesExt

CONSTANTS
    Pid,            \* the programs the consoles may load; one console thread each
    Cpu,            \* the connected CPU processes; one kernel thread each
    Mem,            \* the thread of the memory connection
    Menu,           \* the main thread
    None,           \* nobody: a free lock, no process
    SemIds,         \* sem_ids: the sequence of configured semaphores
    SemInit,        \* init_value of each semaphore
    Preloaded,      \* programs that start loaded and READY
    InitialMultiprog, \* GRADO_MULTIPROG
    MemCapacity,    \* how many programs the memory has room for
    Algorithm,      \* "FIFO" or "RR"
    Quantum,        \* QUANTUM: instructions per turn under RR
    Code,           \* the instructions each program may execute
    Operator,       \* what the people at the consoles and the menu may ask for
    Multiprogs,     \* the values the menu may give multiprog
    MaxRequests,    \* bound: menu requests in a behaviour
    MaxSem          \* bound: a program does not signal above this value

Sem == ToSet(SemIds)
Thread == Pid \cup Cpu \cup {Mem, Menu}
State == {"NEW", "READY", "EXEC", "BLOCK", "EXIT"}
Lock == {"console", "abort", "sems", "blockedList", "planning"}
\* The exit codes planning tells apart: FINALIZADO_CONSOLA, FINALIZADO_KERNEL,
\* a refusal by the memory, and any other value.
ExitCode == {"none", "consola", "kernel", "memory"}
Request == {"load", "abort", "stop", "planning", "multiprog"}

Instr == [op : {"step", "end"}] \cup [op : {"wait", "signal"}, sem : Sem]

ASSUME ThreadsAreDistinct ==
    /\ Pid \cap Cpu = {}
    /\ {Mem, Menu, None} \cap (Pid \cup Cpu) = {}
    /\ Mem # Menu /\ None \notin {Mem, Menu}

ASSUME ConstantTypes ==
    /\ IsFiniteSet(Pid) /\ IsFiniteSet(Cpu)
    /\ SemIds \in Seq(Sem) /\ SemInit \in [Sem -> Nat]
    /\ Preloaded \subseteq Pid
    /\ InitialMultiprog \in Nat /\ Multiprogs \subseteq Nat
    /\ MemCapacity \in Nat /\ Quantum \in Nat \ {0}
    /\ Algorithm \in {"FIFO", "RR"}
    /\ Code \in [Pid -> SUBSET Instr]
    /\ Operator \subseteq Request
    /\ MaxRequests \in Nat /\ MaxSem \in Int

VARIABLES
    list,       \* new_queue, ready_list, exec_list, block_list, exit_queue
    state,      \* socket_pcb_list: the state recorded for a pid, "none" if unknown
    exitCode,   \* exit_code of the pcb found through the lists
    programs,   \* program_list: programs whose code has not gone to the memory
    starting,   \* process_struct.pid: the program whose start is awaited
    mailbox,    \* kernel to memory: i_start_program and i_finish_program
    replies,    \* memory to kernel: memory_response_start_program
    resident,   \* how many copies of each program the memory holds
    pim,        \* process_in_memory
    multiprog,  \* the current degree of multiprogramming
    canCheck,   \* can_check_programs
    pending,    \* pending_process_to_kill
    planningRunning, \* planning_running
    cpu,        \* cpu_list: busy and xpid of each CPU
    job,        \* what each CPU process is doing
    semValue,   \* value of each semaphore
    blocked,    \* blocked_pids of each semaphore
    semPid,     \* sem_pid_list
    lock,       \* owner of each mutex that is held across calls
    todo,       \* the calls each kernel thread has still to run
    gone,       \* programs their console has aborted or been told are over
    requests    \* menu requests made so far

queueVars == <<list, state>>
startVars == <<starting, mailbox, replies, resident>>
roomVars == <<programs, pim, multiprog, canCheck>>
semVars == <<semValue, blocked, semPid>>
cpuVars == <<cpu, job>>
userVars == <<pending, planningRunning, gone, requests>>
vars == <<queueVars, exitCode, startVars, roomVars, semVars, cpuVars, userVars, lock, todo>>
-----------------------------------------------------------------------------
(* The stack of calls. *)

Do(op) == [op |-> op]
For(op, p) == [op |-> op, pid |-> p]
OnSem(op, s) == [op |-> op, sem |-> s]
Unlocking(l) == [op |-> "unlock", lock |-> l]
MoveTo(p, to) == [op |-> "move", pid |-> p, to |-> to, copy |-> FALSE, code |-> "none"]
\* The CPU sends the pcb back as text: the kernel builds a second pcb from it,
\* with an exit code of its own, and it is that copy that is moved.
MoveCopyTo(p, to, code) == [op |-> "move", pid |-> p, to |-> to, copy |-> TRUE, code |-> code]

ShortPlanning == <<[op |-> "kill", i |-> 1], Do("plan")>>
\* remove_from_list_sems: two critical sections for each semaphore.
RemoveFromListSems(p) ==
    [k \in 1 .. 2 * Len(SemIds) |->
        IF k % 2 = 1 THEN [op |-> "filter", pid |-> p, sem |-> SemIds[(k + 1) \div 2]]
                     ELSE OnSem("wake", SemIds[k \div 2])]

Running(t, op) == todo[t] # <<>> /\ Head(todo[t]).op = op
Top(t) == Head(todo[t])
Return(t) == todo' = [todo EXCEPT ![t] = Tail(@)]
Call(t, calls) == todo' = [todo EXCEPT ![t] = calls \o Tail(@)]
Receive(t, calls) == todo[t] = <<>> /\ todo' = [todo EXCEPT ![t] = calls]

Free(l) == lock[l] = None
Acquire(l, t) == lock' = [lock EXCEPT ![l] = t]
Release(l) == lock' = [lock EXCEPT ![l] = None]

\* pthread_mutex_unlock by the end of a handler.
Unlock(t) ==
    /\ Running(t, "unlock")
    /\ Release(Top(t).lock)
    /\ Return(t)
    /\ UNCHANGED <<queueVars, exitCode, startVars, roomVars, semVars, cpuVars, userVars>>
-----------------------------------------------------------------------------
(* State lists. *)

\* Mutated: the state the caller's pcb carries is believed.
ListOfCopy(m) == IF m.copy THEN "EXEC" ELSE state[m.pid]

\* move_to_list first overwrites the pcb's own state by the recorded one.
ListOf(m) == state[m.pid]

Relist(m) ==
    IF ListOf(m) = m.to
    THEN UNCHANGED <<list, state>>
    ELSE /\ list' = [list EXCEPT ![ListOf(m)] = RemoveFirst(@, m.pid),
                                 ![m.to] = Append(@, m.pid)]
         /\ state' = [state EXCEPT ![m.pid] = m.to]

Move(t) ==
    /\ Running(t, "move")
    /\ LET m == Top(t)
           moved == ListOf(m) # m.to
       IN  /\ Relist(m)
           /\ exitCode' = IF m.copy /\ moved
                          THEN [exitCode EXCEPT ![m.pid] = m.code] ELSE exitCode
           /\ IF m.to = "EXIT" /\ moved
              THEN Call(t, <<[op |-> "scan", pid |-> m.pid, i |-> 1]>>)
              ELSE Return(t)
    /\ UNCHANGED <<startVars, roomVars, semVars, cpuVars, userVars, lock>>
-----------------------------------------------------------------------------
(* Admission. *)

HasRoom == pim + 1 <= multiprog

ConsoleLoadProgram(p) ==
    /\ "load" \in Operator /\ state[p] = "none" /\ Free("console")
    /\ Acquire("console", p)
    /\ list' = [list EXCEPT !["NEW"] = Append(@, p)]
    /\ state' = [state EXCEPT ![p] = "NEW"]
    /\ Receive(p, <<For("addProgram", p), Do("checkRoom"), Unlocking("console")>>)
    /\ UNCHANGED <<exitCode, startVars, roomVars, semVars, cpuVars, userVars>>

AddProgram(t) ==
    /\ Running(t, "addProgram")
    /\ programs' = Append(programs, Top(t).pid)
    /\ Return(t)
    /\ UNCHANGED <<queueVars, exitCode, startVars, pim, multiprog, canCheck, semVars, cpuVars,
                   userVars, lock>>

\* The test of every caller; the call that follows it is a step of its own.
CheckRoom(t) ==
    /\ Running(t, "checkRoom")
    /\ IF HasRoom THEN Call(t, <<Do("checkNewList")>>) ELSE Return(t)
    /\ UNCHANGED <<queueVars, exitCode, startVars, roomVars, semVars, cpuVars, userVars, lock>>

\* The end of memory_response_start_program.
CheckRoomOrFlag(t) ==
    /\ Running(t, "checkRoomOrFlag")
    /\ Call(t, <<Do(IF HasRoom THEN "checkNewList" ELSE "setFlag")>>)
    /\ UNCHANGED <<queueVars, exitCode, startVars, roomVars, semVars, cpuVars, userVars, lock>>

\* The end of cpu_task_finished.
CheckFlagged(t) ==
    /\ Running(t, "checkFlagged")
    /\ IF canCheck /\ HasRoom THEN Call(t, <<Do("clearFlag"), Do("checkNewList")>>) ELSE Return(t)
    /\ UNCHANGED <<queueVars, exitCode, startVars, roomVars, semVars, cpuVars, userVars, lock>>

SetFlag(t) ==
    /\ \/ Running(t, "setFlag") /\ canCheck' = TRUE
       \/ Running(t, "clearFlag") /\ canCheck' = FALSE
    /\ Return(t)
    /\ UNCHANGED <<queueVars, exitCode, startVars, programs, pim, multiprog, semVars, cpuVars,
                   userVars, lock>>

\* Mutated: the newest program is started first.
NewestNew == Last(list["NEW"])

FirstNew == Head(list["NEW"])

Position(s, e) == Min({i \in 1 .. Len(s) : s[i] = e})

\* Nothing protects new_queue and program_list between these steps.
CheckNewList(t) ==
    /\ Running(t, "checkNewList")
    /\ \/ /\ list["NEW"] = <<>>
          /\ canCheck' = TRUE
          /\ Return(t)
       \/ /\ list["NEW"] # <<>>
          /\ LET p == FirstNew
             IN  IF Contains(programs, p)
                 THEN Call(t, <<For("setStarting", p),
                                [op |-> "removeProgram", i |-> Position(programs, p)]>>)
                 ELSE Return(t)
          /\ UNCHANGED canCheck
    /\ UNCHANGED <<queueVars, exitCode, startVars, programs, pim, multiprog, semVars, cpuVars,
                   userVars, lock>>

SetStarting(t) ==
    /\ Running(t, "setStarting")
    /\ starting' = Top(t).pid
    /\ Call(t, <<For("sendStart", Top(t).pid)>>)
    /\ UNCHANGED <<queueVars, exitCode, mailbox, replies, resident, roomVars, semVars, cpuVars,
                   userVars, lock>>

\* i_start_program and i_finish_program
Send(t) ==
    /\ \/ Running(t, "sendStart") /\ mailbox' = Append(mailbox, For("start", Top(t).pid))
       \/ Running(t, "sendFinish") /\ mailbox' = Append(mailbox, For("finish", Top(t).pid))
    /\ Return(t)
    /\ UNCHANGED <<queueVars, exitCode, starting, replies, resident, roomVars, semVars, cpuVars,
                   userVars, lock>>

\* list_remove ignores an index beyond the end.
RemovePos(s, i) == IF i \in 1 .. Len(s) THEN RemoveAt(s, i) ELSE s

\* The index was found before the message was sent; another removal may have shifted it.
RemoveProgram(t) ==
    /\ Running(t, "removeProgram")
    /\ programs' = RemovePos(programs, Top(t).i)
    /\ Return(t)
    /\ UNCHANGED <<queueVars, exitCode, startVars, pim, multiprog, canCheck, semVars, cpuVars,
                   userVars, lock>>

\* Both counters release the console lock, whoever holds it.
CountInMemory(n) ==
    /\ pim' = n
    /\ IF n < multiprog THEN Release("console") ELSE UNCHANGED lock

AddProcessInMemory(t) ==
    /\ Running(t, "addProcess")
    /\ CountInMemory(pim + 1)
    /\ Return(t)
    /\ UNCHANGED <<queueVars, exitCode, startVars, programs, multiprog, canCheck, semVars, cpuVars,
                   userVars>>

SubstractProcessInMemory(t) ==
    /\ Running(t, "substract")
    /\ CountInMemory(pim - 1)
    /\ Return(t)
    /\ UNCHANGED <<queueVars, exitCode, startVars, programs, multiprog, canCheck, semVars, cpuVars,
                   userVars>>

\* remove_program_code_by_pid: a process whose code is not found counts as loaded.
RemoveProgramCode(t) ==
    /\ Running(t, "removeCode")
    /\ programs' = RemoveFirst(programs, Top(t).pid)
    /\ IF Contains(programs, Top(t).pid) THEN Return(t) ELSE Call(t, <<Do("substract")>>)
    /\ UNCHANGED <<queueVars, exitCode, startVars, pim, multiprog, canCheck, semVars, cpuVars,
                   userVars, lock>>

\* The memory serves the kernel's messages in order and answers only a start. A program
\* that is started twice takes its frames twice; i_finish_program frees them all.
MemoryServe ==
    /\ mailbox # <<>>
    /\ mailbox' = Tail(mailbox)
    /\ LET m == Head(mailbox)
           fits == SumFunction(resident) < MemCapacity
       IN  \/ /\ m.op = "finish"
              /\ resident' = [resident EXCEPT ![m.pid] = 0]
              /\ UNCHANGED replies
           \/ /\ m.op = "start"
              /\ resident' = IF fits THEN [resident EXCEPT ![m.pid] = @ + 1] ELSE resident
              /\ replies' = Append(replies, IF fits THEN "none" ELSE "memory")
    /\ UNCHANGED <<queueVars, exitCode, starting, roomVars, semVars, cpuVars, userVars, lock, todo>>

\* The answer names no process: it is taken to be for process_struct.
MemoryResponseStartProgram ==
    /\ replies # <<>>
    /\ replies' = Tail(replies)
    /\ exitCode' = [exitCode EXCEPT ![starting] = Head(replies)]
    /\ IF Head(replies) = "none"
       THEN Receive(Mem, <<MoveTo(starting, "READY"), Do("addProcess")>> \o ShortPlanning
                         \o <<Do("checkRoomOrFlag")>>)
       ELSE Receive(Mem, <<MoveTo(starting, "EXIT"), Do("tellRefused"), Do("checkRoomOrFlag")>>)
    /\ UNCHANGED <<queueVars, starting, mailbox, resident, roomVars, semVars, cpuVars, userVars,
                   lock>>

\* kernel_response_load_program with an error, to whoever process_struct names by then.
TellRefused(t) ==
    /\ Running(t, "tellRefused")
    /\ gone' = gone \cup {starting}
    /\ Return(t)
    /\ UNCHANGED <<queueVars, exitCode, startVars, roomVars, semVars, cpuVars, pending,
                   planningRunning, requests, lock>>
-----------------------------------------------------------------------------
(* Short-term planning. *)

KillPendingProcess(t) ==
    /\ Running(t, "kill")
    /\ LET i == Top(t).i
       IN  IF i <= Len(pending)
           THEN Call(t, <<For("stop", pending[i]),
                          [op |-> "killed", pid |-> pending[i], i |-> i],
                          [op |-> "kill", i |-> i + 1]>>)
           ELSE Return(t)
    /\ UNCHANGED <<queueVars, exitCode, startVars, roomVars, semVars, cpuVars, userVars, lock>>

KilledPending(t) ==
    /\ Running(t, "killed")
    /\ pending' = RemovePos(pending, Top(t).i)
    /\ exitCode' = [exitCode EXCEPT ![Top(t).pid] = "consola"]
    /\ Return(t)
    /\ UNCHANGED <<queueVars, startVars, roomVars, semVars, cpuVars, planningRunning, gone,
                   requests, lock>>

\* Mutated: a CPU is chosen whether it is busy or not.
AnyCpus == Cpu

FreeCpus == {c \in Cpu : ~cpu[c].busy}

\* Mutated: planning_mutex is not taken.
MayAlwaysPlan == TRUE

MayPlan == Free("planning")

\* short_planning up to the choice of the process and the CPU; the ready list
\* is not protected by planning_mutex.
Plan(t) ==
    /\ Running(t, "plan") /\ MayPlan
    /\ \/ /\ planningRunning /\ FreeCpus # {} /\ list["READY"] # <<>>
          /\ Acquire("planning", t)
          /\ \E c \in FreeCpus :
                Call(t, <<[op |-> "dispatch", pid |-> Head(list["READY"]), cpu |-> c]>>)
       \/ /\ ~(planningRunning /\ FreeCpus # {} /\ list["READY"] # <<>>)
          /\ Return(t)
          /\ UNCHANGED lock
    /\ UNCHANGED <<queueVars, exitCode, startVars, roomVars, semVars, cpuVars, userVars>>

Idle == [pid |-> None, at |-> "idle", left |-> 0, status |-> "none", finished |-> FALSE,
         locked |-> FALSE]

\* kernel_receive_pcb: "ask" stands before each instruction.
Turn(p) == [pid |-> p, at |-> "ask", left |-> IF Algorithm = "RR" THEN Quantum ELSE 0,
            status |-> "none", finished |-> FALSE, locked |-> FALSE]

Dispatch(t) ==
    /\ Running(t, "dispatch")
    /\ LET p == Top(t).pid
           c == Top(t).cpu
       IN  /\ Relist(MoveTo(p, "EXEC"))
           /\ cpu' = [cpu EXCEPT ![c] = [busy |-> TRUE, xpid |-> p]]
           /\ job' = [job EXCEPT ![c] = Turn(p)]
    /\ Release("planning")
    /\ Call(t, ShortPlanning)
    /\ UNCHANGED <<exitCode, startVars, roomVars, semVars, userVars>>
-----------------------------------------------------------------------------
(* Semaphores. Whoever needs sems_mutex waits for it: a thread that already  *)
(* holds it waits for ever.                                                  *)

FirstIsBlocked(s) == blocked[s] # <<>> /\ state[Head(blocked[s])] = "BLOCK"

WakeFirst(s) == <<OnSem("removeFirst", s), MoveTo(Head(blocked[s]), "READY")>> \o ShortPlanning

\* Mutated: remove_first returns the list as it was.
WithFirst(pids) == pids

WithoutFirst(pids) == IF pids = <<>> THEN <<>> ELSE Tail(pids)

\* Mutated: the last to wait is the first to be served.
Pushed(pids, p) == <<p>> \o pids

Queued(pids, p) == Append(pids, p)

\* remove_first and add_blocked_process read the list under sems_blocked_list; the
\* caller assigns the result after they return.
RemoveFirstBlocked(t) ==
    /\ Running(t, "removeFirst") /\ Free("blockedList")
    /\ Call(t, <<[op |-> "setBlocked", sem |-> Top(t).sem,
                  pids |-> WithoutFirst(blocked[Top(t).sem])]>>)
    /\ UNCHANGED <<queueVars, exitCode, startVars, roomVars, semVars, cpuVars, userVars, lock>>

AddBlockedProcess(t) ==
    /\ Running(t, "addBlocked") /\ Free("blockedList")
    /\ Call(t, <<[op |-> "setBlocked", sem |-> Top(t).sem,
                  pids |-> Queued(blocked[Top(t).sem], Top(t).pid)]>>)
    /\ UNCHANGED <<queueVars, exitCode, startVars, roomVars, semVars, cpuVars, userVars, lock>>

SetBlocked(t) ==
    /\ Running(t, "setBlocked")
    /\ blocked' = [blocked EXCEPT ![Top(t).sem] = Top(t).pids]
    /\ Return(t)
    /\ UNCHANGED <<queueVars, exitCode, startVars, roomVars, semValue, semPid, cpuVars, userVars,
                   lock>>

\* value++ while it is under the initial value.
Returned(s) == IF semValue[s] < SemInit[s] THEN semValue[s] + 1 ELSE semValue[s]

\* First half of remove_from_list_sems, under sems_blocked_list: read the list,
\* drop the process and whoever is in EXIT, and store what is left.
FilterBlocked(t) ==
    /\ Running(t, "filter") /\ Free("blockedList")
    /\ Acquire("blockedList", t)
    /\ Call(t, <<[op |-> "keep", pid |-> Top(t).pid, sem |-> Top(t).sem,
                  rest |-> blocked[Top(t).sem], kept |-> <<>>]>>)
    /\ UNCHANGED <<queueVars, exitCode, startVars, roomVars, semVars, cpuVars, userVars>>

KeepBlocked(t) ==
    /\ Running(t, "keep") /\ Top(t).rest # <<>>
    /\ LET m == Top(t)
           p == Head(m.rest)
           stays == p # m.pid /\ state[p] # "EXIT"
       IN  /\ Call(t, <<[m EXCEPT !.rest = Tail(@),
                                  !.kept = IF stays THEN Append(@, p) ELSE @]>>)
           /\ semValue' = IF stays THEN semValue ELSE [semValue EXCEPT ![m.sem] = Returned(m.sem)]
    /\ UNCHANGED <<queueVars, exitCode, startVars, roomVars, blocked, semPid, cpuVars, userVars,
                   lock>>

StoreBlocked(t) ==
    /\ Running(t, "keep") /\ Top(t).rest = <<>>
    /\ blocked' = [blocked EXCEPT ![Top(t).sem] = Top(t).kept]
    /\ Release("blockedList")
    /\ Return(t)
    /\ UNCHANGED <<queueVars, exitCode, startVars, roomVars, semValue, semPid, cpuVars, userVars>>

\* Second half, under sems_mutex.
WakeAfterFilter(t) ==
    /\ Running(t, "wake") /\ Free("sems")
    /\ LET s == Top(t).sem
       IN  \/ /\ FirstIsBlocked(s) /\ semValue[s] >= 0
              /\ Acquire("sems", t)
              /\ semValue' = [semValue EXCEPT ![s] = @ + 1]
              /\ Call(t, WakeFirst(s) \o <<Unlocking("sems")>>)
           \/ /\ ~(FirstIsBlocked(s) /\ semValue[s] >= 0)
              /\ Return(t)
              /\ UNCHANGED <<semValue, lock>>
    /\ UNCHANGED <<queueVars, exitCode, startVars, roomVars, blocked, semPid, cpuVars, userVars>>

\* remove_sem_pid_list, under no lock. Removing entry i and going on with i + 1
\* skips the entry that moved to i.
ScanSemPids(t) ==
    /\ Running(t, "scan")
    /\ LET i == Top(t).i
           next == [Top(t) EXCEPT !.i = i + 1]
       IN  \/ /\ i > Len(semPid)
              /\ Return(t)
              /\ UNCHANGED semValue
           \/ /\ i <= Len(semPid) /\ semPid[i].pid # Top(t).pid
              /\ Call(t, <<next>>)
              /\ UNCHANGED semValue
           \/ /\ i <= Len(semPid) /\ semPid[i].pid = Top(t).pid
              /\ semValue' = [semValue EXCEPT ![semPid[i].sem] = Returned(semPid[i].sem)]
              /\ Call(t, <<OnSem("wakeUnlocked", semPid[i].sem),
                           [op |-> "removeSemPid", i |-> i], next>>)
    /\ UNCHANGED <<queueVars, exitCode, startVars, roomVars, blocked, semPid, cpuVars, userVars,
                   lock>>

WakeAfterScan(t) ==
    /\ Running(t, "wakeUnlocked")
    /\ LET s == Top(t).sem
       IN  IF FirstIsBlocked(s) /\ semValue[s] >= 0 THEN Call(t, WakeFirst(s)) ELSE Return(t)
    /\ UNCHANGED <<queueVars, exitCode, startVars, roomVars, semVars, cpuVars, userVars, lock>>

RemoveSemPid(t) ==
    /\ Running(t, "removeSemPid")
    /\ semPid' = RemovePos(semPid, Top(t).i)
    /\ Return(t)
    /\ UNCHANGED <<queueVars, exitCode, startVars, roomVars, semValue, blocked, cpuVars, userVars,
                   lock>>
-----------------------------------------------------------------------------
(* What a CPU executes, one instruction at a time, and the requests it makes *)
(* to its kernel thread meanwhile. The CPU waits for every answer, so a      *)
(* request and the handler's first step are one action.                      *)

At(c, point) == job[c].at = point
Listening(c) == todo[c] = <<>>

\* Mutated: the quantum is counted under FIFO too.
ExecutedCounting(j) ==
    [j EXCEPT !.left = @ - 1, !.at = IF j.finished \/ j.left = 1 THEN "done" ELSE "ask"]

\* Mutated: the quantum is tested and never counted down.
ExecutedForever(j) == [j EXCEPT !.at = IF j.finished THEN "done" ELSE "ask"]

\* After an instruction: the turn ends with the program or with the quantum.
Executed(j) ==
    LET left == IF Algorithm = "RR" THEN j.left - 1 ELSE 0
    IN  [j EXCEPT !.left = left,
                  !.at = IF j.finished \/ (Algorithm = "RR" /\ left = 0) THEN "done" ELSE "ask"]

\* Only FINALIZADO_CONSOLA leaves the loop at once.
CpuHasAborted(c) ==
    /\ At(c, "ask") /\ Listening(c) /\ Free("abort")
    /\ LET code == exitCode[job[c].pid]
       IN  job' = [job EXCEPT ![c].status = code,
                              ![c].at = IF code = "consola" THEN "done" ELSE "run"]
    /\ UNCHANGED <<queueVars, exitCode, startVars, roomVars, semVars, cpu, userVars, lock, todo>>

ExecuteStep(c) ==
    /\ At(c, "run") /\ [op |-> "step"] \in Code[job[c].pid]
    /\ job' = [job EXCEPT ![c] = Executed(@)]
    /\ UNCHANGED <<queueVars, exitCode, startVars, roomVars, semVars, cpu, userVars, lock, todo>>

ExecuteEnd(c) ==
    /\ At(c, "run") /\ [op |-> "end"] \in Code[job[c].pid]
    /\ job' = [job EXCEPT ![c] = Executed([@ EXCEPT !.finished = TRUE])]
    /\ UNCHANGED <<queueVars, exitCode, startVars, roomVars, semVars, cpu, userVars, lock, todo>>

\* cpu_wait_sem when the semaphore is free.
CpuWaitSem(c, s) ==
    /\ At(c, "run") /\ [op |-> "wait", sem |-> s] \in Code[job[c].pid]
    /\ Listening(c) /\ Free("sems") /\ semValue[s] > 0
    /\ semValue' = [semValue EXCEPT ![s] = @ - 1]
    /\ LET holds == [pid |-> cpu[c].xpid, sem |-> s]
       IN  semPid' = IF Contains(semPid, holds) THEN semPid ELSE Append(semPid, holds)
    /\ job' = [job EXCEPT ![c] = Executed(@)]
    /\ UNCHANGED <<queueVars, exitCode, startVars, roomVars, blocked, cpu, userVars, lock, todo>>

\* cpu_wait_sem when it is not: sems_mutex stays locked when the handler returns.
CpuWaitSemBusy(c, s) ==
    /\ At(c, "run") /\ [op |-> "wait", sem |-> s] \in Code[job[c].pid]
    /\ Listening(c) /\ Free("sems") /\ semValue[s] <= 0
    /\ Acquire("sems", c)
    /\ LET p == cpu[c].xpid
       IN  Receive(c, IF state[p] = "EXIT" THEN <<OnSem("block", s)>>
                      ELSE <<[op |-> "addBlocked", pid |-> p, sem |-> s], OnSem("block", s)>>)
    /\ job' = [job EXCEPT ![c].at = "call"]
    /\ UNCHANGED <<queueVars, exitCode, startVars, roomVars, semVars, cpu, userVars>>

\* Mutated: sems_mutex is unlocked before the process is in BLOCK.
BlockCallerUnlocking(c) ==
    /\ Running(c, "block") /\ At(c, "call")
    /\ semValue' = [semValue EXCEPT ![Top(c).sem] = @ - 1]
    /\ job' = [job EXCEPT ![c] = Executed([@ EXCEPT !.finished = TRUE, !.locked = TRUE])]
    /\ Release("sems")
    /\ Return(c)
    /\ UNCHANGED <<queueVars, exitCode, startVars, roomVars, blocked, semPid, cpu, userVars>>

BlockCaller(c) ==
    /\ Running(c, "block") /\ At(c, "call")
    /\ semValue' = [semValue EXCEPT ![Top(c).sem] = @ - 1]
    /\ job' = [job EXCEPT ![c] = Executed([@ EXCEPT !.finished = TRUE, !.locked = TRUE])]
    /\ Return(c)
    /\ UNCHANGED <<queueVars, exitCode, startVars, roomVars, blocked, semPid, cpu, userVars, lock>>

CpuSignalSem(c, s) ==
    /\ At(c, "run") /\ [op |-> "signal", sem |-> s] \in Code[job[c].pid]
    /\ semValue[s] < MaxSem
    /\ Listening(c) /\ Free("sems")
    /\ Acquire("sems", c)
    /\ semValue' = [semValue EXCEPT ![s] = @ + 1]
    /\ Receive(c, IF FirstIsBlocked(s) THEN WakeFirst(s) \o <<Do("signalled")>>
                                       ELSE <<Do("signalled")>>)
    /\ job' = [job EXCEPT ![c].at = "call"]
    /\ UNCHANGED <<queueVars, exitCode, startVars, roomVars, blocked, semPid, cpu, userVars>>

AnswerSignal(c) ==
    /\ Running(c, "signalled") /\ At(c, "call")
    /\ Release("sems")
    /\ job' = [job EXCEPT ![c] = Executed(@)]
    /\ Return(c)
    /\ UNCHANGED <<queueVars, exitCode, startVars, roomVars, semVars, cpu, userVars>>

Aborted(code) == code \in {"consola", "kernel"}

\* The three branches of cpu_task_finished that end the process.
EndProcess(p, code) ==
    RemoveFromListSems(p)
        \o <<For("removeCode", p), MoveCopyTo(p, "EXIT", code), For("sendFinish", p)>>

\* An abort noted on the kernel's own pcb overrides the code the CPU sends.
FinalCode(j) == IF Aborted(exitCode[j.pid]) THEN exitCode[j.pid] ELSE j.status

\* Mutated: the mutex cpu_wait_sem left locked is not unlocked.
KeepSemsLocked(j) == <<>>

UnlockIfLocked(j) == IF j.locked THEN <<Unlocking("sems")>> ELSE <<>>

CpuTaskFinished(c) ==
    /\ At(c, "done") /\ Listening(c)
    /\ LET j == job[c]
           p == j.pid
           code == FinalCode(j)
           finished == j.finished \/ j.status # "none"
           outcome ==
               CASE Aborted(code) -> EndProcess(p, code)
                 [] ~Aborted(code) /\ ~finished -> <<MoveCopyTo(p, "READY", code)>>
                 [] ~Aborted(code) /\ finished /\ j.locked -> <<MoveCopyTo(p, "BLOCK", code)>>
                 [] OTHER -> EndProcess(p, code) \o <<For("tellStopped", p)>>
       IN  Receive(c, outcome \o UnlockIfLocked(j) \o ShortPlanning \o <<Do("checkFlagged")>>)
    /\ cpu' = [cpu EXCEPT ![c].busy = FALSE]
    /\ job' = [job EXCEPT ![c] = Idle]
    /\ UNCHANGED <<queueVars, exitCode, startVars, roomVars, semVars, userVars, lock>>
-----------------------------------------------------------------------------
(* Ending a process from outside. *)

\* Mutated: the abort is not noted for kill_pending_process.
NotNoted(p) == UNCHANGED pending

Noted(p) == pending' = Append(pending, p)

ConsoleAbortProgram(p) ==
    /\ "abort" \in Operator /\ state[p] # "none" /\ p \notin gone /\ Free("abort")
    /\ requests < MaxRequests
    /\ requests' = requests + 1
    /\ gone' = gone \cup {p}
    /\ Acquire("abort", p)
    /\ Noted(p)
    /\ Receive(p, <<For("abort", p), Unlocking("abort")>>)
    /\ UNCHANGED <<queueVars, exitCode, startVars, roomVars, semVars, cpuVars, planningRunning>>

AbortTeardown(p) ==
    RemoveFromListSems(p)
        \o <<For("removeCode", p), For("sendFinish", p), MoveTo(p, "EXIT"), Do("checkRoom")>>

AbortProcess(t) ==
    /\ Running(t, "abort")
    /\ LET p == Top(t).pid
       IN  /\ exitCode' = [exitCode EXCEPT ![p] = "consola"]
           /\ IF state[p] # "EXEC" THEN Call(t, AbortTeardown(p)) ELSE Return(t)
    /\ UNCHANGED <<queueVars, startVars, roomVars, semVars, cpuVars, userVars, lock>>

StopProcess(t) ==
    /\ Running(t, "stop")
    /\ LET p == Top(t).pid
           teardown == (IF state[p] = "BLOCK" THEN RemoveFromListSems(p) ELSE <<>>)
                       \o <<Do("substract"), For("sendFinish", p), MoveTo(p, "EXIT"),
                            Do("checkRoom")>>
       IN  IF state[p] = "none"
           THEN Return(t) /\ UNCHANGED exitCode
           ELSE /\ exitCode' = [exitCode EXCEPT ![p] = "kernel"]
                /\ Call(t, (IF state[p] # "EXEC" THEN teardown ELSE <<>>)
                           \o <<For("tellStopped", p)>>)
    /\ UNCHANGED <<queueVars, startVars, roomVars, semVars, cpuVars, userVars, lock>>

TellStopped(t) ==
    /\ Running(t, "tellStopped")
    /\ gone' = gone \cup {Top(t).pid}
    /\ Return(t)
    /\ UNCHANGED <<queueVars, exitCode, startVars, roomVars, semVars, cpuVars, pending,
                   planningRunning, requests, lock>>
-----------------------------------------------------------------------------
(* The menu. *)

Choose(request) ==
    /\ request \in Operator /\ requests < MaxRequests
    /\ requests' = requests + 1

DoStopProcess(p) ==
    /\ Choose("stop")
    /\ Receive(Menu, <<For("stop", p)>>)
    /\ UNCHANGED <<queueVars, exitCode, startVars, roomVars, semVars, cpuVars, pending,
                   planningRunning, gone, lock>>

DoStopPlanification ==
    /\ Choose("planning")
    /\ planningRunning' = ~planningRunning
    /\ Receive(Menu, IF planningRunning' THEN ShortPlanning ELSE <<>>)
    /\ UNCHANGED <<queueVars, exitCode, startVars, roomVars, semVars, cpuVars, pending, gone, lock>>

DoChangeMultiprogramming(m) ==
    /\ Choose("multiprog")
    /\ multiprog' = m
    /\ Receive(Menu, <<Do("checkRoom")>>)
    /\ UNCHANGED <<queueVars, exitCode, startVars, programs, pim, canCheck, semVars, cpuVars,
                   pending, planningRunning, gone, lock>>
-----------------------------------------------------------------------------
Init ==
    /\ \E order \in SetToSeqs(Preloaded) :
          list = [q \in State |-> IF q = "READY" THEN order ELSE <<>>]
    /\ state = [p \in Pid |-> IF p \in Preloaded THEN "READY" ELSE "none"]
    /\ exitCode = [p \in Pid |-> "none"]
    /\ programs = <<>> /\ starting = None /\ mailbox = <<>> /\ replies = <<>>
    /\ resident = [p \in Pid |-> IF p \in Preloaded THEN 1 ELSE 0] /\ pim = Cardinality(Preloaded)
    /\ multiprog = InitialMultiprog
    \* the last memory_response_start_program leaves the flag set
    /\ canCheck = (Preloaded # {})
    /\ pending = <<>> /\ planningRunning = TRUE
    /\ cpu = [c \in Cpu |-> [busy |-> FALSE, xpid |-> None]]
    /\ job = [c \in Cpu |-> Idle]
    /\ semValue = SemInit /\ blocked = [s \in Sem |-> <<>>] /\ semPid = <<>>
    /\ lock = [l \in Lock |-> None]
    \* each CPU has just answered with cpu_received_page_stack_size
    /\ todo = [t \in Thread |-> IF t \in Cpu THEN ShortPlanning ELSE <<>>]
    /\ gone = {} /\ requests = 0

\* A thread runs the call on top of its stack.
Step(t) ==
    \/ Unlock(t) \/ Move(t) \/ AddProgram(t) \/ CheckRoom(t) \/ CheckRoomOrFlag(t)
    \/ CheckFlagged(t) \/ SetFlag(t) \/ CheckNewList(t) \/ RemoveProgram(t)
    \/ AddProcessInMemory(t) \/ SubstractProcessInMemory(t) \/ RemoveProgramCode(t)
    \/ SetStarting(t) \/ Send(t) \/ TellRefused(t) \/ KillPendingProcess(t) \/ KilledPending(t) \/ Plan(t)
    \/ Dispatch(t) \/ RemoveFirstBlocked(t) \/ AddBlockedProcess(t)
    \/ SetBlocked(t) \/ FilterBlocked(t) \/ KeepBlocked(t)
    \/ StoreBlocked(t) \/ WakeAfterFilter(t)
    \/ ScanSemPids(t) \/ WakeAfterScan(t) \/ RemoveSemPid(t) \/ AbortProcess(t)
    \/ StopProcess(t) \/ TellStopped(t)

\* A CPU goes on with its program.
Execute(c) ==
    \/ CpuHasAborted(c) \/ ExecuteStep(c) \/ ExecuteEnd(c) \/ BlockCaller(c) \/ AnswerSignal(c)
    \/ CpuTaskFinished(c)
    \/ \E s \in Sem : CpuWaitSem(c, s) \/ CpuWaitSemBusy(c, s) \/ CpuSignalSem(c, s)

Memory == MemoryServe \/ MemoryResponseStartProgram

Users ==
    \/ \E p \in Pid : ConsoleLoadProgram(p) \/ ConsoleAbortProgram(p) \/ DoStopProcess(p)
    \/ DoStopPlanification
    \/ \E m \in Multiprogs : DoChangeMultiprogramming(m)

Next == (\E t \in Thread : Step(t)) \/ (\E c \in Cpu : Execute(c)) \/ Memory \/ Users

Spec == Init /\ [][Next]_vars

\* Every kernel thread, every CPU and the memory keep running; the users need
\* not do anything.
Fairness ==
    /\ \A t \in Thread : WF_vars(Step(t))
    /\ \A c \in Cpu : WF_vars(Execute(c))
    /\ WF_vars(MemoryServe) /\ WF_vars(MemoryResponseStartProgram)

FairSpec == Spec /\ Fairness
-----------------------------------------------------------------------------
Turns == [pid : Pid \cup {None}, at : {"idle", "ask", "run", "call", "done"}, left : 0 .. Quantum,
          status : ExitCode, finished : BOOLEAN, locked : BOOLEAN]

Calls ==
    [op : {"checkRoom", "checkRoomOrFlag", "checkFlagged", "setFlag", "clearFlag",
           "checkNewList", "addProcess", "substract", "tellRefused", "plan", "signalled"}]
    \cup [op : {"addProgram", "setStarting", "removeCode", "sendFinish", "abort", "stop",
                "tellStopped"}, pid : Pid]
    \cup [op : {"wake", "wakeUnlocked", "removeFirst", "block"}, sem : Sem]
    \cup [op : {"removeProgram", "kill", "removeSemPid"}, i : Nat \ {0}]
    \cup [op : {"scan", "killed"}, pid : Pid, i : Nat \ {0}]
    \cup [op : {"move"}, pid : Pid, to : State, copy : BOOLEAN, code : ExitCode]
    \cup [op : {"unlock"}, lock : Lock]
    \cup [op : {"dispatch"}, pid : Pid, cpu : Cpu]
    \cup [op : {"filter", "addBlocked"}, pid : Pid, sem : Sem]
    \cup [op : {"keep"}, pid : Pid, sem : Sem, rest : Seq(Pid), kept : Seq(Pid)]
    \cup [op : {"setBlocked"}, sem : Sem, pids : Seq(Pid)]

\* A start is sent, served and answered only after process_struct has been set.
Starts(op) == IF starting \in Pid THEN [op : {op}, pid : Pid] ELSE {}

Runnable == Calls \cup Starts("sendStart")

QueueTypes == list \in [State -> Seq(Pid)] /\ state \in [Pid -> State \cup {"none"}]

StartTypes ==
    /\ starting \in Pid \cup {None} /\ resident \in [Pid -> Nat]
    /\ mailbox \in Seq([op : {"finish"}, pid : Pid] \cup Starts("start"))
    /\ replies \in Seq({"none", "memory"}) /\ (replies # <<>> => starting \in Pid)

RoomTypes == programs \in Seq(Pid) /\ pim \in Int /\ multiprog \in Nat /\ canCheck \in BOOLEAN

SemTypes ==
    /\ semValue \in [Sem -> Int] /\ blocked \in [Sem -> Seq(Pid)]
    /\ semPid \in Seq([pid : Pid, sem : Sem])

\* A CPU that works has a program, the kernel knows which, and under RR an
\* instruction of its quantum is left until it is done.
CpuTypes ==
    /\ cpu \in [Cpu -> [busy : BOOLEAN, xpid : Pid \cup {None}]] /\ job \in [Cpu -> Turns]
    /\ \A c \in Cpu :
          /\ ~At(c, "idle") => job[c].pid \in Pid /\ cpu[c].xpid \in Pid
          /\ Algorithm = "RR" /\ job[c].at \in {"ask", "run", "call"} => job[c].left > 0

UserTypes ==
    /\ pending \in Seq(Pid) /\ planningRunning \in BOOLEAN
    /\ gone \subseteq Pid \cup {None} /\ requests \in 0 .. MaxRequests

TypeOK ==
    /\ QueueTypes /\ StartTypes /\ RoomTypes /\ SemTypes /\ CpuTypes /\ UserTypes
    /\ exitCode \in [Pid -> ExitCode]
    /\ lock \in [Lock -> Thread \cup {None}]
    /\ todo \in [Thread -> Seq(Runnable)]

\* move_to_list keeps the lists and socket_pcb_list in step: a known process is
\* in the list its recorded state names, once, and in no other.
QueuesMatchStates ==
    \A p \in Pid, q \in State :
        LET places == {i \in 1 .. Len(list[q]) : list[q][i] = p}
        IN  IF state[p] = q THEN \E i \in places : places = {i} ELSE places = {}
-----------------------------------------------------------------------------
(* What the kernel promises. *)

Working(c) == job[c].at # "idle"

\* short_planning under planning_mutex, the resynchronising move_to_list and the
\* busy flag together: a process is executed by at most one CPU at a time, and
\* only while the kernel has it in EXEC.
OneCpuPerProcess ==
    \A c \in Cpu : Working(c) =>
        /\ state[job[c].pid] = "EXEC"
        /\ \A d \in Cpu \ {c} : Working(d) => job[d].pid # job[c].pid

\* The choice of a free CPU and the busy flag are one critical section, so a CPU
\* never receives a pcb while it executes another.
CpuKeepsItsProcess ==
    [][\A c \in Cpu : Working(c) /\ Working(c)' => job'[c].pid = job[c].pid]_vars

\* No wakeup is lost: cpu_wait_sem returns with sems_mutex locked so that no
\* signal can fall between the entry on blocked_pids and the move to BLOCK.
\* Whenever the mutex is free, a semaphore below zero has exactly that many
\* processes on its list, all in BLOCK and on no other list; another has none.
WaitersAreCounted ==
    Free("sems") =>
        \A s \in Sem :
            /\ Len(blocked[s]) = IF semValue[s] < 0 THEN -semValue[s] ELSE 0
            /\ \A i \in 1 .. Len(blocked[s]) :
                  /\ state[blocked[s][i]] = "BLOCK"
                  /\ \A r \in Sem : \A k \in 1 .. Len(blocked[r]) :
                        blocked[r][k] = blocked[s][i] => r = s /\ k = i

FifoSemaphore ==
    INSTANCE FifoSemaphore WITH
        InitialPermits <- SemInit,
        permits <- [s \in Sem |-> IF semValue[s] > 0 THEN semValue[s] ELSE 0],
        waiting <- blocked

\* The semaphores are what FifoSemaphore promises: whoever finds the value at 0 joins the
\* end of the list, and cpu_signal_sem takes its first (cpu_wait_sem, cpu_signal_sem).
SemaphoreIsFifo == FifoSemaphore!Spec

\* The mutex that cpu_wait_sem leaves locked is unlocked in the end, by the
\* cpu_task_finished of the same CPU.
SemsMutexIsReleased == lock["sems"] # None ~> lock["sems"] = None

\* Round Robin starves nobody: a READY process is dispatched in the end, if it is not
\* aborted before.
ReadyIsDispatched == \A p \in Pid : state[p] = "READY" ~> state[p] \in {"EXEC", "EXIT"}

\* new_queue is a queue: check_new_list, run by any thread, lets the programs
\* leave NEW only in the order in which they came.
AdmissionIsFifo ==
    [][list'["NEW"] \in {list["NEW"]} \cup {Append(list["NEW"], p) : p \in Pid}
                        \cup (IF list["NEW"] = <<>> THEN {} ELSE {Tail(list["NEW"])})]_vars

\* The return of the CPU overwrites the exit code that an abort wrote meanwhile, and
\* pending_process_to_kill makes up for it: a process that its console aborted, or
\* was told is over, ends in EXIT for good, whatever dispatch or return it races with.
AbortIsFinal == \A p \in Pid : p \in gone ~> [](state[p] = "EXIT")

(* What the documents say and the code does not do. *)

\* kernel/README.md: the degree of multiprogramming determines how many processes
\* are past NEW.
MultiprogrammingRespected ==
    Cardinality({p \in Pid : state[p] \in {"READY", "EXEC", "BLOCK"}}) <= multiprog

\* kernel/README.md: a process is not created in the memory before it passes from NEW
\* to READY, so once no message is under way the memory holds admitted processes only.
ResidentAreAdmitted ==
    (mailbox = <<>> /\ replies = <<>> /\ \A t \in Thread : todo[t] = <<>>) =>
        \A p \in Pid : resident[p] > 0 => state[p] \in {"READY", "EXEC", "BLOCK"}

\* docs/errata.md: a process stays in NEW until the degree of multiprogramming
\* lets it pass to READY, so it passes when the programs before it have ended.
NewIsAdmitted == \A p \in Pid : state[p] = "NEW" ~> state[p] # "NEW"

\* kernel/README.md: the pcbs that reach the EXIT queue stay there.
ExitIsTerminal == [][\A p \in Pid : state[p] = "EXIT" => state'[p] = "EXIT"]_vars

\* kernel/README.md: any program can be ended from the kernel's console.
StopIsEffective == \A p \in Pid : p \in gone ~> state[p] = "EXIT"
=============================================================================
