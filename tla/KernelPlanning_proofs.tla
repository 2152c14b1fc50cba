------------------------ MODULE KernelPlanning_proofs ------------------------
(* Proofs about KernelPlanning for any number of programs, CPUs and semaphores. *)
EXTENDS KernelPlanning, SequenceLemmas, FiniteSetTheorems
-----------------------------------------------------------------------------
(* Stacks of calls. *)

\* The fields of a call are typed by its name.
LEMMA CallFields ==
    ASSUME NEW m \in Runnable
    PROVE  /\ m.op \in {"addProgram", "setStarting", "sendStart", "removeCode", "sendFinish",
                        "abort", "stop", "tellStopped", "scan", "killed", "move", "dispatch",
                        "filter", "addBlocked", "keep"} => m.pid \in Pid
           /\ m.op = "sendStart" => starting \in Pid
           /\ m.op \in {"wake", "wakeUnlocked", "removeFirst", "block", "filter", "addBlocked",
                        "keep", "setBlocked"} => m.sem \in Sem
           /\ m.op \in {"removeProgram", "kill", "removeSemPid", "scan", "killed"}
                 => m.i \in Nat \ {0}
           /\ m.op = "move" => m.to \in State /\ m.copy \in BOOLEAN /\ m.code \in ExitCode
           /\ m.op = "unlock" => m.lock \in Lock
           /\ m.op = "dispatch" => m.cpu \in Cpu
           /\ m.op = "keep" => m.rest \in Seq(Pid) /\ m.kept \in Seq(Pid)
           /\ m.op = "setBlocked" => m.pids \in Seq(Pid)
BY DEF Runnable, Starts, Calls

\* A thread that runs a call has a typed call on top of typed calls.
LEMMA TopIsTyped ==
    ASSUME TypeOK, NEW t \in Thread, NEW op, Running(t, op)
    PROVE  /\ Top(t) \in Runnable /\ Top(t).op = op
           /\ todo[t] \in Seq(Runnable) /\ Tail(todo[t]) \in Seq(Runnable)
BY HeadTailProperties DEF TypeOK, Running, Top

\* Pushing typed calls leaves typed stacks, also when starting is set meanwhile.
LEMMA CallIsTyped ==
    ASSUME TypeOK, NEW t \in Thread, NEW op, Running(t, op),
           NEW calls \in Seq(Runnable'), Call(t, calls), Runnable \subseteq Runnable'
    PROVE  todo' \in [Thread -> Seq(Runnable')]
<1>1. \A u \in Thread : todo[u] \in Seq(Runnable')
  BY SeqMonotonic DEF TypeOK
<1>2. Tail(todo[t]) \in Seq(Runnable')
  BY TopIsTyped, SeqMonotonic
<1>3. calls \o Tail(todo[t]) \in Seq(Runnable')
  BY <1>2, ConcatProperties
<1>. QED  BY <1>1, <1>3 DEF Call, TypeOK

\* A call that returns leaves the rest of its thread's stack, which is typed.
LEMMA ReturnIsTyped ==
    ASSUME TypeOK, NEW t \in Thread, NEW op, Running(t, op), Return(t),
           Runnable \subseteq Runnable'
    PROVE  todo' \in [Thread -> Seq(Runnable')]
<1>1. \A u \in Thread : todo[u] \in Seq(Runnable')
  BY SeqMonotonic DEF TypeOK
<1>2. Tail(todo[t]) \in Seq(Runnable')
  BY TopIsTyped, SeqMonotonic
<1>. QED  BY <1>1, <1>2 DEF Return, TypeOK

\* An idle thread that receives a message gets the typed calls of its handler.
LEMMA ReceiveIsTyped ==
    ASSUME TypeOK, NEW t \in Thread, NEW calls \in Seq(Runnable), Receive(t, calls)
    PROVE  todo' \in [Thread -> Seq(Runnable)]
BY DEF Receive, TypeOK

\* A group of variables that an action leaves alone keeps its types.
LEMMA SameTypes ==
    /\ QueueTypes /\ UNCHANGED queueVars => QueueTypes'
    /\ StartTypes /\ UNCHANGED startVars => StartTypes'
    /\ RoomTypes /\ UNCHANGED roomVars => RoomTypes'
    /\ SemTypes /\ UNCHANGED semVars => SemTypes'
    /\ CpuTypes /\ UNCHANGED cpuVars => CpuTypes'
    /\ UserTypes /\ UNCHANGED userVars => UserTypes'
    /\ UNCHANGED starting => Runnable' = Runnable
BY DEF QueueTypes, StartTypes, RoomTypes, SemTypes, CpuTypes, UserTypes, queueVars, startVars,
       roomVars, semVars, cpuVars, userVars, Runnable, Starts, At

\* The calls that handlers make most.
LEMMA CommonCallsTyped ==
    /\ \A p \in Pid, to \in State : MoveTo(p, to) \in Runnable
    /\ \A p \in Pid, to \in State, code \in ExitCode : MoveCopyTo(p, to, code) \in Runnable
    /\ \A p \in Pid, op \in {"addProgram", "setStarting", "removeCode", "sendFinish", "abort",
                             "stop", "tellStopped"} : For(op, p) \in Runnable
    /\ \A op \in {"checkRoom", "checkRoomOrFlag", "checkFlagged", "setFlag", "clearFlag",
                  "checkNewList", "addProcess", "substract", "tellRefused", "plan",
                  "signalled"} : Do(op) \in Runnable
    /\ \A l \in Lock : Unlocking(l) \in Runnable
    /\ \A s \in Sem, op \in {"wake", "wakeUnlocked", "removeFirst", "block"} :
          OnSem(op, s) \in Runnable
    /\ ShortPlanning \in Seq(Runnable)
BY DEF Runnable, Calls, MoveTo, MoveCopyTo, For, Do, Unlocking, OnSem, ShortPlanning, ExitCode

\* remove_from_list_sems visits configured semaphores only.
LEMMA RemoveFromListSemsTyped ==
    ASSUME NEW p \in Pid
    PROVE  RemoveFromListSems(p) \in Seq(Runnable)
<1> DEFINE call(k) == IF k % 2 = 1 THEN [op |-> "filter", pid |-> p, sem |-> SemIds[(k + 1) \div 2]]
                                   ELSE OnSem("wake", SemIds[k \div 2])
<1>1. Len(SemIds) \in Nat /\ \A i \in 1 .. Len(SemIds) : SemIds[i] \in Sem
  BY ConstantTypes, LenProperties, ElementOfSeq
<1>2. ASSUME NEW k \in 1 .. 2 * Len(SemIds)
      PROVE  call(k) \in Runnable
  <2>1. CASE k % 2 = 1
    <3>1. (k + 1) \div 2 \in 1 .. Len(SemIds)
      BY <1>1, <2>1
    <3>. QED  BY <1>1, <2>1, <3>1 DEF Runnable, Calls
  <2>2. CASE k % 2 # 1
    <3>1. k \div 2 \in 1 .. Len(SemIds)
      BY <1>1, <2>2
    <3>. QED  BY <1>1, <2>2, <3>1, CommonCallsTyped
  <2>. QED  BY <2>1, <2>2
<1>3. [k \in 1 .. 2 * Len(SemIds) |-> call(k)] \in Seq(Runnable)
  <2>. HIDE DEF call
  <2>1. 2 * Len(SemIds) \in Nat
    BY <1>1
  <2>. QED  BY <1>2, <2>1, SeqDef
<1>. QED  BY <1>3 DEF RemoveFromListSems
-----------------------------------------------------------------------------
(* Type correctness of each action. *)

\* The end of a handler frees one mutex.
LEMMA UnlockTyped ==
    ASSUME TypeOK, NEW t \in Thread, Unlock(t)
    PROVE  TypeOK'
<1>1. todo' \in [Thread -> Seq(Runnable')]
  BY ReturnIsTyped, SameTypes DEF Unlock, startVars
<1>2. lock' \in [Lock -> Thread \cup {None}]
  BY TopIsTyped, CallFields DEF Unlock, Release, TypeOK
<1>. QED  BY <1>1, <1>2, SameTypes DEF Unlock, TypeOK

\* move_to_list moves a process from its list to the end of another.
LEMMA RelistTyped ==
    ASSUME TypeOK, NEW m, m.pid \in Pid, m.to \in State, Relist(m)
    PROVE  QueueTypes'
<1>1. CASE ListOf(m) = m.to
  BY <1>1, SameTypes DEF Relist, queueVars, TypeOK
<1>2. CASE ListOf(m) # m.to
  <2>1. state' \in [Pid -> State \cup {"none"}]
    BY <1>2 DEF Relist, TypeOK, QueueTypes
  <2> DEFINE from == ListOf(m)
             without == [list EXCEPT ![from] = RemoveFirst(list[from], m.pid)]
  <2>2. without \in [State -> Seq(Pid)]
    <3>1. from \in State => RemoveFirst(list[from], m.pid) \in Seq(Pid)
      BY RemoveFirstProperties DEF TypeOK, QueueTypes
    <3>. HIDE DEF from
    <3>. QED  BY <3>1 DEF TypeOK, QueueTypes
  <2>3. list' = [without EXCEPT ![m.to] = Append(list[m.to], m.pid)]
    BY <1>2 DEF Relist
  <2>4. Append(list[m.to], m.pid) \in Seq(Pid)
    BY AppendProperties DEF TypeOK, QueueTypes
  <2>. HIDE DEF without
  <2>. QED  BY <2>1, <2>2, <2>3, <2>4 DEF QueueTypes
<1>. QED  BY <1>1, <1>2

\* move_to_list keeps the lists, the recorded states and the exit codes typed.
LEMMA MoveTyped ==
    ASSUME TypeOK, NEW t \in Thread, Move(t)
    PROVE  TypeOK'
<1> DEFINE m == Top(t)
<1>1. /\ m \in Runnable /\ m.op = "move" /\ m.pid \in Pid
      /\ m.to \in State /\ m.copy \in BOOLEAN /\ m.code \in ExitCode
  BY TopIsTyped, CallFields DEF Move
<1>2. QueueTypes'
  BY <1>1, RelistTyped DEF Move
<1>3. exitCode' \in [Pid -> ExitCode]
  BY <1>1 DEF Move, TypeOK
<1>4. todo' \in [Thread -> Seq(Runnable')]
  <2>1. <<[op |-> "scan", pid |-> m.pid, i |-> 1]>> \in Seq(Runnable')
    BY <1>1, SameTypes DEF Move, Runnable, Calls, startVars
  <2>. QED  BY <2>1, CallIsTyped, ReturnIsTyped, SameTypes DEF Move, startVars
<1>. QED  BY <1>2, <1>3, <1>4, SameTypes DEF Move, TypeOK

\* console_load_program adds a program to program_list.
LEMMA AddProgramTyped ==
    ASSUME TypeOK, NEW t \in Thread, AddProgram(t)
    PROVE  TypeOK'
<1>1. todo' \in [Thread -> Seq(Runnable')]
  BY ReturnIsTyped, SameTypes DEF AddProgram, startVars
<1>2. RoomTypes'
  BY TopIsTyped, CallFields, AppendProperties DEF AddProgram, RoomTypes, TypeOK
<1>. QED  BY <1>1, <1>2, SameTypes DEF AddProgram, TypeOK

\* The three tests of process_in_memory against multiprog only push calls.
LEMMA CheckRoomTyped ==
    ASSUME TypeOK, NEW t \in Thread, CheckRoom(t) \/ CheckRoomOrFlag(t) \/ CheckFlagged(t)
    PROVE  TypeOK'
<1>1. /\ <<Do("checkNewList")>> \in Seq(Runnable) /\ <<Do("setFlag")>> \in Seq(Runnable)
      /\ <<Do("clearFlag"), Do("checkNewList")>> \in Seq(Runnable)
  BY CommonCallsTyped
<1>2. Runnable' = Runnable
  BY SameTypes DEF CheckRoom, CheckRoomOrFlag, CheckFlagged, startVars
<1>3. todo' \in [Thread -> Seq(Runnable')]
  <2>1. CASE CheckRoom(t)
    BY <1>1, <1>2, <2>1, CallIsTyped, ReturnIsTyped DEF CheckRoom
  <2>2. CASE CheckRoomOrFlag(t)
    BY <1>1, <1>2, <2>2, CallIsTyped DEF CheckRoomOrFlag
  <2>3. CASE CheckFlagged(t)
    BY <1>1, <1>2, <2>3, CallIsTyped, ReturnIsTyped DEF CheckFlagged
  <2>. QED  BY <2>1, <2>2, <2>3
<1>. QED  BY <1>3, SameTypes DEF CheckRoom, CheckRoomOrFlag, CheckFlagged, TypeOK

\* can_check_programs stays a Boolean.
LEMMA SetFlagTyped ==
    ASSUME TypeOK, NEW t \in Thread, SetFlag(t)
    PROVE  TypeOK'
<1>1. todo' \in [Thread -> Seq(Runnable')]
  BY ReturnIsTyped, SameTypes DEF SetFlag, startVars
<1>2. RoomTypes'
  BY DEF SetFlag, RoomTypes, TypeOK
<1>. QED  BY <1>1, <1>2, SameTypes DEF SetFlag, TypeOK

\* check_new_list looks a program of NEW up and schedules its start.
LEMMA CheckNewListTyped ==
    ASSUME TypeOK, NEW t \in Thread, CheckNewList(t)
    PROVE  TypeOK'
<1>1. Runnable' = Runnable
  BY SameTypes DEF CheckNewList, startVars
<1>2. RoomTypes'
  BY DEF CheckNewList, RoomTypes, TypeOK
<1>3. todo' \in [Thread -> Seq(Runnable')]
  <2>1. CASE Return(t)
    BY <2>1, <1>1, ReturnIsTyped DEF CheckNewList
  <2>2. CASE ~Return(t)
    <3> DEFINE p == FirstNew
               i == Position(programs, p)
    <3>1. /\ list["NEW"] # <<>> /\ Contains(programs, p)
          /\ Call(t, <<For("setStarting", p), [op |-> "removeProgram", i |-> i]>>)
      BY <2>2 DEF CheckNewList
    <3>2. p \in Pid
      BY <3>1, HeadTailProperties DEF FirstNew, TypeOK, QueueTypes, State
    <3>3. i \in Nat \ {0}
      <4>1. Len(programs) \in Nat
        BY LenProperties DEF TypeOK, RoomTypes
      <4> DEFINE I == {k \in 1 .. Len(programs) : programs[k] = p}
      <4>2. I \subseteq Nat /\ I # {}
        BY <3>1, <4>1 DEF Contains
      <4>3. i \in I
        BY <4>2, MinIsMember DEF Position
      <4>. QED  BY <4>1, <4>3
    <3>. HIDE DEF p, i
    <3>4. [op |-> "removeProgram", i |-> i] \in Runnable
      BY <3>3 DEF Runnable, Calls
    <3>5. For("setStarting", p) \in Runnable
      BY <3>2, CommonCallsTyped
    <3>6. <<For("setStarting", p), [op |-> "removeProgram", i |-> i]>> \in Seq(Runnable)
      BY <3>4, <3>5
    <3>. QED  BY <3>1, <3>6, <1>1, CallIsTyped DEF CheckNewList
  <2>. QED  BY <2>1, <2>2
<1>. QED  BY <1>2, <1>3, SameTypes DEF CheckNewList, TypeOK

\* list_remove at any index leaves a sequence over the same set.
LEMMA RemovePosTyped ==
    ASSUME NEW S, NEW s \in Seq(S), NEW i
    PROVE  RemovePos(s, i) \in Seq(S)
BY RemoveAtProperties DEF RemovePos

\* Setting process_struct only adds to what may run, be sent or be answered.
LEMMA SetStartingTyped ==
    ASSUME TypeOK, NEW t \in Thread, SetStarting(t)
    PROVE  TypeOK'
<1> DEFINE p == Top(t).pid
<1>1. p \in Pid /\ starting' = p
  BY TopIsTyped, CallFields DEF SetStarting
<1>2. Runnable \subseteq Runnable' /\ For("sendStart", p) \in Runnable'
  BY <1>1 DEF Runnable, Starts, For
<1>3. <<For("sendStart", p)>> \in Seq(Runnable')
  BY <1>2
<1>4. todo' \in [Thread -> Seq(Runnable')]
  BY <1>2, <1>3, CallIsTyped DEF SetStarting
<1>5. StartTypes'
  <2>1. Starts("start") \subseteq Starts("start")'
    BY <1>1 DEF Starts
  <2>2. mailbox' \in Seq([op : {"finish"}, pid : Pid] \cup Starts("start")')
    BY <2>1, SeqMonotonic DEF SetStarting, TypeOK, StartTypes
  <2>. QED  BY <1>1, <2>2 DEF SetStarting, TypeOK, StartTypes
<1>. QED  BY <1>4, <1>5, SameTypes DEF SetStarting, TypeOK

\* A message to the memory names a program; a start is sent only after process_struct is set.
LEMMA SendTyped ==
    ASSUME TypeOK, NEW t \in Thread, Send(t)
    PROVE  TypeOK'
<1>1. Runnable' = Runnable /\ Starts("start")' = Starts("start")
  BY SameTypes DEF Send, Starts
<1>2. todo' \in [Thread -> Seq(Runnable')]
  BY <1>1, ReturnIsTyped DEF Send
<1>3. mailbox' \in Seq([op : {"finish"}, pid : Pid] \cup Starts("start"))
  <2>1. CASE Running(t, "sendStart") /\ mailbox' = Append(mailbox, For("start", Top(t).pid))
    <3>1. Top(t).pid \in Pid /\ starting \in Pid
      BY <2>1, TopIsTyped, CallFields
    <3>2. For("start", Top(t).pid) \in Starts("start")
      BY <3>1 DEF Starts, For
    <3>. QED  BY <2>1, <3>2, AppendProperties DEF TypeOK, StartTypes
  <2>2. CASE Running(t, "sendFinish") /\ mailbox' = Append(mailbox, For("finish", Top(t).pid))
    <3>1. Top(t).pid \in Pid
      BY <2>2, TopIsTyped, CallFields
    <3>2. For("finish", Top(t).pid) \in [op : {"finish"}, pid : Pid]
      BY <3>1 DEF For
    <3>. QED  BY <2>2, <3>2, AppendProperties DEF TypeOK, StartTypes
  <2>. QED  BY <2>1, <2>2 DEF Send
<1>4. StartTypes'
  BY <1>1, <1>3 DEF Send, TypeOK, StartTypes
<1>. QED  BY <1>2, <1>4, SameTypes DEF Send, TypeOK

\* Removal from program_list at an index that may be stale.
LEMMA RemoveProgramTyped ==
    ASSUME TypeOK, NEW t \in Thread, RemoveProgram(t)
    PROVE  TypeOK'
<1>1. todo' \in [Thread -> Seq(Runnable')]
  BY ReturnIsTyped, SameTypes DEF RemoveProgram, startVars
<1>2. RoomTypes'
  BY RemovePosTyped DEF RemoveProgram, RoomTypes, TypeOK
<1>. QED  BY <1>1, <1>2, SameTypes DEF RemoveProgram, TypeOK

\* process_in_memory goes up or down by one, below zero too, and frees the console lock.
LEMMA CountTyped ==
    ASSUME TypeOK, NEW t \in Thread, AddProcessInMemory(t) \/ SubstractProcessInMemory(t)
    PROVE  TypeOK'
<1>1. todo' \in [Thread -> Seq(Runnable')]
  BY ReturnIsTyped, SameTypes DEF AddProcessInMemory, SubstractProcessInMemory, startVars
<1>2. RoomTypes' /\ lock' \in [Lock -> Thread \cup {None}]
  BY DEF AddProcessInMemory, SubstractProcessInMemory, CountInMemory, Release, RoomTypes, TypeOK
<1>. QED
  BY <1>1, <1>2, SameTypes DEF AddProcessInMemory, SubstractProcessInMemory, TypeOK

\* remove_program_code_by_pid drops a program or counts one process less.
LEMMA RemoveProgramCodeTyped ==
    ASSUME TypeOK, NEW t \in Thread, RemoveProgramCode(t)
    PROVE  TypeOK'
<1>1. <<Do("substract")>> \in Seq(Runnable)
  BY CommonCallsTyped
<1>2. todo' \in [Thread -> Seq(Runnable')]
  BY <1>1, CallIsTyped, ReturnIsTyped, SameTypes DEF RemoveProgramCode, startVars
<1>3. RoomTypes'
  BY RemoveFirstProperties DEF RemoveProgramCode, RoomTypes, TypeOK
<1>. QED  BY <1>2, <1>3, SameTypes DEF RemoveProgramCode, TypeOK

\* A console that is told of the end of its program joins those that are gone.
LEMMA TellTyped ==
    ASSUME TypeOK, NEW t \in Thread, TellRefused(t) \/ TellStopped(t)
    PROVE  TypeOK'
<1>1. todo' \in [Thread -> Seq(Runnable')]
  BY ReturnIsTyped, SameTypes DEF TellRefused, TellStopped, startVars
<1>2. UserTypes'
  <2>1. CASE TellRefused(t)
    BY <2>1 DEF TellRefused, UserTypes, StartTypes, TypeOK
  <2>2. CASE TellStopped(t)
    <3>1. Top(t).pid \in Pid
      BY <2>2, TopIsTyped, CallFields DEF TellStopped
    <3>. QED  BY <2>2, <3>1 DEF TellStopped, UserTypes, TypeOK
  <2>. QED  BY <2>1, <2>2
<1>. QED  BY <1>1, <1>2, SameTypes DEF TellRefused, TellStopped, TypeOK

\* kill_pending_process goes through pending_process_to_kill by index.
LEMMA KillPendingProcessTyped ==
    ASSUME TypeOK, NEW t \in Thread, KillPendingProcess(t)
    PROVE  TypeOK'
<1> DEFINE i == Top(t).i
           calls == <<For("stop", pending[i]), [op |-> "killed", pid |-> pending[i], i |-> i],
                      [op |-> "kill", i |-> i + 1]>>
<1>1. i \in Nat \ {0}
  BY TopIsTyped, CallFields DEF KillPendingProcess
<1>2. ASSUME i <= Len(pending)
      PROVE  calls \in Seq(Runnable)
  <2>1. pending[i] \in Pid
    BY <1>1, <1>2, ElementOfSeq, LenProperties DEF TypeOK, UserTypes
  <2>2. /\ [op |-> "killed", pid |-> pending[i], i |-> i] \in Runnable
        /\ [op |-> "kill", i |-> i + 1] \in Runnable
    BY <1>1, <2>1 DEF Runnable, Calls
  <2>. QED  BY <2>1, <2>2, CommonCallsTyped
<1>3. todo' \in [Thread -> Seq(Runnable')]
  <2>. HIDE DEF calls
  <2>1. CASE i <= Len(pending)
    <3>1. Call(t, calls)
      BY <2>1 DEF KillPendingProcess, calls
    <3>. QED  BY <2>1, <3>1, <1>2, CallIsTyped, SameTypes DEF KillPendingProcess, startVars
  <2>2. CASE ~(i <= Len(pending))
    BY <2>2, ReturnIsTyped, SameTypes DEF KillPendingProcess, startVars
  <2>. QED  BY <2>1, <2>2
<1>. QED  BY <1>3, SameTypes DEF KillPendingProcess, TypeOK

\* kill_pending_process forgets an entry and marks the pcb.
LEMMA KilledPendingTyped ==
    ASSUME TypeOK, NEW t \in Thread, KilledPending(t)
    PROVE  TypeOK'
<1>1. todo' \in [Thread -> Seq(Runnable')]
  BY ReturnIsTyped, SameTypes DEF KilledPending, startVars
<1>2. UserTypes'
  BY RemovePosTyped DEF KilledPending, UserTypes, TypeOK
<1>3. exitCode' \in [Pid -> ExitCode]
  BY DEF KilledPending, TypeOK, ExitCode
<1>. QED  BY <1>1, <1>2, <1>3, SameTypes DEF KilledPending, TypeOK

\* short_planning takes planning_mutex and chooses a READY process and a free CPU.
LEMMA PlanTyped ==
    ASSUME TypeOK, NEW t \in Thread, Plan(t)
    PROVE  TypeOK'
<1>1. Runnable' = Runnable
  BY SameTypes DEF Plan, startVars
<1>2. CASE Return(t) /\ UNCHANGED lock
  BY <1>1, <1>2, ReturnIsTyped, SameTypes DEF Plan, TypeOK
<1>3. CASE list["READY"] # <<>> /\ Acquire("planning", t) /\ ~(Return(t) /\ UNCHANGED lock)
  <2>1. PICK c \in FreeCpus :
           Call(t, <<[op |-> "dispatch", pid |-> Head(list["READY"]), cpu |-> c]>>)
    BY <1>3 DEF Plan
  <2>2. Head(list["READY"]) \in Pid /\ c \in Cpu
    BY <1>3, HeadTailProperties DEF FreeCpus, TypeOK, QueueTypes, State
  <2>3. [op |-> "dispatch", pid |-> Head(list["READY"]), cpu |-> c] \in Runnable
    BY <2>2 DEF Runnable, Calls
  <2>4. <<[op |-> "dispatch", pid |-> Head(list["READY"]), cpu |-> c]>> \in Seq(Runnable)
    BY <2>3
  <2>5. todo' \in [Thread -> Seq(Runnable')]
    BY <1>1, <2>1, <2>4, CallIsTyped DEF Plan
  <2>6. lock' \in [Lock -> Thread \cup {None}]
    BY <1>3 DEF Acquire, TypeOK
  <2>. QED  BY <2>5, <2>6, SameTypes DEF Plan, TypeOK
<1>. QED  BY <1>2, <1>3 DEF Plan

\* short_planning hands the chosen process to the chosen CPU, which starts a turn.
LEMMA DispatchTyped ==
    ASSUME TypeOK, NEW t \in Thread, Dispatch(t)
    PROVE  TypeOK'
<1> DEFINE p == Top(t).pid
           c == Top(t).cpu
<1>1. p \in Pid /\ c \in Cpu
  BY TopIsTyped, CallFields DEF Dispatch
<1>2. QueueTypes'
  <2> DEFINE m == MoveTo(p, "EXEC")
  <2>1. m.pid \in Pid /\ m.to \in State
    BY <1>1 DEF MoveTo, State
  <2>2. Relist(m)
    BY DEF Dispatch
  <2>. HIDE DEF m
  <2>. QED  BY <2>1, <2>2, RelistTyped
<1>3. CpuTypes'
  <2> DEFINE left == IF Algorithm = "RR" THEN Quantum ELSE 0
  <2>1. left \in 0 .. Quantum /\ (Algorithm = "RR" => left > 0)
    BY ConstantTypes
  <2>2. Turn(p) = [pid |-> p, at |-> "ask", left |-> left, status |-> "none",
                   finished |-> FALSE, locked |-> FALSE]
    BY DEF Turn
  <2>. HIDE DEF left
  <2>3. Turn(p) \in Turns /\ Turn(p).pid = p /\ (Algorithm = "RR" => Turn(p).left > 0)
    BY <1>1, <2>1, <2>2 DEF Turns, ExitCode
  <2>. QED  BY <1>1, <2>3 DEF Dispatch, CpuTypes, TypeOK, At
<1>4. todo' \in [Thread -> Seq(Runnable')]
  BY CallIsTyped, CommonCallsTyped, SameTypes DEF Dispatch, startVars
<1>5. lock' \in [Lock -> Thread \cup {None}]
  BY DEF Dispatch, Release, TypeOK
<1>. QED  BY <1>2, <1>3, <1>4, <1>5, SameTypes DEF Dispatch, TypeOK

\* The two actions that read blocked_pids and leave the new list for SetBlocked.
LEMMA ReadBlockedTyped ==
    ASSUME TypeOK, NEW t \in Thread, RemoveFirstBlocked(t) \/ AddBlockedProcess(t)
    PROVE  TypeOK'
<1> DEFINE m == Top(t)
           set(pids) == [op |-> "setBlocked", sem |-> m.sem, pids |-> pids]
<1>1. m.sem \in Sem /\ blocked[m.sem] \in Seq(Pid)
  BY TopIsTyped, CallFields DEF RemoveFirstBlocked, AddBlockedProcess, TypeOK, SemTypes
<1>2. ASSUME NEW pids \in Seq(Pid)
      PROVE  <<set(pids)>> \in Seq(Runnable)
  <2>1. set(pids) \in Runnable
    BY <1>1 DEF Runnable, Calls
  <2>. QED  BY <2>1
<1>3. CASE RemoveFirstBlocked(t)
  <2>1. WithoutFirst(blocked[m.sem]) \in Seq(Pid)
    BY <1>1, HeadTailProperties DEF WithoutFirst
  <2>2. Call(t, <<set(WithoutFirst(blocked[m.sem]))>>)
    BY <1>3 DEF RemoveFirstBlocked
  <2>3. todo' \in [Thread -> Seq(Runnable')]
    BY <1>2, <1>3, <2>1, <2>2, CallIsTyped, SameTypes DEF RemoveFirstBlocked, startVars
  <2>. QED  BY <1>3, <2>3, SameTypes DEF RemoveFirstBlocked, TypeOK
<1>4. CASE AddBlockedProcess(t)
  <2>1. m.pid \in Pid
    BY <1>4, TopIsTyped, CallFields DEF AddBlockedProcess
  <2>2. Queued(blocked[m.sem], m.pid) \in Seq(Pid)
    BY <1>1, <2>1, AppendProperties DEF Queued
  <2>3. Call(t, <<set(Queued(blocked[m.sem], m.pid))>>)
    BY <1>4 DEF AddBlockedProcess
  <2>4. todo' \in [Thread -> Seq(Runnable')]
    BY <1>2, <1>4, <2>2, <2>3, CallIsTyped, SameTypes DEF AddBlockedProcess, startVars
  <2>. QED  BY <1>4, <2>4, SameTypes DEF AddBlockedProcess, TypeOK
<1>. QED  BY <1>3, <1>4

\* The list that remove_first or add_blocked_process returned is stored.
LEMMA SetBlockedTyped ==
    ASSUME TypeOK, NEW t \in Thread, SetBlocked(t)
    PROVE  TypeOK'
<1>1. todo' \in [Thread -> Seq(Runnable')]
  BY ReturnIsTyped, SameTypes DEF SetBlocked, startVars
<1>2. SemTypes'
  BY TopIsTyped, CallFields DEF SetBlocked, SemTypes, TypeOK
<1>. QED  BY <1>1, <1>2, SameTypes DEF SetBlocked, TypeOK

\* remove_from_list_sems starts from the list of waiters of a semaphore.
LEMMA FilterBlockedTyped ==
    ASSUME TypeOK, NEW t \in Thread, FilterBlocked(t)
    PROVE  TypeOK'
<1> DEFINE m == Top(t)
           keep == [op |-> "keep", pid |-> m.pid, sem |-> m.sem, rest |-> blocked[m.sem],
                    kept |-> <<>>]
<1>1. m.pid \in Pid /\ m.sem \in Sem
  BY TopIsTyped, CallFields DEF FilterBlocked
<1>2. keep \in Runnable
  BY <1>1 DEF Runnable, Calls, TypeOK, SemTypes
<1>3. todo' \in [Thread -> Seq(Runnable')]
  <2>1. Call(t, <<keep>>)
    BY DEF FilterBlocked
  <2>. HIDE DEF keep
  <2>2. <<keep>> \in Seq(Runnable)
    BY <1>2
  <2>. QED  BY <2>1, <2>2, CallIsTyped, SameTypes DEF FilterBlocked, startVars
<1>4. lock' \in [Lock -> Thread \cup {None}]
  BY DEF FilterBlocked, Acquire, TypeOK
<1>. QED  BY <1>3, <1>4, SameTypes DEF FilterBlocked, TypeOK

\* value++ under the initial value stays an integer.
LEMMA ReturnedTyped ==
    ASSUME TypeOK, NEW s \in Sem
    PROVE  Returned(s) \in Int
BY ConstantTypes DEF Returned, TypeOK, SemTypes

\* remove_from_list_sems keeps or drops one waiter and may give its permit back.
LEMMA KeepBlockedTyped ==
    ASSUME TypeOK, NEW t \in Thread, KeepBlocked(t)
    PROVE  TypeOK'
<1> DEFINE m == Top(t)
           p == Head(m.rest)
           stays == p # m.pid /\ state[p] # "EXIT"
           rest == [m EXCEPT !.rest = Tail(@), !.kept = IF stays THEN Append(@, p) ELSE @]
<1>1. /\ m \in Runnable /\ m.op = "keep" /\ m.pid \in Pid /\ m.sem \in Sem
      /\ m.rest \in Seq(Pid) /\ m.rest # <<>> /\ m.kept \in Seq(Pid)
  BY TopIsTyped, CallFields DEF KeepBlocked
<1>2. p \in Pid /\ Tail(m.rest) \in Seq(Pid)
  BY <1>1, HeadTailProperties
<1>3. Append(m.kept, p) \in Seq(Pid)
  BY <1>1, <1>2, AppendProperties
<1>4. m \in [op : {"keep"}, pid : Pid, sem : Sem, rest : Seq(Pid), kept : Seq(Pid)]
  BY <1>1 DEF Runnable, Calls, Starts
<1>5. rest \in Runnable
  <2>1. rest \in [op : {"keep"}, pid : Pid, sem : Sem, rest : Seq(Pid), kept : Seq(Pid)]
    <3>. HIDE DEF m, p
    <3>. QED  BY <1>2, <1>3, <1>4
  <2>. QED  BY <2>1 DEF Runnable, Calls
<1>6. todo' \in [Thread -> Seq(Runnable')]
  <2>1. Call(t, <<rest>>)
    BY DEF KeepBlocked
  <2>. HIDE DEF rest
  <2>2. <<rest>> \in Seq(Runnable)
    BY <1>5
  <2>. QED  BY <2>1, <2>2, CallIsTyped, SameTypes DEF KeepBlocked, startVars
<1>7. SemTypes'
  BY <1>1, ReturnedTyped DEF KeepBlocked, SemTypes, TypeOK
<1>. QED  BY <1>6, <1>7, SameTypes DEF KeepBlocked, TypeOK

\* remove_from_list_sems stores the waiters it kept.
LEMMA StoreBlockedTyped ==
    ASSUME TypeOK, NEW t \in Thread, StoreBlocked(t)
    PROVE  TypeOK'
<1>1. todo' \in [Thread -> Seq(Runnable')]
  BY ReturnIsTyped, SameTypes DEF StoreBlocked, startVars
<1>2. SemTypes'
  BY TopIsTyped, CallFields DEF StoreBlocked, SemTypes, TypeOK
<1>3. lock' \in [Lock -> Thread \cup {None}]
  BY DEF StoreBlocked, Release, TypeOK
<1>. QED  BY <1>1, <1>2, <1>3, SameTypes DEF StoreBlocked, TypeOK

\* The calls that wake the first waiter of a semaphore.
LEMMA WakeFirstTyped ==
    ASSUME TypeOK, NEW s \in Sem, FirstIsBlocked(s)
    PROVE  WakeFirst(s) \in Seq(Runnable)
<1>1. Head(blocked[s]) \in Pid
  BY HeadTailProperties DEF FirstIsBlocked, TypeOK, SemTypes
<1>2. <<OnSem("removeFirst", s), MoveTo(Head(blocked[s]), "READY")>> \in Seq(Runnable)
  BY <1>1, CommonCallsTyped DEF State
<1>. QED  BY <1>2, CommonCallsTyped, ConcatProperties DEF WakeFirst

\* remove_from_list_sems wakes the first waiter of a semaphore with permits.
LEMMA WakeAfterFilterTyped ==
    ASSUME TypeOK, NEW t \in Thread, WakeAfterFilter(t)
    PROVE  TypeOK'
<1> DEFINE s == Top(t).sem
<1>1. s \in Sem
  BY TopIsTyped, CallFields DEF WakeAfterFilter
<1>2. CASE FirstIsBlocked(s) /\ semValue[s] >= 0
  <2>1. WakeFirst(s) \o <<Unlocking("sems")>> \in Seq(Runnable)
    <3>1. <<Unlocking("sems")>> \in Seq(Runnable)
      BY CommonCallsTyped DEF Lock
    <3>. QED  BY <1>1, <1>2, <3>1, WakeFirstTyped, ConcatProperties
  <2>2. todo' \in [Thread -> Seq(Runnable')]
    BY <1>2, <2>1, CallIsTyped, SameTypes DEF WakeAfterFilter, startVars
  <2>3. SemTypes'
    BY <1>1, <1>2 DEF WakeAfterFilter, SemTypes, TypeOK
  <2>4. lock' \in [Lock -> Thread \cup {None}]
    BY <1>2 DEF WakeAfterFilter, Acquire, TypeOK
  <2>. QED  BY <2>2, <2>3, <2>4, SameTypes DEF WakeAfterFilter, TypeOK
<1>3. CASE ~(FirstIsBlocked(s) /\ semValue[s] >= 0)
  <2>1. todo' \in [Thread -> Seq(Runnable')]
    BY <1>3, ReturnIsTyped, SameTypes DEF WakeAfterFilter, startVars
  <2>2. SemTypes'
    BY <1>3 DEF WakeAfterFilter, SemTypes, TypeOK
  <2>. QED  BY <1>3, <2>1, <2>2, SameTypes DEF WakeAfterFilter, TypeOK
<1>. QED  BY <1>2, <1>3

\* remove_sem_pid_list looks at one entry and gives back what the process held.
LEMMA ScanSemPidsTyped ==
    ASSUME TypeOK, NEW t \in Thread, ScanSemPids(t)
    PROVE  TypeOK'
<1> DEFINE i == Top(t).i
           next == [Top(t) EXCEPT !.i = i + 1]
           s == semPid[i].sem
<1>1. Top(t) \in Runnable /\ Top(t).op = "scan" /\ Top(t).pid \in Pid /\ i \in Nat \ {0}
  BY TopIsTyped, CallFields DEF ScanSemPids
<1>2. next \in Runnable
  <2>1. Top(t) \in [op : {"scan", "killed"}, pid : Pid, i : Nat \ {0}]
    BY <1>1 DEF Runnable, Calls, Starts
  <2>2. next \in [op : {"scan", "killed"}, pid : Pid, i : Nat \ {0}]
    BY <1>1, <2>1
  <2>. QED  BY <2>2 DEF Runnable, Calls
<1>. HIDE DEF next
<1>3. CASE i > Len(semPid) /\ Return(t) /\ UNCHANGED semValue
  <2>1. todo' \in [Thread -> Seq(Runnable')]
    BY <1>3, ReturnIsTyped, SameTypes DEF ScanSemPids, startVars
  <2>2. SemTypes'
    BY <1>3 DEF ScanSemPids, SemTypes, TypeOK
  <2>. QED  BY <2>1, <2>2, SameTypes DEF ScanSemPids, TypeOK
<1>4. CASE Call(t, <<next>>) /\ UNCHANGED semValue
  <2>1. <<next>> \in Seq(Runnable)
    BY <1>2
  <2>2. todo' \in [Thread -> Seq(Runnable')]
    BY <1>4, <2>1, CallIsTyped, SameTypes DEF ScanSemPids, startVars
  <2>3. SemTypes'
    BY <1>4 DEF ScanSemPids, SemTypes, TypeOK
  <2>. QED  BY <2>2, <2>3, SameTypes DEF ScanSemPids, TypeOK
<1>5. CASE /\ i <= Len(semPid)
           /\ semValue' = [semValue EXCEPT ![s] = Returned(s)]
           /\ Call(t, <<OnSem("wakeUnlocked", s), [op |-> "removeSemPid", i |-> i], next>>)
  <2>1. s \in Sem
    <3>1. semPid \in Seq([pid : Pid, sem : Sem]) /\ i \in 1 .. Len(semPid)
      BY <1>1, <1>5, LenProperties DEF TypeOK, SemTypes
    <3>2. semPid[i] \in [pid : Pid, sem : Sem]
      BY <3>1, ElementOfSeq
    <3>. QED  BY <3>2
  <2>. HIDE DEF s
  <2>2. [op |-> "removeSemPid", i |-> i] \in Runnable
    BY <1>1 DEF Runnable, Calls
  <2>3. <<OnSem("wakeUnlocked", s), [op |-> "removeSemPid", i |-> i], next>> \in Seq(Runnable)
    BY <1>2, <2>1, <2>2, CommonCallsTyped
  <2>4. todo' \in [Thread -> Seq(Runnable')]
    BY <1>5, <2>3, CallIsTyped, SameTypes DEF ScanSemPids, startVars
  <2>5. SemTypes'
    BY <1>5, <2>1, ReturnedTyped DEF ScanSemPids, SemTypes, TypeOK
  <2>. QED  BY <2>4, <2>5, SameTypes DEF ScanSemPids, TypeOK
<1>. QED  BY <1>3, <1>4, <1>5 DEF ScanSemPids, next

\* remove_sem_pid_list wakes the first waiter under no lock.
LEMMA WakeAfterScanTyped ==
    ASSUME TypeOK, NEW t \in Thread, WakeAfterScan(t)
    PROVE  TypeOK'
<1> DEFINE s == Top(t).sem
<1>1. s \in Sem
  BY TopIsTyped, CallFields DEF WakeAfterScan
<1>2. FirstIsBlocked(s) => WakeFirst(s) \in Seq(Runnable)
  BY <1>1, WakeFirstTyped
<1>3. todo' \in [Thread -> Seq(Runnable')]
  BY <1>2, CallIsTyped, ReturnIsTyped, SameTypes DEF WakeAfterScan, startVars
<1>. QED  BY <1>3, SameTypes DEF WakeAfterScan, TypeOK

\* remove_sem_pid_list removes the entry at its index.
LEMMA RemoveSemPidTyped ==
    ASSUME TypeOK, NEW t \in Thread, RemoveSemPid(t)
    PROVE  TypeOK'
<1>1. todo' \in [Thread -> Seq(Runnable')]
  BY ReturnIsTyped, SameTypes DEF RemoveSemPid, startVars
<1>2. SemTypes'
  BY RemovePosTyped DEF RemoveSemPid, SemTypes, TypeOK
<1>. QED  BY <1>1, <1>2, SameTypes DEF RemoveSemPid, TypeOK

\* console_abort_program marks the pcb and tears down a process that is not in EXEC.
LEMMA AbortProcessTyped ==
    ASSUME TypeOK, NEW t \in Thread, AbortProcess(t)
    PROVE  TypeOK'
<1> DEFINE p == Top(t).pid
<1>1. p \in Pid
  BY TopIsTyped, CallFields DEF AbortProcess
<1>2. AbortTeardown(p) \in Seq(Runnable)
  <2>1. <<For("removeCode", p), For("sendFinish", p), MoveTo(p, "EXIT"), Do("checkRoom")>>
           \in Seq(Runnable)
    BY <1>1, CommonCallsTyped DEF State
  <2>. QED  BY <1>1, <2>1, RemoveFromListSemsTyped, ConcatProperties DEF AbortTeardown
<1>3. todo' \in [Thread -> Seq(Runnable')]
  BY <1>2, CallIsTyped, ReturnIsTyped, SameTypes DEF AbortProcess, startVars
<1>4. exitCode' \in [Pid -> ExitCode]
  BY <1>1 DEF AbortProcess, TypeOK, ExitCode
<1>. QED  BY <1>3, <1>4, SameTypes DEF AbortProcess, TypeOK

\* stop_process marks the pcb and tears down a process that is not in EXEC.
LEMMA StopProcessTyped ==
    ASSUME TypeOK, NEW t \in Thread, StopProcess(t)
    PROVE  TypeOK'
<1> DEFINE p == Top(t).pid
           sems == IF state[p] = "BLOCK" THEN RemoveFromListSems(p) ELSE <<>>
           teardown == sems \o <<Do("substract"), For("sendFinish", p), MoveTo(p, "EXIT"),
                                 Do("checkRoom")>>
           calls == (IF state[p] # "EXEC" THEN teardown ELSE <<>>) \o <<For("tellStopped", p)>>
<1>1. p \in Pid
  BY TopIsTyped, CallFields DEF StopProcess
<1>2. teardown \in Seq(Runnable)
  <2>1. <<Do("substract"), For("sendFinish", p), MoveTo(p, "EXIT"), Do("checkRoom")>>
           \in Seq(Runnable)
    BY <1>1, CommonCallsTyped DEF State
  <2>2. sems \in Seq(Runnable)
    BY <1>1, RemoveFromListSemsTyped
  <2>. QED  BY <2>1, <2>2, ConcatProperties
<1>3. calls \in Seq(Runnable)
  <2>1. <<For("tellStopped", p)>> \in Seq(Runnable)
    BY <1>1, CommonCallsTyped
  <2>. HIDE DEF teardown
  <2>2. (IF state[p] # "EXEC" THEN teardown ELSE <<>>) \in Seq(Runnable)
    BY <1>2
  <2>. QED  BY <2>1, <2>2, ConcatProperties
<1>4. CASE state[p] = "none"
  BY <1>4, ReturnIsTyped, SameTypes DEF StopProcess, startVars, TypeOK
<1>5. CASE state[p] # "none"
  <2>1. Call(t, calls) /\ exitCode' = [exitCode EXCEPT ![p] = "kernel"]
    BY <1>5 DEF StopProcess
  <2>. HIDE DEF calls
  <2>2. todo' \in [Thread -> Seq(Runnable')]
    BY <1>3, <2>1, CallIsTyped, SameTypes DEF StopProcess, startVars
  <2>3. exitCode' \in [Pid -> ExitCode]
    BY <2>1 DEF TypeOK, ExitCode
  <2>. QED  BY <2>2, <2>3, SameTypes DEF StopProcess, TypeOK
<1>. QED  BY <1>4, <1>5

\* A step of a kernel thread keeps the types.
LEMMA StepTyped ==
    ASSUME TypeOK, NEW t \in Thread, Step(t)
    PROVE  TypeOK'
BY UnlockTyped, MoveTyped, AddProgramTyped, CheckRoomTyped, SetFlagTyped, CheckNewListTyped,
   SetStartingTyped, SendTyped, RemoveProgramTyped, CountTyped, RemoveProgramCodeTyped, TellTyped,
   KillPendingProcessTyped, KilledPendingTyped, PlanTyped, DispatchTyped, ReadBlockedTyped,
   SetBlockedTyped, FilterBlockedTyped, KeepBlockedTyped, StoreBlockedTyped, WakeAfterFilterTyped,
   ScanSemPidsTyped, WakeAfterScanTyped, RemoveSemPidTyped, AbortProcessTyped, StopProcessTyped
   DEF Step
-----------------------------------------------------------------------------
(* Type correctness of what the CPUs do. *)

\* An instruction uses up one unit of the quantum, and at least one is left under RR
\* unless the turn is over.
LEMMA ExecutedTyped ==
    ASSUME NEW j \in Turns, j.pid \in Pid, Algorithm = "RR" => j.left > 0
    PROVE  /\ Executed(j) \in Turns /\ Executed(j).pid = j.pid
           /\ Executed(j).at \in {"ask", "done"}
           /\ Algorithm = "RR" /\ Executed(j).at = "ask" => Executed(j).left > 0
<1> DEFINE left == IF Algorithm = "RR" THEN j.left - 1 ELSE 0
           at == IF j.finished \/ (Algorithm = "RR" /\ left = 0) THEN "done" ELSE "ask"
<1>1. left \in 0 .. Quantum
  BY ConstantTypes DEF Turns
<1>2. at \in {"ask", "done"} /\ (Algorithm = "RR" /\ at = "ask" => left # 0)
  <2>. HIDE DEF left
  <2>. QED  OBVIOUS
<1>3. Executed(j) = [j EXCEPT !.left = left, !.at = at]
  BY DEF Executed
<1>. HIDE DEF left, at
<1>4. Executed(j) \in Turns
  BY <1>1, <1>2, <1>3 DEF Turns
<1>5. Executed(j).pid = j.pid /\ Executed(j).at = at /\ Executed(j).left = left
  BY <1>3 DEF Turns
<1>6. left # 0 => left > 0
  BY <1>1, ConstantTypes
<1>. QED  BY <1>2, <1>4, <1>5, <1>6

\* Replacing the turn of a working CPU.
LEMMA JobTyped ==
    ASSUME TypeOK, NEW c \in Cpu, ~At(c, "idle"), UNCHANGED cpu,
           NEW j \in Turns, j.pid \in Pid, job' = [job EXCEPT ![c] = j],
           Algorithm = "RR" /\ j.at \in {"ask", "run", "call"} => j.left > 0
    PROVE  CpuTypes'
BY DEF TypeOK, CpuTypes, At

\* The answer of cpu_has_aborted sets the status of the CPU's turn.
LEMMA CpuHasAbortedTyped ==
    ASSUME TypeOK, NEW c \in Cpu, CpuHasAborted(c)
    PROVE  TypeOK'
<1> DEFINE code == exitCode[job[c].pid]
           j == [job[c] EXCEPT !.status = code, !.at = IF code = "consola" THEN "done" ELSE "run"]
<1>1. job[c] \in Turns /\ job[c].pid \in Pid /\ (Algorithm = "RR" => job[c].left > 0)
  BY DEF CpuHasAborted, TypeOK, CpuTypes, At
<1>2. j \in Turns /\ j.pid \in Pid /\ (Algorithm = "RR" => j.left > 0)
  BY <1>1 DEF Turns, TypeOK
<1>3. job' = [job EXCEPT ![c] = j]
  BY DEF CpuHasAborted, TypeOK, CpuTypes
<1>. HIDE DEF j
<1>4. CpuTypes'
  BY <1>2, <1>3, JobTyped DEF CpuHasAborted, At
<1>. QED  BY <1>4, SameTypes DEF CpuHasAborted, TypeOK, startVars

\* A working CPU has a typed turn with a program, and quantum left until it is done.
LEMMA WorkingTyped ==
    ASSUME TypeOK, NEW c \in Cpu, job[c].at \in {"run", "call"}
    PROVE  /\ job[c] \in Turns /\ job[c].pid \in Pid /\ cpu[c].xpid \in Pid /\ ~At(c, "idle")
           /\ Algorithm = "RR" => job[c].left > 0
BY DEF TypeOK, CpuTypes, At

\* Executing an instruction in a turn that may have changed its flags before.
LEMMA ExecuteTyped ==
    ASSUME TypeOK, NEW c \in Cpu, job[c].at \in {"run", "call"}, UNCHANGED cpu,
           NEW j \in Turns, j.pid = job[c].pid, j.left = job[c].left,
           job' = [job EXCEPT ![c] = Executed(j)]
    PROVE  CpuTypes'
<1> DEFINE e == Executed(j)
<1>1. /\ e \in Turns /\ e.pid = j.pid /\ e.at \in {"ask", "done"}
      /\ Algorithm = "RR" /\ e.at = "ask" => e.left > 0
  BY WorkingTyped, ExecutedTyped
<1>2. job' = [job EXCEPT ![c] = e]
  OBVIOUS
<1>. HIDE DEF e
<1>. QED  BY <1>1, <1>2, WorkingTyped, JobTyped

\* step and end: the CPU needs no kernel.
LEMMA ExecuteAloneTyped ==
    ASSUME TypeOK, NEW c \in Cpu, ExecuteStep(c) \/ ExecuteEnd(c)
    PROVE  TypeOK'
<1>1. CASE ExecuteStep(c)
  <2>1. job[c] \in Turns /\ job' = [job EXCEPT ![c] = Executed(job[c])] /\ job[c].at = "run"
    BY <1>1 DEF ExecuteStep, TypeOK, CpuTypes, At
  <2>2. CpuTypes'
    BY <1>1, <2>1, ExecuteTyped DEF ExecuteStep
  <2>. QED  BY <1>1, <2>2, SameTypes DEF ExecuteStep, TypeOK, startVars
<1>2. CASE ExecuteEnd(c)
  <2> DEFINE j == [job[c] EXCEPT !.finished = TRUE]
  <2>1. job[c] \in Turns /\ job' = [job EXCEPT ![c] = Executed(j)] /\ job[c].at = "run"
    BY <1>2 DEF ExecuteEnd, TypeOK, CpuTypes, At
  <2>2. j \in Turns /\ j.pid = job[c].pid /\ j.left = job[c].left
    BY <2>1 DEF Turns
  <2>. HIDE DEF j
  <2>3. CpuTypes'
    BY <1>2, <2>1, <2>2, ExecuteTyped DEF ExecuteEnd
  <2>. QED  BY <1>2, <2>3, SameTypes DEF ExecuteEnd, TypeOK, startVars
<1>. QED  BY <1>1, <1>2

\* cpu_wait_sem on a free semaphore takes a permit and records who holds it.
LEMMA CpuWaitSemTyped ==
    ASSUME TypeOK, NEW c \in Cpu, NEW s \in Sem, CpuWaitSem(c, s)
    PROVE  TypeOK'
<1>1. job[c] \in Turns /\ job' = [job EXCEPT ![c] = Executed(job[c])] /\ job[c].at = "run"
  BY DEF CpuWaitSem, TypeOK, CpuTypes, At
<1>2. CpuTypes'
  BY <1>1, ExecuteTyped DEF CpuWaitSem
<1>3. SemTypes'
  <2> DEFINE holds == [pid |-> cpu[c].xpid, sem |-> s]
  <2>1. holds \in [pid : Pid, sem : Sem]
    BY <1>1, WorkingTyped
  <2>2. semPid' = IF Contains(semPid, holds) THEN semPid ELSE Append(semPid, holds)
    BY DEF CpuWaitSem
  <2>. HIDE DEF holds
  <2>3. semPid' \in Seq([pid : Pid, sem : Sem])
    BY <2>1, <2>2, AppendProperties DEF TypeOK, SemTypes
  <2>. QED  BY <2>3 DEF CpuWaitSem, TypeOK, SemTypes
<1>. QED  BY <1>2, <1>3, SameTypes DEF CpuWaitSem, TypeOK, startVars

\* cpu_wait_sem on a busy semaphore locks sems_mutex and queues the caller.
LEMMA CpuWaitSemBusyTyped ==
    ASSUME TypeOK, NEW c \in Cpu, NEW s \in Sem, CpuWaitSemBusy(c, s)
    PROVE  TypeOK'
<1> DEFINE p == cpu[c].xpid
           calls == IF state[p] = "EXIT" THEN <<OnSem("block", s)>>
                    ELSE <<[op |-> "addBlocked", pid |-> p, sem |-> s], OnSem("block", s)>>
           j == [job[c] EXCEPT !.at = "call"]
<1>1. job[c].at = "run"
  BY DEF CpuWaitSemBusy, At
<1>2. p \in Pid /\ j \in Turns /\ j.pid \in Pid /\ (Algorithm = "RR" => j.left > 0)
  BY <1>1, WorkingTyped DEF Turns
<1>3. CpuTypes'
  <2>1. job' = [job EXCEPT ![c] = j]
    BY DEF CpuWaitSemBusy, TypeOK, CpuTypes
  <2>. HIDE DEF j
  <2>. QED  BY <1>1, <1>2, <2>1, WorkingTyped, JobTyped DEF CpuWaitSemBusy
<1>4. calls \in Seq(Runnable)
  <2>1. [op |-> "addBlocked", pid |-> p, sem |-> s] \in Runnable
    BY <1>2 DEF Runnable, Calls
  <2>. QED  BY <2>1, CommonCallsTyped
<1>5. todo' \in [Thread -> Seq(Runnable')]
  <2>1. Receive(c, calls)
    BY DEF CpuWaitSemBusy
  <2>. HIDE DEF calls
  <2>. QED  BY <1>4, <2>1, ReceiveIsTyped, SameTypes DEF CpuWaitSemBusy, startVars, Thread
<1>6. lock' \in [Lock -> Thread \cup {None}]
  BY DEF CpuWaitSemBusy, Acquire, TypeOK, Thread
<1>. QED  BY <1>3, <1>5, <1>6, SameTypes DEF CpuWaitSemBusy, TypeOK

\* cpu_wait_sem ends with sems_mutex locked; the program of the turn stops.
LEMMA BlockCallerTyped ==
    ASSUME TypeOK, NEW c \in Cpu, BlockCaller(c)
    PROVE  TypeOK'
<1> DEFINE j == [job[c] EXCEPT !.finished = TRUE, !.locked = TRUE]
<1>1. job[c] \in Turns /\ job' = [job EXCEPT ![c] = Executed(j)] /\ job[c].at = "call"
  BY DEF BlockCaller, TypeOK, CpuTypes, At
<1>2. j \in Turns /\ j.pid = job[c].pid /\ j.left = job[c].left
  BY <1>1 DEF Turns
<1>3. CpuTypes'
  <2>. HIDE DEF j
  <2>. QED  BY <1>1, <1>2, ExecuteTyped DEF BlockCaller
<1>4. SemTypes'
  BY TopIsTyped, CallFields DEF BlockCaller, SemTypes, TypeOK, Thread
<1>5. todo' \in [Thread -> Seq(Runnable')]
  BY ReturnIsTyped, SameTypes DEF BlockCaller, startVars, Thread
<1>. QED  BY <1>3, <1>4, <1>5, SameTypes DEF BlockCaller, TypeOK

\* cpu_signal_sem gives a permit and wakes the first waiter.
LEMMA CpuSignalSemTyped ==
    ASSUME TypeOK, NEW c \in Cpu, NEW s \in Sem, CpuSignalSem(c, s)
    PROVE  TypeOK'
<1> DEFINE calls == IF FirstIsBlocked(s) THEN WakeFirst(s) \o <<Do("signalled")>>
                                         ELSE <<Do("signalled")>>
           j == [job[c] EXCEPT !.at = "call"]
<1>1. job[c].at = "run"
  BY DEF CpuSignalSem, At
<1>2. j \in Turns /\ j.pid \in Pid /\ (Algorithm = "RR" => j.left > 0)
  BY <1>1, WorkingTyped DEF Turns
<1>3. CpuTypes'
  <2>1. job' = [job EXCEPT ![c] = j]
    BY DEF CpuSignalSem, TypeOK, CpuTypes
  <2>. HIDE DEF j
  <2>. QED  BY <1>1, <1>2, <2>1, WorkingTyped, JobTyped DEF CpuSignalSem
<1>4. calls \in Seq(Runnable)
  <2>1. <<Do("signalled")>> \in Seq(Runnable)
    BY CommonCallsTyped
  <2>. QED  BY <2>1, WakeFirstTyped, ConcatProperties
<1>5. todo' \in [Thread -> Seq(Runnable')]
  <2>1. Receive(c, calls)
    BY DEF CpuSignalSem
  <2>. HIDE DEF calls
  <2>. QED  BY <1>4, <2>1, ReceiveIsTyped, SameTypes DEF CpuSignalSem, startVars, Thread
<1>6. lock' \in [Lock -> Thread \cup {None}]
  BY DEF CpuSignalSem, Acquire, TypeOK, Thread
<1>7. SemTypes'
  BY DEF CpuSignalSem, TypeOK, SemTypes
<1>. QED  BY <1>3, <1>5, <1>6, <1>7, SameTypes DEF CpuSignalSem, TypeOK

\* cpu_signal_sem unlocks sems_mutex and the CPU goes on.
LEMMA AnswerSignalTyped ==
    ASSUME TypeOK, NEW c \in Cpu, AnswerSignal(c)
    PROVE  TypeOK'
<1>1. job[c] \in Turns /\ job' = [job EXCEPT ![c] = Executed(job[c])] /\ job[c].at = "call"
  BY DEF AnswerSignal, TypeOK, CpuTypes, At
<1>2. CpuTypes'
  BY <1>1, ExecuteTyped DEF AnswerSignal
<1>3. todo' \in [Thread -> Seq(Runnable')]
  BY ReturnIsTyped, SameTypes DEF AnswerSignal, startVars, Thread
<1>4. lock' \in [Lock -> Thread \cup {None}]
  BY DEF AnswerSignal, Release, TypeOK
<1>. QED  BY <1>2, <1>3, <1>4, SameTypes DEF AnswerSignal, TypeOK

\* The pcb that the CPU sends back carries a typed exit code.
LEMMA EndProcessTyped ==
    ASSUME NEW p \in Pid, NEW code \in ExitCode
    PROVE  EndProcess(p, code) \in Seq(Runnable)
<1>1. <<For("removeCode", p), MoveCopyTo(p, "EXIT", code), For("sendFinish", p)>> \in Seq(Runnable)
  BY CommonCallsTyped DEF State
<1>. QED  BY <1>1, RemoveFromListSemsTyped, ConcatProperties DEF EndProcess

\* Every branch of cpu_task_finished leaves typed calls.
LEMMA CpuTaskFinishedTyped ==
    ASSUME TypeOK, NEW c \in Cpu, CpuTaskFinished(c)
    PROVE  TypeOK'
<1> DEFINE j == job[c]
           p == j.pid
           code == FinalCode(j)
           finished == j.finished \/ j.status # "none"
           outcome ==
               CASE Aborted(code) -> EndProcess(p, code)
                 [] ~Aborted(code) /\ ~finished -> <<MoveCopyTo(p, "READY", code)>>
                 [] ~Aborted(code) /\ finished /\ j.locked -> <<MoveCopyTo(p, "BLOCK", code)>>
                 [] OTHER -> EndProcess(p, code) \o <<For("tellStopped", p)>>
           calls == outcome \o UnlockIfLocked(j) \o ShortPlanning \o <<Do("checkFlagged")>>
<1>1. j \in Turns /\ p \in Pid
  BY DEF CpuTaskFinished, TypeOK, CpuTypes, At
<1>2. code \in ExitCode
  BY <1>1 DEF FinalCode, Turns, TypeOK
<1>3. outcome \in Seq(Runnable)
  <2>1. EndProcess(p, code) \in Seq(Runnable)
    BY <1>1, <1>2, EndProcessTyped
  <2>2. /\ MoveCopyTo(p, "READY", code) \in Runnable /\ MoveCopyTo(p, "BLOCK", code) \in Runnable
        /\ For("tellStopped", p) \in Runnable
    BY <1>1, <1>2, CommonCallsTyped DEF State
  <2>. HIDE DEF j, p, code, finished
  <2>3. /\ <<MoveCopyTo(p, "READY", code)>> \in Seq(Runnable)
        /\ <<MoveCopyTo(p, "BLOCK", code)>> \in Seq(Runnable)
        /\ EndProcess(p, code) \o <<For("tellStopped", p)>> \in Seq(Runnable)
    BY <2>1, <2>2, ConcatProperties
  <2>. QED  BY <2>1, <2>3
<1>4. calls \in Seq(Runnable)
  <2>. HIDE DEF outcome
  <2>1. UnlockIfLocked(j) \in Seq(Runnable) /\ <<Do("checkFlagged")>> \in Seq(Runnable)
    BY CommonCallsTyped DEF UnlockIfLocked, Lock
  <2>. QED  BY <1>3, <2>1, CommonCallsTyped, ConcatProperties
<1>5. todo' \in [Thread -> Seq(Runnable')]
  <2>1. Receive(c, calls)
    BY DEF CpuTaskFinished
  <2>. HIDE DEF calls
  <2>. QED  BY <1>4, <2>1, ReceiveIsTyped, SameTypes DEF CpuTaskFinished, startVars, Thread
<1>6. CpuTypes'
  <2>1. Idle \in Turns /\ Idle.at = "idle"
    BY ConstantTypes DEF Idle, Turns, ExitCode
  <2>. QED  BY <2>1 DEF CpuTaskFinished, TypeOK, CpuTypes, At
<1>. QED  BY <1>5, <1>6, SameTypes DEF CpuTaskFinished, TypeOK

\* A step of a CPU keeps the types.
LEMMA CpuStepTyped ==
    ASSUME TypeOK, NEW c \in Cpu, Execute(c)
    PROVE  TypeOK'
BY CpuHasAbortedTyped, ExecuteAloneTyped, BlockCallerTyped, AnswerSignalTyped,
   CpuTaskFinishedTyped, CpuWaitSemTyped, CpuWaitSemBusyTyped, CpuSignalSemTyped DEF Execute
-----------------------------------------------------------------------------
(* Type correctness of what the memory and the users do. *)

\* The memory answers only when a start has been sent, so process_struct is set.
LEMMA MemoryServeTyped ==
    ASSUME TypeOK, MemoryServe
    PROVE  TypeOK'
<1> DEFINE m == Head(mailbox)
<1>1. /\ m \in [op : {"finish"}, pid : Pid] \cup Starts("start")
      /\ Tail(mailbox) \in Seq([op : {"finish"}, pid : Pid] \cup Starts("start"))
  BY HeadTailProperties DEF MemoryServe, TypeOK, StartTypes
<1>2. m.pid \in Pid /\ (m.op = "start" => starting \in Pid)
  BY <1>1 DEF Starts
<1>3. Runnable' = Runnable /\ Starts("start")' = Starts("start")
  BY SameTypes DEF MemoryServe, Starts
<1>4. mailbox' \in Seq([op : {"finish"}, pid : Pid] \cup Starts("start")')
  BY <1>1, <1>3 DEF MemoryServe
<1>. HIDE DEF m
<1>5. resident' \in [Pid -> Nat]
  BY <1>2 DEF MemoryServe, TypeOK, StartTypes, m
<1>6. replies' \in Seq({"none", "memory"}) /\ (replies' # <<>> => starting' \in Pid)
  BY <1>2, AppendProperties DEF MemoryServe, TypeOK, StartTypes, m
<1>7. StartTypes'
  BY <1>4, <1>5, <1>6 DEF MemoryServe, TypeOK, StartTypes
<1>. QED  BY <1>3, <1>7, SameTypes DEF MemoryServe, TypeOK

\* The answer to a start is for the program process_struct names, which is set.
LEMMA MemoryResponseStartProgramTyped ==
    ASSUME TypeOK, MemoryResponseStartProgram
    PROVE  TypeOK'
<1> DEFINE p == starting
           admitted == <<MoveTo(p, "READY"), Do("addProcess")>> \o ShortPlanning
                       \o <<Do("checkRoomOrFlag")>>
           refused == <<MoveTo(p, "EXIT"), Do("tellRefused"), Do("checkRoomOrFlag")>>
<1>1. p \in Pid /\ Head(replies) \in {"none", "memory"} /\ replies' \in Seq({"none", "memory"})
  BY HeadTailProperties DEF MemoryResponseStartProgram, TypeOK, StartTypes
<1>2. admitted \in Seq(Runnable) /\ refused \in Seq(Runnable)
  <2>1. MoveTo(p, "READY") \in Runnable /\ MoveTo(p, "EXIT") \in Runnable
    BY <1>1, CommonCallsTyped DEF State
  <2>2. /\ Do("addProcess") \in Runnable /\ Do("tellRefused") \in Runnable
        /\ Do("checkRoomOrFlag") \in Runnable
    BY CommonCallsTyped
  <2>3. /\ <<MoveTo(p, "READY"), Do("addProcess")>> \in Seq(Runnable)
        /\ <<Do("checkRoomOrFlag")>> \in Seq(Runnable) /\ refused \in Seq(Runnable)
    BY <2>1, <2>2
  <2>. QED  BY <2>3, CommonCallsTyped, ConcatProperties
<1>3. todo' \in [Thread -> Seq(Runnable')]
  <2>1. Receive(Mem, admitted) \/ Receive(Mem, refused)
    BY DEF MemoryResponseStartProgram
  <2>. HIDE DEF admitted, refused
  <2>2. Runnable' = Runnable
    BY SameTypes DEF MemoryResponseStartProgram
  <2>. QED  BY <1>2, <2>1, <2>2, ReceiveIsTyped DEF Thread
<1>4. exitCode' \in [Pid -> ExitCode]
  BY <1>1 DEF MemoryResponseStartProgram, TypeOK, ExitCode
<1>5. StartTypes'
  BY <1>1 DEF MemoryResponseStartProgram, TypeOK, StartTypes, Starts
<1>. QED  BY <1>3, <1>4, <1>5, SameTypes DEF MemoryResponseStartProgram, TypeOK

\* console_load_program enters a new process in NEW.
LEMMA ConsoleLoadProgramTyped ==
    ASSUME TypeOK, NEW p \in Pid, ConsoleLoadProgram(p)
    PROVE  TypeOK'
<1> DEFINE calls == <<For("addProgram", p), Do("checkRoom"), Unlocking("console")>>
<1>1. calls \in Seq(Runnable)
  <2>1. For("addProgram", p) \in Runnable /\ Do("checkRoom") \in Runnable
        /\ Unlocking("console") \in Runnable
    BY CommonCallsTyped DEF Lock
  <2>. QED  BY <2>1
<1>2. todo' \in [Thread -> Seq(Runnable')]
  <2>1. Receive(p, calls)
    BY DEF ConsoleLoadProgram
  <2>. HIDE DEF calls
  <2>. QED  BY <1>1, <2>1, ReceiveIsTyped, SameTypes DEF ConsoleLoadProgram, startVars, Thread
<1>3. QueueTypes'
  <2>1. Append(list["NEW"], p) \in Seq(Pid)
    BY AppendProperties DEF TypeOK, QueueTypes, State
  <2>. QED  BY <2>1 DEF ConsoleLoadProgram, TypeOK, QueueTypes, State
<1>4. lock' \in [Lock -> Thread \cup {None}]
  BY DEF ConsoleLoadProgram, Acquire, TypeOK, Thread
<1>. QED  BY <1>2, <1>3, <1>4, SameTypes DEF ConsoleLoadProgram, TypeOK

\* console_abort_program notes the process as pending.
LEMMA ConsoleAbortProgramTyped ==
    ASSUME TypeOK, NEW p \in Pid, ConsoleAbortProgram(p)
    PROVE  TypeOK'
<1> DEFINE calls == <<For("abort", p), Unlocking("abort")>>
<1>1. calls \in Seq(Runnable)
  <2>1. For("abort", p) \in Runnable /\ Unlocking("abort") \in Runnable
    BY CommonCallsTyped DEF Lock
  <2>. QED  BY <2>1
<1>2. todo' \in [Thread -> Seq(Runnable')]
  <2>1. Receive(p, calls)
    BY DEF ConsoleAbortProgram
  <2>. HIDE DEF calls
  <2>. QED  BY <1>1, <2>1, ReceiveIsTyped, SameTypes DEF ConsoleAbortProgram, startVars, Thread
<1>3. UserTypes'
  <2>1. Append(pending, p) \in Seq(Pid)
    BY AppendProperties DEF TypeOK, UserTypes
  <2>2. requests + 1 \in 0 .. MaxRequests
    BY ConstantTypes DEF ConsoleAbortProgram, TypeOK, UserTypes
  <2>. QED  BY <2>1, <2>2 DEF ConsoleAbortProgram, Noted, TypeOK, UserTypes
<1>4. lock' \in [Lock -> Thread \cup {None}]
  BY DEF ConsoleAbortProgram, Acquire, TypeOK, Thread
<1>. QED  BY <1>2, <1>3, <1>4, SameTypes DEF ConsoleAbortProgram, TypeOK

\* A choice of the menu counts one request.
LEMMA ChooseTyped ==
    ASSUME TypeOK, NEW request, Choose(request)
    PROVE  requests' \in 0 .. MaxRequests
BY ConstantTypes DEF Choose, TypeOK, UserTypes

\* The menu's request to end a process.
LEMMA DoStopProcessTyped ==
    ASSUME TypeOK, NEW p \in Pid, DoStopProcess(p)
    PROVE  TypeOK'
<1>1. <<For("stop", p)>> \in Seq(Runnable)
  BY CommonCallsTyped
<1>2. todo' \in [Thread -> Seq(Runnable')]
  BY <1>1, ReceiveIsTyped, SameTypes DEF DoStopProcess, startVars, Thread
<1>3. UserTypes'
  BY ChooseTyped DEF DoStopProcess, TypeOK, UserTypes
<1>. QED  BY <1>2, <1>3, SameTypes DEF DoStopProcess, TypeOK

\* The menu's request to stop or resume the planning.
LEMMA DoStopPlanificationTyped ==
    ASSUME TypeOK, DoStopPlanification
    PROVE  TypeOK'
<1>1. todo' \in [Thread -> Seq(Runnable')]
  <2>1. PICK calls \in {ShortPlanning, <<>>} : Receive(Menu, calls)
    BY DEF DoStopPlanification
  <2>2. calls \in Seq(Runnable)
    BY CommonCallsTyped, EmptySeq
  <2>3. Runnable' = Runnable
    BY SameTypes DEF DoStopPlanification, startVars
  <2>4. todo' \in [Thread -> Seq(Runnable)]
    BY <2>1, <2>2, ReceiveIsTyped DEF Thread
  <2>. QED  BY <2>3, <2>4
<1>2. UserTypes'
  BY ChooseTyped DEF DoStopPlanification, TypeOK, UserTypes
<1>. QED  BY <1>1, <1>2, SameTypes DEF DoStopPlanification, TypeOK

\* The menu's request to change the degree of multiprogramming.
LEMMA DoChangeMultiprogrammingTyped ==
    ASSUME TypeOK, NEW m \in Multiprogs, DoChangeMultiprogramming(m)
    PROVE  TypeOK'
<1>1. <<Do("checkRoom")>> \in Seq(Runnable)
  BY CommonCallsTyped
<1>2. todo' \in [Thread -> Seq(Runnable')]
  BY <1>1, ReceiveIsTyped, SameTypes DEF DoChangeMultiprogramming, startVars, Thread
<1>3. UserTypes'
  BY ChooseTyped DEF DoChangeMultiprogramming, TypeOK, UserTypes
<1>4. RoomTypes'
  BY ConstantTypes DEF DoChangeMultiprogramming, TypeOK, RoomTypes
<1>. QED  BY <1>2, <1>3, <1>4, SameTypes DEF DoChangeMultiprogramming, TypeOK

\* A step of the memory or of a user keeps the types.
LEMMA OutsideTyped ==
    ASSUME TypeOK, Memory \/ Users
    PROVE  TypeOK'
BY MemoryServeTyped, MemoryResponseStartProgramTyped, ConsoleLoadProgramTyped,
   ConsoleAbortProgramTyped, DoStopProcessTyped, DoStopPlanificationTyped,
   DoChangeMultiprogrammingTyped DEF Memory, Users
-----------------------------------------------------------------------------
(* Type correctness. *)

\* The initial READY list holds the preloaded programs, each of them once.
LEMMA InitialOrder ==
    ASSUME NEW order \in SetToSeqs(Preloaded)
    PROVE  /\ order \in Seq(Pid) /\ Cardinality(Preloaded) \in Nat
           /\ \A i \in 1 .. Len(order) : order[i] \in Preloaded
           /\ \A i, k \in 1 .. Len(order) : order[i] = order[k] => i = k
           /\ \A p \in Preloaded : \E i \in 1 .. Len(order) : order[i] = p
<1> DEFINE n == Cardinality(Preloaded)
<1>1. IsFiniteSet(Preloaded) /\ n \in Nat
  BY ConstantTypes, FS_Subset, FS_CardinalityType
<1>2. order \in [1 .. n -> Preloaded] /\ \A i, k \in 1 .. n : i # k => order[i] # order[k]
  BY DEF SetToSeqs
<1>. HIDE DEF n
<1>3. order \in [1 .. n -> Pid]
  BY <1>2, ConstantTypes
<1>4. order \in Seq(Pid) /\ Len(order) = n
  BY <1>1, <1>3, LenProperties, SeqDef
<1>5. ASSUME NEW p \in Preloaded, \A i \in 1 .. n : order[i] # p
      PROVE  FALSE
  <2>1. order \in [1 .. n -> Preloaded \ {p}]
    BY <1>2, <1>5
  <2>2. IsFiniteSet(Preloaded \ {p}) /\ Cardinality(Preloaded \ {p}) = n - 1
    BY <1>1, FS_RemoveElement DEF n
  <2>3. IsFiniteSet(1 .. n) /\ Cardinality(1 .. n) = n
    BY <1>1, FS_Interval
  <2>4. \E i, k \in 1 .. n : i # k /\ order[i] = order[k]
    BY <1>1, <2>1, <2>2, <2>3, FS_PigeonHole
  <2>. QED  BY <1>2, <2>4
<1>. QED  BY <1>1, <1>2, <1>4, <1>5 DEF n

\* init_kernel leaves every variable typed.
LEMMA InitTyped ==
    ASSUME Init
    PROVE  TypeOK
<1>1. QueueTypes
  <2>1. PICK order \in SetToSeqs(Preloaded) :
           list = [q \in State |-> IF q = "READY" THEN order ELSE <<>>]
    BY DEF Init
  <2>2. order \in Seq(Pid) /\ <<>> \in Seq(Pid)
    BY InitialOrder, EmptySeq
  <2>3. list \in [State -> Seq(Pid)]
    BY <2>1, <2>2
  <2>. QED  BY <2>3 DEF Init, QueueTypes, State
<1>2. Cardinality(Preloaded) \in Nat
  BY ConstantTypes, FS_Subset, FS_CardinalityType
<1>3. StartTypes /\ RoomTypes
  BY <1>2, ConstantTypes DEF Init, StartTypes, RoomTypes
<1>4. SemTypes /\ UserTypes
  BY ConstantTypes DEF Init, SemTypes, UserTypes
<1>5. CpuTypes
  <2>1. Idle \in Turns /\ Idle.at = "idle"
    BY ConstantTypes DEF Idle, Turns, ExitCode
  <2>. QED  BY <2>1 DEF Init, CpuTypes, At
<1>6. todo \in [Thread -> Seq(Runnable)]
  <2>1. ShortPlanning \in Seq(Runnable) /\ <<>> \in Seq(Runnable)
    BY CommonCallsTyped, EmptySeq
  <2>. QED  BY <2>1 DEF Init
<1>7. exitCode \in [Pid -> ExitCode] /\ lock \in [Lock -> Thread \cup {None}]
  BY DEF Init, ExitCode
<1>. QED  BY <1>1, <1>3, <1>4, <1>5, <1>6, <1>7 DEF TypeOK

\* Every action of the kernel, the CPUs, the memory and the users keeps every variable typed.
LEMMA NextTyped ==
    ASSUME TypeOK, [Next]_vars
    PROVE  TypeOK'
<1>1. CASE UNCHANGED vars
  BY <1>1, SameTypes DEF vars, TypeOK, startVars
<1>2. CASE Next
  BY <1>2, StepTyped, CpuStepTyped, OutsideTyped DEF Next
<1>. QED  BY <1>1, <1>2

\* Type correctness: in particular a call that is run finds the process, semaphore or
\* index it names, process_struct is set before a start is sent, served or answered,
\* and a CPU that works has a process and, under RR, quantum left.
THEOREM TypeCorrect == Spec => []TypeOK
<1>1. Init => TypeOK
  BY InitTyped
<1>2. TypeOK /\ [Next]_vars => TypeOK'
  BY NextTyped
<1>. QED  BY <1>1, <1>2, PTL DEF Spec
-----------------------------------------------------------------------------
(* The lists and socket_pcb_list stay in step. *)

\* The invariant in the form the steps preserve: no list names a process twice, and a
\* list names exactly the processes whose recorded state it is.
ListsInStep ==
    \A q \in State : /\ Distinct(list[q])
                     /\ \A p \in Pid : Holds(list[q], p) <=> state[p] = q

\* The strengthened invariant contains QueuesMatchStates.
LEMMA ListsInStepImplies ==
    ASSUME TypeOK, ListsInStep
    PROVE  QueuesMatchStates
<1> SUFFICES ASSUME NEW p \in Pid, NEW q \in State
             PROVE  LET places == {i \in 1 .. Len(list[q]) : list[q][i] = p}
                    IN  IF state[p] = q THEN \E i \in places : places = {i} ELSE places = {}
  BY DEF QueuesMatchStates
<1>1. Distinct(list[q]) /\ (Holds(list[q], p) <=> state[p] = q)
  BY DEF ListsInStep
<1>. QED  BY <1>1 DEF Distinct, Holds

\* move_to_list keeps them in step because the list it takes the process from is the
\* one socket_pcb_list records, whatever the pcb it was given says.
LEMMA RelistInStep ==
    ASSUME TypeOK, ListsInStep, NEW m, m.pid \in Pid, m.to \in State, Relist(m)
    PROVE  ListsInStep'
<1> DEFINE p == m.pid
           from == state[p]
           to == m.to
<1>1. CASE from = to
  BY <1>1 DEF Relist, ListOf, ListsInStep
<1>2. CASE from # to
  <2>1. /\ list' = [list EXCEPT ![from] = RemoveFirst(list[from], p), ![to] = Append(list[to], p)]
        /\ state' = [state EXCEPT ![p] = to]
    BY <1>2 DEF Relist, ListOf
  <2>2. p \in Pid /\ to \in State /\ from \in State \cup {"none"}
    BY DEF TypeOK, QueueTypes
  <2>3. ~Holds(list[to], p) /\ \A q \in State : list[q] \in Seq(Pid)
    BY <1>2, <2>2 DEF ListsInStep, TypeOK, QueueTypes
  <2>. HIDE DEF p, from, to
  <2>4. list'[to] = Append(list[to], p)
    BY <1>2, <2>1, <2>2 DEF TypeOK, QueueTypes
  <2>5. from \in State => list'[from] = RemoveFirst(list[from], p)
    BY <1>2, <2>1, <2>2 DEF TypeOK, QueueTypes
  <2>6. \A q \in State \ {from, to} : list'[q] = list[q]
    BY <1>2, <2>1, <2>2 DEF TypeOK, QueueTypes
  <2>7. /\ state'[p] = to /\ state[p] = from
        /\ \A r \in Pid \ {p} : state'[r] = state[r]
    BY <2>1, <2>2 DEF TypeOK, QueueTypes, p, from
  <2>8. ASSUME NEW q \in State
        PROVE  /\ Distinct(list'[q])
               /\ \A r \in Pid : Holds(list'[q], r) <=> state'[r] = q
    <3>1. /\ list[q] \in Seq(Pid) /\ Distinct(list[q])
          /\ \A r \in Pid : Holds(list[q], r) <=> state[r] = q
      BY <2>3 DEF ListsInStep
    <3>2. CASE q = to
      <4>1. /\ Distinct(list'[q])
            /\ \A r \in Pid : Holds(list'[q], r) <=> Holds(list[q], r) \/ r = p
        <5> DEFINE longer == Append(list[q], p)
        <5>1. /\ Distinct(longer)
              /\ \A x : Holds(longer, x) <=> Holds(list[q], x) \/ x = p
          BY <2>2, <2>3, <3>1, <3>2, AppendDistinct
        <5>2. list'[q] = longer
          BY <2>4, <3>2
        <5>. HIDE DEF longer
        <5>. QED  BY <5>1, <5>2
      <4>2. ASSUME NEW r \in Pid
            PROVE  Holds(list'[q], r) <=> state'[r] = q
        <5>1. CASE r = p
          BY <2>7, <3>2, <4>1, <5>1
        <5>2. CASE r # p
          BY <2>7, <3>1, <4>1, <5>2
        <5>. QED  BY <5>1, <5>2
      <4>. QED  BY <4>1, <4>2
    <3>3. CASE q = from
      <4>1. /\ Distinct(list'[q])
            /\ \A r \in Pid : Holds(list'[q], r) <=> Holds(list[q], r) /\ r # p
        BY <2>5, <3>1, <3>3, RemoveFirstDistinct
      <4>. QED  BY <1>2, <2>7, <3>1, <3>3, <4>1
    <3>4. CASE q \notin {from, to}
      BY <2>6, <2>7, <3>1, <3>4
    <3>. QED  BY <3>2, <3>3, <3>4
  <2>. QED  BY <2>8 DEF ListsInStep
<1>. QED  BY <1>1, <1>2

\* move_to_list takes a process off one list and puts it on another, and records the new state.
LEMMA MoveInStep ==
    ASSUME TypeOK, ListsInStep, NEW t \in Thread, Move(t)
    PROVE  ListsInStep'
<1> DEFINE m == Top(t)
<1>1. m.pid \in Pid /\ m.to \in State /\ Relist(m)
  BY TopIsTyped, CallFields DEF Move
<1>. HIDE DEF m
<1>. QED  BY <1>1, RelistInStep

\* short_planning moves the process it dispatches the same way.
LEMMA DispatchInStep ==
    ASSUME TypeOK, ListsInStep, NEW t \in Thread, Dispatch(t)
    PROVE  ListsInStep'
<1> DEFINE m == MoveTo(Top(t).pid, "EXEC")
<1>1. Top(t).pid \in Pid
  BY TopIsTyped, CallFields DEF Dispatch
<1>2. m.pid \in Pid /\ m.to \in State /\ Relist(m)
  BY <1>1 DEF Dispatch, MoveTo, State
<1>. HIDE DEF m
<1>. QED  BY <1>2, RelistInStep

\* A program enters new_queue and socket_pcb_list together.
LEMMA LoadInStep ==
    ASSUME TypeOK, ListsInStep, NEW p \in Pid, ConsoleLoadProgram(p)
    PROVE  ListsInStep'
<1>1. /\ "NEW" \in State /\ state[p] = "none" /\ \A q \in State : list[q] \in Seq(Pid)
      /\ "none" \notin State
  BY DEF ConsoleLoadProgram, State, TypeOK, QueueTypes
<1>2. /\ list'["NEW"] = Append(list["NEW"], p)
      /\ \A q \in State \ {"NEW"} : list'[q] = list[q]
      /\ state'[p] = "NEW" /\ \A r \in Pid \ {p} : state'[r] = state[r]
  BY <1>1 DEF ConsoleLoadProgram, TypeOK, QueueTypes
<1>3. ASSUME NEW q \in State
      PROVE  /\ Distinct(list'[q])
             /\ \A r \in Pid : Holds(list'[q], r) <=> state'[r] = q
  <2>1. /\ Distinct(list[q])
        /\ \A r \in Pid : Holds(list[q], r) <=> state[r] = q
    BY DEF ListsInStep
  <2>2. CASE q = "NEW"
    <3>1. /\ Distinct(list'[q])
          /\ \A r \in Pid : Holds(list'[q], r) <=> Holds(list[q], r) \/ r = p
      <4> DEFINE longer == Append(list[q], p)
      <4>1. /\ Distinct(longer)
            /\ \A x : Holds(longer, x) <=> Holds(list[q], x) \/ x = p
        BY <1>1, <2>1, <2>2, AppendDistinct
      <4>2. list'[q] = longer
        BY <1>2, <2>2
      <4>. HIDE DEF longer
      <4>. QED  BY <4>1, <4>2
    <3>2. ASSUME NEW r \in Pid
          PROVE  Holds(list'[q], r) <=> state'[r] = q
      <4>1. CASE r = p
        BY <1>2, <2>2, <3>1, <4>1
      <4>2. CASE r # p
        BY <1>2, <2>1, <3>1, <4>2
      <4>. QED  BY <4>1, <4>2
    <3>. QED  BY <3>1, <3>2
  <2>3. CASE q # "NEW"
    BY <1>1, <1>2, <2>1, <2>3
  <2>. QED  BY <2>2, <2>3
<1>. QED  BY <1>3 DEF ListsInStep

\* Every other action leaves the lists and the recorded states alone.
LEMMA OthersLeaveLists ==
    ASSUME Next
    PROVE  \/ \E t \in Thread : Move(t) \/ Dispatch(t)
           \/ \E p \in Pid : ConsoleLoadProgram(p)
           \/ UNCHANGED queueVars
<1>1. ASSUME NEW t \in Thread, Step(t)
      PROVE  Move(t) \/ Dispatch(t) \/ UNCHANGED queueVars
  BY <1>1 DEF Step, Unlock, AddProgram, CheckRoom, CheckRoomOrFlag, CheckFlagged, SetFlag,
     CheckNewList, RemoveProgram, AddProcessInMemory, SubstractProcessInMemory, RemoveProgramCode,
     SetStarting, Send, TellRefused, KillPendingProcess, KilledPending, Plan, RemoveFirstBlocked,
     AddBlockedProcess, SetBlocked, FilterBlocked, KeepBlocked, StoreBlocked, WakeAfterFilter,
     ScanSemPids, WakeAfterScan, RemoveSemPid, AbortProcess, StopProcess, TellStopped
<1>2. ASSUME NEW c \in Cpu, Execute(c)
      PROVE  UNCHANGED queueVars
  BY <1>2 DEF Execute, CpuHasAborted, ExecuteStep, ExecuteEnd, BlockCaller, AnswerSignal,
     CpuTaskFinished, CpuWaitSem, CpuWaitSemBusy, CpuSignalSem
<1>3. ASSUME Memory \/ Users
      PROVE  (\E p \in Pid : ConsoleLoadProgram(p)) \/ UNCHANGED queueVars
  BY <1>3 DEF Memory, Users, MemoryServe, MemoryResponseStartProgram, ConsoleAbortProgram,
     DoStopProcess, DoStopPlanification, DoChangeMultiprogramming
<1>. QED  BY <1>1, <1>2, <1>3 DEF Next

\* The initial READY list names each preloaded program once.
LEMMA InitInStep ==
    ASSUME Init
    PROVE  ListsInStep
<1>1. PICK order \in SetToSeqs(Preloaded) :
         list = [q \in State |-> IF q = "READY" THEN order ELSE <<>>]
  BY DEF Init
<1>2. Distinct(order) /\ \A p \in Pid : Holds(order, p) <=> p \in Preloaded
  BY InitialOrder DEF Distinct, Holds
<1>3. Distinct(<<>>) /\ \A p \in Pid : ~Holds(<<>>, p)
  BY DEF Distinct, Holds
<1>4. \A p \in Pid : state[p] = IF p \in Preloaded THEN "READY" ELSE "none"
  BY DEF Init
<1>. QED  BY <1>1, <1>2, <1>3, <1>4 DEF ListsInStep, State

\* Every action keeps the lists and the recorded states in step.
LEMMA NextInStep ==
    ASSUME TypeOK, ListsInStep, [Next]_vars
    PROVE  ListsInStep'
<1>1. ASSUME UNCHANGED queueVars
      PROVE  ListsInStep'
  BY <1>1 DEF queueVars, ListsInStep
<1>2. CASE UNCHANGED vars
  BY <1>1, <1>2 DEF vars
<1>3. CASE Next
  BY <1>1, <1>3, OthersLeaveLists, MoveInStep, DispatchInStep, LoadInStep
<1>. QED  BY <1>2, <1>3

\* Whatever threads interleave, a known process is in the list its recorded state names,
\* once, and in no other: nothing is lost by concurrent move_to_list calls on one pcb
\* and on the copies of it that CPUs send back.
THEOREM QueuesStayInStep == Spec => []QueuesMatchStates
<1>1. Init => ListsInStep
  BY InitInStep
<1>2. TypeOK /\ ListsInStep /\ [Next]_vars => ListsInStep'
  BY NextInStep
<1>3. TypeOK /\ ListsInStep => QueuesMatchStates
  BY ListsInStepImplies
<1>. QED  BY <1>1, <1>2, <1>3, TypeCorrect, PTL DEF Spec
=============================================================================
