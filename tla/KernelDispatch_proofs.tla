------------------------ MODULE KernelDispatch_proofs ------------------------
(***************************************************************************)
(* Proofs about how short_planning hands processes to CPUs, for any number *)
(* of programs, CPUs and semaphores: a CPU never gets a pcb while it       *)
(* executes another, however many threads plan at the same time; and,      *)
(* while programs neither come nor go, each runs on one CPU at a time and  *)
(* the semaphores wake those who wait in their order and lose no wakeup.   *)
(***************************************************************************)
EXTENDS KernelPlanning_proofs
-----------------------------------------------------------------------------
(* The invariant. *)

\* The calls a handler may leave on its stack for later: neither the second half of
\* short_planning nor an unlock of planning_mutex, which short_planning makes itself.
Plain ==
    (Calls \cup [op : {"sendStart"}, pid : Pid])
        \ ([op : {"dispatch"}, pid : Pid, cpu : Cpu] \cup [op : {"unlock"}, lock : {"planning"}])

\* Only the call on top of a stack may be a dispatch.
DispatchOnTop ==
    \A t \in Thread : todo[t] # <<>> =>
        /\ Tail(todo[t]) \in Seq(Plain)
        /\ ~Running(t, "dispatch") => Head(todo[t]) \in Plain

\* Between the choice of a free CPU and the delivery of the pcb, the thread that chose
\* has planning_mutex and the CPU is still free.
ChosenCpuIsFree ==
    \A t \in Thread : Running(t, "dispatch") => lock["planning"] = t /\ ~cpu[Top(t).cpu].busy

\* The kernel takes a CPU for free only when it executes nothing.
FreeCpuIsIdle == \A c \in Cpu : ~cpu[c].busy => ~Working(c)

DispatchInv == DispatchOnTop /\ ChosenCpuIsFree /\ FreeCpuIsIdle
-----------------------------------------------------------------------------
(* Steps that dispatch nothing. *)

\* What every action but short_planning's does: stacks change by plain calls only,
\* planning_mutex stays where it is, no CPU becomes busy, and one becomes free only
\* when it has nothing left to execute.
Quiet ==
    /\ \A u \in Thread : todo'[u] = todo[u] \/ todo'[u] \in Seq(Plain)
    /\ lock'["planning"] = lock["planning"]
    /\ \A c \in Cpu : cpu'[c].busy = cpu[c].busy \/ (~cpu'[c].busy /\ ~Working(c)')
    /\ \A c \in Cpu : Working(c)' => Working(c) /\ job'[c].pid = job[c].pid

\* A stack of plain calls has no dispatch on top.
LEMMA PlainStack ==
    ASSUME NEW s \in Seq(Plain), s # <<>>
    PROVE  Head(s) \in Plain /\ Head(s).op # "dispatch" /\ Tail(s) \in Seq(Plain)
<1>1. Head(s) \in Plain /\ Tail(s) \in Seq(Plain)
  BY HeadTailProperties
<1>2. \A m \in Plain : m.op # "dispatch"
  BY DEF Plain, Calls
<1>. QED  BY <1>1, <1>2

\* Such a step keeps the invariant.
LEMMA QuietKeeps ==
    ASSUME TypeOK, DispatchInv, Quiet
    PROVE  DispatchInv'
<1>1. ASSUME NEW t \in Thread, todo'[t] # todo[t], todo'[t] # <<>>
      PROVE  /\ Tail(todo'[t]) \in Seq(Plain) /\ Head(todo'[t]) \in Plain
             /\ Head(todo'[t]).op # "dispatch"
  <2>1. todo'[t] \in Seq(Plain)
    BY <1>1 DEF Quiet
  <2>. QED  BY <1>1, <2>1, PlainStack
<1>2. DispatchOnTop'
  BY <1>1 DEF DispatchInv, DispatchOnTop, Running
<1>3. ChosenCpuIsFree'
  <2> SUFFICES ASSUME NEW t \in Thread, Running(t, "dispatch")'
               PROVE  (lock["planning"] = t /\ ~cpu[Top(t).cpu].busy)'
    BY DEF ChosenCpuIsFree
  <2>1. todo'[t] = todo[t]
    BY <1>1 DEF Running
  <2>2. Running(t, "dispatch") /\ Top(t)' = Top(t)
    BY <2>1 DEF Running, Top
  <2>3. lock["planning"] = t /\ ~cpu[Top(t).cpu].busy
    BY <2>2 DEF DispatchInv, ChosenCpuIsFree
  <2>4. Top(t).cpu \in Cpu
    BY <2>2, TopIsTyped, CallFields
  <2>. QED  BY <2>2, <2>3, <2>4 DEF Quiet
<1>4. FreeCpuIsIdle'
  BY DEF DispatchInv, FreeCpuIsIdle, Quiet
<1>. QED  BY <1>2, <1>3, <1>4 DEF DispatchInv

\* A call that returns, or is replaced by plain calls, leaves a plain stack, unless it
\* was the choice of a process or its dispatch.
LEMMA QuietCall ==
    ASSUME TypeOK, DispatchInv, NEW t \in Thread, todo[t] # <<>>,
           Return(t) \/ \E calls \in Seq(Plain) : Call(t, calls),
           UNCHANGED cpuVars, lock'["planning"] = lock["planning"]
    PROVE  Quiet
<1>1. Tail(todo[t]) \in Seq(Plain)
  BY DEF DispatchInv, DispatchOnTop
<1>2. todo'[t] \in Seq(Plain)
  <2>1. CASE Return(t)
    BY <1>1, <2>1 DEF Return, TypeOK
  <2>2. CASE \E calls \in Seq(Plain) : Call(t, calls)
    <3>1. PICK calls \in Seq(Plain) : Call(t, calls)
      BY <2>2
    <3>2. calls \o Tail(todo[t]) \in Seq(Plain)
      BY <1>1, ConcatProperties
    <3>. QED  BY <3>1, <3>2 DEF Call, TypeOK
  <2>. QED  BY <2>1, <2>2
<1>3. \A u \in Thread : todo'[u] = todo[u] \/ todo'[u] \in Seq(Plain)
  BY <1>2 DEF Return, Call, TypeOK
<1>. QED  BY <1>3 DEF Quiet, cpuVars, Working

\* A thread that takes the next message pushes plain calls too.
LEMMA QuietReceive ==
    ASSUME TypeOK, NEW t \in Thread, NEW calls \in Seq(Plain), Receive(t, calls)
    PROVE  \A u \in Thread : todo'[u] = todo[u] \/ todo'[u] \in Seq(Plain)
BY DEF Receive, TypeOK

\* Every typed call but a dispatch and an unlock of planning_mutex is plain.
LEMMA TypedIsPlain ==
    ASSUME NEW m \in Runnable \cup Runnable', m.op # "dispatch", m.op = "unlock" => m.lock # "planning"
    PROVE  m \in Plain
BY DEF Runnable, Starts, Plain

\* The calls that handlers make most are plain.
LEMMA CommonCallsPlain ==
    /\ \A p \in Pid, to \in State : MoveTo(p, to) \in Plain
    /\ \A p \in Pid, to \in State, code \in ExitCode : MoveCopyTo(p, to, code) \in Plain
    /\ \A p \in Pid, op \in {"addProgram", "setStarting", "sendStart", "removeCode", "sendFinish",
                             "abort", "stop", "tellStopped"} : For(op, p) \in Plain
    /\ \A op \in {"checkRoom", "checkRoomOrFlag", "checkFlagged", "setFlag", "clearFlag",
                  "checkNewList", "addProcess", "substract", "tellRefused", "plan",
                  "signalled"} : Do(op) \in Plain
    /\ \A l \in Lock \ {"planning"} : Unlocking(l) \in Plain
    /\ \A s \in Sem, op \in {"wake", "wakeUnlocked", "removeFirst", "block"} :
          OnSem(op, s) \in Plain
    /\ ShortPlanning \in Seq(Plain)
<1>1. \A op \in {"checkRoom", "checkRoomOrFlag", "checkFlagged", "setFlag", "clearFlag",
                 "checkNewList", "addProcess", "substract", "tellRefused", "plan",
                 "signalled"} : Do(op) \in Plain
  BY DEF Plain, Calls, Do
<1>2. ShortPlanning \in Seq(Plain)
  <2>1. [op |-> "kill", i |-> 1] \in Plain
    BY DEF Plain, Calls
  <2>2. Do("plan") \in Plain
    BY <1>1
  <2>. QED  BY <2>1, <2>2 DEF ShortPlanning
<1>. QED
  BY <1>1, <1>2 DEF Plain, Calls, MoveTo, MoveCopyTo, For, Unlocking, OnSem, ExitCode

\* So are the calls of remove_from_list_sems.
LEMMA RemoveFromListSemsPlain ==
    ASSUME NEW p \in Pid
    PROVE  RemoveFromListSems(p) \in Seq(Plain)
<1> DEFINE s == RemoveFromListSems(p)
<1>1. s \in Seq(Runnable)
  BY RemoveFromListSemsTyped
<1>2. Len(s) \in Nat /\ \A i \in 1 .. Len(s) : s[i] \in Runnable
  BY <1>1, LenProperties, ElementOfSeq
<1>3. DOMAIN s = 1 .. 2 * Len(SemIds)
  BY DEF RemoveFromListSems
<1>4. \A i \in DOMAIN s : s[i].op \in {"filter", "wake"}
  BY DEF RemoveFromListSems, OnSem
<1>5. DOMAIN s = 1 .. Len(s)
  BY <1>1, LenProperties
<1>. HIDE DEF s
<1>6. \A i \in 1 .. Len(s) : s[i] \in Plain
  BY <1>2, <1>4, <1>5, TypedIsPlain
<1>7. s = [i \in 1 .. Len(s) |-> s[i]]
  BY <1>1, <1>5
<1>. QED  BY <1>2, <1>6, <1>7, SeqDef DEF s
-----------------------------------------------------------------------------
(* Planning and dispatching. *)

\* A call pushed on a stack is on top of it, and the stack is below.
LEMMA PushedOnTop ==
    ASSUME NEW S, NEW s \in Seq(S), NEW x
    PROVE  <<x>> \o s # <<>> /\ Head(<<x>> \o s) = x /\ Tail(<<x>> \o s) = s
<1> DEFINE T == S \cup {x}
           p == <<x>> \o s
<1>1. s \in Seq(T) /\ <<x>> \in Seq(T)
  BY SeqMonotonic
<1>2. Len(<<x>>) = 1 /\ <<x>>[1] = x /\ Len(s) \in Nat
  BY <1>1, LenProperties
<1>3. /\ p \in Seq(T) /\ Len(p) = 1 + Len(s)
      /\ \A i \in 1 .. 1 + Len(s) : p[i] = IF i <= 1 THEN x ELSE s[i - 1]
  <2>1. /\ p \in Seq(T) /\ Len(p) = Len(<<x>>) + Len(s)
        /\ \A i \in 1 .. Len(<<x>>) + Len(s) :
              p[i] = IF i <= Len(<<x>>) THEN <<x>>[i] ELSE s[i - Len(<<x>>)]
    BY ONLY <1>1, ConcatProperties
  <2>2. \A i \in 1 .. 1 + Len(s) : i <= 1 => i = 1
    BY <1>2
  <2>. QED  BY <1>2, <2>1, <2>2
<1>. HIDE DEF T, p
<1>4. p # <<>>
  BY <1>2, <1>3, LenProperties
<1>5. Head(p) = x
  BY <1>2, <1>3, <1>4, HeadTailProperties
<1>6. /\ Tail(p) \in Seq(T) /\ Len(Tail(p)) = Len(s)
      /\ \A i \in 1 .. Len(s) : Tail(p)[i] = s[i]
  BY <1>2, <1>3, <1>4, HeadTailProperties
<1>7. Tail(p) = s
  BY <1>1, <1>6, SeqEqual
<1>. QED  BY <1>4, <1>5, <1>7 DEF p

\* short_planning, under planning_mutex, chooses a CPU that is free, and nobody else has
\* chosen one at that time.
LEMMA PlanKeeps ==
    ASSUME TypeOK, DispatchInv, NEW t \in Thread, Plan(t)
    PROVE  DispatchInv'
<1>1. CASE Return(t) /\ UNCHANGED lock
  <2>1. Running(t, "plan") /\ UNCHANGED cpuVars
    BY DEF Plan
  <2>2. Quiet
    BY <1>1, <2>1, QuietCall DEF Running
  <2>. QED  BY <2>2, QuietKeeps
<1>2. CASE Acquire("planning", t) /\ \E c \in FreeCpus :
              Call(t, <<[op |-> "dispatch", pid |-> Head(list["READY"]), cpu |-> c]>>)
  <2>1. PICK c \in FreeCpus :
           Call(t, <<[op |-> "dispatch", pid |-> Head(list["READY"]), cpu |-> c]>>)
    BY <1>2
  <2> DEFINE m == [op |-> "dispatch", pid |-> Head(list["READY"]), cpu |-> c]
             rest == Tail(todo[t])
  <2>2. /\ Running(t, "plan") /\ Free("planning") /\ UNCHANGED cpuVars
        /\ c \in Cpu /\ ~cpu[c].busy /\ lock'["planning"] = t
    BY <1>2 DEF Plan, MayPlan, FreeCpus, Acquire, TypeOK, Lock
  <2>3. rest \in Seq(Plain)
    BY <2>2 DEF DispatchInv, DispatchOnTop, Running
  <2>4. /\ todo'[t] # <<>> /\ Head(todo'[t]) = m /\ Tail(todo'[t]) = rest
        /\ \A u \in Thread \ {t} : todo'[u] = todo[u]
    <3>1. todo'[t] = <<m>> \o rest /\ \A u \in Thread \ {t} : todo'[u] = todo[u]
      BY <2>1 DEF Call, TypeOK
    <3>2. \A x : LET s == <<x>> \o rest IN s # <<>> /\ Head(s) = x /\ Tail(s) = rest
      BY <2>3, PushedOnTop
    <3>. HIDE DEF m
    <3>. QED  BY <3>1, <3>2
  <2>5. Thread \ {None} = Thread
    BY ThreadsAreDistinct DEF Thread
  <2>6. \A u \in Thread : ~Running(u, "dispatch")
    BY <2>2, <2>5 DEF Free, DispatchInv, ChosenCpuIsFree
  <2>7. m.op = "dispatch" /\ m.cpu = c
    OBVIOUS
  <2>. HIDE DEF m, rest
  <2>8. \A u \in Thread \ {t} : ~Running(u, "dispatch")'
    BY <2>4, <2>6 DEF Running
  <2>9. DispatchOnTop'
    BY <2>3, <2>4, <2>7, <2>8 DEF DispatchInv, DispatchOnTop, Running
  <2>10. ChosenCpuIsFree'
    BY <2>2, <2>4, <2>7, <2>8 DEF ChosenCpuIsFree, Top, cpuVars
  <2>11. FreeCpuIsIdle'
    BY <2>2 DEF DispatchInv, FreeCpuIsIdle, Working, cpuVars
  <2>. QED  BY <2>9, <2>10, <2>11 DEF DispatchInv
<1>. QED  BY <1>1, <1>2 DEF Plan

\* The chosen CPU gets the pcb while it is still free.
LEMMA DispatchKeeps ==
    ASSUME TypeOK, DispatchInv, NEW t \in Thread, Dispatch(t)
    PROVE  /\ DispatchInv'
           /\ ~Working(Top(t).cpu)
           /\ \A c \in Cpu \ {Top(t).cpu} : job'[c] = job[c]
<1> DEFINE d == Top(t).cpu
           rest == Tail(todo[t])
<1>1. Running(t, "dispatch") /\ d \in Cpu
  BY TopIsTyped, CallFields DEF Dispatch
<1>2. lock["planning"] = t /\ ~cpu[d].busy /\ ~Working(d)
  BY <1>1 DEF DispatchInv, ChosenCpuIsFree, FreeCpuIsIdle
<1>3. /\ cpu'[d].busy /\ \A c \in Cpu \ {d} : cpu'[c] = cpu[c] /\ job'[c] = job[c]
  BY <1>1 DEF Dispatch, TypeOK, CpuTypes
<1>4. todo'[t] \in Seq(Plain) /\ \A u \in Thread \ {t} : todo'[u] = todo[u]
  <2>1. rest \in Seq(Plain)
    BY <1>1 DEF DispatchInv, DispatchOnTop, Running
  <2>2. ShortPlanning \o rest \in Seq(Plain)
    BY <2>1, CommonCallsPlain, ConcatProperties
  <2>. QED  BY <2>2 DEF Dispatch, Call, TypeOK
<1>5. \A u \in Thread : ~Running(u, "dispatch")'
  <2>1. ~Running(t, "dispatch")'
    BY <1>4, PlainStack DEF Running
  <2>2. \A u \in Thread \ {t} : ~Running(u, "dispatch")
    BY <1>2 DEF DispatchInv, ChosenCpuIsFree
  <2>. QED  BY <1>4, <2>1, <2>2 DEF Running
<1>6. DispatchOnTop'
  <2>1. todo'[t] # <<>> => Head(todo'[t]) \in Plain /\ Tail(todo'[t]) \in Seq(Plain)
    BY <1>4, PlainStack
  <2>. QED  BY <1>4, <2>1 DEF DispatchInv, DispatchOnTop, Running
<1>7. ChosenCpuIsFree'
  BY <1>5 DEF ChosenCpuIsFree
<1>8. FreeCpuIsIdle'
  BY <1>3 DEF DispatchInv, FreeCpuIsIdle, Working
<1>. QED  BY <1>2, <1>3, <1>6, <1>7, <1>8 DEF DispatchInv
-----------------------------------------------------------------------------
(* The steps of the kernel's threads. *)

\* Whatever typed calls an action pushes are plain, if their names are.
LEMMA PushedArePlain ==
    ASSUME TypeOK, TypeOK', NEW t \in Thread, todo[t] # <<>>, NEW S, NEW calls \in Seq(S),
           Call(t, calls), \A m \in S : m.op \notin {"dispatch", "unlock"}
    PROVE  calls \in Seq(Plain)
<1> DEFINE rest == Tail(todo[t])
           T == S \cup Runnable
<1>1. calls \o rest \in Seq(Runnable')
  BY DEF Call, TypeOK
<1>2. rest \in Seq(Runnable)
  BY HeadTailProperties DEF TypeOK
<1>3. calls \in Seq(T) /\ rest \in Seq(T)
  BY <1>2, SeqMonotonic
<1>. HIDE DEF T, rest
<1>4. /\ Len(calls \o rest) = Len(calls) + Len(rest)
      /\ Len(calls) \in Nat /\ Len(rest) \in Nat
      /\ \A i \in 1 .. Len(calls) + Len(rest) :
            (calls \o rest)[i] = IF i <= Len(calls) THEN calls[i] ELSE rest[i - Len(calls)]
  BY <1>3, ConcatProperties, LenProperties
<1>5. \A i \in 1 .. Len(calls) : calls[i] \in Plain
  <2> SUFFICES ASSUME NEW i \in 1 .. Len(calls)
               PROVE  calls[i] \in Plain
    OBVIOUS
  <2>1. i \in 1 .. Len(calls \o rest) /\ (calls \o rest)[i] = calls[i]
    BY <1>4
  <2>2. calls[i] \in Runnable'
    BY <1>1, <2>1, ElementOfSeq
  <2>3. calls[i] \in S
    BY ElementOfSeq
  <2>. QED  BY <2>2, <2>3, TypedIsPlain
<1>6. calls = [i \in 1 .. Len(calls) |-> calls[i]]
  BY LenProperties
<1>. QED  BY <1>4, <1>5, <1>6, SeqDef

\* The lock of an unlock that is under way is not planning_mutex.
LEMMA UnlockQuiet ==
    ASSUME TypeOK, DispatchInv, NEW t \in Thread, Unlock(t)
    PROVE  Quiet
<1>1. todo[t] # <<>> /\ Top(t) \in Plain /\ Top(t).op = "unlock"
  BY DEF Unlock, Running, Top, DispatchInv, DispatchOnTop
<1>2. Top(t).lock # "planning"
  BY <1>1 DEF Plain, Calls
<1>3. lock'["planning"] = lock["planning"]
  BY <1>2 DEF Unlock, Release, TypeOK, Lock
<1>. QED  BY <1>1, <1>3, QuietCall DEF Unlock

\* Steps that return.
LEMMA ReturnQuiet ==
    ASSUME TypeOK, DispatchInv, NEW t \in Thread,
           \/ AddProgram(t) \/ SetFlag(t) \/ Send(t) \/ RemoveProgram(t) \/ AddProcessInMemory(t)
           \/ SubstractProcessInMemory(t) \/ TellRefused(t) \/ KilledPending(t) \/ SetBlocked(t)
           \/ StoreBlocked(t) \/ RemoveSemPid(t) \/ TellStopped(t)
    PROVE  Quiet
<1>1. todo[t] # <<>> /\ Return(t) /\ UNCHANGED cpuVars
  BY DEF AddProgram, SetFlag, Send, RemoveProgram, AddProcessInMemory, SubstractProcessInMemory,
     TellRefused, KilledPending, SetBlocked, StoreBlocked, RemoveSemPid, TellStopped, Running
<1>2. lock'["planning"] = lock["planning"]
  BY DEF AddProgram, SetFlag, Send, RemoveProgram, AddProcessInMemory, SubstractProcessInMemory,
     TellRefused, KilledPending, SetBlocked, StoreBlocked, RemoveSemPid, TellStopped,
     CountInMemory, Release, TypeOK, Lock
<1>. QED  BY <1>1, <1>2, QuietCall

\* Steps that push one to three calls of known names, or return.
LEMMA NamedCallsQuiet ==
    ASSUME TypeOK, TypeOK', DispatchInv, NEW t \in Thread, todo[t] # <<>>,
           NEW a, NEW b, NEW c,
           Return(t) \/ Call(t, <<a>>) \/ Call(t, <<a, b>>) \/ Call(t, <<a, b, c>>),
           \A m \in {a, b, c} : m.op \notin {"dispatch", "unlock"},
           UNCHANGED cpuVars, lock'["planning"] = lock["planning"]
    PROVE  Quiet
<1>1. <<a>> \in Seq({a, b, c}) /\ <<a, b>> \in Seq({a, b, c}) /\ <<a, b, c>> \in Seq({a, b, c})
  OBVIOUS
<1>2. Return(t) \/ \E calls \in Seq({a, b, c}) : Call(t, calls)
  BY <1>1
<1>3. Return(t) \/ \E calls \in Seq(Plain) : Call(t, calls)
  BY <1>2, PushedArePlain
<1>. QED  BY <1>3, QuietCall

\* The tests of process_in_memory and the steps of check_new_list.
LEMMA AdmissionQuiet ==
    ASSUME TypeOK, TypeOK', DispatchInv, NEW t \in Thread,
           \/ CheckRoom(t) \/ CheckRoomOrFlag(t) \/ CheckFlagged(t) \/ CheckNewList(t)
           \/ SetStarting(t) \/ RemoveProgramCode(t)
    PROVE  Quiet
<1>1. todo[t] # <<>> /\ UNCHANGED cpuVars /\ lock'["planning"] = lock["planning"]
  BY DEF CheckRoom, CheckRoomOrFlag, CheckFlagged, CheckNewList, SetStarting, RemoveProgramCode,
     Running
<1>2. CASE CheckRoom(t) \/ CheckRoomOrFlag(t) \/ CheckFlagged(t) \/ RemoveProgramCode(t)
  <2>1. /\ <<Do("checkNewList")>> \in Seq(Plain) /\ <<Do("setFlag")>> \in Seq(Plain)
        /\ <<Do("clearFlag"), Do("checkNewList")>> \in Seq(Plain)
        /\ <<Do("substract")>> \in Seq(Plain)
    BY CommonCallsPlain
  <2>2. \/ Return(t) \/ Call(t, <<Do("checkNewList")>>) \/ Call(t, <<Do("setFlag")>>)
        \/ Call(t, <<Do("clearFlag"), Do("checkNewList")>>) \/ Call(t, <<Do("substract")>>)
    BY <1>2 DEF CheckRoom, CheckRoomOrFlag, CheckFlagged, RemoveProgramCode
  <2>. QED  BY <1>1, <2>1, <2>2, QuietCall
<1>3. CASE CheckNewList(t)
  <2> DEFINE a == For("setStarting", FirstNew)
             b == [op |-> "removeProgram", i |-> Position(programs, FirstNew)]
  <2>1. Return(t) \/ Call(t, <<a, b>>)
    BY <1>3 DEF CheckNewList
  <2>2. a.op = "setStarting" /\ b.op = "removeProgram"
    BY DEF For
  <2>. HIDE DEF a, b
  <2>. QED  BY <1>1, <2>1, <2>2, NamedCallsQuiet
<1>4. CASE SetStarting(t)
  <2> DEFINE a == For("sendStart", Top(t).pid)
  <2>1. Call(t, <<a>>)
    BY <1>4 DEF SetStarting
  <2>2. a.op = "sendStart"
    BY DEF For
  <2>. HIDE DEF a
  <2>. QED  BY <1>1, <2>1, <2>2, NamedCallsQuiet
<1>. QED  BY <1>2, <1>3, <1>4

\* move_to_list and the scans that it starts.
LEMMA MoveQuiet ==
    ASSUME TypeOK, TypeOK', DispatchInv, NEW t \in Thread, Move(t) \/ ScanSemPids(t)
    PROVE  Quiet
<1>1. todo[t] # <<>> /\ UNCHANGED cpuVars /\ lock'["planning"] = lock["planning"]
  BY DEF Move, ScanSemPids, Running
<1>2. CASE Move(t)
  <2> DEFINE a == [op |-> "scan", pid |-> Top(t).pid, i |-> 1]
  <2>1. Return(t) \/ Call(t, <<a>>)
    BY <1>2 DEF Move
  <2>2. a.op = "scan"
    OBVIOUS
  <2>. HIDE DEF a
  <2>. QED  BY <1>1, <2>1, <2>2, NamedCallsQuiet
<1>3. CASE ScanSemPids(t)
  <2> DEFINE i == Top(t).i
             next == [Top(t) EXCEPT !.i = i + 1]
             a == OnSem("wakeUnlocked", semPid[i].sem)
             b == [op |-> "removeSemPid", i |-> i]
  <2>1. Return(t) \/ Call(t, <<next>>) \/ Call(t, <<a, b, next>>)
    BY <1>3 DEF ScanSemPids
  <2>2. a.op = "wakeUnlocked" /\ b.op = "removeSemPid"
    BY DEF OnSem
  <2>3. next.op = "scan"
    <3>1. Top(t) \in Runnable /\ Top(t).op = "scan"
      BY <1>3, TopIsTyped DEF ScanSemPids
    <3>2. Top(t) \in [op : {"scan", "killed"}, pid : Pid, i : Nat \ {0}]
      BY <3>1 DEF Runnable, Starts, Calls
    <3>. QED  BY <3>1, <3>2
  <2>. HIDE DEF a, b, next
  <2>4. CASE Return(t) \/ Call(t, <<next>>)
    BY <1>1, <2>3, <2>4, NamedCallsQuiet
  <2>5. CASE Call(t, <<a, b, next>>)
    BY <1>1, <2>2, <2>3, <2>5, NamedCallsQuiet
  <2>. QED  BY <2>1, <2>4, <2>5
<1>. QED  BY <1>2, <1>3

\* kill_pending_process, which looks at every entry of the pending list.
LEMMA KillPendingQuiet ==
    ASSUME TypeOK, TypeOK', DispatchInv, NEW t \in Thread, KillPendingProcess(t)
    PROVE  Quiet
<1> DEFINE i == Top(t).i
           a == For("stop", pending[i])
           b == [op |-> "killed", pid |-> pending[i], i |-> i]
           c == [op |-> "kill", i |-> i + 1]
<1>1. todo[t] # <<>> /\ UNCHANGED cpuVars /\ lock'["planning"] = lock["planning"]
  BY DEF KillPendingProcess, Running
<1>2. Return(t) \/ Call(t, <<a, b, c>>)
  BY DEF KillPendingProcess
<1>3. a.op = "stop" /\ b.op = "killed" /\ c.op = "kill"
  BY DEF For
<1>. HIDE DEF a, b, c
<1>. QED  BY <1>1, <1>2, <1>3, NamedCallsQuiet

\* The steps that read or change blocked_pids under sems_blocked_list.
LEMMA BlockedQuiet ==
    ASSUME TypeOK, TypeOK', DispatchInv, NEW t \in Thread,
           RemoveFirstBlocked(t) \/ AddBlockedProcess(t) \/ FilterBlocked(t) \/ KeepBlocked(t)
    PROVE  Quiet
<1>1. todo[t] # <<>> /\ UNCHANGED cpuVars
  BY DEF RemoveFirstBlocked, AddBlockedProcess, FilterBlocked, KeepBlocked, Running
<1>2. lock'["planning"] = lock["planning"]
  BY DEF RemoveFirstBlocked, AddBlockedProcess, FilterBlocked, KeepBlocked, Acquire, TypeOK, Lock
<1>3. ASSUME NEW a, Call(t, <<a>>), a.op \in {"setBlocked", "keep"}
      PROVE  Quiet
  BY <1>1, <1>2, <1>3, NamedCallsQuiet
<1>4. CASE RemoveFirstBlocked(t) \/ AddBlockedProcess(t)
  <2>1. PICK s : Call(t, <<[op |-> "setBlocked", sem |-> Top(t).sem, pids |-> s]>>)
    BY <1>4 DEF RemoveFirstBlocked, AddBlockedProcess
  <2>. QED  BY <1>3, <2>1
<1>5. CASE FilterBlocked(t)
  BY <1>3, <1>5 DEF FilterBlocked
<1>6. CASE KeepBlocked(t)
  <2> DEFINE m == Top(t)
  <2>1. PICK kept : Call(t, <<[m EXCEPT !.rest = Tail(m.rest), !.kept = kept]>>)
    <3>1. Call(t, <<[m EXCEPT !.rest = Tail(m.rest),
                              !.kept = IF Head(m.rest) # m.pid /\ state[Head(m.rest)] # "EXIT"
                                       THEN Append(m.kept, Head(m.rest)) ELSE m.kept]>>)
      BY <1>6 DEF KeepBlocked
    <3>. QED  BY <3>1
  <2>2. m \in Runnable /\ m.op = "keep"
    BY <1>6, TopIsTyped DEF KeepBlocked
  <2>3. m \in [op : {"keep"}, pid : Pid, sem : Sem, rest : Seq(Pid), kept : Seq(Pid)]
    BY <2>2 DEF Runnable, Starts, Calls
  <2>4. [m EXCEPT !.rest = Tail(m.rest), !.kept = kept].op = "keep"
    BY <2>3
  <2>. QED  BY <1>3, <2>1, <2>4
<1>. QED  BY <1>4, <1>5, <1>6

\* Waking the first waiter of a semaphore ends in short_planning.
LEMMA WakeFirstPlain ==
    ASSUME TypeOK, NEW s \in Sem, FirstIsBlocked(s)
    PROVE  WakeFirst(s) \in Seq(Plain)
<1>1. Head(blocked[s]) \in Pid
  BY HeadTailProperties DEF FirstIsBlocked, TypeOK, SemTypes
<1>2. <<OnSem("removeFirst", s), MoveTo(Head(blocked[s]), "READY")>> \in Seq(Plain)
  BY <1>1, CommonCallsPlain DEF State
<1>. QED  BY <1>2, CommonCallsPlain, ConcatProperties DEF WakeFirst

\* The wakeups of remove_from_list_sems and of remove_sem_pid_list.
LEMMA WakeQuiet ==
    ASSUME TypeOK, DispatchInv, NEW t \in Thread, WakeAfterFilter(t) \/ WakeAfterScan(t)
    PROVE  Quiet
<1> DEFINE s == Top(t).sem
<1>1. todo[t] # <<>> /\ UNCHANGED cpuVars
  BY DEF WakeAfterFilter, WakeAfterScan, Running
<1>2. lock'["planning"] = lock["planning"]
  BY DEF WakeAfterFilter, WakeAfterScan, Acquire, TypeOK, Lock
<1>3. s \in Sem
  BY TopIsTyped, CallFields DEF WakeAfterFilter, WakeAfterScan
<1>4. \/ Return(t)
      \/ FirstIsBlocked(s) /\ Call(t, WakeFirst(s))
      \/ FirstIsBlocked(s) /\ Call(t, WakeFirst(s) \o <<Unlocking("sems")>>)
  BY DEF WakeAfterFilter, WakeAfterScan
<1>5. FirstIsBlocked(s) =>
         WakeFirst(s) \in Seq(Plain) /\ WakeFirst(s) \o <<Unlocking("sems")>> \in Seq(Plain)
  <2>1. <<Unlocking("sems")>> \in Seq(Plain)
    BY CommonCallsPlain DEF Lock
  <2>. QED  BY <1>3, <2>1, WakeFirstPlain, ConcatProperties
<1>. HIDE DEF s
<1>. QED  BY <1>1, <1>2, <1>4, <1>5, QuietCall

\* abort_process and stop_process tear the process down.
LEMMA EndingQuiet ==
    ASSUME TypeOK, DispatchInv, NEW t \in Thread, AbortProcess(t) \/ StopProcess(t)
    PROVE  Quiet
<1> DEFINE p == Top(t).pid
<1>1. todo[t] # <<>> /\ UNCHANGED cpuVars /\ lock'["planning"] = lock["planning"]
  BY DEF AbortProcess, StopProcess, Running
<1>2. p \in Pid
  BY TopIsTyped, CallFields DEF AbortProcess, StopProcess
<1>3. RemoveFromListSems(p) \in Seq(Plain) /\ <<>> \in Seq(Plain)
  BY <1>2, RemoveFromListSemsPlain
<1>4. CASE AbortProcess(t)
  <2>1. <<For("removeCode", p), For("sendFinish", p), MoveTo(p, "EXIT"), Do("checkRoom")>>
           \in Seq(Plain)
    BY <1>2, CommonCallsPlain DEF State
  <2>2. AbortTeardown(p) \in Seq(Plain)
    BY <1>3, <2>1, ConcatProperties DEF AbortTeardown
  <2>3. Return(t) \/ Call(t, AbortTeardown(p))
    BY <1>4 DEF AbortProcess
  <2>. QED  BY <1>1, <2>2, <2>3, QuietCall
<1>5. CASE StopProcess(t)
  <2> DEFINE sems == IF state[p] = "BLOCK" THEN RemoveFromListSems(p) ELSE <<>>
             teardown == sems \o <<Do("substract"), For("sendFinish", p), MoveTo(p, "EXIT"),
                                   Do("checkRoom")>>
             calls == (IF state[p] # "EXEC" THEN teardown ELSE <<>>) \o <<For("tellStopped", p)>>
  <2>1. /\ <<Do("substract"), For("sendFinish", p), MoveTo(p, "EXIT"), Do("checkRoom")>>
              \in Seq(Plain)
        /\ <<For("tellStopped", p)>> \in Seq(Plain)
    BY <1>2, CommonCallsPlain DEF State
  <2>2. teardown \in Seq(Plain)
    BY <1>3, <2>1, ConcatProperties
  <2>3. calls \in Seq(Plain)
    BY <1>3, <2>1, <2>2, ConcatProperties
  <2>4. Return(t) \/ Call(t, calls)
    BY <1>5 DEF StopProcess
  <2>. HIDE DEF calls
  <2>. QED  BY <1>1, <2>3, <2>4, QuietCall
<1>. QED  BY <1>4, <1>5
-----------------------------------------------------------------------------
(* The steps of the CPUs. *)

\* Executing instructions and asking the kernel for semaphores, a CPU stays with its process.
LEMMA TurnKeepsProcess ==
    ASSUME TypeOK, NEW c \in Cpu,
           \/ CpuHasAborted(c) \/ ExecuteStep(c) \/ ExecuteEnd(c) \/ BlockCaller(c)
           \/ AnswerSignal(c)
           \/ \E s \in Sem : CpuWaitSem(c, s) \/ CpuWaitSemBusy(c, s) \/ CpuSignalSem(c, s)
    PROVE  \A d \in Cpu : Working(d)' => Working(d) /\ job'[d].pid = job[d].pid
<1>1. Working(c)
  BY DEF CpuHasAborted, ExecuteStep, ExecuteEnd, BlockCaller, AnswerSignal, CpuWaitSem,
     CpuWaitSemBusy, CpuSignalSem, At, Working
<1>2. job \in [Cpu -> Turns] /\ job[c] \in Turns
  BY DEF TypeOK, CpuTypes
<1>3. ASSUME NEW j, j.pid = job[c].pid, job' = [job EXCEPT ![c] = j]
      PROVE  \A d \in Cpu : Working(d)' => Working(d) /\ job'[d].pid = job[d].pid
  BY <1>1, <1>2, <1>3 DEF Working
<1>4. \A j \in Turns : Executed(j).pid = j.pid
  BY DEF Executed, Turns
<1>5. CASE CpuHasAborted(c)
  <2>1. PICK status, at : job' = [job EXCEPT ![c] = [job[c] EXCEPT !.status = status, !.at = at]]
    <3> DEFINE code == exitCode[job[c].pid]
               at == IF code = "consola" THEN "done" ELSE "run"
    <3>1. job' = [job EXCEPT ![c] = [job[c] EXCEPT !.status = code, !.at = at]]
      BY <1>2, <1>5 DEF CpuHasAborted
    <3>. QED  BY <3>1
  <2> DEFINE j == [job[c] EXCEPT !.status = status, !.at = at]
  <2>2. j.pid = job[c].pid
    BY <1>2 DEF Turns
  <2>. HIDE DEF j
  <2>. QED  BY <1>3, <2>1, <2>2 DEF j
<1>6. CASE ExecuteStep(c) \/ AnswerSignal(c) \/ \E s \in Sem : CpuWaitSem(c, s)
  BY <1>2, <1>3, <1>4, <1>6 DEF ExecuteStep, AnswerSignal, CpuWaitSem
<1>7. CASE ExecuteEnd(c)
  <2> DEFINE j == [job[c] EXCEPT !.finished = TRUE]
  <2>1. j \in Turns /\ j.pid = job[c].pid
    BY <1>2 DEF Turns
  <2>2. job' = [job EXCEPT ![c] = Executed(j)]
    BY <1>7 DEF ExecuteEnd
  <2>. HIDE DEF j
  <2>. QED  BY <1>3, <1>4, <2>1, <2>2
<1>8. CASE BlockCaller(c)
  <2> DEFINE j == [job[c] EXCEPT !.finished = TRUE, !.locked = TRUE]
  <2>1. j \in Turns /\ j.pid = job[c].pid
    BY <1>2 DEF Turns
  <2>2. job' = [job EXCEPT ![c] = Executed(j)]
    BY <1>8 DEF BlockCaller
  <2>. HIDE DEF j
  <2>. QED  BY <1>3, <1>4, <2>1, <2>2
<1>9. CASE \E s \in Sem : CpuWaitSemBusy(c, s) \/ CpuSignalSem(c, s)
  <2> DEFINE j == [job[c] EXCEPT !.at = "call"]
  <2>1. j.pid = job[c].pid
    BY <1>2 DEF Turns
  <2>2. job' = [job EXCEPT ![c] = j]
    BY <1>2, <1>9 DEF CpuWaitSemBusy, CpuSignalSem
  <2>. HIDE DEF j
  <2>. QED  BY <1>3, <2>1, <2>2
<1>. QED  BY <1>5, <1>6, <1>7, <1>8, <1>9

\* Nothing that happens during a turn frees a CPU or touches planning_mutex.
LEMMA TurnQuiet ==
    ASSUME TypeOK, DispatchInv, NEW c \in Cpu,
           \/ CpuHasAborted(c) \/ ExecuteStep(c) \/ ExecuteEnd(c) \/ BlockCaller(c)
           \/ AnswerSignal(c)
           \/ \E s \in Sem : CpuWaitSem(c, s) \/ CpuWaitSemBusy(c, s) \/ CpuSignalSem(c, s)
    PROVE  Quiet
<1>1. cpu' = cpu
  BY DEF CpuHasAborted, ExecuteStep, ExecuteEnd, BlockCaller, AnswerSignal, CpuWaitSem,
     CpuWaitSemBusy, CpuSignalSem
<1>2. lock'["planning"] = lock["planning"]
  BY DEF CpuHasAborted, ExecuteStep, ExecuteEnd, BlockCaller, AnswerSignal, CpuWaitSem,
     CpuWaitSemBusy, CpuSignalSem, Acquire, Release, TypeOK, Lock
<1>3. c \in Thread
  BY DEF Thread
<1>4. \A u \in Thread : todo'[u] = todo[u] \/ todo'[u] \in Seq(Plain)
  <2>1. CASE UNCHANGED todo
    BY <2>1
  <2>2. CASE todo[c] # <<>> /\ Return(c)
    BY <1>3, <2>2 DEF Return, DispatchInv, DispatchOnTop, TypeOK
  <2>3. ASSUME NEW s \in Sem, CpuWaitSemBusy(c, s)
        PROVE  \A u \in Thread : todo'[u] = todo[u] \/ todo'[u] \in Seq(Plain)
    <3> DEFINE a == [op |-> "addBlocked", pid |-> cpu[c].xpid, sem |-> s]
    <3>1. cpu[c].xpid \in Pid
      BY <2>3 DEF CpuWaitSemBusy, At, TypeOK, CpuTypes
    <3>2. a \in Plain
      BY <3>1 DEF Plain, Calls
    <3>. HIDE DEF a
    <3>3. <<a, OnSem("block", s)>> \in Seq(Plain) /\ <<OnSem("block", s)>> \in Seq(Plain)
      BY <3>2, CommonCallsPlain
    <3>4. Receive(c, <<a, OnSem("block", s)>>) \/ Receive(c, <<OnSem("block", s)>>)
      BY <2>3 DEF CpuWaitSemBusy, a
    <3>. QED  BY <1>3, <3>3, <3>4, QuietReceive
  <2>4. ASSUME NEW s \in Sem, CpuSignalSem(c, s)
        PROVE  \A u \in Thread : todo'[u] = todo[u] \/ todo'[u] \in Seq(Plain)
    <3>1. <<Do("signalled")>> \in Seq(Plain)
      BY CommonCallsPlain
    <3>2. FirstIsBlocked(s) => WakeFirst(s) \o <<Do("signalled")>> \in Seq(Plain)
      BY <3>1, WakeFirstPlain, ConcatProperties
    <3>3. \/ Receive(c, <<Do("signalled")>>)
          \/ FirstIsBlocked(s) /\ Receive(c, WakeFirst(s) \o <<Do("signalled")>>)
      BY <2>4 DEF CpuSignalSem
    <3>. QED  BY <1>3, <3>1, <3>2, <3>3, QuietReceive
  <2>. QED
    BY <2>1, <2>2, <2>3, <2>4 DEF CpuHasAborted, ExecuteStep, ExecuteEnd, BlockCaller,
       AnswerSignal, CpuWaitSem, Running
<1>. QED  BY <1>1, <1>2, <1>4, TurnKeepsProcess DEF Quiet

\* cpu_task_finished frees the CPU, which has nothing to execute any more.
LEMMA TaskFinishedQuiet ==
    ASSUME TypeOK, DispatchInv, NEW c \in Cpu, CpuTaskFinished(c)
    PROVE  Quiet
<1> DEFINE j == job[c]
           p == j.pid
           code == FinalCode(j)
           finished == j.finished \/ j.status # "none"
           outcome ==
               CASE Aborted(code) -> EndProcess(p, code)
                 [] ~Aborted(code) /\ ~finished -> <<MoveCopyTo(p, "READY", code)>>
                 [] ~Aborted(code) /\ finished /\ j.locked -> <<MoveCopyTo(p, "BLOCK", code)>>
                 [] OTHER -> EndProcess(p, code) \o <<For("tellStopped", p)>>
           calls == outcome \o UnlockIfLocked(j) \o ShortPlanning \o <<Do("checkFlagged")>>
<1>1. p \in Pid /\ code \in ExitCode
  BY DEF CpuTaskFinished, TypeOK, CpuTypes, At, FinalCode, Turns
<1>2. outcome \in Seq(Plain)
  <2>1. <<For("removeCode", p), MoveCopyTo(p, "EXIT", code), For("sendFinish", p)>> \in Seq(Plain)
    BY <1>1, CommonCallsPlain DEF State
  <2>2. EndProcess(p, code) \in Seq(Plain)
    BY <1>1, <2>1, RemoveFromListSemsPlain, ConcatProperties DEF EndProcess
  <2>3. /\ MoveCopyTo(p, "READY", code) \in Plain /\ MoveCopyTo(p, "BLOCK", code) \in Plain
        /\ For("tellStopped", p) \in Plain
    BY <1>1, CommonCallsPlain DEF State
  <2>. HIDE DEF j, p, code, finished
  <2>4. /\ <<MoveCopyTo(p, "READY", code)>> \in Seq(Plain)
        /\ <<MoveCopyTo(p, "BLOCK", code)>> \in Seq(Plain)
        /\ EndProcess(p, code) \o <<For("tellStopped", p)>> \in Seq(Plain)
    BY <2>2, <2>3, ConcatProperties
  <2>. QED  BY <2>2, <2>4
<1>3. calls \in Seq(Plain)
  <2>. HIDE DEF outcome
  <2>1. UnlockIfLocked(j) \in Seq(Plain) /\ <<Do("checkFlagged")>> \in Seq(Plain)
    BY CommonCallsPlain DEF UnlockIfLocked, Lock
  <2>. QED  BY <1>2, <2>1, CommonCallsPlain, ConcatProperties
<1>4. Receive(c, calls) /\ c \in Thread
  BY DEF CpuTaskFinished, Thread
<1>. HIDE DEF calls
<1>5. \A u \in Thread : todo'[u] = todo[u] \/ todo'[u] \in Seq(Plain)
  BY <1>3, <1>4, QuietReceive
<1>6. /\ lock' = lock
      /\ ~cpu'[c].busy /\ ~Working(c)'
      /\ \A d \in Cpu \ {c} : cpu'[d] = cpu[d] /\ job'[d] = job[d]
  BY DEF CpuTaskFinished, TypeOK, CpuTypes, Idle, Working
<1>. QED  BY <1>5, <1>6 DEF Quiet, Working
-----------------------------------------------------------------------------
(* The steps of the memory and of the users. *)

\* They put handlers on idle threads.
LEMMA OutsideQuiet ==
    ASSUME TypeOK, Memory \/ Users
    PROVE  Quiet
<1>1. /\ UNCHANGED cpuVars
      /\ \A l \in Lock \ {"console", "abort"} : lock'[l] = lock[l]
  BY DEF Memory, Users, MemoryServe, MemoryResponseStartProgram, ConsoleLoadProgram,
     ConsoleAbortProgram, DoStopProcess, DoStopPlanification, DoChangeMultiprogramming, Acquire,
     TypeOK
<1>2. ASSUME NEW t \in Thread, NEW calls \in Seq(Plain), Receive(t, calls)
      PROVE  Quiet
  BY <1>1, <1>2, QuietReceive DEF Quiet, Working, cpuVars, Lock
<1>3. Menu \in Thread /\ Mem \in Thread /\ Pid \subseteq Thread
  BY DEF Thread
<1>4. CASE MemoryServe
  BY <1>1, <1>4 DEF MemoryServe, Quiet, Working, cpuVars, Lock
<1>5. CASE MemoryResponseStartProgram
  <2> DEFINE admitted == <<MoveTo(starting, "READY"), Do("addProcess")>> \o ShortPlanning
                         \o <<Do("checkRoomOrFlag")>>
             refused == <<MoveTo(starting, "EXIT"), Do("tellRefused"), Do("checkRoomOrFlag")>>
  <2>1. starting \in Pid
    BY <1>5 DEF MemoryResponseStartProgram, TypeOK, StartTypes
  <2>2. MoveTo(starting, "READY") \in Plain /\ MoveTo(starting, "EXIT") \in Plain
    BY <2>1, CommonCallsPlain DEF State
  <2>3. /\ Do("addProcess") \in Plain /\ Do("tellRefused") \in Plain
        /\ Do("checkRoomOrFlag") \in Plain
    BY CommonCallsPlain
  <2>4. /\ <<MoveTo(starting, "READY"), Do("addProcess")>> \in Seq(Plain)
        /\ <<Do("checkRoomOrFlag")>> \in Seq(Plain) /\ refused \in Seq(Plain)
    BY <2>2, <2>3
  <2>5. admitted \in Seq(Plain)
    BY <2>4, CommonCallsPlain, ConcatProperties
  <2>6. Receive(Mem, admitted) \/ Receive(Mem, refused)
    BY <1>5 DEF MemoryResponseStartProgram
  <2>. HIDE DEF admitted, refused
  <2>. QED  BY <1>2, <1>3, <2>4, <2>5, <2>6
<1>6. ASSUME NEW p \in Pid, ConsoleLoadProgram(p)
      PROVE  Quiet
  <2>1. <<For("addProgram", p), Do("checkRoom"), Unlocking("console")>> \in Seq(Plain)
    BY CommonCallsPlain DEF Lock
  <2>. QED  BY <1>2, <1>3, <1>6, <2>1 DEF ConsoleLoadProgram
<1>7. ASSUME NEW p \in Pid, ConsoleAbortProgram(p)
      PROVE  Quiet
  <2>1. <<For("abort", p), Unlocking("abort")>> \in Seq(Plain)
    BY CommonCallsPlain DEF Lock
  <2>. QED  BY <1>2, <1>3, <1>7, <2>1 DEF ConsoleAbortProgram
<1>8. ASSUME NEW p \in Pid, DoStopProcess(p)
      PROVE  Quiet
  <2>1. <<For("stop", p)>> \in Seq(Plain)
    BY CommonCallsPlain
  <2>. QED  BY <1>2, <1>3, <1>8, <2>1 DEF DoStopProcess
<1>9. CASE DoStopPlanification
  <2>1. PICK calls \in {ShortPlanning, <<>>} : Receive(Menu, calls)
    BY <1>9 DEF DoStopPlanification
  <2>2. calls \in Seq(Plain)
    BY CommonCallsPlain, EmptySeq
  <2>. QED  BY <1>2, <1>3, <2>1, <2>2
<1>10. ASSUME NEW m \in Multiprogs, DoChangeMultiprogramming(m)
       PROVE  Quiet
  <2>1. <<Do("checkRoom")>> \in Seq(Plain)
    BY CommonCallsPlain
  <2>. QED  BY <1>2, <1>3, <1>10, <2>1 DEF DoChangeMultiprogramming
<1>. QED  BY <1>4, <1>5, <1>6, <1>7, <1>8, <1>9, <1>10 DEF Memory, Users
-----------------------------------------------------------------------------
(* The theorem. *)

\* Every CPU is free and idle at first, and short_planning waits on its thread.
LEMMA InitDispatch ==
    ASSUME Init
    PROVE  DispatchInv
<1>1. \A t \in Thread : todo[t] \in Seq(Plain)
  BY CommonCallsPlain DEF Init
<1>2. DispatchOnTop /\ ChosenCpuIsFree
  BY <1>1, PlainStack DEF DispatchOnTop, ChosenCpuIsFree, Running
<1>3. FreeCpuIsIdle
  BY DEF Init, Idle, FreeCpuIsIdle, Working
<1>. QED  BY <1>2, <1>3 DEF DispatchInv

\* Every action but short_planning's is quiet.
LEMMA OthersQuiet ==
    ASSUME TypeOK, TypeOK', DispatchInv, Next
    PROVE  Quiet \/ \E t \in Thread : Plan(t) \/ Dispatch(t)
<1>1. ASSUME NEW t \in Thread, Step(t), ~Plan(t), ~Dispatch(t)
      PROVE  Quiet
  BY <1>1, UnlockQuiet, ReturnQuiet, AdmissionQuiet, MoveQuiet, KillPendingQuiet, BlockedQuiet,
     WakeQuiet, EndingQuiet DEF Step
<1>2. ASSUME NEW c \in Cpu, Execute(c)
      PROVE  Quiet
  BY <1>2, TurnQuiet, TaskFinishedQuiet DEF Execute
<1>. QED  BY <1>1, <1>2, OutsideQuiet DEF Next

\* Every step keeps the invariant and leaves a CPU that works on with its process.
LEMMA NextDispatch ==
    ASSUME TypeOK, TypeOK', DispatchInv, [Next]_vars
    PROVE  /\ DispatchInv'
           /\ \A c \in Cpu : Working(c) /\ Working(c)' => job'[c].pid = job[c].pid
<1>1. CASE UNCHANGED vars
  <2>1. UNCHANGED <<cpuVars, lock, todo>>
    BY <1>1 DEF vars
  <2>2. Quiet
    BY <2>1 DEF Quiet, cpuVars, Working
  <2>. QED  BY <2>2, QuietKeeps DEF Quiet
<1>2. CASE Quiet
  BY <1>2, QuietKeeps DEF Quiet
<1>3. ASSUME NEW t \in Thread, Plan(t)
      PROVE  DispatchInv' /\ UNCHANGED job
  BY <1>3, PlanKeeps DEF Plan, cpuVars
<1>4. ASSUME NEW t \in Thread, Dispatch(t)
      PROVE  /\ DispatchInv'
             /\ \A c \in Cpu : Working(c) => job'[c] = job[c]
  BY <1>4, DispatchKeeps
<1>. QED  BY <1>1, <1>2, <1>3, <1>4, OthersQuiet

\* However many kernel threads run short_planning at the same time, a CPU that executes
\* a process is never sent another: the choice of a free CPU, the delivery of the pcb and
\* the busy flag are covered by planning_mutex.
THEOREM CpusKeepTheirProcesses == Spec => CpuKeepsItsProcess
<1>1. Init => DispatchInv
  BY InitDispatch
<1>2. TypeOK /\ TypeOK' /\ DispatchInv /\ [Next]_vars => DispatchInv'
  BY NextDispatch
<1>3. TypeOK /\ TypeOK' /\ DispatchInv /\ [Next]_vars
         => [\A c \in Cpu : Working(c) /\ Working(c)' => job'[c].pid = job[c].pid]_vars
  BY NextDispatch
<1>. QED  BY <1>1, <1>2, <1>3, TypeCorrect, PTL DEF Spec, CpuKeepsItsProcess
-----------------------------------------------------------------------------
(* Turns and semaphores, while programs neither come nor go. *)

\* No program is loaded or ended: the consoles and the menu may pause planning and change
\* the degree of multiprogramming, and the programs step, wait and signal for ever.
NobodyComesOrGoes ==
    /\ Operator \cap {"load", "abort", "stop"} = {}
    /\ \A p \in Pid : [op |-> "end"] \notin Code[p]

\* The calls that move no process: those of planning up to the choice, and of admission.
Light ==
    [op : {"plan", "checkFlagged", "clearFlag", "checkNewList", "checkRoom"}]
    \cup [op : {"kill"}, i : Nat \ {0}]

\* What stays as it was when nobody comes or goes.
NothingEnds ==
    /\ list["NEW"] = <<>> /\ pending = <<>> /\ mailbox = <<>> /\ replies = <<>>
    /\ \A p \in Pid : exitCode[p] = "none"
    /\ \A c \in Cpu :
          /\ job[c].status = "none" /\ job[c].finished = job[c].locked
          /\ job[c].locked => At(c, "done")

CarriesBack(t) == Running(t, "move") /\ Top(t).copy

\* A process in EXEC is in one hand: a CPU that executes it, or the thread that carries
\* back what a CPU has returned. One that is chosen stays READY until it is dispatched.
InOneHand ==
    /\ OneCpuPerProcess
    /\ \A c \in Cpu : Working(c) => cpu[c].xpid = job[c].pid
    /\ \A t \in Thread : CarriesBack(t) =>
          /\ state[Top(t).pid] = "EXEC"
          /\ \A c \in Cpu : Working(c) => job[c].pid # Top(t).pid
          /\ \A u \in Thread \ {t} : CarriesBack(u) => Top(u).pid # Top(t).pid
    /\ \A t \in Thread : Running(t, "dispatch") => state[Top(t).pid] = "READY"

\* How a list of waiters stands to the value of its semaphore.
Deficit(s) == IF semValue[s] < 0 THEN -semValue[s] ELSE 0
Even == \A s \in Sem : Len(blocked[s]) = Deficit(s)
OneMore(s) ==
    /\ semValue[s] <= 0 /\ Len(blocked[s]) = 1 - semValue[s]
    /\ \A r \in Sem \ {s} : Len(blocked[r]) = Deficit(r)

\* Nobody waits twice.
WaitsOnce ==
    \A r, s \in Sem : \A i \in 1 .. Len(blocked[r]), k \in 1 .. Len(blocked[s]) :
        blocked[r][i] = blocked[s][k] => r = s /\ i = k

\* Who waits is in BLOCK, but one that is not there yet.
InBlockBut(p) ==
    \A s \in Sem : \A i \in 1 .. Len(blocked[s]) :
        blocked[s][i] # p => state[blocked[s][i]] = "BLOCK"

Settled == Even /\ WaitsOnce /\ InBlockBut(None)

\* The stack of a handler that ends with the answer to a signal.
Answering(stack) == \E calls \in Seq(Light) : stack = Append(calls, Do("signalled"))

Then(stack, call) == stack # <<>> /\ Head(stack) = call

\* How far the thread with sems_mutex has come with a wait:
WaitAsked(t, s, p) ==
    /\ At(t, "call") /\ job[t].pid = p /\ semValue[s] <= 0 /\ Settled
    /\ \/ todo[t] = <<[op |-> "addBlocked", pid |-> p, sem |-> s], OnSem("block", s)>>
       \/ todo[t] = <<[op |-> "setBlocked", sem |-> s, pids |-> Queued(blocked[s], p)],
                      OnSem("block", s)>>

WaitListed(t, s, p) ==
    /\ At(t, "call") /\ job[t].pid = p
    /\ todo[t] = <<OnSem("block", s)>>
    /\ OneMore(s) /\ WaitsOnce /\ InBlockBut(p)

WaitReturned(t, p) ==
    /\ job[t].locked /\ job[t].pid = p
    /\ todo[t] = <<>>
    /\ Even /\ WaitsOnce /\ InBlockBut(p)

WaitBlocks(t, p) ==
    /\ Then(todo[t], MoveCopyTo(p, "BLOCK", "none"))
    /\ Then(Tail(todo[t]), Unlocking("sems"))
    /\ Tail(Tail(todo[t])) \in Seq(Light)
    /\ Even /\ WaitsOnce /\ InBlockBut(p)

WaitOver(t) ==
    /\ Then(todo[t], Unlocking("sems"))
    /\ Tail(todo[t]) \in Seq(Light)
    /\ Settled

\* and with a signal.
SignalWakes(t, s, p) ==
    /\ blocked[s] # <<>> /\ Head(blocked[s]) = p
    /\ \/ Then(todo[t], OnSem("removeFirst", s))
       \/ Then(todo[t], [op |-> "setBlocked", sem |-> s, pids |-> WithoutFirst(blocked[s])])
    /\ Then(Tail(todo[t]), MoveTo(p, "READY"))
    /\ Answering(Tail(Tail(todo[t])))
    /\ OneMore(s) /\ WaitsOnce /\ InBlockBut(None)

SignalMoves(t, p) ==
    /\ Then(todo[t], MoveTo(p, "READY"))
    /\ Answering(Tail(todo[t]))
    /\ state[p] = "BLOCK"
    /\ \A s \in Sem : \A i \in 1 .. Len(blocked[s]) : blocked[s][i] # p
    /\ Settled

SignalAnswers(t) ==
    /\ \/ Answering(todo[t])
       \/ Running(t, "dispatch") /\ Answering(Tail(todo[t]))
    /\ Settled

WithSems(t) ==
    /\ t \in Cpu
    /\ \/ \E p \in Pid : WaitReturned(t, p)
       \/ /\ ~job[t].locked
          /\ \/ \E s \in Sem, p \in Pid : \/ WaitAsked(t, s, p)
                                          \/ WaitListed(t, s, p)
                                          \/ SignalWakes(t, s, p)
             \/ \E p \in Pid : WaitBlocks(t, p) \/ SignalMoves(t, p)
             \/ WaitOver(t)
             \/ SignalAnswers(t)

WithoutSems(t) ==
    /\ t \in Cpu => ~job[t].locked
    /\ \/ todo[t] \in Seq(Light)
       \/ /\ todo[t] # <<>> /\ Tail(todo[t]) \in Seq(Light)
          /\ \/ Running(t, "dispatch")
             \/ \E p \in Pid : Top(t) = MoveCopyTo(p, "READY", "none")

SemsInv ==
    /\ \A t \in Thread : IF lock["sems"] = t THEN WithSems(t) ELSE WithoutSems(t)
    /\ Free("sems") => Settled

TurnsInv == NothingEnds /\ InOneHand /\ SemsInv
-----------------------------------------------------------------------------
(* Stacks of light calls. *)

\* A light stack has a light call on top of light calls.
LEMMA LightStack ==
    ASSUME NEW s \in Seq(Light), s # <<>>
    PROVE  /\ Head(s) \in Light /\ Tail(s) \in Seq(Light)
           /\ Head(s).op \in {"plan", "checkFlagged", "clearFlag", "checkNewList", "checkRoom", "kill"}
<1>1. Head(s) \in Light /\ Tail(s) \in Seq(Light)
  BY HeadTailProperties
<1>. QED  BY <1>1 DEF Light

\* The answer to a signal is below light calls or alone.
LEMMA AnsweringStack ==
    ASSUME NEW s, Answering(s)
    PROVE  /\ s # <<>>
           /\ \/ Head(s) = Do("signalled") /\ Tail(s) = <<>>
              \/ Head(s) \in Light /\ Answering(Tail(s))
<1>1. PICK calls \in Seq(Light) : s = Append(calls, Do("signalled"))
  BY DEF Answering
<1>2. /\ Head(s) = IF calls = <<>> THEN Do("signalled") ELSE Head(calls)
      /\ Tail(s) = IF calls = <<>> THEN <<>> ELSE Append(Tail(calls), Do("signalled"))
  BY <1>1, HeadTailAppend
<1>3. s # <<>>
  <2>1. calls \in Seq(Light \cup {Do("signalled")})
    BY SeqMonotonic
  <2>. QED  BY <1>1, <2>1, AppendProperties
<1>4. CASE calls = <<>>
  BY <1>2, <1>3, <1>4
<1>5. CASE calls # <<>>
  BY <1>2, <1>3, <1>5, LightStack DEF Answering
<1>. QED  BY <1>4, <1>5

\* Light calls pushed on such a stack leave it one.
LEMMA AnsweringPush ==
    ASSUME NEW s, Answering(s), NEW calls \in Seq(Light)
    PROVE  Answering(calls \o s)
<1> DEFINE x == Do("signalled")
           S == Light \cup {x}
<1>1. PICK r \in Seq(Light) : s = Append(r, x)
  BY DEF Answering
<1>2. calls \in Seq(S) /\ r \in Seq(S) /\ x \in S /\ <<x>> \in Seq(S)
  BY SeqMonotonic
<1>. HIDE DEF S, x
<1>3. s = r \o <<x>>
  BY <1>1, <1>2, AppendIsConcat
<1>4. calls \o s = (calls \o r) \o <<x>>
  BY <1>2, <1>3, ConcatAssociative
<1>5. calls \o r \in Seq(Light) /\ calls \o r \in Seq(S)
  BY <1>2, ConcatProperties
<1>6. calls \o s = Append(calls \o r, x)
  BY <1>2, <1>4, <1>5, AppendIsConcat
<1>. QED  BY <1>5, <1>6 DEF Answering, x

\* The answer alone, and the two halves of short_planning.
LEMMA CommonLight ==
    /\ Answering(<<Do("signalled")>>)
    /\ ShortPlanning \in Seq(Light)
    /\ \A op \in {"plan", "checkFlagged", "clearFlag", "checkNewList", "checkRoom"} :
          Do(op) \in Light
    /\ \A i \in Nat \ {0} : [op |-> "kill", i |-> i] \in Light
<1>1. Append(<<>>, Do("signalled")) = <<Do("signalled")>>
  OBVIOUS
<1>2. <<>> \in Seq(Light)
  OBVIOUS
<1>3. \A op \in {"plan", "checkFlagged", "clearFlag", "checkNewList", "checkRoom"} :
          Do(op) \in Light
  BY DEF Light, Do
<1>4. \A i \in Nat \ {0} : [op |-> "kill", i |-> i] \in Light
  BY DEF Light
<1>5. ShortPlanning \in Seq(Light)
  BY <1>3, <1>4 DEF ShortPlanning
<1>. QED  BY <1>1, <1>2, <1>3, <1>4, <1>5 DEF Answering

\* Two calls, one after the other.
LEMMA TwoCalls ==
    ASSUME NEW x, NEW y
    PROVE  <<x>> \o <<y>> = <<x, y>>
<1> DEFINE S == {x, y}
           a == <<x>> \o <<y>>
           b == <<x, y>>
<1>1. <<x>> \in Seq(S) /\ <<y>> \in Seq(S) /\ b \in Seq(S)
  OBVIOUS
<1>2. a \in Seq(S) /\ Len(a) = 2 /\ a[1] = x /\ a[2] = y
  BY <1>1, ConcatProperties
<1>3. Len(b) = 2 /\ b[1] = x /\ b[2] = y
  OBVIOUS
<1>. HIDE DEF a, b, S
<1>4. \A i \in 1 .. Len(a) : a[i] = b[i]
  BY <1>2, <1>3
<1>5. a = b
  BY <1>1, <1>2, <1>3, <1>4, SeqEqual
<1>. QED  BY <1>5 DEF a, b

\* Two calls pushed together are the first pushed on the second.
LEMMA TwoPushed ==
    ASSUME NEW S, NEW s \in Seq(S), NEW x, NEW y
    PROVE  /\ <<x, y>> \o s = <<x>> \o (<<y>> \o s)
           /\ <<x, y>> \o s # <<>> /\ Head(<<x, y>> \o s) = x
           /\ Tail(<<x, y>> \o s) = <<y>> \o s
<1> DEFINE T == S \cup {x, y}
<1>1. <<x>> \in Seq(T) /\ <<y>> \in Seq(T) /\ <<x, y>> \in Seq(T) /\ s \in Seq(T)
  BY SeqMonotonic
<1>2. <<x, y>> \o s = <<x>> \o (<<y>> \o s)
  <2>1. <<x, y>> = <<x>> \o <<y>>
    BY TwoCalls
  <2>2. (<<x>> \o <<y>>) \o s = <<x>> \o (<<y>> \o s)
    <3>. HIDE DEF T
    <3>. QED  BY <1>1, ConcatAssociative
  <2>. QED  BY <2>1, <2>2
<1>3. <<y>> \o s \in Seq(T)
  BY <1>1, ConcatProperties
<1>. QED  BY <1>2, <1>3, PushedOnTop
-----------------------------------------------------------------------------
(* Where the thread with sems_mutex is, and what others leave it. *)

LightOp == {"plan", "checkFlagged", "clearFlag", "checkNewList", "checkRoom", "kill"}

\* The call on top tells how far the thread has come.
LEMMA PhaseTops ==
    ASSUME NEW t, NEW s, NEW p
    PROVE  /\ WaitAsked(t, s, p) => todo[t] # <<>> /\ Top(t).op \in {"addBlocked", "setBlocked"}
           /\ WaitListed(t, s, p) => todo[t] # <<>> /\ Top(t).op = "block"
           /\ WaitReturned(t, p) => todo[t] = <<>>
           /\ WaitBlocks(t, p) => todo[t] # <<>> /\ Top(t).op = "move"
           /\ WaitOver(t) => todo[t] # <<>> /\ Top(t).op = "unlock"
           /\ SignalWakes(t, s, p) => todo[t] # <<>> /\ Top(t).op \in {"removeFirst", "setBlocked"}
           /\ SignalMoves(t, p) => todo[t] # <<>> /\ Top(t).op = "move"
           /\ SignalAnswers(t) => /\ todo[t] # <<>>
                                  /\ Top(t).op \in LightOp \cup {"dispatch", "signalled"}
<1>1. WaitAsked(t, s, p) => todo[t] # <<>> /\ Top(t).op \in {"addBlocked", "setBlocked"}
  BY DEF WaitAsked, Top
<1>2. WaitListed(t, s, p) => todo[t] # <<>> /\ Top(t).op = "block"
  BY DEF WaitListed, Top, OnSem
<1>3. WaitReturned(t, p) => todo[t] = <<>>
  BY DEF WaitReturned
<1>4. WaitBlocks(t, p) => todo[t] # <<>> /\ Top(t).op = "move"
  BY DEF WaitBlocks, Then, Top, MoveCopyTo
<1>5. WaitOver(t) => todo[t] # <<>> /\ Top(t).op = "unlock"
  BY DEF WaitOver, Then, Top, Unlocking
<1>6. SignalWakes(t, s, p) => todo[t] # <<>> /\ Top(t).op \in {"removeFirst", "setBlocked"}
  BY DEF SignalWakes, Then, Top, OnSem
<1>7. SignalMoves(t, p) => todo[t] # <<>> /\ Top(t).op = "move"
  BY DEF SignalMoves, Then, Top, MoveTo
<1>8. SignalAnswers(t) => todo[t] # <<>> /\ Top(t).op \in LightOp \cup {"dispatch", "signalled"}
  <2>1. \A m \in Light : m.op \in LightOp
    BY DEF Light, LightOp
  <2>2. Answering(todo[t]) => /\ todo[t] # <<>>
                              /\ Head(todo[t]) = Do("signalled") \/ Head(todo[t]) \in Light
    BY AnsweringStack
  <2>. QED  BY <2>1, <2>2 DEF SignalAnswers, Top, Running, Do
<1>. QED  BY <1>1, <1>2, <1>3, <1>4, <1>5, <1>6, <1>7, <1>8

\* The lists of waiters stay as they are when no list and no value changes and nobody
\* leaves BLOCK.
LEMMA ListsLeft ==
    ASSUME TypeOK, UNCHANGED <<semValue, blocked>>,
           \A p \in Pid : state[p] = "BLOCK" => state'[p] = "BLOCK"
    PROVE  /\ \A s \in Sem : OneMore(s) => OneMore(s)'
           /\ Even => Even'
           /\ WaitsOnce => WaitsOnce'
           /\ \A p : InBlockBut(p) => InBlockBut(p)'
           /\ Settled => Settled'
<1>1. \A s \in Sem : Deficit(s)' = Deficit(s)
  BY DEF Deficit
<1>2. \A p : InBlockBut(p) => InBlockBut(p)'
  <2>1. \A s \in Sem : \A i \in 1 .. Len(blocked[s]) : blocked[s][i] \in Pid
    BY ElementOfSeq DEF TypeOK, SemTypes
  <2>. QED  BY <2>1 DEF InBlockBut
<1>3. Even => Even'
  BY <1>1 DEF Even
<1>4. \A s \in Sem : OneMore(s) => OneMore(s)'
  BY <1>1 DEF OneMore
<1>5. WaitsOnce => WaitsOnce'
  BY DEF WaitsOnce
<1>. QED  BY <1>2, <1>3, <1>4, <1>5 DEF Settled

LeavesHolder(t) ==
    /\ todo'[t] = todo[t]
    /\ job'[t].locked = job[t].locked
    /\ At(t, "call") \/ job[t].locked => job'[t] = job[t]
    /\ UNCHANGED <<semValue, blocked>>
    /\ \A p \in Pid : state[p] = "BLOCK" => state'[p] = "BLOCK"

\* A step of another thread that touches neither lists, values nor waiters.
LEMMA HolderLeft ==
    ASSUME TypeOK, NEW t \in Thread, WithSems(t), LeavesHolder(t)
    PROVE  WithSems(t)'
<1> USE DEF LeavesHolder
<1>1. /\ \A s \in Sem : OneMore(s) => OneMore(s)'
      /\ Even => Even'
      /\ WaitsOnce => WaitsOnce'
      /\ \A p : InBlockBut(p) => InBlockBut(p)'
      /\ Settled => Settled'
  BY ListsLeft
<1>2. \A s \in Sem, p \in Pid : WaitAsked(t, s, p) => WaitAsked(t, s, p)'
  BY <1>1 DEF WaitAsked, At, OnSem, Queued
<1>3. \A s \in Sem, p \in Pid : WaitListed(t, s, p) => WaitListed(t, s, p)'
  BY <1>1 DEF WaitListed, At, OnSem
<1>4. \A p \in Pid : WaitReturned(t, p) => WaitReturned(t, p)'
  BY <1>1 DEF WaitReturned
<1>5. \A p \in Pid : WaitBlocks(t, p) => WaitBlocks(t, p)'
  BY <1>1 DEF WaitBlocks
<1>6. WaitOver(t) => WaitOver(t)'
  BY <1>1 DEF WaitOver
<1>7. \A s \in Sem, p \in Pid : SignalWakes(t, s, p) => SignalWakes(t, s, p)'
  BY <1>1 DEF SignalWakes, WithoutFirst
<1>8. \A p \in Pid : SignalMoves(t, p) => SignalMoves(t, p)'
  BY <1>1 DEF SignalMoves
<1>9. SignalAnswers(t) => SignalAnswers(t)'
  BY <1>1 DEF SignalAnswers, Running
<1>. QED
  BY <1>2, <1>3, <1>4, <1>5, <1>6, <1>7, <1>8, <1>9 DEF WithSems

\* A step of one thread keeps what SemsInv says of the others.
LEMMA SemsFrame ==
    ASSUME TypeOK, SemsInv, NEW t \in Thread,
           \A u \in Thread \ {t} : todo'[u] = todo[u],
           \A c \in Cpu \ {t} : job'[c].locked = job[c].locked,
           \A u \in Thread \ {t} : lock'["sems"] = u <=> lock["sems"] = u,
           \A u \in Thread \ {t} : lock["sems"] = u => LeavesHolder(u),
           IF lock'["sems"] = t THEN WithSems(t)' ELSE WithoutSems(t)',
           Free("sems")' => Settled'
    PROVE  SemsInv'
<1>1. ASSUME NEW u \in Thread \ {t}
      PROVE  IF lock'["sems"] = u THEN WithSems(u)' ELSE WithoutSems(u)'
  <2>1. CASE lock["sems"] = u
    BY <2>1, HolderLeft DEF SemsInv
  <2>2. CASE lock["sems"] # u
    <3>1. WithoutSems(u)
      BY <2>2 DEF SemsInv
    <3>2. todo'[u] = todo[u] /\ (u \in Cpu => job'[u].locked = job[u].locked)
      OBVIOUS
    <3>. QED  BY <2>2, <3>1, <3>2 DEF WithoutSems, Running, Top
  <2>. QED  BY <2>1, <2>2
<1>. QED  BY <1>1 DEF SemsInv
-----------------------------------------------------------------------------
(* Steps that move no process. *)

\* Processes stay in the hands they are in when no state and no CPU's process changes and
\* the thread that steps carries none back, and dispatches one only if it is READY.
LEMMA HandsFrame ==
    ASSUME InOneHand, NEW t \in Thread, UNCHANGED state,
           \A u \in Thread \ {t} : todo'[u] = todo[u],
           \A c \in Cpu : /\ Working(c)' <=> Working(c)
                          /\ job'[c].pid = job[c].pid /\ cpu'[c].xpid = cpu[c].xpid,
           \/ todo'[t] = todo[t]
           \/ ~CarriesBack(t)' /\ (Running(t, "dispatch")' => state[Top(t)'.pid] = "READY")
    PROVE  InOneHand'
<1>1. OneCpuPerProcess'
  BY DEF InOneHand, OneCpuPerProcess
<1>2. (\A c \in Cpu : Working(c) => cpu[c].xpid = job[c].pid)'
  BY DEF InOneHand
<1>3. ASSUME NEW u \in Thread, todo'[u] = todo[u]
      PROVE  /\ CarriesBack(u)' <=> CarriesBack(u)
             /\ Running(u, "dispatch")' <=> Running(u, "dispatch")
             /\ Top(u)' = Top(u)
  BY <1>3 DEF CarriesBack, Running, Top
<1>4. (\A u \in Thread : CarriesBack(u) =>
          /\ state[Top(u).pid] = "EXEC"
          /\ \A c \in Cpu : Working(c) => job[c].pid # Top(u).pid
          /\ \A v \in Thread \ {u} : CarriesBack(v) => Top(v).pid # Top(u).pid)'
  BY <1>3 DEF InOneHand
<1>5. (\A u \in Thread : Running(u, "dispatch") => state[Top(u).pid] = "READY")'
  BY <1>3 DEF InOneHand
<1>. QED  BY <1>1, <1>2, <1>4, <1>5 DEF InOneHand

LightStep(t) ==
    /\ \A u \in Thread \ {t} : todo'[u] = todo[u]
    /\ \/ /\ todo[t] # <<>> /\ Top(t) \in Light
          /\ \E calls \in Seq(Light) : todo'[t] = calls \o Tail(todo[t])
       \/ t = Menu /\ todo'[t] \in Seq(Light)
    /\ UNCHANGED <<list, state, exitCode, mailbox, replies, pending, semValue, blocked, cpu, job>>
    /\ lock'["sems"] = lock["sems"]

\* Who has sems_mutex is the thread of a CPU.
LEMMA HolderIsCpu ==
    ASSUME SemsInv, NEW t \in Thread, lock["sems"] = t
    PROVE  WithSems(t) /\ t \in Cpu /\ t # Menu
<1>1. WithSems(t) /\ t \in Cpu
  BY DEF SemsInv, WithSems
<1>. QED  BY <1>1, ThreadsAreDistinct

\* A call of planning or admission that is replaced by such calls changes nothing here.
LEMMA LightStepKeeps ==
    ASSUME TypeOK, TurnsInv, NEW t \in Thread, LightStep(t)
    PROVE  TurnsInv'
<1> USE DEF LightStep
<1>1. NothingEnds'
  BY DEF TurnsInv, NothingEnds, At
<1>2. \A u \in Thread \ {t} : lock["sems"] = u => LeavesHolder(u)
  BY DEF LeavesHolder
<1>3. ASSUME todo'[t] \in Seq(Light)
      PROVE  ~CarriesBack(t)' /\ ~Running(t, "dispatch")'
  BY <1>3, LightStack DEF CarriesBack, Running
<1>4. ASSUME Answering(todo'[t])
      PROVE  ~CarriesBack(t)' /\ ~Running(t, "dispatch")'
  <2>1. Head(todo'[t]) = Do("signalled") \/ Head(todo'[t]) \in Light
    BY <1>4, AnsweringStack
  <2>2. \A m \in Light : m.op \in LightOp
    BY DEF Light, LightOp
  <2>. QED  BY <2>1, <2>2 DEF CarriesBack, Running, Do, LightOp
<1>5. CASE lock["sems"] = t
  <2>1. WithSems(t) /\ t \in Cpu /\ t # Menu
    BY <1>5, HolderIsCpu DEF TurnsInv
  <2>2. Top(t).op \in LightOp
    BY <2>1 DEF Light, LightOp
  <2>3. SignalAnswers(t) /\ ~job[t].locked
    BY <2>1, <2>2, PhaseTops DEF WithSems, LightOp
  <2>4. Answering(todo[t])
    BY <2>2, <2>3 DEF SignalAnswers, Running, Top, LightOp
  <2>5. Answering(Tail(todo[t]))
    BY <2>2, <2>4, AnsweringStack DEF Top, LightOp, Do
  <2>6. Answering(todo'[t])
    BY <2>1, <2>5, AnsweringPush
  <2>7. Settled'
    BY <2>3, ListsLeft DEF SignalAnswers
  <2>8. WithSems(t)'
    BY <2>1, <2>3, <2>6, <2>7 DEF WithSems, SignalAnswers
  <2>9. SemsInv'
    <3>1. lock'["sems"] = t /\ ~Free("sems")'
      BY <1>5, ThreadsAreDistinct DEF Free, Thread
    <3>. QED  BY <1>2, <2>8, <3>1, SemsFrame DEF TurnsInv
  <2>10. InOneHand'
    BY <1>4, <2>6, HandsFrame DEF TurnsInv, Working
  <2>. QED  BY <1>1, <2>9, <2>10 DEF TurnsInv
<1>6. CASE lock["sems"] # t
  <2>1. WithoutSems(t)
    BY <1>6 DEF TurnsInv, SemsInv
  <2>2. todo'[t] \in Seq(Light)
    <3>1. CASE todo[t] # <<>> /\ Top(t) \in Light
      <4>1. Tail(todo[t]) \in Seq(Light)
        <5>1. CASE todo[t] \in Seq(Light)
          BY <3>1, <5>1, LightStack
        <5>2. CASE todo[t] \notin Seq(Light)
          BY <2>1, <5>2 DEF WithoutSems
        <5>. QED  BY <5>1, <5>2
      <4>. QED  BY <3>1, <4>1, ConcatProperties, ThreadsAreDistinct DEF LightStep
    <3>. QED  BY <3>1
  <2>3. WithoutSems(t)'
    BY <2>1, <2>2 DEF WithoutSems
  <2>4. Free("sems")' => Settled'
    BY ListsLeft DEF TurnsInv, SemsInv, Free
  <2>5. SemsInv'
    BY <1>2, <1>6, <2>3, <2>4, SemsFrame DEF TurnsInv
  <2>6. InOneHand'
    BY <1>3, <2>2, HandsFrame DEF TurnsInv, Working
  <2>. QED  BY <1>1, <2>5, <2>6 DEF TurnsInv
<1>. QED  BY <1>5, <1>6

\* Such a call returns or pushes others.
LEMMA LightCallKeeps ==
    ASSUME TypeOK, TurnsInv, NEW t \in Thread, todo[t] # <<>>, Top(t) \in Light,
           Return(t) \/ \E calls \in Seq(Light) : Call(t, calls),
           UNCHANGED <<list, state, exitCode, mailbox, replies, pending, semValue, blocked, cpu, job>>,
           lock'["sems"] = lock["sems"]
    PROVE  TurnsInv'
<1>1. \A u \in Thread \ {t} : todo'[u] = todo[u]
  BY DEF Return, Call, TypeOK
<1>2. \E calls \in Seq(Light) : todo'[t] = calls \o Tail(todo[t])
  <2>1. CASE Return(t)
    <3>1. Tail(todo[t]) \in Seq(Runnable)
      BY HeadTailProperties DEF TypeOK
    <3>2. <<>> \o Tail(todo[t]) = Tail(todo[t])
      BY <3>1, ConcatEmptySeq
    <3>3. todo'[t] = <<>> \o Tail(todo[t])
      BY <2>1, <3>2 DEF Return, TypeOK
    <3>4. <<>> \in Seq(Light)
      OBVIOUS
    <3>. QED  BY <3>3, <3>4
  <2>2. CASE \E calls \in Seq(Light) : Call(t, calls)
    BY <2>2 DEF Call, TypeOK
  <2>. QED  BY <2>1, <2>2
<1>3. LightStep(t)
  BY <1>1, <1>2 DEF LightStep
<1>. QED  BY <1>3, LightStepKeeps

\* A typed call with such a name is one of them.
LEMMA LightTop ==
    ASSUME TypeOK, NEW t \in Thread, NEW op \in LightOp, Running(t, op)
    PROVE  Top(t) \in Light /\ todo[t] # <<>>
<1>1. Top(t) \in Runnable /\ Top(t).op = op /\ todo[t] # <<>>
  BY TopIsTyped DEF Running
<1>2. Top(t) \in Light
  BY <1>1 DEF Runnable, Starts, Calls, Light, LightOp
<1>. QED  BY <1>1, <1>2

\* The calls that are made while nobody comes or goes.
LEMMA TopsWhileNobodyComes ==
    ASSUME TurnsInv, NEW t \in Thread, todo[t] # <<>>
    PROVE  Top(t).op \in LightOp \cup {"dispatch", "move", "unlock", "addBlocked", "setBlocked",
                                       "block", "removeFirst", "signalled"}
<1>1. CASE lock["sems"] = t
  BY <1>1, PhaseTops DEF TurnsInv, SemsInv, WithSems
<1>2. CASE lock["sems"] # t
  <2>1. WithoutSems(t)
    BY <1>2 DEF TurnsInv, SemsInv
  <2>2. CASE todo[t] \in Seq(Light)
    BY <2>2, LightStack DEF LightOp, Top
  <2>3. CASE todo[t] \notin Seq(Light)
    BY <2>1, <2>3 DEF WithoutSems, Running, MoveCopyTo, Top
  <2>. QED  BY <2>2, <2>3
<1>. QED  BY <1>1, <1>2

\* The steps of planning that choose nobody, and of admission.
LEMMA LightStepsKeep ==
    ASSUME TypeOK, TurnsInv, NEW t \in Thread,
           CheckRoom(t) \/ CheckFlagged(t) \/ SetFlag(t) \/ CheckNewList(t) \/ KillPendingProcess(t)
    PROVE  TurnsInv'
<1> USE DEF queueVars, startVars, roomVars, semVars, cpuVars, userVars
<1>1. CASE CheckRoom(t)
  <2>1. <<Do("checkNewList")>> \in Seq(Light)
    BY CommonLight
  <2>2. Return(t) \/ \E calls \in Seq(Light) : Call(t, calls)
    BY <1>1, <2>1 DEF CheckRoom
  <2>. QED  BY <1>1, <2>2, LightTop, LightCallKeeps DEF CheckRoom, LightOp
<1>2. CASE CheckFlagged(t)
  <2>1. <<Do("clearFlag"), Do("checkNewList")>> \in Seq(Light)
    BY CommonLight
  <2>2. Return(t) \/ \E calls \in Seq(Light) : Call(t, calls)
    BY <1>2, <2>1 DEF CheckFlagged
  <2>. QED  BY <1>2, <2>2, LightTop, LightCallKeeps DEF CheckFlagged, LightOp
<1>3. CASE SetFlag(t)
  <2>1. ~Running(t, "setFlag")
    BY TopsWhileNobodyComes DEF Running, Top, LightOp
  <2>. QED  BY <1>3, <2>1, LightTop, LightCallKeeps DEF SetFlag, LightOp
<1>4. CASE CheckNewList(t)
  <2>1. Return(t)
    BY <1>4 DEF CheckNewList, TurnsInv, NothingEnds
  <2>. QED  BY <1>4, <2>1, LightTop, LightCallKeeps DEF CheckNewList, LightOp
<1>5. CASE KillPendingProcess(t)
  <2>1. Top(t).i \in Nat \ {0} /\ Len(pending) = 0
    BY <1>5, TopIsTyped, CallFields DEF KillPendingProcess, TurnsInv, NothingEnds
  <2>2. Return(t)
    BY <1>5, <2>1 DEF KillPendingProcess
  <2>. QED  BY <1>5, <2>2, LightTop, LightCallKeeps DEF KillPendingProcess, LightOp
<1>. QED  BY <1>1, <1>2, <1>3, <1>4, <1>5

\* The menu pauses planning, goes on with it, and changes the degree of multiprogramming.
LEMMA MenuKeeps ==
    ASSUME TypeOK, TurnsInv,
           DoStopPlanification \/ \E m \in Multiprogs : DoChangeMultiprogramming(m)
    PROVE  TurnsInv'
<1> USE DEF queueVars, startVars, roomVars, semVars, cpuVars, userVars
<1>1. Menu \in Thread /\ <<Do("checkRoom")>> \in Seq(Light) /\ <<>> \in Seq(Light)
  BY CommonLight DEF Thread
<1>2. \E calls \in Seq(Light) : Receive(Menu, calls)
  BY <1>1, CommonLight DEF DoStopPlanification, DoChangeMultiprogramming
<1>3. LightStep(Menu)
  BY <1>1, <1>2 DEF LightStep, Receive, TypeOK, DoStopPlanification, DoChangeMultiprogramming
<1>. QED  BY <1>1, <1>3, LightStepKeeps
-----------------------------------------------------------------------------
(* Planning and dispatching. *)

\* The process that short_planning chooses is READY.
LEMMA PlanKeepsTurns ==
    ASSUME TypeOK, ListsInStep, TurnsInv, NEW t \in Thread, Plan(t)
    PROVE  TurnsInv'
<1> USE DEF queueVars, startVars, roomVars, semVars, cpuVars, userVars
<1>1. Running(t, "plan") /\ Top(t) \in Light /\ todo[t] # <<>> /\ Top(t).op = "plan"
  BY LightTop DEF Plan, LightOp, Running, Top
<1>2. CASE Return(t) /\ UNCHANGED lock
  BY <1>1, <1>2, LightCallKeeps DEF Plan
<1>3. CASE /\ list["READY"] # <<>> /\ Acquire("planning", t)
           /\ \E c \in FreeCpus :
                 Call(t, <<[op |-> "dispatch", pid |-> Head(list["READY"]), cpu |-> c]>>)
  <2>1. PICK c \in FreeCpus :
           Call(t, <<[op |-> "dispatch", pid |-> Head(list["READY"]), cpu |-> c]>>)
    BY <1>3
  <2> DEFINE p == Head(list["READY"])
             d == [op |-> "dispatch", pid |-> p, cpu |-> c]
             rest == Tail(todo[t])
  <2>2. state[p] = "READY"
    <3>1. "READY" \in State /\ list["READY"] \in Seq(Pid)
      BY DEF State, TypeOK, QueueTypes
    <3>2. p \in Pid /\ Holds(list["READY"], p)
      BY <1>3, <3>1, HeadTailProperties, LenProperties DEF Holds
    <3>. QED  BY <3>1, <3>2 DEF ListsInStep
  <2>3. todo'[t] = <<d>> \o rest /\ rest \in Seq(Runnable)
    BY <1>1, <2>1, HeadTailProperties DEF Call, TypeOK
  <2>4. d.op = "dispatch" /\ d.pid = p
    OBVIOUS
  <2>. HIDE DEF d, p
  <2>5. todo'[t] # <<>> /\ Head(todo'[t]) = d /\ Tail(todo'[t]) = rest
    BY <2>3, PushedOnTop
  <2>6. /\ \A u \in Thread \ {t} : todo'[u] = todo[u]
        /\ lock'["sems"] = lock["sems"]
        /\ UNCHANGED <<list, state, exitCode, mailbox, replies, pending, semValue, blocked, cpu, job>>
    BY <1>3, <2>1 DEF Plan, Call, Acquire, TypeOK, Lock
  <2>7. Running(t, "dispatch")' /\ Top(t)' = d
    BY <2>4, <2>5 DEF Running, Top
  <2>8. InOneHand'
    BY <2>2, <2>4, <2>6, <2>7, HandsFrame DEF TurnsInv, CarriesBack, Running, Working
  <2>9. NothingEnds'
    BY <2>6 DEF TurnsInv, NothingEnds, At
  <2>10. SemsInv'
    <3>1. \A u \in Thread \ {t} : lock["sems"] = u => LeavesHolder(u)
      BY <2>6 DEF LeavesHolder
    <3>2. Settled => Settled'
      BY <2>6, ListsLeft
    <3>3. CASE lock["sems"] = t
      <4>1. WithSems(t) /\ t \in Cpu
        BY <3>3, HolderIsCpu DEF TurnsInv
      <4>2. SignalAnswers(t) /\ ~job[t].locked
        BY <1>1, <4>1, PhaseTops DEF WithSems
      <4>3. Answering(rest)
        BY <1>1, <4>2, AnsweringStack DEF SignalAnswers, Running, Top, Do
      <4>4. WithSems(t)'
        BY <2>5, <2>6, <2>7, <3>2, <4>1, <4>2, <4>3 DEF WithSems, SignalAnswers
      <4>5. lock'["sems"] = t /\ ~Free("sems")'
        BY <2>6, <3>3, ThreadsAreDistinct DEF Free, Thread
      <4>. QED  BY <2>6, <3>1, <4>4, <4>5, SemsFrame DEF TurnsInv
    <3>4. CASE lock["sems"] # t
      <4>1. WithoutSems(t)
        BY <3>4 DEF TurnsInv, SemsInv
      <4>2. todo[t] \in Seq(Light)
        BY <1>1, <4>1 DEF WithoutSems, Running, MoveCopyTo, Top
      <4>3. rest \in Seq(Light)
        BY <1>1, <4>2, LightStack
      <4>4. WithoutSems(t)'
        BY <2>5, <2>6, <2>7, <4>1, <4>3 DEF WithoutSems
      <4>5. Free("sems")' => Settled'
        BY <2>6, <3>2 DEF TurnsInv, SemsInv, Free
      <4>. QED  BY <2>6, <3>1, <3>4, <4>4, <4>5, SemsFrame DEF TurnsInv
    <3>. QED  BY <3>3, <3>4
  <2>. QED  BY <2>8, <2>9, <2>10 DEF TurnsInv
<1>. QED  BY <1>2, <1>3 DEF Plan

\* A READY process is in no hand, and the CPU that gets it executes nothing.
LEMMA DispatchKeepsTurns ==
    ASSUME TypeOK, DispatchInv, TurnsInv, NEW t \in Thread, Dispatch(t)
    PROVE  TurnsInv'
<1> USE DEF queueVars, startVars, roomVars, semVars, cpuVars, userVars
<1> DEFINE p == Top(t).pid
           d == Top(t).cpu
           rest == Tail(todo[t])
<1>1. Running(t, "dispatch") /\ p \in Pid /\ d \in Cpu /\ rest \in Seq(Runnable)
  BY TopIsTyped, CallFields DEF Dispatch
<1>2. lock["planning"] = t /\ ~Working(d) /\ state[p] = "READY"
  BY <1>1 DEF DispatchInv, ChosenCpuIsFree, FreeCpuIsIdle, TurnsInv, InOneHand
<1>3. \A u \in Thread \ {t} : ~Running(u, "dispatch") /\ todo'[u] = todo[u]
  BY <1>2 DEF DispatchInv, ChosenCpuIsFree, Dispatch, Call, TypeOK
<1>4. todo'[t] = ShortPlanning \o rest
  BY DEF Dispatch, Call, TypeOK
<1>5. /\ state' = [state EXCEPT ![p] = "EXEC"]
      /\ list' = [list EXCEPT !["READY"] = RemoveFirst(@, p), !["EXEC"] = Append(@, p)]
  BY <1>2 DEF Dispatch, Relist, ListOf, MoveTo
<1>6. /\ cpu' = [cpu EXCEPT ![d] = [busy |-> TRUE, xpid |-> p]]
      /\ job' = [job EXCEPT ![d] = Turn(p)]
      /\ lock' = [lock EXCEPT !["planning"] = None]
      /\ UNCHANGED <<exitCode, mailbox, replies, pending, semValue, blocked>>
  BY DEF Dispatch, Release
<1>. HIDE DEF p, d, rest
<1>7. /\ state'[p] = "EXEC" /\ \A q \in Pid \ {p} : state'[q] = state[q]
      /\ list'["NEW"] = list["NEW"]
  BY <1>1, <1>5 DEF TypeOK, QueueTypes, State
<1>8. /\ cpu'[d].xpid = p /\ job'[d] = Turn(p)
      /\ \A c \in Cpu \ {d} : cpu'[c] = cpu[c] /\ job'[c] = job[c]
      /\ lock'["sems"] = lock["sems"]
  BY <1>1, <1>6 DEF TypeOK, CpuTypes, Lock
<1>9. /\ Turn(p).pid = p /\ Turn(p).at = "ask" /\ Turn(p).status = "none"
      /\ Turn(p).finished = FALSE /\ Turn(p).locked = FALSE
  BY DEF Turn
<1>10. job[d].locked = FALSE
  BY <1>1, <1>2 DEF TurnsInv, NothingEnds, Working, At, TypeOK, CpuTypes, Turns
<1>11. NothingEnds'
  <2>1. \A c \in Cpu : /\ job'[c].status = "none" /\ job'[c].finished = job'[c].locked
                       /\ job'[c].locked => At(c, "done")'
    BY <1>8, <1>9 DEF TurnsInv, NothingEnds, At
  <2>. QED  BY <1>6, <1>7, <2>1 DEF TurnsInv, NothingEnds
<1>12. SemsInv' /\ ~CarriesBack(t)' /\ ~Running(t, "dispatch")'
  <2>1. Settled => Settled'
    BY <1>2, <1>6, <1>7, ListsLeft
  <2>2. \A u \in Thread \ {t} : lock["sems"] = u => LeavesHolder(u)
    <3>1. ASSUME NEW u \in Cpu \ {t}
          PROVE  /\ job'[u].locked = job[u].locked
                 /\ At(u, "call") \/ job[u].locked => job'[u] = job[u]
      <4>1. CASE u = d
        BY <1>2, <1>8, <1>9, <1>10, <4>1 DEF Working, At
      <4>2. CASE u # d
        BY <1>8, <4>2
      <4>. QED  BY <4>1, <4>2
    <3>2. \A q \in Pid : state[q] = "BLOCK" => state'[q] = "BLOCK"
      BY <1>2, <1>7
    <3>. QED  BY <1>3, <1>6, <3>1, <3>2, HolderIsCpu DEF LeavesHolder, TurnsInv
  <2>3. \A c \in Cpu : job'[c].locked = job[c].locked
    BY <1>8, <1>9, <1>10
  <2>4. CASE lock["sems"] = t
    <3>1. WithSems(t) /\ t \in Cpu
      BY <2>4, HolderIsCpu DEF TurnsInv
    <3>2. SignalAnswers(t) /\ ~job[t].locked
      BY <1>1, <3>1, PhaseTops DEF WithSems, Running, Top
    <3>3. Answering(rest)
      <4>1. ~Answering(todo[t])
        <5>1. \A m \in Light : m.op # "dispatch"
          BY DEF Light
        <5>. QED  BY <1>1, <5>1, AnsweringStack DEF Running, Do
      <4>. QED  BY <3>2, <4>1 DEF SignalAnswers, rest
    <3>4. Answering(todo'[t])
      BY <1>4, <3>3, AnsweringPush, CommonLight
    <3>5. WithSems(t)'
      BY <2>1, <2>3, <3>1, <3>2, <3>4 DEF WithSems, SignalAnswers
    <3>6. lock'["sems"] = t /\ ~Free("sems")'
      BY <1>8, <2>4, ThreadsAreDistinct DEF Free, Thread
    <3>7. ~CarriesBack(t)' /\ ~Running(t, "dispatch")'
      <4>1. \A m \in Light : m.op \notin {"dispatch", "move"}
        BY DEF Light
      <4>. QED  BY <3>4, <4>1, AnsweringStack DEF CarriesBack, Running, Do
    <3>. QED  BY <1>3, <1>8, <2>2, <2>3, <3>5, <3>6, <3>7, SemsFrame DEF TurnsInv
  <2>5. CASE lock["sems"] # t
    <3>1. WithoutSems(t)
      BY <2>5 DEF TurnsInv, SemsInv
    <3>2. todo[t] \notin Seq(Light)
      BY <1>1, LightStack DEF Running
    <3>3. rest \in Seq(Light)
      BY <3>1, <3>2 DEF WithoutSems, rest
    <3>4. todo'[t] \in Seq(Light)
      BY <1>4, <3>3, CommonLight, ConcatProperties
    <3>5. WithoutSems(t)'
      BY <2>3, <3>1, <3>4 DEF WithoutSems
    <3>6. Free("sems")' => Settled'
      BY <1>8, <2>1 DEF TurnsInv, SemsInv, Free
    <3>7. ~CarriesBack(t)' /\ ~Running(t, "dispatch")'
      BY <3>4, LightStack DEF CarriesBack, Running
    <3>. QED  BY <1>3, <1>8, <2>2, <2>3, <2>5, <3>5, <3>6, <3>7, SemsFrame DEF TurnsInv
  <2>. QED  BY <2>4, <2>5
<1>13. InOneHand'
  <2>1. ASSUME NEW c \in Cpu, Working(c)'
        PROVE  /\ state'[job'[c].pid] = "EXEC" /\ cpu'[c].xpid = job'[c].pid
               /\ c # d => Working(c) /\ job'[c].pid = job[c].pid /\ job[c].pid # p
               /\ c = d => job'[c].pid = p
    <3>1. CASE c = d
      BY <1>7, <1>8, <1>9, <3>1
    <3>2. CASE c # d
      <4>1. job'[c] = job[c] /\ cpu'[c] = cpu[c] /\ Working(c)
        BY <1>8, <2>1, <3>2 DEF Working
      <4>2. state[job[c].pid] = "EXEC" /\ cpu[c].xpid = job[c].pid
        BY <4>1 DEF TurnsInv, InOneHand, OneCpuPerProcess
      <4>3. job[c].pid \in Pid
        BY <4>1 DEF Working, At, TypeOK, CpuTypes
      <4>. QED  BY <1>2, <1>7, <3>2, <4>1, <4>2, <4>3
    <3>. QED  BY <3>1, <3>2
  <2>2. OneCpuPerProcess'
    <3>1. ASSUME NEW c \in Cpu, NEW e \in Cpu \ {c}, Working(c)', Working(e)'
          PROVE  job'[e].pid # job'[c].pid
      BY <2>1, <3>1 DEF TurnsInv, InOneHand, OneCpuPerProcess
    <3>. QED  BY <2>1, <3>1 DEF OneCpuPerProcess
  <2>3. ASSUME NEW u \in Thread, CarriesBack(u)'
        PROVE  /\ u # t /\ CarriesBack(u) /\ Top(u)' = Top(u) /\ Top(u).pid \in Pid
               /\ Top(u).pid # p
    <3>1. u # t
      BY <1>12, <2>3
    <3>2. CarriesBack(u) /\ Top(u)' = Top(u)
      BY <1>3, <2>3, <3>1 DEF CarriesBack, Running, Top
    <3>3. Top(u).pid \in Pid
      BY <3>2, TopIsTyped, CallFields DEF CarriesBack
    <3>4. state[Top(u).pid] = "EXEC"
      BY <3>2 DEF TurnsInv, InOneHand
    <3>. QED  BY <1>2, <3>1, <3>2, <3>3, <3>4
  <2>4. (\A u \in Thread : CarriesBack(u) =>
            /\ state[Top(u).pid] = "EXEC"
            /\ \A c \in Cpu : Working(c) => job[c].pid # Top(u).pid
            /\ \A v \in Thread \ {u} : CarriesBack(v) => Top(v).pid # Top(u).pid)'
    <3> SUFFICES ASSUME NEW u \in Thread, CarriesBack(u)'
                 PROVE  /\ state'[Top(u)'.pid] = "EXEC"
                        /\ \A c \in Cpu : Working(c)' => job'[c].pid # Top(u)'.pid
                        /\ \A v \in Thread \ {u} : CarriesBack(v)' => Top(v)'.pid # Top(u)'.pid
      OBVIOUS
    <3>1. /\ u # t /\ CarriesBack(u) /\ Top(u)' = Top(u) /\ Top(u).pid \in Pid
          /\ Top(u).pid # p
      BY <2>3
    <3>2. /\ state[Top(u).pid] = "EXEC"
          /\ \A c \in Cpu : Working(c) => job[c].pid # Top(u).pid
          /\ \A v \in Thread \ {u} : CarriesBack(v) => Top(v).pid # Top(u).pid
      BY <3>1 DEF TurnsInv, InOneHand
    <3>3. \A c \in Cpu : Working(c)' => job'[c].pid # Top(u)'.pid
      BY <2>1, <3>1, <3>2
    <3>. QED  BY <1>7, <2>3, <3>1, <3>2, <3>3
  <2>5. (\A u \in Thread : Running(u, "dispatch") => state[Top(u).pid] = "READY")'
    BY <1>3, <1>12 DEF Running
  <2>. QED  BY <2>1, <2>2, <2>4, <2>5 DEF InOneHand
<1>. QED  BY <1>11, <1>12, <1>13 DEF TurnsInv
-----------------------------------------------------------------------------
(* Steps of the thread with sems_mutex. *)

\* It goes on with it.
LEMMA HolderKeeps ==
    ASSUME TypeOK, TurnsInv, NEW t \in Thread, lock["sems"] = t, lock'["sems"] = t,
           \A u \in Thread \ {t} : todo'[u] = todo[u],
           \A c \in Cpu \ {t} : job'[c].locked = job[c].locked,
           WithSems(t)'
    PROVE  SemsInv'
<1>1. ~Free("sems")'
  BY ThreadsAreDistinct DEF Free, Thread
<1>2. \A u \in Thread \ {t} : lock'["sems"] # u /\ lock["sems"] # u
  OBVIOUS
<1>. QED  BY <1>1, <1>2, SemsFrame DEF TurnsInv

\* It unlocks it.
LEMMA HolderEnds ==
    ASSUME TypeOK, TurnsInv, NEW t \in Thread, lock["sems"] = t, lock'["sems"] = None,
           \A u \in Thread \ {t} : todo'[u] = todo[u],
           \A c \in Cpu \ {t} : job'[c].locked = job[c].locked,
           WithoutSems(t)', Settled'
    PROVE  SemsInv'
<1>1. \A u \in Thread : lock'["sems"] # u
  BY ThreadsAreDistinct DEF Thread
<1>. QED  BY <1>1, SemsFrame DEF TurnsInv

\* Another thread does something else.
LEMMA OtherSteps ==
    ASSUME TypeOK, TurnsInv, NEW t \in Thread, lock["sems"] # t, lock'["sems"] = lock["sems"],
           \A u \in Thread \ {t} : todo'[u] = todo[u],
           \A c \in Cpu \ {t} : job'[c] = job[c],
           UNCHANGED <<semValue, blocked>>,
           \A p \in Pid : state[p] = "BLOCK" => state'[p] = "BLOCK",
           WithoutSems(t)'
    PROVE  SemsInv'
<1>1. \A u \in Thread \ {t} : lock["sems"] = u => LeavesHolder(u)
  BY HolderIsCpu DEF LeavesHolder, TurnsInv
<1>2. Free("sems")' => Settled'
  BY ListsLeft DEF TurnsInv, SemsInv, Free
<1>. QED  BY <1>1, <1>2, SemsFrame DEF TurnsInv

\* A thread locks it when it is free.
LEMMA TakesSems ==
    ASSUME TypeOK, TurnsInv, NEW t \in Thread, Free("sems"), lock'["sems"] = t,
           \A u \in Thread \ {t} : todo'[u] = todo[u],
           \A c \in Cpu \ {t} : job'[c].locked = job[c].locked,
           WithSems(t)'
    PROVE  SemsInv'
<1>1. ~Free("sems")' /\ \A u \in Thread : lock["sems"] # u
  BY ThreadsAreDistinct DEF Free, Thread
<1>. QED  BY <1>1, SemsFrame DEF TurnsInv

\* The mutex that is unlocked is sems_mutex, when the wait is over.
LEMMA UnlockKeepsTurns ==
    ASSUME TypeOK, TurnsInv, NEW t \in Thread, Unlock(t)
    PROVE  TurnsInv'
<1> USE DEF queueVars, startVars, roomVars, semVars, cpuVars, userVars
<1>1. todo[t] # <<>> /\ Top(t).op = "unlock"
  BY DEF Unlock, Running, Top
<1>2. lock["sems"] = t
  <2>1. ASSUME WithoutSems(t)
        PROVE  FALSE
    <3>1. todo[t] \notin Seq(Light)
      BY <1>1, LightStack DEF Top
    <3>. QED  BY <1>1, <2>1, <3>1 DEF WithoutSems, Running, Top, MoveCopyTo
  <2>. QED  BY <2>1 DEF TurnsInv, SemsInv
<1>3. WithSems(t) /\ t \in Cpu
  BY <1>2, HolderIsCpu DEF TurnsInv
<1>4. WaitOver(t) /\ ~job[t].locked
  BY <1>1, <1>3, PhaseTops DEF WithSems, LightOp
<1>5. /\ todo'[t] \in Seq(Light)
      /\ \A u \in Thread \ {t} : todo'[u] = todo[u]
      /\ lock'["sems"] = None
      /\ UNCHANGED <<list, state, exitCode, mailbox, replies, pending, semValue, blocked, cpu, job>>
  BY <1>4 DEF Unlock, Return, Release, TypeOK, WaitOver, Then, Unlocking, Top, Lock
<1>6. WithoutSems(t)'
  BY <1>4, <1>5 DEF WithoutSems
<1>7. Settled'
  BY <1>4, <1>5, ListsLeft DEF WaitOver
<1>8. SemsInv'
  BY <1>2, <1>5, <1>6, <1>7, HolderEnds
<1>9. ~CarriesBack(t)' /\ ~Running(t, "dispatch")'
  BY <1>5, LightStack DEF CarriesBack, Running
<1>10. InOneHand'
  BY <1>5, <1>9, HandsFrame DEF TurnsInv, Working
<1>11. NothingEnds'
  BY <1>5 DEF TurnsInv, NothingEnds, At
<1>. QED  BY <1>8, <1>10, <1>11 DEF TurnsInv

\* Only the thread with sems_mutex makes the calls that touch the lists of waiters.
LEMMA HolderCalls ==
    ASSUME TurnsInv, NEW t \in Thread, todo[t] # <<>>,
           Top(t).op \in {"addBlocked", "setBlocked", "removeFirst", "block", "signalled"}
    PROVE  lock["sems"] = t /\ WithSems(t) /\ t \in Cpu
<1>1. ASSUME WithoutSems(t)
      PROVE  FALSE
  <2>1. todo[t] \notin Seq(Light)
    BY LightStack DEF Top
  <2>. QED  BY <1>1, <2>1 DEF WithoutSems, Running, Top, MoveCopyTo
<1>2. lock["sems"] = t
  BY <1>1 DEF TurnsInv, SemsInv
<1>. QED  BY <1>2, HolderIsCpu DEF TurnsInv
-----------------------------------------------------------------------------
(* The lists of waiters. *)

\* The call on top is replaced by one that is not a move and dispatches nobody.
LEMMA ListStepHands ==
    ASSUME TypeOK, TurnsInv, NEW t \in Thread, lock["sems"] = t,
           UNCHANGED <<list, state, exitCode, mailbox, replies, pending, cpu, job, lock>>,
           \A u \in Thread \ {t} : todo'[u] = todo[u],
           ~CarriesBack(t)', ~Running(t, "dispatch")', WithSems(t)'
    PROVE  TurnsInv'
<1>1. InOneHand'
  BY HandsFrame DEF TurnsInv, Working
<1>2. NothingEnds'
  BY DEF TurnsInv, NothingEnds, At
<1>3. SemsInv'
  BY HolderKeeps
<1>. QED  BY <1>1, <1>2, <1>3 DEF TurnsInv

\* add_blocked_process reads the list that cpu_wait_sem stores.
LEMMA AddBlockedKeepsTurns ==
    ASSUME TypeOK, TurnsInv, NEW t \in Thread, AddBlockedProcess(t)
    PROVE  TurnsInv'
<1> USE DEF queueVars, startVars, roomVars, semVars, cpuVars, userVars
<1>1. todo[t] # <<>> /\ Top(t).op = "addBlocked"
  BY DEF AddBlockedProcess, Running, Top
<1>2. lock["sems"] = t /\ WithSems(t) /\ t \in Cpu
  BY <1>1, HolderCalls
<1>3. PICK s \in Sem, p \in Pid : WaitAsked(t, s, p) /\ ~job[t].locked
  BY <1>1, <1>2, PhaseTops DEF WithSems, LightOp
<1>4. todo[t] = <<[op |-> "addBlocked", pid |-> p, sem |-> s], OnSem("block", s)>>
  BY <1>1, <1>3 DEF WaitAsked, Top
<1> DEFINE m == [op |-> "setBlocked", sem |-> s, pids |-> Queued(blocked[s], p)]
<1>5. /\ todo'[t] = <<m, OnSem("block", s)>>
      /\ \A u \in Thread \ {t} : todo'[u] = todo[u]
  <2>1. Top(t).sem = s /\ Top(t).pid = p /\ Tail(todo[t]) = <<OnSem("block", s)>>
    BY <1>4 DEF Top
  <2>2. Call(t, <<m>>)
    BY <2>1 DEF AddBlockedProcess
  <2>3. todo'[t] = <<m>> \o <<OnSem("block", s)>> /\ \A u \in Thread \ {t} : todo'[u] = todo[u]
    BY <2>1, <2>2 DEF Call, TypeOK
  <2>. QED  BY <2>3, TwoCalls
<1>6. UNCHANGED <<list, state, exitCode, mailbox, replies, pending, semValue, blocked, cpu, job, lock>>
  BY DEF AddBlockedProcess
<1>7. Settled'
  BY <1>3, <1>6, ListsLeft DEF WaitAsked
<1>8. WaitAsked(t, s, p)'
  BY <1>3, <1>5, <1>6, <1>7 DEF WaitAsked, At, OnSem, Queued
<1>9. WithSems(t)'
  BY <1>2, <1>3, <1>6, <1>8 DEF WithSems
<1>10. ~CarriesBack(t)' /\ ~Running(t, "dispatch")'
  BY <1>5 DEF CarriesBack, Running
<1>. QED  BY <1>2, <1>5, <1>6, <1>9, <1>10, ListStepHands

\* remove_first reads the list that cpu_signal_sem stores.
LEMMA RemoveFirstKeepsTurns ==
    ASSUME TypeOK, TurnsInv, NEW t \in Thread, RemoveFirstBlocked(t)
    PROVE  TurnsInv'
<1> USE DEF queueVars, startVars, roomVars, semVars, cpuVars, userVars
<1>1. todo[t] # <<>> /\ Top(t).op = "removeFirst"
  BY DEF RemoveFirstBlocked, Running, Top
<1>2. lock["sems"] = t /\ WithSems(t) /\ t \in Cpu
  BY <1>1, HolderCalls
<1>3. PICK s \in Sem, p \in Pid : SignalWakes(t, s, p) /\ ~job[t].locked
  BY <1>1, <1>2, PhaseTops DEF WithSems, LightOp
<1>4. Top(t) = OnSem("removeFirst", s)
  BY <1>1, <1>3 DEF SignalWakes, Then, Top
<1> DEFINE m == [op |-> "setBlocked", sem |-> s, pids |-> WithoutFirst(blocked[s])]
           rest == Tail(todo[t])
<1>5. rest \in Seq(Runnable)
  BY <1>1, HeadTailProperties DEF TypeOK
<1>6. /\ todo'[t] = <<m>> \o rest
      /\ \A u \in Thread \ {t} : todo'[u] = todo[u]
  <2>1. Top(t).sem = s
    BY <1>4 DEF OnSem
  <2>2. Call(t, <<m>>)
    BY <2>1 DEF RemoveFirstBlocked
  <2>. QED  BY <2>2 DEF Call, TypeOK
<1>7. m.op = "setBlocked"
  OBVIOUS
<1>8. UNCHANGED <<list, state, exitCode, mailbox, replies, pending, semValue, blocked, cpu, job, lock>>
  BY DEF RemoveFirstBlocked
<1>9. m' = m
  BY <1>8 DEF WithoutFirst
<1>. HIDE DEF m
<1>10. todo'[t] # <<>> /\ Head(todo'[t]) = m /\ Tail(todo'[t]) = rest
  BY <1>5, <1>6, PushedOnTop
<1>. HIDE DEF rest
<1>11. OneMore(s)' /\ WaitsOnce' /\ InBlockBut(None)'
  BY <1>3, <1>8, ListsLeft DEF SignalWakes
<1>12. SignalWakes(t, s, p)'
  BY <1>3, <1>8, <1>9, <1>10, <1>11 DEF SignalWakes, Then, rest, m
<1>13. WithSems(t)'
  BY <1>2, <1>3, <1>8, <1>12 DEF WithSems
<1>14. ~CarriesBack(t)' /\ ~Running(t, "dispatch")'
  BY <1>7, <1>10 DEF CarriesBack, Running
<1>. QED  BY <1>2, <1>6, <1>8, <1>13, <1>14, ListStepHands

\* A process that is not in BLOCK joins a list: it has one waiter more than its value says.
LEMMA ListGrows ==
    ASSUME TypeOK, Settled, NEW s \in Sem, NEW p \in Pid, semValue[s] <= 0, state[p] # "BLOCK",
           blocked' = [blocked EXCEPT ![s] = Append(blocked[s], p)], UNCHANGED <<semValue, state>>
    PROVE  OneMore(s)' /\ WaitsOnce' /\ InBlockBut(p)'
<1> DEFINE n == Len(blocked[s])
           L == blocked'[s]
<1>1. blocked \in [Sem -> Seq(Pid)] /\ semValue \in [Sem -> Int]
  BY DEF TypeOK, SemTypes
<1>2. \A r \in Sem \ {s} : blocked'[r] = blocked[r]
  BY <1>1
<1>3. n \in Nat /\ Len(L) = n + 1 /\ L[n + 1] = p /\ \A i \in 1 .. n : L[i] = blocked[s][i]
  BY <1>1, LenProperties, AppendProperties
<1>. HIDE DEF n, L
<1>4. \A r \in Sem : \A i \in 1 .. Len(blocked[r]) :
          blocked[r][i] \in Pid /\ state[blocked[r][i]] = "BLOCK" /\ blocked[r][i] # p
  <2>1. \A r \in Sem : \A i \in 1 .. Len(blocked[r]) : blocked[r][i] \in Pid
    BY <1>1, ElementOfSeq
  <2>2. None \notin Pid
    BY ThreadsAreDistinct
  <2>. QED  BY <2>1, <2>2 DEF Settled, InBlockBut
<1>5. OneMore(s)'
  <2>1. n = -semValue[s] /\ \A r \in Sem \ {s} : Len(blocked[r]) = Deficit(r)
    BY <1>1 DEF Settled, Even, Deficit, n
  <2>2. \A r \in Sem : Deficit(r)' = Deficit(r)
    BY DEF Deficit
  <2>3. Len(blocked'[s]) = 1 - semValue'[s]
    BY <1>1, <1>3, <2>1 DEF L
  <2>. QED  BY <1>2, <2>1, <2>2, <2>3 DEF OneMore
\* an entry of the new list is an entry of the old one or the last
<1>6. \A r \in Sem : \A i \in 1 .. Len(blocked'[r]) :
          \/ i \in 1 .. Len(blocked[r]) /\ blocked'[r][i] = blocked[r][i]
          \/ r = s /\ i = n + 1 /\ blocked'[r][i] = p
  <2>1. \A i \in 1 .. n + 1 : i \in 1 .. n \/ i = n + 1
    BY <1>3
  <2>. QED  BY <1>2, <1>3, <2>1 DEF n, L
<1>7. WaitsOnce'
  <2>1. ASSUME NEW r \in Sem, NEW q \in Sem, NEW i \in 1 .. Len(blocked'[r]),
               NEW k \in 1 .. Len(blocked'[q]), blocked'[r][i] = blocked'[q][k]
        PROVE  r = q /\ i = k
    <3>1. \/ i \in 1 .. Len(blocked[r]) /\ blocked'[r][i] = blocked[r][i]
          \/ r = s /\ i = n + 1 /\ blocked'[r][i] = p
      BY <1>6
    <3>2. \/ k \in 1 .. Len(blocked[q]) /\ blocked'[q][k] = blocked[q][k]
          \/ q = s /\ k = n + 1 /\ blocked'[q][k] = p
      BY <1>6
    <3>. QED  BY <1>4, <2>1, <3>1, <3>2 DEF Settled, WaitsOnce
  <2>. QED  BY <2>1 DEF WaitsOnce
<1>8. InBlockBut(p)'
  BY <1>4, <1>6 DEF InBlockBut
<1>. QED  BY <1>5, <1>7, <1>8

\* Its first leaves it: it has as many waiters as its value says, and the first waits no more.
LEMMA ListShrinks ==
    ASSUME TypeOK, NEW s \in Sem, NEW p \in Pid, blocked[s] # <<>>, Head(blocked[s]) = p,
           OneMore(s), WaitsOnce, InBlockBut(None),
           blocked' = [blocked EXCEPT ![s] = Tail(blocked[s])], UNCHANGED <<semValue, state>>
    PROVE  /\ Settled' /\ state[p] = "BLOCK"
           /\ \A r \in Sem : \A i \in 1 .. Len(blocked'[r]) : blocked'[r][i] # p
<1> DEFINE n == Len(blocked[s])
           L == blocked'[s]
<1>1. blocked \in [Sem -> Seq(Pid)] /\ semValue \in [Sem -> Int]
  BY DEF TypeOK, SemTypes
<1>2. \A r \in Sem \ {s} : blocked'[r] = blocked[r]
  BY <1>1
<1>3. /\ n \in Nat \ {0} /\ Len(L) = n - 1 /\ blocked[s][1] = p
      /\ \A i \in 1 .. n - 1 : L[i] = blocked[s][i + 1]
  <2>1. blocked[s] \in Seq(Pid) /\ blocked[s] # <<>> /\ L = Tail(blocked[s])
    BY <1>1
  <2>. HIDE DEF L
  <2>2. n \in Nat /\ n # 0 /\ Head(blocked[s]) = blocked[s][1]
    BY <2>1, EmptySeq, HeadTailProperties, LenProperties
  <2>. QED  BY <2>1, <2>2, HeadTailProperties
<1>. HIDE DEF n, L
<1>4. \A r \in Sem : \A i \in 1 .. Len(blocked[r]) :
          blocked[r][i] \in Pid /\ state[blocked[r][i]] = "BLOCK"
  <2>1. \A r \in Sem : \A i \in 1 .. Len(blocked[r]) : blocked[r][i] \in Pid
    BY <1>1, ElementOfSeq
  <2>2. None \notin Pid
    BY ThreadsAreDistinct
  <2>. QED  BY <2>1, <2>2 DEF InBlockBut
<1>5. 1 \in 1 .. n /\ \A i \in 1 .. n - 1 : i + 1 \in 1 .. n /\ i + 1 # 1
  BY <1>3
<1>6. state[p] = "BLOCK"
  BY <1>3, <1>4, <1>5 DEF n
<1>7. Even'
  <2>1. n = 1 - semValue[s] /\ semValue[s] <= 0 /\ \A r \in Sem \ {s} : Len(blocked[r]) = Deficit(r)
    BY DEF OneMore, n
  <2>2. \A r \in Sem : Deficit(r)' = Deficit(r)
    BY DEF Deficit
  <2>3. Len(blocked'[s]) = Deficit(s)
    BY <1>1, <1>3, <2>1 DEF L, Deficit
  <2>. QED  BY <1>2, <2>1, <2>2, <2>3 DEF Even
\* an entry of the new list is one of the old but its first
<1>8. \A r \in Sem : \A i \in 1 .. Len(blocked'[r]) :
          LET k == IF r = s THEN i + 1 ELSE i
          IN  k \in 1 .. Len(blocked[r]) /\ blocked'[r][i] = blocked[r][k] /\ ~(r = s /\ k = 1)
  BY <1>2, <1>3, <1>5 DEF n, L
<1>9. \A r \in Sem : \A i \in 1 .. Len(blocked'[r]) : blocked'[r][i] # p
  BY <1>3, <1>5, <1>8 DEF WaitsOnce, n
<1>10. WaitsOnce'
  <2>1. ASSUME NEW r \in Sem, NEW q \in Sem, NEW i \in 1 .. Len(blocked'[r]),
               NEW k \in 1 .. Len(blocked'[q]), blocked'[r][i] = blocked'[q][k]
        PROVE  r = q /\ i = k
    BY <1>8, <2>1 DEF WaitsOnce
  <2>. QED  BY <2>1 DEF WaitsOnce
<1>11. InBlockBut(None)'
  BY <1>4, <1>8 DEF InBlockBut
<1>. QED  BY <1>6, <1>7, <1>9, <1>10, <1>11 DEF Settled

\* cpu_wait_sem stores the list with the caller at its end, cpu_signal_sem the list without
\* its first.
LEMMA SetBlockedKeepsTurns ==
    ASSUME TypeOK, TurnsInv, NEW t \in Thread, SetBlocked(t)
    PROVE  /\ TurnsInv'
           /\ \E s \in Sem, p \in Pid :
                 \/ /\ blocked' = [blocked EXCEPT ![s] = Append(blocked[s], p)]
                    /\ semValue[s] <= 0 /\ Settled /\ state[p] # "BLOCK"
                 \/ /\ blocked' = [blocked EXCEPT ![s] = Tail(blocked[s])]
                    /\ semValue[s] <= 0 /\ blocked[s] # <<>>
<1> USE DEF queueVars, startVars, roomVars, semVars, cpuVars, userVars
<1>1. todo[t] # <<>> /\ Top(t).op = "setBlocked"
  BY DEF SetBlocked, Running, Top
<1>2. lock["sems"] = t /\ WithSems(t) /\ t \in Cpu
  BY <1>1, HolderCalls
<1>3. PICK s \in Sem, p \in Pid : (WaitAsked(t, s, p) \/ SignalWakes(t, s, p)) /\ ~job[t].locked
  BY <1>1, <1>2, PhaseTops DEF WithSems, LightOp
<1>4. /\ UNCHANGED <<list, state, exitCode, mailbox, replies, pending, semValue, cpu, job, lock>>
      /\ todo'[t] = Tail(todo[t])
      /\ \A u \in Thread \ {t} : todo'[u] = todo[u]
      /\ blocked' = [blocked EXCEPT ![Top(t).sem] = Top(t).pids]
  BY DEF SetBlocked, Return, TypeOK
<1>5. CASE WaitAsked(t, s, p)
  <2>1. /\ Top(t).sem = s /\ Top(t).pids = Append(blocked[s], p)
        /\ Tail(todo[t]) = <<OnSem("block", s)>>
    <3> DEFINE a == [op |-> "addBlocked", pid |-> p, sem |-> s]
               m == [op |-> "setBlocked", sem |-> s, pids |-> Queued(blocked[s], p)]
    <3>1. todo[t] = <<a, OnSem("block", s)>> \/ todo[t] = <<m, OnSem("block", s)>>
      BY <1>5 DEF WaitAsked
    <3>2. a.op = "addBlocked" /\ m.sem = s /\ m.pids = Append(blocked[s], p)
      BY DEF Queued
    <3>. HIDE DEF a, m
    <3>3. todo[t] = <<m, OnSem("block", s)>>
      BY <1>1, <3>1, <3>2 DEF Top
    <3>. QED  BY <3>2, <3>3 DEF Top
  <2>2. state[p] # "BLOCK"
    BY <1>2, <1>5 DEF WaitAsked, At, TurnsInv, InOneHand, OneCpuPerProcess, Working
  <2>3. blocked' = [blocked EXCEPT ![s] = Append(blocked[s], p)]
    BY <1>4, <2>1
  <2>4. OneMore(s)' /\ WaitsOnce' /\ InBlockBut(p)'
    BY <1>4, <1>5, <2>2, <2>3, ListGrows DEF WaitAsked
  <2>5. WaitListed(t, s, p)'
    BY <1>4, <1>5, <2>1, <2>4 DEF WaitAsked, WaitListed, At, OnSem
  <2>6. WithSems(t)'
    BY <1>2, <1>3, <1>4, <2>5 DEF WithSems
  <2>7. ~CarriesBack(t)' /\ ~Running(t, "dispatch")'
    <3>1. todo'[t] = <<OnSem("block", s)>>
      BY <1>4, <2>1
    <3>2. Head(todo'[t]).op = "block"
      BY <3>1 DEF OnSem
    <3>. QED  BY <3>2 DEF CarriesBack, Running
  <2>8. TurnsInv'
    BY <1>2, <1>4, <2>6, <2>7, ListStepHands
  <2>. QED  BY <1>5, <2>2, <2>3, <2>8 DEF WaitAsked
<1>6. CASE SignalWakes(t, s, p)
  <2>1. /\ Top(t).sem = s /\ Top(t).pids = Tail(blocked[s])
        /\ Then(Tail(todo[t]), MoveTo(p, "READY")) /\ Answering(Tail(Tail(todo[t])))
    <3> DEFINE m == [op |-> "setBlocked", sem |-> s, pids |-> WithoutFirst(blocked[s])]
    <3>1. m.sem = s /\ m.pids = WithoutFirst(blocked[s])
      OBVIOUS
    <3>2. OnSem("removeFirst", s).op = "removeFirst"
      BY DEF OnSem
    <3>3. Then(todo[t], OnSem("removeFirst", s)) \/ Then(todo[t], m)
      BY <1>6 DEF SignalWakes
    <3>. HIDE DEF m
    <3>4. Top(t) = m
      BY <1>1, <3>2, <3>3 DEF Then, Top
    <3>. QED  BY <1>6, <3>1, <3>4 DEF SignalWakes, WithoutFirst
  <2>2. blocked' = [blocked EXCEPT ![s] = Tail(blocked[s])]
    BY <1>4, <2>1
  <2>3. /\ Settled' /\ state[p] = "BLOCK"
        /\ \A r \in Sem : \A i \in 1 .. Len(blocked'[r]) : blocked'[r][i] # p
    BY <1>4, <1>6, <2>2, ListShrinks DEF SignalWakes
  <2>4. SignalMoves(t, p)'
    BY <1>4, <2>1, <2>3 DEF SignalMoves
  <2>5. WithSems(t)'
    BY <1>2, <1>3, <1>4, <2>4 DEF WithSems
  <2>6. ~CarriesBack(t)' /\ ~Running(t, "dispatch")'
    BY <1>4, <2>1 DEF CarriesBack, Running, Then, MoveTo, Top
  <2>7. TurnsInv'
    BY <1>2, <1>4, <2>5, <2>6, ListStepHands
  <2>. QED  BY <1>6, <2>2, <2>7 DEF SignalWakes, OneMore
<1>. QED  BY <1>3, <1>5, <1>6
-----------------------------------------------------------------------------
(* What the CPUs do in their turns. *)

\* The turn of a CPU goes on with the same process.
LEMMA TurnHands ==
    ASSUME TypeOK, TurnsInv, NEW c \in Cpu, NEW j, job' = [job EXCEPT ![c] = j],
           Working(c), j.pid = job[c].pid, j.at # "idle", j.status = "none",
           j.finished = j.locked, j.locked => j.at = "done",
           UNCHANGED <<list, state, exitCode, mailbox, replies, pending, cpu>>,
           \A u \in Thread \ {c} : todo'[u] = todo[u],
           todo'[c] = todo[c] \/ (~CarriesBack(c)' /\ ~Running(c, "dispatch")')
    PROVE  NothingEnds' /\ InOneHand'
<1>1. job'[c] = j /\ \A d \in Cpu \ {c} : job'[d] = job[d]
  BY DEF TypeOK, CpuTypes
<1>2. NothingEnds'
  BY <1>1 DEF TurnsInv, NothingEnds, At
<1>3. \A d \in Cpu : (Working(d)' <=> Working(d)) /\ job'[d].pid = job[d].pid
  BY <1>1 DEF Working
<1>4. c \in Thread
  BY DEF Thread
<1>5. InOneHand'
  BY <1>3, <1>4, HandsFrame DEF TurnsInv
<1>. QED  BY <1>2, <1>5

\* It makes no request meanwhile.
LEMMA TurnSems ==
    ASSUME TypeOK, TurnsInv, NEW c \in Cpu, NEW j, job' = [job EXCEPT ![c] = j],
           ~At(c, "call"), ~job[c].locked, ~j.locked, j.locked \in BOOLEAN,
           UNCHANGED <<state, semValue, blocked, todo>>, lock'["sems"] = lock["sems"]
    PROVE  SemsInv'
<1>1. job'[c] = j /\ \A d \in Cpu \ {c} : job'[d] = job[d]
  BY DEF TypeOK, CpuTypes
<1>2. c \in Thread /\ job[c].locked \in BOOLEAN
  BY DEF Thread, TypeOK, CpuTypes, Turns
<1>3. \A d \in Cpu : job'[d].locked = job[d].locked
  BY <1>1, <1>2
<1>4. \A u \in Thread : lock["sems"] = u => LeavesHolder(u)
  BY <1>1, <1>3, HolderIsCpu DEF LeavesHolder, TurnsInv
<1>5. lock["sems"] = c => WithSems(c)'
  BY <1>2, <1>4, HolderLeft, HolderIsCpu DEF TurnsInv
<1>6. lock["sems"] # c => WithoutSems(c)'
  BY <1>2, <1>3 DEF TurnsInv, SemsInv, WithoutSems, Running, Top
<1>7. Free("sems")' => Settled'
  BY ListsLeft DEF TurnsInv, SemsInv, Free
<1>. QED  BY <1>2, <1>3, <1>4, <1>5, <1>6, <1>7, SemsFrame DEF TurnsInv

\* The flags of a turn after an instruction.
LEMMA ExecutedFlags ==
    ASSUME NEW j \in Turns
    PROVE  /\ Executed(j).pid = j.pid /\ Executed(j).status = j.status
           /\ Executed(j).finished = j.finished /\ Executed(j).locked = j.locked
           /\ Executed(j).at \in {"ask", "done"}
           /\ j.finished => Executed(j).at = "done"
BY DEF Executed, Turns

\* A CPU that is no longer at its request has not locked sems_mutex.
LEMMA NotLocked ==
    ASSUME TypeOK, TurnsInv, NEW c \in Cpu, ~At(c, "done")
    PROVE  /\ job[c] \in Turns /\ job[c].status = "none"
           /\ job[c].finished = FALSE /\ job[c].locked = FALSE
BY DEF TurnsInv, NothingEnds, TypeOK, CpuTypes, Turns

\* A thread that waits for a message has not locked it either, but for cpu_wait_sem.
LEMMA ListeningSems ==
    ASSUME TypeOK, TurnsInv, NEW c \in Cpu, Listening(c)
    PROVE  /\ c \in Thread
           /\ lock["sems"] = c <=> job[c].locked
           /\ job[c].locked => \E p \in Pid : WaitReturned(c, p)
<1>1. c \in Thread
  BY DEF Thread
<1>2. lock["sems"] = c => \E p \in Pid : WaitReturned(c, p)
  BY <1>1, HolderIsCpu, PhaseTops DEF TurnsInv, WithSems, Listening
<1>3. job[c].locked => lock["sems"] = c
  BY <1>1 DEF TurnsInv, SemsInv, WithoutSems
<1>. QED  BY <1>1, <1>2, <1>3 DEF WaitReturned

\* Nobody has been aborted, so the CPU goes on.
LEMMA HasAbortedKeepsTurns ==
    ASSUME TypeOK, TurnsInv, NEW c \in Cpu, CpuHasAborted(c)
    PROVE  TurnsInv'
<1> USE DEF queueVars, startVars, roomVars, semVars, cpuVars, userVars
<1> DEFINE j == [job[c] EXCEPT !.status = "none", !.at = "run"]
<1>1. At(c, "ask") /\ Working(c) /\ job[c].pid \in Pid
  BY DEF CpuHasAborted, At, Working, TypeOK, CpuTypes
<1>2. exitCode[job[c].pid] = "none"
  BY <1>1 DEF TurnsInv, NothingEnds
<1>3. job' = [job EXCEPT ![c] = j]
  BY <1>2 DEF CpuHasAborted, TypeOK, CpuTypes
<1>4. /\ job[c] \in Turns /\ job[c].finished = FALSE /\ job[c].locked = FALSE
  BY <1>1, NotLocked DEF At
<1>5. /\ j.pid = job[c].pid /\ j.at = "run" /\ j.status = "none"
      /\ j.finished = FALSE /\ j.locked = FALSE
  BY <1>4 DEF Turns
<1>6. UNCHANGED <<list, state, exitCode, mailbox, replies, pending, cpu, semValue, blocked, todo, lock>>
  BY DEF CpuHasAborted
<1>. HIDE DEF j
<1>7. NothingEnds' /\ InOneHand'
  BY <1>1, <1>3, <1>5, <1>6, TurnHands
<1>8. SemsInv'
  BY <1>1, <1>3, <1>4, <1>5, <1>6, TurnSems DEF At
<1>. QED  BY <1>7, <1>8 DEF TurnsInv

\* An instruction that asks the kernel nothing.
LEMMA ExecuteStepKeepsTurns ==
    ASSUME TypeOK, TurnsInv, NEW c \in Cpu, ExecuteStep(c)
    PROVE  TurnsInv'
<1> USE DEF queueVars, startVars, roomVars, semVars, cpuVars, userVars
<1> DEFINE j == Executed(job[c])
<1>1. At(c, "run") /\ Working(c)
  BY DEF ExecuteStep, At, Working
<1>2. job' = [job EXCEPT ![c] = j]
  BY DEF ExecuteStep, TypeOK, CpuTypes
<1>3. /\ job[c] \in Turns /\ job[c].status = "none"
      /\ job[c].finished = FALSE /\ job[c].locked = FALSE
  BY <1>1, NotLocked DEF At
<1>4. /\ j.pid = job[c].pid /\ j.at \in {"ask", "done"} /\ j.status = "none"
      /\ j.finished = FALSE /\ j.locked = FALSE
  BY <1>3, ExecutedFlags
<1>5. UNCHANGED <<list, state, exitCode, mailbox, replies, pending, cpu, semValue, blocked, todo, lock>>
  BY DEF ExecuteStep
<1>. HIDE DEF j
<1>6. NothingEnds' /\ InOneHand'
  BY <1>1, <1>2, <1>4, <1>5, TurnHands
<1>7. SemsInv'
  BY <1>1, <1>2, <1>3, <1>4, <1>5, TurnSems DEF At
<1>. QED  BY <1>6, <1>7 DEF TurnsInv

\* A value that stays at 0 or above leaves the lists as settled as they were.
LEMMA PermitsChange ==
    ASSUME TypeOK, Settled, NEW s \in Sem, NEW v \in Int, semValue[s] >= 0, v >= 0,
           semValue' = [semValue EXCEPT ![s] = v], UNCHANGED <<blocked, state>>
    PROVE  Settled'
<1>1. /\ semValue'[s] = v /\ \A r \in Sem \ {s} : semValue'[r] = semValue[r]
      /\ semValue[s] \in Int
  BY DEF TypeOK, SemTypes
<1>2. \A r \in Sem : Deficit(r)' = Deficit(r)
  <2>1. Deficit(s)' = 0 /\ Deficit(s) = 0
    BY <1>1 DEF Deficit
  <2>. QED  BY <1>1, <2>1 DEF Deficit
<1>. QED  BY <1>2 DEF Settled, Even, WaitsOnce, InBlockBut

\* cpu_wait_sem takes a permit.
LEMMA WaitSemKeepsTurns ==
    ASSUME TypeOK, TurnsInv, NEW c \in Cpu, NEW s \in Sem, CpuWaitSem(c, s)
    PROVE  TurnsInv'
<1> USE DEF queueVars, startVars, roomVars, semVars, cpuVars, userVars
<1> DEFINE j == Executed(job[c])
<1>1. At(c, "run") /\ Working(c) /\ Free("sems") /\ Listening(c)
  BY DEF CpuWaitSem, At, Working
<1>2. job' = [job EXCEPT ![c] = j]
  BY DEF CpuWaitSem, TypeOK, CpuTypes
<1>3. /\ job[c] \in Turns /\ job[c].status = "none"
      /\ job[c].finished = FALSE /\ job[c].locked = FALSE
  BY <1>1, NotLocked DEF At
<1>4. /\ j.pid = job[c].pid /\ j.at \in {"ask", "done"} /\ j.status = "none"
      /\ j.finished = FALSE /\ j.locked = FALSE
  BY <1>3, ExecutedFlags
<1>5. UNCHANGED <<list, state, exitCode, mailbox, replies, pending, cpu, blocked, todo, lock>>
  BY DEF CpuWaitSem
<1>. HIDE DEF j
<1>6. NothingEnds' /\ InOneHand'
  BY <1>1, <1>2, <1>4, <1>5, TurnHands
<1>7. Settled'
  <2>1. semValue' = [semValue EXCEPT ![s] = semValue[s] - 1]
        /\ semValue[s] \in Int /\ semValue[s] > 0
    BY DEF CpuWaitSem, TypeOK, SemTypes
  <2>2. semValue[s] - 1 \in Int /\ semValue[s] - 1 >= 0 /\ semValue[s] >= 0
    BY <2>1
  <2>. QED  BY <1>1, <1>5, <2>1, <2>2, PermitsChange DEF TurnsInv, SemsInv
<1>8. job'[c] = j /\ \A d \in Cpu \ {c} : job'[d] = job[d]
  BY <1>2 DEF TypeOK, CpuTypes
<1>9. c \in Thread /\ (\A u \in Thread : lock["sems"] # u) /\ lock'["sems"] = lock["sems"]
  BY <1>1, <1>5, ThreadsAreDistinct DEF Free, Thread
<1>10. WithoutSems(c)'
  BY <1>3, <1>4, <1>5, <1>8, <1>9 DEF TurnsInv, SemsInv, WithoutSems, Running, Top
<1>11. SemsInv'
  BY <1>5, <1>7, <1>8, <1>9, <1>10, SemsFrame DEF TurnsInv
<1>. QED  BY <1>6, <1>11 DEF TurnsInv

\* cpu_wait_sem finds none: the kernel knows which process the CPU executes, and has it in
\* EXEC, so it joins the list.
LEMMA WaitSemBusyKeepsTurns ==
    ASSUME TypeOK, TurnsInv, NEW c \in Cpu, NEW s \in Sem, CpuWaitSemBusy(c, s)
    PROVE  TurnsInv'
<1> USE DEF queueVars, startVars, roomVars, semVars, cpuVars, userVars
<1> DEFINE p == job[c].pid
           j == [job[c] EXCEPT !.at = "call"]
           a == [op |-> "addBlocked", pid |-> p, sem |-> s]
<1>1. At(c, "run") /\ Working(c) /\ Free("sems") /\ Listening(c) /\ semValue[s] <= 0
  BY DEF CpuWaitSemBusy, At, Working
<1>2. p \in Pid /\ cpu[c].xpid = p /\ state[p] = "EXEC"
  BY <1>1 DEF At, TypeOK, CpuTypes, TurnsInv, InOneHand, OneCpuPerProcess
<1>3. job' = [job EXCEPT ![c] = j]
  BY DEF CpuWaitSemBusy, TypeOK, CpuTypes
<1>4. /\ job[c] \in Turns /\ job[c].status = "none"
      /\ job[c].finished = FALSE /\ job[c].locked = FALSE
  BY <1>1, NotLocked DEF At
<1>5. /\ j.pid = p /\ j.at = "call" /\ j.status = "none"
      /\ j.finished = FALSE /\ j.locked = FALSE
  BY <1>4 DEF Turns
<1>6. /\ UNCHANGED <<list, state, exitCode, mailbox, replies, pending, cpu, semValue, blocked>>
      /\ lock' = [lock EXCEPT !["sems"] = c]
  BY DEF CpuWaitSemBusy, Acquire
<1>7. c \in Thread /\ todo'[c] = <<a, OnSem("block", s)>> /\ \A u \in Thread \ {c} : todo'[u] = todo[u]
  BY <1>2 DEF CpuWaitSemBusy, Receive, TypeOK, Thread
<1>8. job'[c] = j /\ \A d \in Cpu \ {c} : job'[d] = job[d]
  BY <1>3 DEF TypeOK, CpuTypes
<1>9. a.op = "addBlocked"
  OBVIOUS
<1>. HIDE DEF j
<1>10. NothingEnds' /\ InOneHand'
  <2>1. ~CarriesBack(c)' /\ ~Running(c, "dispatch")'
    BY <1>7, <1>9 DEF CarriesBack, Running
  <2>. QED  BY <1>1, <1>3, <1>5, <1>6, <1>7, <2>1, TurnHands
<1>11. Settled'
  BY <1>1, <1>6, ListsLeft DEF TurnsInv, SemsInv
<1>12. WaitAsked(c, s, p)'
  BY <1>1, <1>5, <1>6, <1>7, <1>8, <1>11 DEF WaitAsked, At, OnSem
<1>13. WithSems(c)'
  BY <1>2, <1>5, <1>8, <1>12 DEF WithSems
<1>14. lock'["sems"] = c /\ \A d \in Cpu \ {c} : job'[d].locked = job[d].locked
  BY <1>6, <1>8 DEF TypeOK, Lock
<1>15. SemsInv'
  BY <1>1, <1>7, <1>13, <1>14, TakesSems
<1>. QED  BY <1>10, <1>15 DEF TurnsInv

\* The end of that cpu_wait_sem counts the caller as a waiter and returns with sems_mutex.
LEMMA BlockCallerKeepsTurns ==
    ASSUME TypeOK, TurnsInv, NEW c \in Cpu, BlockCaller(c)
    PROVE  /\ TurnsInv'
           /\ \E s \in Sem : semValue[s] <= 0 /\ semValue' = [semValue EXCEPT ![s] = semValue[s] - 1]
<1> USE DEF queueVars, startVars, roomVars, semVars, cpuVars, userVars
<1> DEFINE i == [job[c] EXCEPT !.finished = TRUE, !.locked = TRUE]
           j == Executed(i)
<1>1. todo[c] # <<>> /\ Top(c).op = "block" /\ At(c, "call") /\ Working(c) /\ c \in Thread
  BY DEF BlockCaller, Running, Top, At, Working, Thread
<1>2. lock["sems"] = c /\ WithSems(c)
  BY <1>1, HolderCalls
<1>3. PICK s \in Sem, p \in Pid : WaitListed(c, s, p)
  BY <1>1, <1>2, PhaseTops DEF WithSems, LightOp
<1>4. todo[c] = <<OnSem("block", s)>> /\ Top(c).sem = s
  BY <1>3 DEF WaitListed, Top, OnSem
<1>5. job' = [job EXCEPT ![c] = j]
  BY DEF BlockCaller, TypeOK, CpuTypes
<1>6. job[c] \in Turns /\ job[c].status = "none"
  BY <1>1, NotLocked DEF At
<1>7. /\ i \in Turns /\ i.pid = job[c].pid /\ i.status = "none"
      /\ i.finished = TRUE /\ i.locked = TRUE
  BY <1>6 DEF Turns
<1>. HIDE DEF i
<1>8. /\ j.pid = job[c].pid /\ j.at = "done" /\ j.status = "none"
      /\ j.finished = TRUE /\ j.locked = TRUE
  BY <1>7, ExecutedFlags
<1>. HIDE DEF j
<1>9. /\ UNCHANGED <<list, state, exitCode, mailbox, replies, pending, cpu, blocked, lock>>
      /\ semValue' = [semValue EXCEPT ![s] = semValue[s] - 1]
  BY <1>4 DEF BlockCaller
<1>10. todo'[c] = <<>> /\ \A u \in Thread \ {c} : todo'[u] = todo[u]
  BY <1>1, <1>4 DEF BlockCaller, Return, TypeOK
<1>11. job'[c] = j /\ \A d \in Cpu \ {c} : job'[d] = job[d]
  BY <1>5 DEF TypeOK, CpuTypes
<1>12. NothingEnds' /\ InOneHand'
  <2>1. ~CarriesBack(c)' /\ ~Running(c, "dispatch")'
    BY <1>10 DEF CarriesBack, Running
  <2>. QED  BY <1>1, <1>5, <1>8, <1>9, <1>10, <2>1, TurnHands
<1>13. Even' /\ semValue[s] <= 0
  <2>1. /\ semValue[s] <= 0 /\ Len(blocked[s]) = 1 - semValue[s]
        /\ \A r \in Sem \ {s} : Len(blocked[r]) = Deficit(r)
    BY <1>3 DEF WaitListed, OneMore
  <2>2. /\ semValue[s] \in Int /\ semValue'[s] = semValue[s] - 1
        /\ \A r \in Sem \ {s} : semValue'[r] = semValue[r]
    BY <1>9 DEF TypeOK, SemTypes
  <2>3. Deficit(s)' = 1 - semValue[s] /\ \A r \in Sem \ {s} : Deficit(r)' = Deficit(r)
    BY <2>1, <2>2 DEF Deficit
  <2>. QED  BY <1>9, <2>1, <2>3 DEF Even
<1>14. WaitsOnce' /\ InBlockBut(p)'
  BY <1>3, <1>9 DEF WaitListed, WaitsOnce, InBlockBut
<1>15. WaitReturned(c, p)'
  BY <1>3, <1>8, <1>10, <1>11, <1>13, <1>14 DEF WaitReturned, WaitListed
<1>16. WithSems(c)'
  BY <1>15 DEF WithSems
<1>17. SemsInv'
  BY <1>1, <1>2, <1>9, <1>10, <1>11, <1>16, HolderKeeps
<1>. QED  BY <1>9, <1>12, <1>13, <1>17 DEF TurnsInv

\* cpu_signal_sem gives a permit, or is about to wake the first waiter.
LEMMA SignalSemKeepsTurns ==
    ASSUME TypeOK, TurnsInv, NEW c \in Cpu, NEW s \in Sem, CpuSignalSem(c, s)
    PROVE  /\ TurnsInv'
           /\ Settled
           /\ semValue' = [semValue EXCEPT ![s] = semValue[s] + 1]
<1> USE DEF queueVars, startVars, roomVars, semVars, cpuVars, userVars
<1> DEFINE p == Head(blocked[s])
           j == [job[c] EXCEPT !.at = "call"]
<1>1. At(c, "run") /\ Working(c) /\ Free("sems") /\ Listening(c) /\ c \in Thread
  BY DEF CpuSignalSem, At, Working, Thread
<1>2. job' = [job EXCEPT ![c] = j]
  BY DEF CpuSignalSem, TypeOK, CpuTypes
<1>3. /\ job[c] \in Turns /\ job[c].status = "none"
      /\ job[c].finished = FALSE /\ job[c].locked = FALSE
  BY <1>1, NotLocked DEF At
<1>4. /\ j.pid = job[c].pid /\ j.at = "call" /\ j.status = "none"
      /\ j.finished = FALSE /\ j.locked = FALSE
  BY <1>3 DEF Turns
<1>5. /\ UNCHANGED <<list, state, exitCode, mailbox, replies, pending, cpu, blocked>>
      /\ lock' = [lock EXCEPT !["sems"] = c]
      /\ semValue' = [semValue EXCEPT ![s] = semValue[s] + 1]
  BY DEF CpuSignalSem, Acquire, TypeOK, SemTypes
<1>6. \A u \in Thread \ {c} : todo'[u] = todo[u]
  BY DEF CpuSignalSem, Receive, TypeOK
<1>7. job'[c] = j /\ \A d \in Cpu \ {c} : job'[d] = job[d]
  BY <1>2 DEF TypeOK, CpuTypes
<1>. HIDE DEF j
<1>8. Settled
  BY <1>1 DEF TurnsInv, SemsInv
<1>9. /\ semValue[s] \in Int /\ semValue'[s] = semValue[s] + 1
      /\ \A r \in Sem \ {s} : semValue'[r] = semValue[r]
      /\ blocked[s] \in Seq(Pid)
  BY <1>5 DEF TypeOK, SemTypes
<1>10. lock'["sems"] = c /\ \A d \in Cpu \ {c} : job'[d].locked = job[d].locked
  BY <1>5, <1>7 DEF TypeOK, Lock
<1>11. ASSUME WithSems(c)', ~CarriesBack(c)', ~Running(c, "dispatch")'
       PROVE  TurnsInv'
  <2>1. NothingEnds' /\ InOneHand'
    BY <1>1, <1>2, <1>4, <1>5, <1>6, <1>11, TurnHands
  <2>2. SemsInv'
    BY <1>1, <1>6, <1>10, <1>11, TakesSems
  <2>. QED  BY <2>1, <2>2 DEF TurnsInv
<1>12. CASE blocked[s] = <<>>
  <2>1. todo'[c] = <<Do("signalled")>>
    BY <1>1, <1>12 DEF CpuSignalSem, FirstIsBlocked, Receive, TypeOK
  <2>2. Answering(todo'[c])
    BY <2>1, CommonLight
  <2>3. semValue[s] >= 0
    <3>1. Deficit(s) = 0
      BY <1>8, <1>12 DEF Settled, Even
    <3>. QED  BY <1>9, <3>1 DEF Deficit
  <2>4. Settled'
    <3>1. semValue[s] + 1 \in Int /\ semValue[s] + 1 >= 0
      BY <1>9, <2>3
    <3>. QED  BY <1>5, <1>8, <2>3, <3>1, PermitsChange
  <2>5. WithSems(c)'
    BY <1>4, <1>7, <2>2, <2>4 DEF WithSems, SignalAnswers
  <2>6. ~CarriesBack(c)' /\ ~Running(c, "dispatch")'
    BY <2>1 DEF CarriesBack, Running, Do
  <2>. QED  BY <1>5, <1>8, <1>11, <2>5, <2>6
<1>13. CASE blocked[s] # <<>>
  <2>1. p \in Pid /\ state[p] = "BLOCK"
    <3>1. p \in Pid /\ 1 \in 1 .. Len(blocked[s]) /\ p = blocked[s][1]
      BY <1>9, <1>13, HeadTailProperties, EmptySeq, LenProperties
    <3>2. p # None
      BY <3>1, ThreadsAreDistinct
    <3>. QED  BY <1>8, <3>1, <3>2 DEF Settled, InBlockBut
  <2> DEFINE a == OnSem("removeFirst", s)
             b == MoveTo(p, "READY")
             rest == ShortPlanning \o <<Do("signalled")>>
  <2>2. a.op = "removeFirst"
    BY DEF OnSem
  <2>3. Answering(rest)
    BY AnsweringPush, CommonLight
  <2>4. todo'[c] = <<a>> \o (<<b>> \o rest) /\ rest \in Seq(Runnable) /\ b \in Runnable
    <3>1. todo'[c] = (<<a, b>> \o ShortPlanning) \o <<Do("signalled")>>
      BY <1>1, <1>13, <2>1 DEF CpuSignalSem, FirstIsBlocked, WakeFirst, Receive, TypeOK
    <3>2. /\ a \in Runnable /\ b \in Runnable /\ Do("signalled") \in Runnable
          /\ ShortPlanning \in Seq(Runnable)
      BY <2>1, CommonCallsTyped DEF State
    <3>3. /\ <<a, b>> \in Seq(Runnable) /\ <<Do("signalled")>> \in Seq(Runnable)
          /\ rest \in Seq(Runnable)
      BY <3>2, ConcatProperties
    <3>. HIDE DEF a, b
    <3>4. (<<a, b>> \o ShortPlanning) \o <<Do("signalled")>> = <<a, b>> \o rest
      BY <3>2, <3>3, ConcatAssociative
    <3>. HIDE DEF rest
    <3>5. <<a, b>> \o rest = <<a>> \o (<<b>> \o rest)
      BY <3>3, TwoPushed
    <3>. QED  BY <3>1, <3>2, <3>3, <3>4, <3>5
  <2>. HIDE DEF a, b, rest
  <2>5. <<b>> \o rest \in Seq(Runnable)
    BY <2>4, ConcatProperties
  <2>6. /\ todo'[c] # <<>> /\ Head(todo'[c]) = a /\ Tail(todo'[c]) = <<b>> \o rest
        /\ Then(Tail(todo'[c]), b) /\ Tail(Tail(todo'[c])) = rest
    BY <2>4, <2>5, PushedOnTop DEF Then
  <2>7. OneMore(s)' /\ WaitsOnce' /\ InBlockBut(None)'
    <3>1. /\ Len(blocked[s]) # 0 /\ Len(blocked[s]) = Deficit(s)
          /\ \A r \in Sem : Len(blocked[r]) = Deficit(r)
      BY <1>8, <1>9, <1>13, EmptySeq DEF Settled, Even
    <3>2. semValue[s] < 0 /\ Len(blocked[s]) = -semValue[s]
      BY <1>9, <3>1 DEF Deficit
    <3>3. \A r \in Sem \ {s} : Deficit(r)' = Deficit(r)
      BY <1>9 DEF Deficit
    <3>4. semValue'[s] <= 0 /\ Len(blocked'[s]) = 1 - semValue'[s]
      BY <1>5, <1>9, <3>2
    <3>5. OneMore(s)'
      BY <1>5, <3>1, <3>3, <3>4 DEF OneMore
    <3>. QED  BY <1>5, <1>8, <3>5 DEF Settled, WaitsOnce, InBlockBut
  <2>8. SignalWakes(c, s, p)'
    <3>1. p' = p /\ a = OnSem("removeFirst", s) /\ b = MoveTo(p, "READY")
      BY <1>5 DEF a, b
    <3>2. /\ blocked'[s] # <<>> /\ Head(blocked'[s]) = p
          /\ Then(todo'[c], OnSem("removeFirst", s))
          /\ Then(Tail(todo'[c]), MoveTo(p, "READY"))
      BY <1>5, <1>13, <2>6, <3>1 DEF Then
    <3>. HIDE DEF p
    <3>. QED  BY <2>3, <2>6, <2>7, <3>1, <3>2 DEF SignalWakes, OnSem, MoveTo
  <2>9. WithSems(c)'
    <3>1. \E q \in Pid : SignalWakes(c, s, q)'
      BY <1>5, <2>1, <2>8
    <3>. QED  BY <1>4, <1>7, <3>1 DEF WithSems
  <2>10. ~CarriesBack(c)' /\ ~Running(c, "dispatch")'
    BY <2>2, <2>6 DEF CarriesBack, Running
  <2>. QED  BY <1>5, <1>8, <1>11, <2>9, <2>10
<1>. QED  BY <1>12, <1>13

\* The answer unlocks sems_mutex.
LEMMA AnswerSignalKeepsTurns ==
    ASSUME TypeOK, TurnsInv, NEW c \in Cpu, AnswerSignal(c)
    PROVE  TurnsInv'
<1> USE DEF queueVars, startVars, roomVars, semVars, cpuVars, userVars
<1> DEFINE j == Executed(job[c])
<1>1. /\ todo[c] # <<>> /\ Top(c).op = "signalled" /\ At(c, "call") /\ Working(c)
      /\ c \in Thread
  BY DEF AnswerSignal, Running, Top, At, Working, Thread
<1>2. lock["sems"] = c /\ WithSems(c)
  BY <1>1, HolderCalls
<1>3. SignalAnswers(c)
  BY <1>1, <1>2, PhaseTops DEF WithSems, LightOp
<1>4. Tail(todo[c]) = <<>>
  <2>1. Answering(todo[c])
    BY <1>1, <1>3 DEF SignalAnswers, Running, Top
  <2>2. \A m \in Light : m.op # "signalled"
    BY DEF Light
  <2>. QED  BY <1>1, <2>1, <2>2, AnsweringStack DEF Top
<1>5. job' = [job EXCEPT ![c] = j]
  BY DEF AnswerSignal, TypeOK, CpuTypes
<1>6. /\ job[c] \in Turns /\ job[c].status = "none"
      /\ job[c].finished = FALSE /\ job[c].locked = FALSE
  BY <1>1, NotLocked DEF At
<1>7. /\ j.pid = job[c].pid /\ j.at \in {"ask", "done"} /\ j.status = "none"
      /\ j.finished = FALSE /\ j.locked = FALSE
  BY <1>6, ExecutedFlags
<1>. HIDE DEF j
<1>8. UNCHANGED <<list, state, exitCode, mailbox, replies, pending, cpu, semValue, blocked>>
  BY DEF AnswerSignal
<1>9. todo'[c] = <<>> /\ \A u \in Thread \ {c} : todo'[u] = todo[u]
  BY <1>1, <1>4 DEF AnswerSignal, Return, TypeOK
<1>10. job'[c] = j /\ \A d \in Cpu \ {c} : job'[d] = job[d]
  BY <1>5 DEF TypeOK, CpuTypes
<1>11. lock'["sems"] = None
  BY DEF AnswerSignal, Release, TypeOK, Lock
<1>12. NothingEnds' /\ InOneHand'
  <2>1. ~CarriesBack(c)' /\ ~Running(c, "dispatch")'
    BY <1>9 DEF CarriesBack, Running
  <2>. QED  BY <1>1, <1>5, <1>7, <1>8, <1>9, <2>1, TurnHands
<1>13. Settled'
  BY <1>3, <1>8, ListsLeft DEF SignalAnswers
<1>14. WithoutSems(c)'
  BY <1>7, <1>9, <1>10 DEF WithoutSems
<1>15. SemsInv'
  BY <1>1, <1>2, <1>9, <1>10, <1>11, <1>13, <1>14, HolderEnds
<1>. QED  BY <1>12, <1>15 DEF TurnsInv
-----------------------------------------------------------------------------
(* A CPU returns its process, and the process moves. *)

\* What cpu_task_finished has to do while nobody comes or goes.
LEMMA FinishedCalls ==
    ASSUME TypeOK, TurnsInv, NEW c \in Cpu, CpuTaskFinished(c)
    PROVE  LET p == job[c].pid
           IN  /\ todo'[c] # <<>>
               /\ \/ /\ job[c].locked = TRUE
                     /\ Head(todo'[c]) = MoveCopyTo(p, "BLOCK", "none")
                     /\ Then(Tail(todo'[c]), Unlocking("sems"))
                     /\ Tail(Tail(todo'[c])) \in Seq(Light)
                  \/ /\ job[c].locked = FALSE
                     /\ Head(todo'[c]) = MoveCopyTo(p, "READY", "none")
                     /\ Tail(todo'[c]) \in Seq(Light)
<1> DEFINE j == job[c]
           p == j.pid
           rest == ShortPlanning \o <<Do("checkFlagged")>>
           u == Unlocking("sems")
           last == <<Do("checkFlagged")>>
<1>1. j \in Turns /\ p \in Pid /\ j.status = "none" /\ j.finished = j.locked /\ exitCode[p] = "none"
  BY DEF CpuTaskFinished, At, TypeOK, CpuTypes, TurnsInv, NothingEnds
<1>2. FinalCode(j) = "none" /\ ~Aborted("none")
  BY <1>1 DEF FinalCode, Aborted
<1>3. /\ rest \in Seq(Light) /\ rest \in Seq(Runnable)
      /\ ShortPlanning \in Seq(Runnable) /\ last \in Seq(Runnable)
  <2>1. ShortPlanning \in Seq(Light) /\ last \in Seq(Light)
    BY CommonLight
  <2>2. Light \subseteq Runnable
    BY DEF Light, Runnable, Calls
  <2>. QED  BY <2>1, <2>2, ConcatProperties, SeqMonotonic
<1>4. u \in Runnable /\ \A to \in State : MoveCopyTo(p, to, "none") \in Runnable
  BY <1>1, CommonCallsTyped DEF Lock, ExitCode
<1>5. CASE j.locked = FALSE
  <2> DEFINE m == MoveCopyTo(p, "READY", "none")
  <2>1. todo'[c] = ((<<m>> \o <<>>) \o ShortPlanning) \o last
    BY <1>1, <1>2, <1>5 DEF CpuTaskFinished, UnlockIfLocked, Receive, TypeOK, Thread
  <2>2. m \in Runnable /\ <<m>> \in Seq(Runnable)
    BY <1>4 DEF State
  <2>. HIDE DEF m, p, j, last
  <2>3. (<<m>> \o <<>>) = <<m>>
    BY <2>2, ConcatEmptySeq
  <2>4. (<<m>> \o ShortPlanning) \o last = <<m>> \o (ShortPlanning \o last)
    BY <1>3, <2>2, ConcatAssociative
  <2>5. todo'[c] = <<m>> \o rest
    BY <2>1, <2>3, <2>4 DEF last
  <2>. HIDE DEF rest
  <2>6. todo'[c] # <<>> /\ Head(todo'[c]) = m /\ Tail(todo'[c]) = rest
    BY <1>3, <2>5, PushedOnTop
  <2>. QED  BY <1>3, <1>5, <2>6 DEF m, p, j
<1>6. CASE j.locked = TRUE
  <2> DEFINE m == MoveCopyTo(p, "BLOCK", "none")
  <2>1. todo'[c] = ((<<m>> \o <<u>>) \o ShortPlanning) \o last
    BY <1>1, <1>2, <1>6 DEF CpuTaskFinished, UnlockIfLocked, Receive, TypeOK, Thread
  <2>2. m \in Runnable /\ <<m, u>> \in Seq(Runnable)
    BY <1>4 DEF State
  <2>. HIDE DEF m, p, j, last, u
  <2>3. <<m>> \o <<u>> = <<m, u>>
    BY TwoCalls
  <2>4. (<<m, u>> \o ShortPlanning) \o last = <<m, u>> \o (ShortPlanning \o last)
    BY <1>3, <2>2, ConcatAssociative
  <2>5. todo'[c] = <<m, u>> \o rest
    BY <2>1, <2>3, <2>4 DEF last
  <2>. HIDE DEF rest
  <2>6. todo'[c] # <<>> /\ Head(todo'[c]) = m /\ Tail(todo'[c]) = <<u>> \o rest
    <3>1. rest \in Seq(Runnable)
      BY <1>3
    <3>2. /\ <<m, u>> \o rest # <<>> /\ Head(<<m, u>> \o rest) = m
          /\ Tail(<<m, u>> \o rest) = <<u>> \o rest
      BY <3>1, TwoPushed
    <3>. QED  BY <2>5, <3>2
  <2>7. Then(<<u>> \o rest, u) /\ Tail(<<u>> \o rest) = rest
    BY <1>3, PushedOnTop DEF Then
  <2>. QED  BY <1>3, <1>6, <2>6, <2>7 DEF m, p, j, u
<1>7. j.locked \in BOOLEAN
  BY <1>1 DEF Turns
<1>. QED  BY <1>5, <1>6, <1>7

\* The process passes from the CPU's hand to the hand of the CPU's kernel thread.
LEMMA TaskFinishedKeepsTurns ==
    ASSUME TypeOK, TurnsInv, NEW c \in Cpu, CpuTaskFinished(c)
    PROVE  TurnsInv'
<1> USE DEF queueVars, startVars, roomVars, semVars, cpuVars, userVars
<1> DEFINE p == job[c].pid
<1>1. /\ Working(c) /\ p \in Pid /\ state[p] = "EXEC" /\ Listening(c) /\ c \in Thread
      /\ job[c] \in Turns
  BY DEF CpuTaskFinished, At, Working, TypeOK, CpuTypes, TurnsInv, InOneHand, OneCpuPerProcess, Thread
<1>2. /\ UNCHANGED <<list, state, exitCode, mailbox, replies, pending, semValue, blocked, lock>>
      /\ job' = [job EXCEPT ![c] = Idle]
      /\ cpu' = [cpu EXCEPT ![c].busy = FALSE]
      /\ \A u \in Thread \ {c} : todo'[u] = todo[u]
  BY DEF CpuTaskFinished, Receive, TypeOK
<1>3. /\ job'[c] = Idle /\ \A d \in Cpu \ {c} : job'[d] = job[d] /\ cpu'[d] = cpu[d]
  BY <1>2 DEF TypeOK, CpuTypes
<1>4. /\ Idle.at = "idle" /\ Idle.status = "none" /\ Idle.finished = FALSE /\ Idle.locked = FALSE
  BY DEF Idle
<1>5. todo'[c] # <<>> /\ \E to \in {"BLOCK", "READY"} : Head(todo'[c]) = MoveCopyTo(p, to, "none")
  BY FinishedCalls
<1>6. NothingEnds'
  BY <1>2, <1>3, <1>4 DEF TurnsInv, NothingEnds, At
<1>7. InOneHand'
  <2>1. CarriesBack(c)' /\ ~Running(c, "dispatch")' /\ Top(c)'.pid = p
    BY <1>5 DEF CarriesBack, Running, Top, MoveCopyTo
  <2>2. ~Working(c)' /\ \A d \in Cpu \ {c} :
           (Working(d)' <=> Working(d)) /\ job'[d].pid = job[d].pid /\ cpu'[d].xpid = cpu[d].xpid
    BY <1>3, <1>4 DEF Working
  <2>3. \A u \in Thread \ {c} : /\ CarriesBack(u)' <=> CarriesBack(u)
                                /\ Running(u, "dispatch")' <=> Running(u, "dispatch")
                                /\ Top(u)' = Top(u)
    BY <1>2 DEF CarriesBack, Running, Top
  <2>4. \A d \in Cpu \ {c} : Working(d) => job[d].pid # p
    BY <1>1 DEF TurnsInv, InOneHand, OneCpuPerProcess
  <2>5. \A u \in Thread : CarriesBack(u) => Top(u).pid # p
    BY <1>1 DEF TurnsInv, InOneHand
  <2>. HIDE DEF p
  <2>6. OneCpuPerProcess'
    BY <1>2, <2>2 DEF TurnsInv, InOneHand, OneCpuPerProcess
  <2>7. \A d \in Cpu : Working(d)' => cpu'[d].xpid = job'[d].pid
    BY <2>2 DEF TurnsInv, InOneHand
  <2>8. ASSUME NEW u \in Thread, CarriesBack(u)'
        PROVE  /\ state'[Top(u)'.pid] = "EXEC"
               /\ \A d \in Cpu : Working(d)' => job'[d].pid # Top(u)'.pid
               /\ \A v \in Thread \ {u} : CarriesBack(v)' => Top(v)'.pid # Top(u)'.pid
    <3>1. CASE u = c
      BY <1>1, <1>2, <2>1, <2>2, <2>3, <2>4, <2>5, <3>1 DEF p
    <3>2. CASE u # c
      <4>1. CarriesBack(u) /\ Top(u)' = Top(u) /\ Top(u).pid # p
        BY <2>3, <2>5, <2>8, <3>2
      <4>2. /\ state[Top(u).pid] = "EXEC"
            /\ \A d \in Cpu : Working(d) => job[d].pid # Top(u).pid
            /\ \A v \in Thread \ {u} : CarriesBack(v) => Top(v).pid # Top(u).pid
        BY <4>1 DEF TurnsInv, InOneHand
      <4>3. \A d \in Cpu : Working(d)' => job'[d].pid # Top(u)'.pid
        BY <2>2, <4>1, <4>2
      <4>4. \A v \in Thread \ {u} : CarriesBack(v)' => Top(v)'.pid # Top(u)'.pid
        BY <2>1, <2>3, <4>1, <4>2
      <4>. QED  BY <1>2, <4>1, <4>2, <4>3, <4>4
    <3>. QED  BY <3>1, <3>2
  <2>9. \A u \in Thread : Running(u, "dispatch")' => state'[Top(u)'.pid] = "READY"
    BY <1>2, <2>1, <2>3 DEF TurnsInv, InOneHand
  <2>. QED  BY <2>6, <2>7, <2>8, <2>9 DEF InOneHand
<1>8. CASE job[c].locked = TRUE
  <2>1. lock["sems"] = c
    BY <1>1, <1>8, ListeningSems
  <2>2. PICK q \in Pid : WaitReturned(c, q)
    BY <1>1, <1>8, ListeningSems
  <2>3. q = p /\ Even /\ WaitsOnce /\ InBlockBut(p)
    BY <2>2 DEF WaitReturned
  <2>4. Even' /\ WaitsOnce' /\ InBlockBut(q)'
    BY <1>2, <2>3 DEF Even, WaitsOnce, Deficit, InBlockBut
  <2>5. WaitBlocks(c, q)'
    <3>1. /\ Then(todo'[c], MoveCopyTo(q, "BLOCK", "none"))
          /\ Then(Tail(todo'[c]), Unlocking("sems"))
          /\ Tail(Tail(todo'[c])) \in Seq(Light)
      BY <1>8, <2>3, FinishedCalls DEF Then
    <3>. QED  BY <2>4, <3>1 DEF WaitBlocks
  <2>6. WithSems(c)'
    BY <1>3, <1>4, <2>5 DEF WithSems
  <2>7. SemsInv'
    BY <1>1, <1>2, <1>3, <2>1, <2>6, HolderKeeps
  <2>. QED  BY <1>6, <1>7, <2>7 DEF TurnsInv
<1>9. CASE job[c].locked = FALSE
  <2>1. lock["sems"] # c
    BY <1>1, <1>9, ListeningSems
  <2>2. WithoutSems(c)'
    BY <1>1, <1>3, <1>4, <1>9, FinishedCalls DEF WithoutSems, Top
  <2>3. SemsInv'
    BY <1>1, <1>2, <1>3, <2>1, <2>2, OtherSteps
  <2>. QED  BY <1>6, <1>7, <2>3 DEF TurnsInv
<1>10. job[c].locked \in BOOLEAN
  BY <1>1 DEF Turns
<1>. QED  BY <1>8, <1>9, <1>10

\* A process that moves out of EXEC or BLOCK to READY or BLOCK.
MovesOut(t, p, to) ==
    /\ todo[t] # <<>> /\ Top(t).op = "move" /\ Top(t).pid = p /\ Top(t).to = to
    /\ Top(t).copy => Top(t).code = "none"
    /\ p \in Pid /\ to \in {"READY", "BLOCK"} /\ state[p] \in {"EXEC", "BLOCK"} /\ state[p] # to

\* It is in its new list, and admission does not see it.
LEMMA MovedOut ==
    ASSUME TypeOK, TurnsInv, NEW t \in Thread, NEW p, NEW to, MovesOut(t, p, to), Move(t)
    PROVE  /\ state'[p] = to /\ \A q \in Pid \ {p} : state'[q] = state[q]
           /\ todo'[t] = Tail(todo[t]) /\ \A u \in Thread \ {t} : todo'[u] = todo[u]
           /\ UNCHANGED <<mailbox, replies, pending, semValue, blocked, cpu, job, lock>>
           /\ NothingEnds'
<1> USE DEF queueVars, startVars, roomVars, semVars, cpuVars, userVars
<1>1. /\ Top(t).pid = p /\ Top(t).to = to /\ state[p] # to /\ to # "EXIT" /\ p \in Pid
      /\ ListOf(Top(t)) = state[p] /\ state[p] \in {"EXEC", "BLOCK"} /\ to \in {"READY", "BLOCK"}
  BY DEF MovesOut, ListOf
<1>2. /\ state' = [state EXCEPT ![p] = to]
      /\ \E s, r \in Seq(Pid) : list' = [list EXCEPT ![state[p]] = s, ![to] = r]
  <2>1. /\ list' = [list EXCEPT ![state[p]] = RemoveFirst(@, p), ![to] = Append(@, p)]
        /\ state' = [state EXCEPT ![p] = to]
    BY <1>1 DEF Move, Relist
  <2>2. list \in [State -> Seq(Pid)] /\ state[p] \in State /\ to \in State
    BY <1>1 DEF TypeOK, QueueTypes, State
  <2> DEFINE s == RemoveFirst(list[state[p]], p)
             r == Append(list[to], p)
  <2>3. s \in Seq(Pid) /\ r \in Seq(Pid)
    BY <1>1, <2>2, RemoveFirstProperties, AppendProperties
  <2>4. list' = [list EXCEPT ![state[p]] = s, ![to] = r]
    BY <1>1, <2>1, <2>2
  <2>. HIDE DEF s, r
  <2>. QED  BY <2>1, <2>3, <2>4
<1>3. list'["NEW"] = list["NEW"]
  BY <1>1, <1>2 DEF TypeOK, QueueTypes, State
<1>4. state'[p] = to /\ \A q \in Pid \ {p} : state'[q] = state[q]
  BY <1>1, <1>2 DEF TypeOK, QueueTypes
<1>5. todo'[t] = Tail(todo[t]) /\ \A u \in Thread \ {t} : todo'[u] = todo[u]
  BY <1>1 DEF Move, Return, TypeOK
<1>6. UNCHANGED <<mailbox, replies, pending, semValue, blocked, cpu, job, lock>>
  BY DEF Move
<1>7. \A q \in Pid : exitCode'[q] = "none"
  <2>1. exitCode' = exitCode \/ exitCode' = [exitCode EXCEPT ![p] = "none"]
    BY <1>1 DEF Move, MovesOut
  <2>2. \A q \in Pid : exitCode[q] = "none"
    BY DEF TurnsInv, NothingEnds
  <2>3. exitCode \in [Pid -> ExitCode]
    BY DEF TypeOK
  <2>. QED  BY <1>1, <2>1, <2>2, <2>3
<1>8. NothingEnds'
  BY <1>3, <1>6, <1>7 DEF TurnsInv, NothingEnds, At
<1>. QED  BY <1>4, <1>5, <1>6, <1>8

\* It was in no other hand, and is in none now.
LEMMA HandsMove ==
    ASSUME TypeOK, TurnsInv, NEW t \in Thread, NEW p, NEW to, MovesOut(t, p, to), Move(t),
           state[p] = "EXEC" => Top(t).copy, ~CarriesBack(t)', ~Running(t, "dispatch")'
    PROVE  InOneHand'
<1>1. /\ state'[p] = to /\ \A q \in Pid \ {p} : state'[q] = state[q]
      /\ \A u \in Thread \ {t} : todo'[u] = todo[u]
      /\ UNCHANGED <<cpu, job>>
  BY MovedOut
<1>2. /\ \A c \in Cpu : Working(c) => job[c].pid # p /\ job[c].pid \in Pid
      /\ \A u \in Thread \ {t} : CarriesBack(u) => Top(u).pid # p
  <2>1. \A c \in Cpu : Working(c) => job[c].pid \in Pid
    BY DEF TypeOK, CpuTypes, At, Working
  <2>2. CASE state[p] = "EXEC"
    <3>1. CarriesBack(t) /\ Top(t).pid = p
      BY <2>2 DEF MovesOut, CarriesBack, Running, Top
    <3>. QED  BY <2>1, <3>1 DEF TurnsInv, InOneHand
  <2>3. CASE state[p] = "BLOCK"
    BY <2>1, <2>3 DEF TurnsInv, InOneHand, OneCpuPerProcess
  <2>. QED  BY <2>2, <2>3 DEF MovesOut
<1>3. \A u \in Thread \ {t} : /\ CarriesBack(u)' <=> CarriesBack(u)
                              /\ Running(u, "dispatch")' <=> Running(u, "dispatch")
                              /\ Top(u)' = Top(u)
  BY <1>1 DEF CarriesBack, Running, Top
<1>4. \A u \in Thread : CarriesBack(u) \/ Running(u, "dispatch") => Top(u).pid \in Pid
  BY TopIsTyped, CallFields DEF CarriesBack
<1>5. OneCpuPerProcess'
  BY <1>1, <1>2 DEF TurnsInv, InOneHand, OneCpuPerProcess, Working
<1>6. \A c \in Cpu : Working(c)' => cpu'[c].xpid = job'[c].pid
  BY <1>1 DEF TurnsInv, InOneHand, Working
<1>7. ASSUME NEW u \in Thread, CarriesBack(u)'
      PROVE  /\ state'[Top(u)'.pid] = "EXEC"
             /\ \A c \in Cpu : Working(c)' => job'[c].pid # Top(u)'.pid
             /\ \A v \in Thread \ {u} : CarriesBack(v)' => Top(v)'.pid # Top(u)'.pid
  <2>1. u # t /\ CarriesBack(u) /\ Top(u)' = Top(u) /\ Top(u).pid # p /\ Top(u).pid \in Pid
    BY <1>2, <1>3, <1>4, <1>7
  <2>2. /\ state[Top(u).pid] = "EXEC"
        /\ \A c \in Cpu : Working(c) => job[c].pid # Top(u).pid
        /\ \A v \in Thread \ {u} : CarriesBack(v) => Top(v).pid # Top(u).pid
    BY <2>1 DEF TurnsInv, InOneHand
  <2>3. \A c \in Cpu : Working(c)' => job'[c].pid # Top(u)'.pid
    BY <1>1, <2>1, <2>2 DEF Working
  <2>4. \A v \in Thread \ {u} : CarriesBack(v)' => Top(v)'.pid # Top(u)'.pid
    BY <1>3, <2>1, <2>2
  <2>. QED  BY <1>1, <2>1, <2>2, <2>3, <2>4
<1>8. ASSUME NEW u \in Thread, Running(u, "dispatch")'
      PROVE  state'[Top(u)'.pid] = "READY"
  <2>1. u # t /\ Running(u, "dispatch") /\ Top(u)' = Top(u) /\ Top(u).pid \in Pid
    BY <1>3, <1>4, <1>8
  <2>2. state[Top(u).pid] = "READY"
    BY <2>1 DEF TurnsInv, InOneHand
  <2>. QED  BY <1>1, <2>1, <2>2 DEF MovesOut
<1>. QED  BY <1>5, <1>6, <1>7, <1>8 DEF InOneHand

\* The three moves: back to READY at the end of a turn, to BLOCK after a wait, and to READY
\* after a signal.
LEMMA MoveKeepsTurns ==
    ASSUME TypeOK, TurnsInv, NEW t \in Thread, Move(t)
    PROVE  TurnsInv'
<1>1. todo[t] # <<>> /\ Top(t).op = "move" /\ Top(t).pid \in Pid /\ Running(t, "move")
  BY TopIsTyped, CallFields DEF Move, Running, Top
<1> DEFINE p == Top(t).pid
<1>2. /\ \A q, to : MoveCopyTo(q, to, "none").pid = q /\ MoveCopyTo(q, to, "none").to = to
                    /\ MoveCopyTo(q, to, "none").copy = TRUE /\ MoveCopyTo(q, to, "none").code = "none"
      /\ \A q : MoveTo(q, "READY").pid = q /\ MoveTo(q, "READY").to = "READY"
                /\ MoveTo(q, "READY").copy = FALSE
  BY DEF MoveCopyTo, MoveTo
<1>3. CASE lock["sems"] = t
  <2>1. WithSems(t) /\ t \in Cpu
    BY <1>3, HolderIsCpu DEF TurnsInv
  <2>2. PICK q \in Pid : (WaitBlocks(t, q) \/ SignalMoves(t, q)) /\ ~job[t].locked
    BY <1>1, <2>1, PhaseTops DEF WithSems, LightOp
  <2>3. CASE WaitBlocks(t, q)
    <3>1. /\ Top(t) = MoveCopyTo(q, "BLOCK", "none")
          /\ Then(Tail(todo[t]), Unlocking("sems")) /\ Tail(Tail(todo[t])) \in Seq(Light)
      BY <2>3 DEF WaitBlocks, Then, Top
    <3>2. CarriesBack(t) /\ p = q
      BY <1>1, <1>2, <3>1 DEF CarriesBack
    <3>3. state[q] = "EXEC"
      BY <3>2 DEF TurnsInv, InOneHand
    <3>4. MovesOut(t, q, "BLOCK") /\ Top(t).copy
      BY <1>1, <1>2, <3>1, <3>3 DEF MovesOut
    <3>5. /\ state'[q] = "BLOCK" /\ \A r \in Pid \ {q} : state'[r] = state[r]
          /\ todo'[t] = Tail(todo[t]) /\ \A u \in Thread \ {t} : todo'[u] = todo[u]
          /\ UNCHANGED <<mailbox, replies, pending, semValue, blocked, cpu, job, lock>>
          /\ NothingEnds'
      BY <3>4, MovedOut
    <3>6. Settled'
      <4>1. Even /\ WaitsOnce /\ InBlockBut(q)
        BY <2>3 DEF WaitBlocks
      <4>2. Even' /\ WaitsOnce'
        BY <3>5, <4>1 DEF Even, WaitsOnce, Deficit
      <4>3. \A s \in Sem : \A i \in 1 .. Len(blocked[s]) : blocked[s][i] \in Pid
        BY ElementOfSeq DEF TypeOK, SemTypes
      <4>4. InBlockBut(None)'
        BY <3>5, <4>1, <4>3 DEF InBlockBut
      <4>. QED  BY <4>2, <4>4 DEF Settled
    <3>7. WithSems(t)'
      BY <2>1, <2>2, <3>1, <3>5, <3>6 DEF WithSems, WaitOver
    <3>8. SemsInv'
      BY <1>3, <3>5, <3>7, HolderKeeps
    <3>9. ~CarriesBack(t)' /\ ~Running(t, "dispatch")'
      BY <3>1, <3>5 DEF CarriesBack, Running, Then, Unlocking
    <3>10. InOneHand'
      BY <3>4, <3>9, HandsMove
    <3>. QED  BY <3>5, <3>8, <3>10 DEF TurnsInv
  <2>4. CASE SignalMoves(t, q)
    <3>1. /\ Top(t) = MoveTo(q, "READY") /\ Answering(Tail(todo[t])) /\ state[q] = "BLOCK"
          /\ \A s \in Sem : \A i \in 1 .. Len(blocked[s]) : blocked[s][i] # q
          /\ Settled
      BY <2>4 DEF SignalMoves, Then, Top
    <3>2. MovesOut(t, q, "READY")
      BY <1>1, <1>2, <3>1 DEF MovesOut
    <3>3. /\ state'[q] = "READY" /\ \A r \in Pid \ {q} : state'[r] = state[r]
          /\ todo'[t] = Tail(todo[t]) /\ \A u \in Thread \ {t} : todo'[u] = todo[u]
          /\ UNCHANGED <<mailbox, replies, pending, semValue, blocked, cpu, job, lock>>
          /\ NothingEnds'
      BY <3>2, MovedOut
    <3>4. Settled'
      <4>1. Even' /\ WaitsOnce'
        BY <3>1, <3>3 DEF Settled, Even, WaitsOnce, Deficit
      <4>2. \A s \in Sem : \A i \in 1 .. Len(blocked[s]) : blocked[s][i] \in Pid
        BY ElementOfSeq DEF TypeOK, SemTypes
      <4>3. InBlockBut(None)'
        BY <3>1, <3>3, <4>2 DEF Settled, InBlockBut
      <4>. QED  BY <4>1, <4>3 DEF Settled
    <3>5. WithSems(t)'
      BY <2>1, <2>2, <3>1, <3>3, <3>4 DEF WithSems, SignalAnswers
    <3>6. SemsInv'
      BY <1>3, <3>3, <3>5, HolderKeeps
    <3>7. ~CarriesBack(t)' /\ ~Running(t, "dispatch")'
      <4>1. \A m \in Light : m.op \notin {"dispatch", "move"}
        BY DEF Light
      <4>2. Head(todo'[t]) = Do("signalled") \/ Head(todo'[t]) \in Light
        BY <3>1, <3>3, AnsweringStack
      <4>. QED  BY <4>1, <4>2 DEF CarriesBack, Running, Do
    <3>8. InOneHand'
      BY <3>1, <3>2, <3>7, HandsMove
    <3>. QED  BY <3>3, <3>6, <3>8 DEF TurnsInv
  <2>. QED  BY <2>2, <2>3, <2>4
<1>4. CASE lock["sems"] # t
  <2>1. WithoutSems(t)
    BY <1>4 DEF TurnsInv, SemsInv
  <2>2. todo[t] \notin Seq(Light)
    BY <1>1, LightStack DEF Top
  <2>3. PICK q \in Pid : Top(t) = MoveCopyTo(q, "READY", "none")
    BY <1>1, <2>1, <2>2 DEF WithoutSems, Running, Top
  <2>4. Tail(todo[t]) \in Seq(Light)
    BY <2>1, <2>2 DEF WithoutSems
  <2>5. CarriesBack(t) /\ p = q
    BY <1>1, <1>2, <2>3 DEF CarriesBack
  <2>6. state[q] = "EXEC"
    BY <2>5 DEF TurnsInv, InOneHand
  <2>7. MovesOut(t, q, "READY") /\ Top(t).copy
    BY <1>1, <1>2, <2>3, <2>6 DEF MovesOut
  <2>8. /\ state'[q] = "READY" /\ \A r \in Pid \ {q} : state'[r] = state[r]
        /\ todo'[t] = Tail(todo[t]) /\ \A u \in Thread \ {t} : todo'[u] = todo[u]
        /\ UNCHANGED <<mailbox, replies, pending, semValue, blocked, cpu, job, lock>>
        /\ NothingEnds'
    BY <2>7, MovedOut
  <2>9. WithoutSems(t)'
    BY <2>1, <2>4, <2>8 DEF WithoutSems
  <2>10. \A r \in Pid : state[r] = "BLOCK" => state'[r] = "BLOCK"
    BY <2>6, <2>8
  <2>11. SemsInv'
    BY <1>4, <2>8, <2>9, <2>10, OtherSteps
  <2>12. ~CarriesBack(t)' /\ ~Running(t, "dispatch")'
    BY <2>4, <2>8, LightStack DEF CarriesBack, Running
  <2>13. InOneHand'
    BY <2>7, <2>12, HandsMove
  <2>. QED  BY <2>8, <2>11, <2>13 DEF TurnsInv
<1>. QED  BY <1>3, <1>4
-----------------------------------------------------------------------------
(* Every step, while nobody comes or goes. *)

\* At the start no CPU works, nobody waits, and the CPUs' threads have planning to do.
LEMMA InitTurns ==
    ASSUME Init
    PROVE  TurnsInv
<1>1. /\ \A t \in Thread : todo[t] \in Seq(Light)
      /\ \A t \in Thread : todo[t] # <<>> => Head(todo[t]).op \in LightOp
  <2>1. \A t \in Thread : todo[t] = IF t \in Cpu THEN ShortPlanning ELSE <<>>
    BY DEF Init
  <2>2. ShortPlanning \in Seq(Light) /\ <<>> \in Seq(Light)
    BY CommonLight
  <2>3. ShortPlanning # <<>> => Head(ShortPlanning).op \in LightOp
    BY <2>2, LightStack DEF LightOp
  <2>. QED  BY <2>1, <2>2, <2>3
<1>2. /\ \A c \in Cpu : job[c] = Idle
      /\ Idle.at = "idle" /\ Idle.status = "none" /\ Idle.finished = FALSE /\ Idle.locked = FALSE
  BY DEF Init, Idle
<1>3. NothingEnds
  <2>1. list["NEW"] = <<>>
    BY DEF Init, State
  <2>. QED  BY <1>2, <2>1 DEF Init, NothingEnds
<1>4. InOneHand
  BY <1>1, <1>2 DEF InOneHand, OneCpuPerProcess, Working, CarriesBack, Running, LightOp
<1>5. Settled
  <2>1. \A s \in Sem : blocked[s] = <<>> /\ semValue[s] \in Nat /\ Len(blocked[s]) = 0
    BY ConstantTypes DEF Init
  <2>2. Even
    BY <2>1 DEF Even, Deficit
  <2>. QED  BY <2>1, <2>2 DEF Settled, WaitsOnce, InBlockBut
<1>6. \A t \in Thread : lock["sems"] # t /\ WithoutSems(t)
  <2>1. lock["sems"] = None
    BY DEF Init, Lock
  <2>. QED  BY <1>1, <1>2, <2>1, ThreadsAreDistinct DEF WithoutSems, Thread
<1>. QED  BY <1>3, <1>4, <1>5, <1>6 DEF TurnsInv, SemsInv

\* Calls that are not made, and requests that nobody makes.
LEMMA NeverWhileNobodyComes ==
    ASSUME NobodyComesOrGoes, TypeOK, TurnsInv
    PROVE  /\ \A t \in Thread :
                 ~(\/ AddProgram(t) \/ CheckRoomOrFlag(t) \/ RemoveProgram(t)
                   \/ AddProcessInMemory(t) \/ SubstractProcessInMemory(t) \/ RemoveProgramCode(t)
                   \/ SetStarting(t) \/ Send(t) \/ TellRefused(t) \/ KilledPending(t)
                   \/ FilterBlocked(t) \/ KeepBlocked(t) \/ StoreBlocked(t) \/ WakeAfterFilter(t)
                   \/ ScanSemPids(t) \/ WakeAfterScan(t) \/ RemoveSemPid(t) \/ AbortProcess(t)
                   \/ StopProcess(t) \/ TellStopped(t))
           /\ \A c \in Cpu : ~ExecuteEnd(c)
           /\ ~Memory
           /\ \A p \in Pid : ~ConsoleLoadProgram(p) /\ ~ConsoleAbortProgram(p) /\ ~DoStopProcess(p)
<1>1. ASSUME NEW t \in Thread, NEW op, Running(t, op)
      PROVE  op \in LightOp \cup {"dispatch", "move", "unlock", "addBlocked", "setBlocked",
                                  "block", "removeFirst", "signalled"}
  BY <1>1, TopsWhileNobodyComes DEF Running, Top
<1>2. ASSUME NEW t \in Thread
      PROVE  ~(\/ AddProgram(t) \/ CheckRoomOrFlag(t) \/ RemoveProgram(t)
               \/ AddProcessInMemory(t) \/ SubstractProcessInMemory(t) \/ RemoveProgramCode(t)
               \/ SetStarting(t) \/ Send(t) \/ TellRefused(t) \/ KilledPending(t)
               \/ FilterBlocked(t) \/ KeepBlocked(t) \/ StoreBlocked(t) \/ WakeAfterFilter(t)
               \/ ScanSemPids(t) \/ WakeAfterScan(t) \/ RemoveSemPid(t) \/ AbortProcess(t)
               \/ StopProcess(t) \/ TellStopped(t))
  <2>1. \A op \in {"addProgram", "checkRoomOrFlag", "removeProgram", "addProcess", "substract",
                   "removeCode", "setStarting", "sendStart", "sendFinish", "tellRefused", "killed",
                   "filter", "keep", "wake", "scan", "wakeUnlocked", "removeSemPid", "abort",
                   "stop", "tellStopped"} : ~Running(t, op)
    BY <1>1 DEF LightOp
  <2>. QED
    BY <2>1 DEF AddProgram, CheckRoomOrFlag, RemoveProgram, AddProcessInMemory,
       SubstractProcessInMemory, RemoveProgramCode, SetStarting, Send, TellRefused, KilledPending,
       FilterBlocked, KeepBlocked, StoreBlocked, WakeAfterFilter, ScanSemPids, WakeAfterScan,
       RemoveSemPid, AbortProcess, StopProcess, TellStopped
<1>3. \A c \in Cpu : ~ExecuteEnd(c)
  BY DEF ExecuteEnd, NobodyComesOrGoes, At, TypeOK, CpuTypes
<1>4. ~Memory
  BY DEF Memory, MemoryServe, MemoryResponseStartProgram, TurnsInv, NothingEnds
<1>5. \A p \in Pid : ~ConsoleLoadProgram(p) /\ ~ConsoleAbortProgram(p) /\ ~DoStopProcess(p)
  BY DEF ConsoleLoadProgram, ConsoleAbortProgram, DoStopProcess, Choose, NobodyComesOrGoes
<1>. QED  BY <1>2, <1>3, <1>4, <1>5

\* Every step keeps the invariant of the turns and the semaphores.
LEMMA NextTurns ==
    ASSUME NobodyComesOrGoes, TypeOK, ListsInStep, DispatchInv, TurnsInv, [Next]_vars
    PROVE  TurnsInv'
<1>1. CASE UNCHANGED vars
  <2>1. UNCHANGED <<list, state, exitCode, mailbox, replies, pending, semValue, blocked, cpu, job,
                    lock, todo>>
    BY <1>1 DEF vars, queueVars, startVars, roomVars, semVars, cpuVars, userVars
  <2>2. NothingEnds'
    BY <2>1 DEF TurnsInv, NothingEnds, At
  <2>3. Menu \in Thread
    BY DEF Thread
  <2>4. InOneHand'
    BY <2>1, <2>3, HandsFrame DEF TurnsInv, Working
  <2>5. SemsInv'
    <3>1. \A t \in Thread : LeavesHolder(t)
      BY <2>1 DEF LeavesHolder
    <3>2. \A t \in Thread : IF lock["sems"] = t THEN WithSems(t)' ELSE WithoutSems(t)'
      <4>1. \A t \in Thread : WithoutSems(t) => WithoutSems(t)'
        BY <2>1 DEF WithoutSems, Running, Top
      <4>. QED  BY <3>1, <4>1, HolderLeft DEF TurnsInv, SemsInv
    <3>3. Free("sems")' => Settled'
      BY <2>1, ListsLeft DEF TurnsInv, SemsInv, Free
    <3>. QED  BY <2>1, <3>2, <3>3 DEF SemsInv
  <2>. QED  BY <2>2, <2>4, <2>5 DEF TurnsInv
<1>2. ASSUME NEW t \in Thread, Step(t)
      PROVE  TurnsInv'
  <2>1. \/ Unlock(t) \/ Move(t) \/ CheckRoom(t) \/ CheckFlagged(t) \/ SetFlag(t) \/ CheckNewList(t)
        \/ KillPendingProcess(t) \/ Plan(t) \/ Dispatch(t) \/ RemoveFirstBlocked(t)
        \/ AddBlockedProcess(t) \/ SetBlocked(t)
    BY <1>2, NeverWhileNobodyComes DEF Step
  <2>2. CASE CheckRoom(t) \/ CheckFlagged(t) \/ SetFlag(t) \/ CheckNewList(t) \/ KillPendingProcess(t)
    BY <2>2, LightStepsKeep
  <2>3. CASE Unlock(t) \/ Move(t) \/ Plan(t) \/ Dispatch(t)
    BY <2>3, UnlockKeepsTurns, MoveKeepsTurns, PlanKeepsTurns, DispatchKeepsTurns
  <2>4. CASE RemoveFirstBlocked(t) \/ AddBlockedProcess(t) \/ SetBlocked(t)
    BY <2>4, RemoveFirstKeepsTurns, AddBlockedKeepsTurns, SetBlockedKeepsTurns
  <2>. QED  BY <2>1, <2>2, <2>3, <2>4
<1>3. ASSUME NEW c \in Cpu, Execute(c)
      PROVE  TurnsInv'
  <2>1. CASE \E s \in Sem : CpuWaitSem(c, s) \/ CpuWaitSemBusy(c, s) \/ CpuSignalSem(c, s)
    BY <2>1, WaitSemKeepsTurns, WaitSemBusyKeepsTurns, SignalSemKeepsTurns
  <2>2. CASE CpuHasAborted(c) \/ ExecuteStep(c) \/ BlockCaller(c) \/ AnswerSignal(c) \/ CpuTaskFinished(c)
    BY <2>2, HasAbortedKeepsTurns, ExecuteStepKeepsTurns, BlockCallerKeepsTurns,
       AnswerSignalKeepsTurns, TaskFinishedKeepsTurns
  <2>. QED  BY <1>3, <2>1, <2>2, NeverWhileNobodyComes DEF Execute
<1>4. ASSUME Memory \/ Users
      PROVE  TurnsInv'
  BY <1>4, NeverWhileNobodyComes, MenuKeeps DEF Users
<1>. QED  BY <1>1, <1>2, <1>3, <1>4 DEF Next
-----------------------------------------------------------------------------
(* What follows. *)

\* A process is executed by at most one CPU, and only while the kernel has it in EXEC,
\* whatever the programs do with the semaphores, however many CPUs there are, and whenever
\* the menu pauses planning.
THEOREM ProcessesAreInOneCpu ==
    ASSUME NobodyComesOrGoes
    PROVE  Spec => []OneCpuPerProcess
<1>1. Init => DispatchInv /\ ListsInStep /\ TurnsInv
  BY InitDispatch, InitInStep, InitTurns
<1>2. TypeOK /\ TypeOK' /\ DispatchInv /\ ListsInStep /\ TurnsInv /\ [Next]_vars
         => (DispatchInv /\ ListsInStep /\ TurnsInv)'
  BY NextDispatch, NextInStep, NextTurns
<1>3. TurnsInv => OneCpuPerProcess
  BY DEF TurnsInv, InOneHand
<1>. QED  BY <1>1, <1>2, <1>3, TypeCorrect, PTL DEF Spec

\* No wakeup is lost: between two uses of sems_mutex a semaphore below zero has exactly
\* that many processes on its list, all of them in BLOCK and on no other list.
THEOREM NoWakeupIsLost ==
    ASSUME NobodyComesOrGoes
    PROVE  Spec => []WaitersAreCounted
<1>1. Init => DispatchInv /\ ListsInStep /\ TurnsInv
  BY InitDispatch, InitInStep, InitTurns
<1>2. TypeOK /\ TypeOK' /\ DispatchInv /\ ListsInStep /\ TurnsInv /\ [Next]_vars
         => (DispatchInv /\ ListsInStep /\ TurnsInv)'
  BY NextDispatch, NextInStep, NextTurns
<1>3. TypeOK /\ TurnsInv => WaitersAreCounted
  <2>. SUFFICES ASSUME TypeOK, Settled PROVE WaitersAreCounted
    BY DEF TurnsInv, SemsInv, WaitersAreCounted
  <2>1. \A s \in Sem : \A i \in 1 .. Len(blocked[s]) : blocked[s][i] \in Pid
    BY ElementOfSeq DEF TypeOK, SemTypes
  <2>2. None \notin Pid
    BY ThreadsAreDistinct
  <2>3. \A s \in Sem : Len(blocked[s]) = IF semValue[s] < 0 THEN -semValue[s] ELSE 0
    BY DEF Settled, Even, Deficit
  <2>4. \A s \in Sem : \A i \in 1 .. Len(blocked[s]) : state[blocked[s][i]] = "BLOCK"
    BY <2>1, <2>2 DEF Settled, InBlockBut
  <2>5. \A s \in Sem : \A i \in 1 .. Len(blocked[s]) : \A r \in Sem : \A k \in 1 .. Len(blocked[r]) :
           blocked[r][k] = blocked[s][i] => r = s /\ k = i
    BY DEF Settled, WaitsOnce
  <2>. QED  BY <2>3, <2>4, <2>5 DEF WaitersAreCounted
<1>. QED  BY <1>1, <1>2, <1>3, TypeCorrect, PTL DEF Spec
-----------------------------------------------------------------------------
(* The semaphores implement FifoSemaphore. *)

Permits == [s \in Sem |-> IF semValue[s] > 0 THEN semValue[s] ELSE 0]

SameSemaphores == UNCHANGED <<Permits, blocked>>

\* The permits of one semaphore change with its value.
LEMMA PermitsOf ==
    ASSUME TypeOK, NEW s \in Sem, NEW v \in Int, semValue' = [semValue EXCEPT ![s] = v]
    PROVE  Permits' = [Permits EXCEPT ![s] = IF v > 0 THEN v ELSE 0]
<1> DEFINE w == IF v > 0 THEN v ELSE 0
           E == [Permits EXCEPT ![s] = w]
<1>1. semValue \in [Sem -> Int] /\ semValue'[s] = v /\ \A r \in Sem \ {s} : semValue'[r] = semValue[r]
  BY DEF TypeOK, SemTypes
<1>2. Permits'[s] = w /\ \A r \in Sem \ {s} : Permits'[r] = Permits[r]
  BY <1>1 DEF Permits
<1>3. DOMAIN Permits = Sem /\ Permits = [r \in Sem |-> Permits[r]]
      /\ Permits' = [r \in Sem |-> Permits'[r]]
  BY DEF Permits
<1>. HIDE DEF w
<1>4. E = [r \in Sem |-> IF r = s THEN w ELSE Permits[r]]
  BY <1>3
<1>5. \A r \in Sem : E[r] = Permits'[r]
  BY <1>2, <1>4
<1>6. Permits' = E
  BY <1>3, <1>4, <1>5
<1>. QED  BY <1>6 DEF w

\* A wait that finds a permit, or the end of one that does not.
LEMMA WaitsImplement ==
    ASSUME TypeOK, TurnsInv, NEW c \in Cpu, BlockCaller(c) \/ \E s \in Sem : CpuWaitSem(c, s)
    PROVE  FifoSemaphore!Next \/ SameSemaphores
<1> USE DEF queueVars, startVars, roomVars, semVars, cpuVars, userVars
<1>1. ASSUME NEW s \in Sem, CpuWaitSem(c, s)
      PROVE  FifoSemaphore!Next
  <2>1. /\ semValue[s] > 0 /\ semValue' = [semValue EXCEPT ![s] = semValue[s] - 1]
        /\ UNCHANGED blocked /\ semValue \in [Sem -> Int]
    BY <1>1 DEF CpuWaitSem, TypeOK, SemTypes
  <2>2. Permits[s] = semValue[s] /\ Permits[s] > 0
    BY <2>1 DEF Permits
  <2>3. Permits' = [Permits EXCEPT ![s] = Permits[s] - 1]
    <3>1. semValue[s] - 1 \in Int /\ (IF semValue[s] - 1 > 0 THEN semValue[s] - 1 ELSE 0) = Permits[s] - 1
      BY <2>1, <2>2
    <3>. QED  BY <2>1, <3>1, PermitsOf
  <2>4. FifoSemaphore!Acquire(s)
    BY <2>1, <2>2, <2>3 DEF FifoSemaphore!Acquire, Permits
  <2>. QED  BY <2>4 DEF FifoSemaphore!Next
<1>2. ASSUME BlockCaller(c)
      PROVE  SameSemaphores
  <2>1. PICK s \in Sem : semValue[s] <= 0 /\ semValue' = [semValue EXCEPT ![s] = semValue[s] - 1]
    BY <1>2, BlockCallerKeepsTurns
  <2>2. semValue \in [Sem -> Int] /\ UNCHANGED blocked
    BY <1>2 DEF BlockCaller, TypeOK, SemTypes
  <2>3. Permits' = Permits
    BY <2>1, <2>2 DEF Permits
  <2>. QED  BY <2>2, <2>3 DEF SameSemaphores
<1>. QED  BY <1>1, <1>2

\* A signal that finds nobody waiting.
LEMMA SignalImplements ==
    ASSUME TypeOK, TurnsInv, NEW c \in Cpu, NEW s \in Sem, CpuSignalSem(c, s)
    PROVE  FifoSemaphore!Next \/ SameSemaphores
<1> USE DEF queueVars, startVars, roomVars, semVars, cpuVars, userVars
<1>1. Settled /\ semValue' = [semValue EXCEPT ![s] = semValue[s] + 1]
  BY SignalSemKeepsTurns
<1>2. semValue \in [Sem -> Int] /\ UNCHANGED blocked /\ blocked[s] \in Seq(Pid)
  BY DEF CpuSignalSem, TypeOK, SemTypes
<1>3. CASE semValue[s] < 0
  <2>1. Permits' = Permits
    BY <1>1, <1>2, <1>3 DEF Permits
  <2>. QED  BY <1>2, <2>1 DEF SameSemaphores
<1>4. CASE semValue[s] >= 0
  <2>1. blocked[s] = <<>>
    <3>1. Len(blocked[s]) = 0
      BY <1>1, <1>2, <1>4 DEF Settled, Even, Deficit
    <3>. QED  BY <1>2, <3>1, EmptySeq
  <2>2. Permits[s] = semValue[s] /\ Permits' = [Permits EXCEPT ![s] = Permits[s] + 1]
    <3>1. Permits[s] = semValue[s]
      BY <1>2, <1>4 DEF Permits
    <3>2. /\ semValue[s] + 1 \in Int
          /\ (IF semValue[s] + 1 > 0 THEN semValue[s] + 1 ELSE 0) = Permits[s] + 1
      BY <1>2, <1>4, <3>1
    <3>. QED  BY <1>1, <3>1, <3>2, PermitsOf
  <2>3. FifoSemaphore!Release(s)
    BY <1>2, <2>1, <2>2 DEF FifoSemaphore!Release, Permits
  <2>. QED  BY <2>3 DEF FifoSemaphore!Next
<1>. QED  BY <1>2, <1>3, <1>4

\* The list that is stored has a new last waiter, or has lost its first.
LEMMA SetBlockedImplements ==
    ASSUME TypeOK, TurnsInv, NEW t \in Thread, SetBlocked(t)
    PROVE  FifoSemaphore!Next
<1> USE DEF queueVars, startVars, roomVars, semVars, cpuVars, userVars
<1>1. PICK s \in Sem, p \in Pid :
         \/ /\ blocked' = [blocked EXCEPT ![s] = Append(blocked[s], p)]
            /\ semValue[s] <= 0 /\ Settled /\ state[p] # "BLOCK"
         \/ /\ blocked' = [blocked EXCEPT ![s] = Tail(blocked[s])]
            /\ semValue[s] <= 0 /\ blocked[s] # <<>>
  BY SetBlockedKeepsTurns
<1>2. semValue \in [Sem -> Int] /\ UNCHANGED semValue /\ blocked \in [Sem -> Seq(Pid)]
  BY DEF SetBlocked, TypeOK, SemTypes
<1>3. Permits[s] = 0 /\ Permits' = Permits
  BY <1>1, <1>2 DEF Permits
<1>4. ASSUME blocked' = [blocked EXCEPT ![s] = Append(blocked[s], p)], Settled, state[p] # "BLOCK"
      PROVE  FifoSemaphore!Next
  <2>1. \A r \in Sem : \A i \in 1 .. Len(blocked[r]) : blocked[r][i] # p
    <3>1. \A r \in Sem : \A i \in 1 .. Len(blocked[r]) : blocked[r][i] \in Pid
      BY <1>2, ElementOfSeq
    <3>. QED  BY <1>4, <3>1, ThreadsAreDistinct DEF Settled, InBlockBut
  <2>2. FifoSemaphore!Enqueue(p, s)
    BY <1>3, <1>4, <2>1 DEF FifoSemaphore!Enqueue, FifoSemaphore!Waits, Permits
  <2>. QED  BY <2>2 DEF FifoSemaphore!Next
<1>5. ASSUME blocked' = [blocked EXCEPT ![s] = Tail(blocked[s])], blocked[s] # <<>>
      PROVE  FifoSemaphore!Next
  <2>1. FifoSemaphore!Release(s)
    BY <1>3, <1>5 DEF FifoSemaphore!Release, Permits
  <2>. QED  BY <2>1 DEF FifoSemaphore!Next
<1>. QED  BY <1>1, <1>4, <1>5

\* Every other step leaves values and lists as they are.
LEMMA NextImplements ==
    ASSUME NobodyComesOrGoes, TypeOK, TurnsInv, [Next]_vars
    PROVE  FifoSemaphore!Next \/ SameSemaphores
<1> USE DEF queueVars, startVars, roomVars, semVars, cpuVars, userVars
<1>1. ASSUME UNCHANGED <<semValue, blocked>>
      PROVE  SameSemaphores
  BY <1>1 DEF SameSemaphores, Permits
<1>2. CASE UNCHANGED vars
  BY <1>1, <1>2 DEF vars
<1>3. ASSUME NEW t \in Thread, Step(t)
      PROVE  FifoSemaphore!Next \/ SameSemaphores
  <2>1. \/ Unlock(t) \/ Move(t) \/ CheckRoom(t) \/ CheckFlagged(t) \/ SetFlag(t) \/ CheckNewList(t)
        \/ KillPendingProcess(t) \/ Plan(t) \/ Dispatch(t) \/ RemoveFirstBlocked(t)
        \/ AddBlockedProcess(t) \/ SetBlocked(t)
    BY <1>3, NeverWhileNobodyComes DEF Step
  <2>2. CASE SetBlocked(t)
    BY <2>2, SetBlockedImplements
  <2>3. CASE ~SetBlocked(t)
    BY <1>1, <2>1, <2>3 DEF Unlock, Move, CheckRoom, CheckFlagged, SetFlag, CheckNewList,
       KillPendingProcess, Plan, Dispatch, RemoveFirstBlocked, AddBlockedProcess
  <2>. QED  BY <2>2, <2>3
<1>4. ASSUME NEW c \in Cpu, Execute(c)
      PROVE  FifoSemaphore!Next \/ SameSemaphores
  <2>1. CASE BlockCaller(c) \/ \E s \in Sem : CpuWaitSem(c, s)
    BY <2>1, WaitsImplement
  <2>2. CASE \E s \in Sem : CpuSignalSem(c, s)
    BY <2>2, SignalImplements
  <2>3. CASE \/ CpuHasAborted(c) \/ ExecuteStep(c) \/ AnswerSignal(c) \/ CpuTaskFinished(c)
             \/ \E s \in Sem : CpuWaitSemBusy(c, s)
    BY <1>1, <2>3 DEF CpuHasAborted, ExecuteStep, AnswerSignal, CpuTaskFinished, CpuWaitSemBusy
  <2>. QED  BY <1>4, <2>1, <2>2, <2>3, NeverWhileNobodyComes DEF Execute
<1>5. ASSUME Memory \/ Users
      PROVE  SameSemaphores
  <2>1. DoStopPlanification \/ \E m \in Multiprogs : DoChangeMultiprogramming(m)
    BY <1>5, NeverWhileNobodyComes DEF Users
  <2>. QED  BY <1>1, <2>1 DEF DoStopPlanification, DoChangeMultiprogramming
<1>. QED  BY <1>2, <1>3, <1>4, <1>5 DEF Next

\* The semaphores of the kernel are FIFO semaphores: permits are neither invented nor lost,
\* and those who wait for one are served in the order in which they came.
THEOREM SemaphoresAreFifo ==
    ASSUME NobodyComesOrGoes
    PROVE  Spec => SemaphoreIsFifo
<1>1. Init => DispatchInv /\ ListsInStep /\ TurnsInv /\ FifoSemaphore!Init
  <2>. SUFFICES ASSUME Init PROVE FifoSemaphore!Init
    BY InitDispatch, InitInStep, InitTurns
  <2>1. semValue = SemInit /\ blocked = [s \in Sem |-> <<>>]
    BY DEF Init
  <2>2. Permits = SemInit
    BY <2>1, ConstantTypes DEF Permits
  <2>. QED  BY <2>1, <2>2 DEF FifoSemaphore!Init, Permits
<1>2. TypeOK /\ TypeOK' /\ DispatchInv /\ ListsInStep /\ TurnsInv /\ [Next]_vars
         => (DispatchInv /\ ListsInStep /\ TurnsInv)'
  BY NextDispatch, NextInStep, NextTurns
<1>3. TypeOK /\ TurnsInv /\ [Next]_vars => [FifoSemaphore!Next]_<<Permits, blocked>>
  BY NextImplements DEF SameSemaphores
<1>. QED  BY <1>1, <1>2, <1>3, TypeCorrect, PTL DEF Spec, SemaphoreIsFifo, FifoSemaphore!Spec, Permits
=============================================================================
