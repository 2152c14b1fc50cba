---------------------------- MODULE KernelFiles ----------------------------
(***************************************************************************)
(* The file tables of the kernel. The global table has one entry for each  *)
(* path that somebody has open, with a number and a count; the table of    *)
(* processes has, for each process with open files, its descriptors, which *)
(* name entries of the global one by number. The requests of the programs  *)
(* hold fs_request_mutex, and wait for the filesystem with it held; the    *)
(* end of a program closes its files without it.                           *)
(***************************************************************************)
EXTENDS Integers, FiniteSets, FiniteSetsExt, Sequences, SequencesExt

CONSTANTS
    Pid,        \* the programs
    Path,       \* the names of files
    Flags,      \* the flags of an opening: sets of "c", "r" and "w"
    MaxOpen,    \* bound: the descriptors that a program has at once
    Nobody,     \* no program
    NoPath      \* no file

Default == 0 .. 2
Descriptor == 0 .. 2 + MaxOpen

ASSUME FilesConstants ==
    /\ IsFiniteSet(Pid) /\ Nobody \notin Pid /\ NoPath \notin Path
    /\ Flags \subseteq SUBSET {"c", "r", "w"}
    /\ MaxOpen \in Nat \ {0}

VARIABLES
    globalTable,    \* fs_global_table
    processTable,   \* fs_process_table
    mutex,          \* who holds fs_request_mutex
    call,           \* how far each program, and the kernel for it, has come
    exists          \* the files that the filesystem has

vars == <<globalTable, processTable, mutex, call, exists>>

Running == [at |-> "run", path |-> NoPath, flags |-> {}, valid |-> FALSE, pos |-> 0,
            gfd |-> -1, fd |-> 0, size |-> 0]
At(p, point) == call[p].at = point
Go(p, c) == call' = [call EXCEPT ![p] = c]
Lock(p) == mutex = Nobody /\ mutex' = p
Unlock(p) == mutex' = Nobody
Run(p) == Go(p, Running)
\* A negative answer: the CPU gives the process up, and says so.
Refuse(p) == Go(p, [Running EXCEPT !.at = "ending"])
-----------------------------------------------------------------------------
(* What the tables say. Positions count from 1, and 0 is for none. *)

GlobalPos(gfd) == SelectInSeq(globalTable, LAMBDA f : f.gfd = gfd)
PathByGfd(gfd) == globalTable[GlobalPos(gfd)].path
TablePos(p) == SelectInSeq(processTable, LAMBDA t : t.pid = p)
FilesOf(p) == IF TablePos(p) = 0 THEN <<>> ELSE processTable[TablePos(p)].files
FilePos(p, fd) == SelectInSeq(FilesOf(p), LAMBDA f : f.fd = fd)
OpenFile(p, fd) == FilesOf(p)[FilePos(p, fd)]
IsOpen(p, fd) == fd \notin Default /\ FilePos(p, fd) # 0
IsAllowed(p, fd, flag) == IsOpen(p, fd) /\ flag \in OpenFile(p, fd).flags

\* path is not in the code: the file that the descriptor was given for.
NewFile(fd, gfd, flags, path) == [fd |-> fd, gfd |-> gfd, flags |-> flags, path |-> path]
Defaults == [i \in 1 .. 3 |-> NewFile(i - 1, -1, {}, NoPath)]

\* list_replace, which leaves a list without that position as it is.
Replaced(list, pos, e) == IF pos \in DOMAIN list THEN [list EXCEPT ![pos] = e] ELSE list
-----------------------------------------------------------------------------
(* Opening: two requests, each with the mutex, which is free in between. *)

ValidateFile(p, path, flags) ==
    /\ At(p, "run") /\ Len(FilesOf(p)) < 3 + MaxOpen
    /\ Lock(p)
    /\ Go(p, [Running EXCEPT !.at = "validate", !.path = path, !.flags = flags])
    /\ UNCHANGED <<globalTable, processTable, exists>>

FileValidated(p) ==
    /\ At(p, "validate")
    /\ Unlock(p)
    /\ LET valid == call[p].path \in exists
       IN  IF valid \/ "c" \in call[p].flags
           THEN Go(p, [call[p] EXCEPT !.at = "validated", !.valid = valid])
           ELSE Refuse(p)
    /\ UNCHANGED <<globalTable, processTable, exists>>

OpenRequest(p) ==
    /\ At(p, "validated")
    /\ Lock(p)
    /\ Go(p, [call[p] EXCEPT !.at = IF call[p].valid THEN "table" ELSE "create"])
    /\ UNCHANGED <<globalTable, processTable, exists>>

\* create_file makes the file anew, or fails for want of a block.
FileCreated(p) ==
    /\ At(p, "create")
    /\ exists' = exists \cup {call[p].path}
    /\ Go(p, [call[p] EXCEPT !.at = "table"])
    /\ UNCHANGED <<globalTable, processTable, mutex>>

\* Mutated: the answer is sent and the mutex is kept.
NotCreatedLocked(p) ==
    /\ At(p, "create") /\ Refuse(p)
    /\ UNCHANGED <<globalTable, processTable, mutex, exists>>

NotCreated(p) ==
    /\ At(p, "create") /\ Refuse(p) /\ Unlock(p)
    /\ UNCHANGED <<globalTable, processTable, exists>>

\* Mutated: the position of a new table is how many there were before it.
FindTableBefore(p) ==
    /\ At(p, "table")
    /\ IF TablePos(p) = 0
       THEN /\ processTable' = Append(processTable, [pid |-> p, files |-> Defaults])
            /\ Go(p, [call[p] EXCEPT !.at = "global", !.pos = Len(processTable)])
       ELSE /\ Go(p, [call[p] EXCEPT !.at = "global", !.pos = TablePos(p)])
            /\ UNCHANGED processTable
    /\ UNCHANGED <<globalTable, mutex, exists>>

\* open_file_in_process_table finds the table of the process or adds one,
FindTable(p) ==
    /\ At(p, "table")
    /\ IF TablePos(p) = 0
       THEN /\ processTable' = Append(processTable, [pid |-> p, files |-> Defaults])
            /\ Go(p, [call[p] EXCEPT !.at = "global", !.pos = Len(processTable) + 1])
       ELSE /\ Go(p, [call[p] EXCEPT !.at = "global", !.pos = TablePos(p)])
            /\ UNCHANGED processTable
    /\ UNCHANGED <<globalTable, mutex, exists>>

\* add_file_in_global_table: the entry that counts is the first with that number.
Added(path) ==
    LET pos == SelectInSeq(globalTable, LAMBDA f : f.path = path)
    IN  IF pos = 0
        THEN [gfd |-> Len(globalTable),
              table |-> Append(globalTable, [path |-> path, open |-> 1, gfd |-> Len(globalTable)])]
        ELSE LET gfd == globalTable[pos].gfd
             IN  [gfd |-> gfd, table |-> [globalTable EXCEPT ![GlobalPos(gfd)].open = @ + 1]]

\* takes an entry of the global table,
AddFileInGlobalTable(p) ==
    /\ At(p, "global")
    /\ globalTable' = Added(call[p].path).table
    /\ Go(p, [call[p] EXCEPT !.at = "append", !.gfd = Added(call[p].path).gfd])
    /\ UNCHANGED <<processTable, mutex, exists>>

\* and adds the descriptor, writing the table where it found it.
FileOpened(p) ==
    /\ At(p, "append") /\ TablePos(p) # 0
    /\ LET c == call[p]
           files == Append(FilesOf(p), NewFile(Len(FilesOf(p)), c.gfd, c.flags, c.path))
           added == [processTable EXCEPT ![TablePos(p)].files = files]
       IN  processTable' = Replaced(added, c.pos, [pid |-> p, files |-> files])
    /\ Run(p) /\ Unlock(p)
    /\ UNCHANGED <<globalTable, exists>>
-----------------------------------------------------------------------------
(* Closing, which the end of a program does too. *)

\* Mutated: the table that goes is the first one.
WithoutFileOfFirst(p, fd) ==
    LET files == RemoveAt(FilesOf(p), FilePos(p, fd))
    IN  IF Len(files) = 3 THEN Tail(processTable)
                          ELSE [processTable EXCEPT ![TablePos(p)].files = files]

\* Mutated: the table of a process that has closed its files is kept.
WithoutFileKept(p, fd) ==
    LET files == RemoveAt(FilesOf(p), FilePos(p, fd))
    IN  [processTable EXCEPT ![TablePos(p)].files = files]

WithoutFile(p, fd) ==
    LET files == RemoveAt(FilesOf(p), FilePos(p, fd))
    IN  IF Len(files) = 3 THEN RemoveAt(processTable, TablePos(p))
                          ELSE [processTable EXCEPT ![TablePos(p)].files = files]

\* Mutated: an entry goes when one of its openings is left.
DecrementedEarly(gfd) ==
    LET pos == GlobalPos(gfd)
    IN  IF pos = 0 THEN globalTable
        ELSE IF globalTable[pos].open <= 2 THEN RemoveAt(globalTable, pos)
        ELSE [globalTable EXCEPT ![pos].open = @ - 1]

Decremented(gfd) ==
    LET pos == GlobalPos(gfd)
    IN  IF pos = 0 THEN globalTable
        ELSE IF globalTable[pos].open = 1 THEN RemoveAt(globalTable, pos)
        ELSE [globalTable EXCEPT ![pos].open = @ - 1]

CloseFile(p, fd) ==
    /\ At(p, "run") /\ mutex = Nobody
    /\ IF IsOpen(p, fd)
       THEN /\ Lock(p)
            /\ processTable' = WithoutFile(p, fd)
            /\ Go(p, [Running EXCEPT !.at = "close", !.gfd = OpenFile(p, fd).gfd])
       ELSE Refuse(p) /\ UNCHANGED <<processTable, mutex>>
    /\ UNCHANGED <<globalTable, exists>>

FileClosed(p) ==
    /\ At(p, "close")
    /\ globalTable' = Decremented(call[p].gfd)
    /\ IF GlobalPos(call[p].gfd) = 0 THEN Refuse(p) ELSE Run(p)
    /\ Unlock(p)
    /\ UNCHANGED <<processTable, exists>>

\* cpu_task_finished and the aborts: the descriptors from 3 up to the number of files.
Finish(p) ==
    /\ call[p].at \in {"run", "ending"}
    /\ Go(p, [Running EXCEPT !.at = "closing", !.fd = 3, !.size = Len(FilesOf(p))])
    /\ UNCHANGED <<globalTable, processTable, mutex, exists>>

CloseNext(p) ==
    /\ At(p, "closing") /\ call[p].fd < call[p].size
    /\ IF IsOpen(p, call[p].fd)
       THEN /\ processTable' = WithoutFile(p, call[p].fd)
            /\ Go(p, [call[p] EXCEPT !.at = "decrement", !.gfd = OpenFile(p, call[p].fd).gfd])
       ELSE /\ Go(p, [call[p] EXCEPT !.fd = @ + 1])
            /\ UNCHANGED processTable
    /\ UNCHANGED <<globalTable, mutex, exists>>

NextClosed(p) ==
    /\ At(p, "decrement")
    /\ globalTable' = Decremented(call[p].gfd)
    /\ Go(p, [call[p] EXCEPT !.at = "closing", !.fd = @ + 1, !.gfd = -1])
    /\ UNCHANGED <<processTable, mutex, exists>>

Finished(p) ==
    /\ At(p, "closing") /\ call[p].fd >= call[p].size
    /\ Go(p, [Running EXCEPT !.at = "finished"])
    /\ UNCHANGED <<globalTable, processTable, mutex, exists>>
-----------------------------------------------------------------------------
(* The requests on an open file. For a descriptor that is not open the kernel *)
(* reads through a null pointer when it is to delete or read, and so does the *)
(* filesystem for a file that was deleted: no program asks for that.          *)

StillThere(p, fd) == IsOpen(p, fd) /\ PathByGfd(OpenFile(p, fd).gfd) \in exists

Deletable(gfd) == globalTable[GlobalPos(gfd)].open <= 1

DeleteFile(p, fd) ==
    /\ At(p, "run") /\ mutex = Nobody /\ IsOpen(p, fd)
    /\ LET gfd == OpenFile(p, fd).gfd
       IN  IF Deletable(gfd)
           THEN Lock(p) /\ Go(p, [Running EXCEPT !.at = "delete", !.path = PathByGfd(gfd)])
           ELSE Refuse(p) /\ UNCHANGED mutex
    /\ UNCHANGED <<globalTable, processTable, exists>>

\* The tables keep the entry and the descriptor. A second time the filesystem says no.
FileDeleted(p) ==
    /\ At(p, "delete")
    /\ exists' = exists \ {call[p].path}
    /\ IF call[p].path \in exists THEN Run(p) ELSE Refuse(p)
    /\ Unlock(p)
    /\ UNCHANGED <<globalTable, processTable>>

\* Where the cursors are is not kept here: what is left is the refusal.
SeekFile(p, fd) ==
    /\ At(p, "run") /\ mutex = Nobody /\ ~IsOpen(p, fd)
    /\ Refuse(p)
    /\ UNCHANGED <<globalTable, processTable, mutex, exists>>

\* Descriptor 1 is the console, and changes nothing here.
WriteFile(p, fd) ==
    /\ At(p, "run") /\ mutex = Nobody /\ fd # 1
    /\ IF IsAllowed(p, fd, "w")
       THEN StillThere(p, fd) /\ Lock(p) /\ Go(p, [Running EXCEPT !.at = "transfer"])
       ELSE Refuse(p) /\ UNCHANGED mutex
    /\ UNCHANGED <<globalTable, processTable, exists>>

\* The flags asked for are those of the descriptor: reading is always allowed.
ReadFile(p, fd) ==
    /\ At(p, "run") /\ StillThere(p, fd)
    /\ Lock(p) /\ Go(p, [Running EXCEPT !.at = "transfer"])
    /\ UNCHANGED <<globalTable, processTable, exists>>

\* The filesystem saved or found the bytes, or it did not.
Transferred(p) ==
    /\ At(p, "transfer")
    /\ Unlock(p)
    /\ Run(p) \/ Refuse(p)
    /\ UNCHANGED <<globalTable, processTable, exists>>
-----------------------------------------------------------------------------
Init ==
    /\ globalTable = <<>>
    /\ processTable = <<>>
    /\ mutex = Nobody
    /\ call = [p \in Pid |-> Running]
    /\ exists = {}

Handle(p) ==
    \/ FileValidated(p)
    \/ FileCreated(p)
    \/ NotCreated(p)
    \/ FindTable(p)
    \/ AddFileInGlobalTable(p)
    \/ FileOpened(p)
    \/ FileClosed(p)
    \/ FileDeleted(p)
    \/ Transferred(p)
    \/ CloseNext(p)
    \/ NextClosed(p)
    \/ Finished(p)

Ask(p) ==
    \/ \E path \in Path, flags \in Flags : ValidateFile(p, path, flags)
    \/ OpenRequest(p)
    \/ \E fd \in Descriptor :
           \/ CloseFile(p, fd)
           \/ DeleteFile(p, fd)
           \/ SeekFile(p, fd)
           \/ WriteFile(p, fd)
           \/ ReadFile(p, fd)
    \/ Finish(p)

Next == \E p \in Pid : Ask(p) \/ Handle(p)

Spec == Init /\ [][Next]_vars
-----------------------------------------------------------------------------
Entries == [path : Path, open : Nat \ {0}, gfd : Nat]
OpenFiles == [fd : Descriptor, gfd : Nat, flags : Flags, path : Path]

\* Every entry of the global table is open at least once, the first three descriptors
\* of a process are the default ones, and the mutex is held by a request alone.
TypeOK ==
    /\ \A i \in DOMAIN globalTable : globalTable[i] \in Entries
    /\ \A i \in DOMAIN processTable :
           LET t == processTable[i]
           IN  /\ t.pid \in Pid
               /\ SubSeq(t.files, 1, 3) = Defaults
               /\ \A j \in 4 .. Len(t.files) : t.files[j] \in OpenFiles
    /\ exists \subseteq Path
    /\ \A p \in Pid :
           mutex = p <=> call[p].at \in {"validate", "create", "table", "global", "append",
                                         "close", "delete", "transfer"}

\* The descriptors that were opened: the program, and the position in its table.
Opened == {q \in Pid \X (4 .. 3 + MaxOpen) : q[2] <= Len(FilesOf(q[1]))}
GfdOf(q) == FilesOf(q[1])[q[2]].gfd

Numbers == {globalTable[i].gfd : i \in DOMAIN globalTable} \cup {GfdOf(q) : q \in Opened}

\* The descriptors with a number, those being added and taken away too.
Holders(gfd) ==
    LET open == {q \in Opened : GfdOf(q) = gfd}
        moving == {p \in Pid : call[p].at \in {"append", "close", "decrement"} /\ call[p].gfd = gfd}
    IN  Cardinality(open) + Cardinality(moving)

\* The entries with a number are open, taken together, exactly as many times as there
\* are descriptors with that number: numbers are given to two files at once, and counts
\* are taken by number, yet no entry is left open for ever by a close or is gone while
\* a descriptor names it (add_file_in_global_table, close_file).
CountsAgree ==
    \A gfd \in Numbers :
        MapThenFoldSet(+, 0, LAMBDA i : globalTable[i].open, LAMBDA S : CHOOSE i \in S : TRUE,
                       {i \in DOMAIN globalTable : globalTable[i].gfd = gfd}) = Holders(gfd)

\* A process has one table, and only while it has a file open or opens one
\* (open_file_in_process_table, remove_open_file_by_fd_and_pid).
TablesAreOfOpenFiles ==
    /\ \A i, j \in DOMAIN processTable : processTable[i].pid = processTable[j].pid => i = j
    /\ \A i \in DOMAIN processTable :
           \/ Len(processTable[i].files) > 3
           \/ call[processTable[i].pid].at \in {"global", "append"}

\* The place where a program that opens a file found its table is still that of its
\* table, or beyond them all: list_replace writes there when others may have closed
\* their last file since (open_file_in_process_table).
PositionStays ==
    \A p \in Pid : call[p].at \in {"global", "append"} =>
        call[p].pos = TablePos(p) \/ call[p].pos > Len(processTable)

\* The files of a program are changed by its own requests and its end alone, whatever
\* tables others add and remove meanwhile (list_replace at a position found before).
OnlyOwnFilesChange ==
    [][\A p \in Pid : FilesOf(p)' # FilesOf(p) => call[p]' # call[p]]_vars

\* A file that is there is never created anew: what it holds would be lost. It is: two
\* programs ask whether it is there before either creates it (kernel_abrir).
CreatedOnce == [][\A p \in Pid : FileCreated(p) => call[p].path \notin exists]_vars

\* A descriptor names the file it was opened for. It need not: the number of a new
\* entry is the size of the table, which an entry that is left may have.
DescriptorsNameTheirFile ==
    \A i \in DOMAIN processTable : \A j \in 4 .. Len(processTable[i].files) :
        LET f == processTable[i].files[j] IN PathByGfd(f.gfd) = f.path

\* A program that has finished has no file open. It may: its descriptors are closed up
\* to how many they are, and after a close they may be numbered higher.
FinishedHasNothingOpen == \A p \in Pid : At(p, "finished") => TablePos(p) = 0

\* What a program opens is there. It need not be: another may delete it after the
\* kernel has answered that it is (kernel_abrir, cpu_validate_file).
OpenedFileExists == [][\A p \in Pid : FileOpened(p) => call[p].path \in exists]_vars

\* What a program deletes nobody else has open (delete_file_from_global_table). Another
\* may, when two entries have one number.
DeletedByItsHolder ==
    [][\A p \in Pid : FileDeleted(p) =>
           \A q \in Pid \ {p} : \A j \in 4 .. Len(FilesOf(q)) : FilesOf(q)[j].path # call[p].path]_vars
=============================================================================
