----------------------------- MODULE KernelHeap -----------------------------
(***************************************************************************)
(* The heap of the programs. The kernel keeps, for each program, a list of *)
(* its heap pages with the bytes that it takes to be free in each; the     *)
(* pages themselves, with a header before every block, are in the memory   *)
(* process. cpu_malloc and cpu_free hold malloc_mutex; each request they   *)
(* send to the memory is waited for by locking mem_response, a mutex that  *)
(* whoever receives an answer unlocks, after it has written the answer in  *)
(* global variables. cpu_read_file does the same with no malloc_mutex.     *)
(***************************************************************************)
EXTENDS Integers, FiniteSets, FiniteSetsExt, Sequences, SequencesExt, Bags

CONSTANTS
    Pid,            \* the programs, all started
    HeaderSize,     \* heap_metadata_size
    PageSize,       \* mem_page_size
    FirstPage,      \* page_c + stack_size: the first page of every heap
    MaxPage,        \* bound: no program asks for more beyond this page
    FreeFrames,     \* the frames the memory has for heap pages
    Sizes,          \* the sizes that programs reserve
    Variable,       \* where in its stack page a program reads a file into
    Overlap,        \* whether a program may read a file while another uses its heap
    NoPid           \* no program

StackPage == FirstPage - 1
MaxAlloc == PageSize - 2 * HeaderSize

ASSUME HeapConstants ==
    /\ IsFiniteSet(Pid) /\ NoPid \notin Pid
    /\ HeaderSize \in Nat \ {0} /\ PageSize \in Nat /\ PageSize > 2 * HeaderSize
    /\ FirstPage \in Nat \ {0} /\ MaxPage \in Nat /\ FirstPage <= MaxPage
    /\ FreeFrames \in Nat /\ Sizes \subseteq Nat \ {0}
    /\ Variable \in 0 .. PageSize - 1 /\ Overlap \in BOOLEAN

VARIABLES
    heapPages,      \* process_heap_pages: the heap pages of each program
    running,        \* the programs that have not ended
    heap,           \* the request under malloc_mutex, and how far it has come
    reader,         \* the request to read a file, and how far it has come
    wire,           \* the requests sent to the memory and not yet answered
    reply,          \* memory_response, mem_offset_abs, mem_read_buffer, page_from_pointer
    answered,       \* mem_response is unlocked
    memory,         \* the heap pages in the memory: their headers by offset
    live,           \* the ranges that programs have reserved and not freed
    lost            \* a value was stored in a heap page, or headers elsewhere

kernelVars == <<heapPages, running>>
threadVars == <<heap, reader>>
memoryVars == <<wire, reply, answered, memory>>
vars == <<kernelVars, threadVars, memoryVars, live, lost>>

\* A page without headers: what a frame holds before the kernel writes them. What the
\* loops would read there is not modelled: a thread that gets such a page stops.
Bare == [o \in {} |-> 0]
IdleHeap == [at |-> "idle", pid |-> NoPid, size |-> 0, from |-> 1, page |-> 0, offset |-> 0]
IdleReader == [at |-> "idle", pid |-> NoPid]
Address(p, n, o) == [pid |-> p, page |-> n, offset |-> o]
Extent(a, size) == [pid |-> a.pid, page |-> a.page, offset |-> a.offset, size |-> size]
-----------------------------------------------------------------------------
(* The blocks of a page. *)

Header(free, size) == [isFree |-> free, size |-> size]
After(b, o) == o + HeaderSize + b[o].size

\* The headers that a walk from the first one visits.
Walked(b) ==
    LET from[o \in DOMAIN b \cup {PageSize}] ==
            IF o = PageSize THEN {} ELSE {o} \cup from[After(b, o)]
    IN  from[0]

\* Mutated: there need be no room for the header of what is left.
FitsTight(b, o, n) == b[o].isFree /\ b[o].size >= n

\* The block is split when there is room for one more header; it may be taken whole,
\* unless it is the last.
Fits(b, o, n) ==
    /\ b[o].isFree
    /\ \/ b[o].size >= n + HeaderSize
       \/ b[o].size = n /\ After(b, o) # PageSize

Fitting(b, n) == {o \in Walked(b) : Fits(b, o, n)}

\* Mutated: the header of what is left is not taken off its size.
SplitGenerously(b, o, n) ==
    LET rest == b[o].size - n
    IN  [r \in DOMAIN b \cup (IF rest > 0 THEN {o + HeaderSize + n} ELSE {}) |->
            CASE r = o -> Header(FALSE, n)
              [] r = o + HeaderSize + n /\ rest > 0 -> Header(TRUE, rest)
              [] OTHER -> b[r]]

Split(b, o, n) ==
    LET rest == b[o].size - n
    IN  [r \in DOMAIN b \cup (IF rest > 0 THEN {o + HeaderSize + n} ELSE {}) |->
            CASE r = o -> Header(FALSE, n)
              [] r = o + HeaderSize + n /\ rest > 0 -> Header(TRUE, rest - HeaderSize)
              [] OTHER -> b[r]]

\* Mutated: a free block takes in the one after it although that is in use.
AbsorbingAny(b) ==
    LET from[o \in DOMAIN b \cup {PageSize}] ==
            IF o = PageSize \/ After(b, o) = PageSize THEN {}
            ELSE IF b[o].isFree THEN {o} \cup from[After(b, After(b, o))] ELSE from[After(b, o)]
    IN  from[0]

\* One pass over the page: the blocks that take in the one after them. The pass goes on
\* after the pair.
Absorbing(b) ==
    LET from[o \in DOMAIN b \cup {PageSize}] ==
            IF o = PageSize \/ After(b, o) = PageSize THEN {}
            ELSE IF b[o].isFree /\ b[After(b, o)].isFree
                 THEN {o} \cup from[After(b, After(b, o))]
                 ELSE from[After(b, o)]
    IN  from[0]

Joined(b) ==
    LET heads == Absorbing(b)
    IN  [o \in DOMAIN b \ {After(b, h) : h \in heads} |->
            IF o \in heads THEN Header(TRUE, b[o].size + HeaderSize + b[After(b, o)].size)
                           ELSE b[o]]

FreeBlock(b, o) == Joined([b EXCEPT ![o].isFree = TRUE])
WholePage(b) == b[0].isFree /\ b[0].size = PageSize - HeaderSize
NewPage == [o \in {0} |-> Header(TRUE, PageSize - HeaderSize)]
-----------------------------------------------------------------------------
(* The requests to the memory, which it serves in the order they were sent. *)

Request(op, p, n, o, b) == [op |-> op, pid |-> p, page |-> n, offset |-> o, blocks |-> b]
Send(r) == wire' = Append(wire, r)

\* wait_response: the thread locks mem_response again.
Answered == ~lost /\ answered /\ answered' = FALSE

Granted == UNION {{p} \X DOMAIN memory[p] : p \in Pid}
Store(p, n, b) == memory' = [memory EXCEPT ![p] = [m \in DOMAIN @ \cup {n} |-> IF m = n THEN b ELSE @[m]]]
Take(p, n) == memory' = [memory EXCEPT ![p] = [m \in DOMAIN @ \ {n} |-> @[m]]]

AddPages(r) ==
    /\ r.op = "add"
    /\ IF Cardinality(Granted) < FreeFrames
       THEN Store(r.pid, r.page, Bare) /\ reply' = [reply EXCEPT !.ok = TRUE]
       ELSE UNCHANGED memory /\ reply' = [reply EXCEPT !.ok = FALSE]
    /\ UNCHANGED lost

ReadBytes(r) ==
    /\ r.op = "read"
    /\ reply' = [reply EXCEPT !.buffer =
                    IF r.page \in DOMAIN memory[r.pid] THEN memory[r.pid][r.page] ELSE Bare]
    /\ UNCHANGED <<memory, lost>>

\* What is stored is the page with its headers, or a value read from a file.
StoreBytes(r) ==
    /\ r.op = "store"
    /\ IF r.blocks # Bare /\ r.page \in DOMAIN memory[r.pid]
       THEN Store(r.pid, r.page, r.blocks)
       ELSE UNCHANGED memory
    /\ reply' = [reply EXCEPT !.ok = TRUE, !.offsetAbs = Address(r.pid, r.page, r.offset)]
    /\ lost' = IF r.blocks = Bare THEN r.page # StackPage ELSE r.page \notin DOMAIN memory[r.pid]

GetPageFromPointer(r) ==
    /\ r.op = "pageOf"
    /\ reply' = [reply EXCEPT !.page = r.page]
    /\ UNCHANGED <<memory, lost>>

FreePage(r) ==
    /\ r.op = "free" /\ Take(r.pid, r.page)
    /\ reply' = [reply EXCEPT !.ok = TRUE]
    /\ lost' = (r.page \notin DOMAIN memory[r.pid])

FinishProgram(r) ==
    /\ r.op = "finish"
    /\ memory' = [memory EXCEPT ![r.pid] = Bare]
    /\ UNCHANGED <<reply, lost>>

\* Mutated: i_free_page answers nothing.
FreeIsSilent(r) == r.op \notin {"finish", "free"}

HasAnswer(r) == r.op # "finish"

\* The thread of the memory's connection writes the answer and unlocks mem_response,
\* locked or not.
Serve ==
    /\ ~lost /\ wire # <<>> /\ wire' = Tail(wire)
    /\ LET r == Head(wire)
       IN  /\ AddPages(r) \/ ReadBytes(r) \/ StoreBytes(r) \/ GetPageFromPointer(r)
                \/ FreePage(r) \/ FinishProgram(r)
           /\ answered' = (answered \/ HasAnswer(r))
    /\ UNCHANGED <<kernelVars, threadVars, live>>
-----------------------------------------------------------------------------
(* malloc_memory *)

Quiet == reader = IdleReader /\ wire = <<>>
MayStart(p) == ~lost /\ p \in running /\ (Overlap \/ Quiet) /\ reader.pid # p

Suitable(p, n, from) ==
    {i \in from .. Len(heapPages[p]) :
        heapPages[p][i].freeSize >= n /\ ~heapPages[p][i].wasFreed}

NextPage(p) ==
    IF heapPages[p] = <<>> THEN FirstPage ELSE Last(heapPages[p]).page + 1

\* The loop of malloc_memory from its i-th turn on: it asks for the first page from
\* there that seems to have room, or for one more page.
TryFrom(p, n, i) ==
    IF Suitable(p, n, i) # {}
    THEN LET page == heapPages[p][Min(Suitable(p, n, i))].page
         IN  /\ Send(Request("read", p, page, 0, Bare))
             /\ heap' = [IdleHeap EXCEPT !.at = "fit", !.pid = p, !.size = n, !.from = i, !.page = page]
    ELSE /\ Send(Request("add", p, NextPage(p), 0, Bare))
         /\ heap' = [IdleHeap EXCEPT !.at = "add", !.pid = p, !.size = n, !.page = NextPage(p)]

Malloc(p, n) ==
    /\ heap = IdleHeap /\ MayStart(p) /\ NextPage(p) <= MaxPage
    /\ n <= MaxAlloc
    /\ TryFrom(p, n, 1)
    /\ UNCHANGED <<kernelVars, reader, reply, answered, memory, live, lost>>

\* A program that is refused is ended by its CPU.
Refuse(p) ==
    /\ running' = running \ {p} /\ heap' = IdleHeap
    /\ UNCHANGED <<heapPages, reader, reply, memory, live, lost>>

MallocTooMuch(p, n) ==
    /\ heap = IdleHeap /\ MayStart(p) /\ n > MaxAlloc
    /\ Refuse(p)
    /\ UNCHANGED <<wire, answered>>

HeapAt(point) == heap.at = point /\ Answered
GoHeap(point) == heap' = [heap EXCEPT !.at = point]

\* it_fits_malloc works on mem_read_buffer itself.
Fit ==
    /\ HeapAt("fit") /\ reply.buffer # Bare
    /\ LET fitting == Fitting(reply.buffer, heap.size)
       IN  IF fitting = {}
           THEN TryFrom(heap.pid, heap.size, heap.from + 1) /\ UNCHANGED reply
           ELSE LET page == Split(reply.buffer, Min(fitting), heap.size)
                IN  /\ reply' = [reply EXCEPT !.buffer = page]
                    /\ Send(Request("store", heap.pid, heap.page, 0, page))
                    /\ heap' = [heap EXCEPT !.at = "fitted", !.offset = Min(fitting) + HeaderSize]
    /\ UNCHANGED <<kernelVars, reader, memory, live, lost>>

\* Mutated: the flag of a page that was given back is not set.
OccupiedOnly(p, n, space, freed) ==
    [heapPages EXCEPT ![p] =
        [i \in DOMAIN @ |-> IF @[i].page = n THEN [@[i] EXCEPT !.freeSize = @ - space] ELSE @[i]]]

\* occupy_space, and what it does to the entry of the page.
Spent(h, space, freed) == [h EXCEPT !.freeSize = @ - space, !.wasFreed = freed]
Occupied(p, n, space, freed) ==
    [heapPages EXCEPT ![p] =
        [i \in DOMAIN @ |-> IF @[i].page = n THEN Spent(@[i], space, freed) ELSE @[i]]]

\* Mutated: the header of the freed block is counted as free although it stays.
GivenWithHeader(freed) == freed + HeaderSize

\* What malloc_memory takes off when a block is reserved, and free_memory adds.
Taken == heap.size + HeaderSize
Given(freed) == freed

Reserve(pointer) == live' = live (+) SetToBag({Extent(pointer, heap.size)})

Fitted ==
    /\ HeapAt("fitted")
    /\ heapPages' = Occupied(heap.pid, heap.page, Taken, FALSE)
    /\ Reserve([reply.offsetAbs EXCEPT !.offset = @ + heap.offset])
    /\ heap' = IdleHeap
    /\ UNCHANGED <<running, reader, wire, reply, memory, lost>>

\* add_heap_page
Add ==
    /\ HeapAt("add")
    /\ IF reply.ok
       THEN /\ heapPages' = [heapPages EXCEPT ![heap.pid] =
                    Append(@, [page |-> heap.page, freeSize |-> MaxAlloc - heap.size, wasFreed |-> FALSE])]
            /\ Send(Request("read", heap.pid, heap.page, 0, Bare))
            /\ GoHeap("format")
            /\ UNCHANGED <<running, reader, reply, memory, live, lost>>
       ELSE Refuse(heap.pid) /\ UNCHANGED wire

Format ==
    /\ HeapAt("format")
    /\ LET page == Split(NewPage, 0, heap.size)
       IN  /\ reply' = [reply EXCEPT !.buffer = page]
           /\ Send(Request("store", heap.pid, heap.page, 0, page))
    /\ GoHeap("formatted")
    /\ UNCHANGED <<kernelVars, reader, memory, live, lost>>

Formatted ==
    /\ HeapAt("formatted")
    /\ Reserve([reply.offsetAbs EXCEPT !.offset = @ + HeaderSize])
    /\ heap' = IdleHeap
    /\ UNCHANGED <<kernelVars, reader, wire, reply, memory, lost>>
-----------------------------------------------------------------------------
(* free_memory: a program frees what it has reserved. *)

Free(r) ==
    /\ heap = IdleHeap /\ MayStart(r.pid) /\ BagIn(r, live)
    /\ Send(Request("pageOf", r.pid, r.page, r.offset, Bare))
    /\ heap' = [IdleHeap EXCEPT !.at = "page", !.pid = r.pid, !.offset = r.offset - HeaderSize]
    /\ live' = live (-) SetToBag({r})
    /\ UNCHANGED <<kernelVars, reader, reply, answered, memory, lost>>

PageFound ==
    /\ HeapAt("page")
    /\ Send(Request("read", heap.pid, reply.page, 0, Bare))
    /\ GoHeap("release")
    /\ UNCHANGED <<kernelVars, reader, reply, memory, live, lost>>

\* free_heap works on mem_read_buffer itself.
Release ==
    /\ HeapAt("release") /\ heap.offset \in DOMAIN reply.buffer
    /\ LET page == FreeBlock(reply.buffer, heap.offset)
           freed == reply.buffer[heap.offset].size
       IN  /\ reply' = [reply EXCEPT !.buffer = page]
           /\ IF WholePage(page)
              THEN /\ Send(Request("free", heap.pid, reply.page, 0, Bare))
                   /\ GoHeap("freed")
                   /\ UNCHANGED heapPages
              ELSE /\ heapPages' = Occupied(heap.pid, reply.page, -Given(freed), FALSE)
                   /\ Send(Request("store", heap.pid, reply.page, 0, page))
                   /\ GoHeap("released")
    /\ UNCHANGED <<running, reader, memory, live, lost>>

\* free_heap answered -1, and it is -1 that is taken off.
PageFreed ==
    /\ HeapAt("freed")
    /\ heapPages' = Occupied(heap.pid, reply.page, 1, TRUE)
    /\ heap' = IdleHeap
    /\ UNCHANGED <<running, reader, wire, reply, memory, live, lost>>

Released ==
    /\ HeapAt("released") /\ heap' = IdleHeap
    /\ UNCHANGED <<kernelVars, reader, wire, reply, memory, live, lost>>
-----------------------------------------------------------------------------
(* cpu_read_file, from the answer of the filesystem on. *)

ReaderAt(point) == reader.at = point /\ Answered
GoReader(point) == reader' = [reader EXCEPT !.at = point]

ReadFile(p) ==
    /\ reader = IdleReader /\ ~lost /\ p \in running /\ heap.pid # p
    /\ Overlap \/ (heap = IdleHeap /\ wire = <<>>)
    /\ Send(Request("pageOf", p, StackPage, Variable, Bare))
    /\ reader' = [at |-> "page", pid |-> p]
    /\ UNCHANGED <<kernelVars, heap, reply, answered, memory, live, lost>>

StoreRead ==
    /\ ReaderAt("page")
    /\ Send(Request("store", reader.pid, reply.page, Variable, Bare))
    /\ GoReader("stored")
    /\ UNCHANGED <<kernelVars, heap, reply, memory, live, lost>>

FileRead ==
    /\ ReaderAt("stored") /\ reader' = IdleReader
    /\ UNCHANGED <<kernelVars, heap, wire, reply, memory, live, lost>>
-----------------------------------------------------------------------------
\* cpu_task_finished: the CPU has returned the program, which asks for nothing more.
Finish(p) ==
    /\ ~lost /\ heap.pid # p /\ reader.pid # p
    /\ p \in running \/ heapPages[p] # <<>>
    /\ heapPages' = [heapPages EXCEPT ![p] = <<>>]
    /\ running' = running \ {p}
    /\ Send(Request("finish", p, 0, 0, Bare))
    /\ live' = [r \in {s \in DOMAIN live : s.pid # p} |-> live[r]]
    /\ UNCHANGED <<threadVars, reply, answered, memory, lost>>

Init ==
    /\ heapPages = [p \in Pid |-> <<>>] /\ running = Pid
    /\ heap = IdleHeap /\ reader = IdleReader
    /\ wire = <<>> /\ answered = FALSE /\ memory = [p \in Pid |-> Bare]
    /\ reply = [ok |-> FALSE, buffer |-> Bare, page |-> 0, offsetAbs |-> Address(NoPid, 0, 0)]
    /\ live = EmptyBag /\ lost = FALSE

HeapThread == Fit \/ Fitted \/ Add \/ Format \/ Formatted \/ PageFound \/ Release \/ PageFreed \/ Released
ReaderThread == StoreRead \/ FileRead

Next ==
    \/ Serve \/ HeapThread \/ ReaderThread
    \/ \E p \in Pid :
        \/ \E n \in Sizes : Malloc(p, n) \/ MallocTooMuch(p, n)
        \/ ReadFile(p) \/ Finish(p)
    \/ \E r \in DOMAIN live : Free(r)

Spec == Init /\ [][Next]_vars

\* The threads go on; the programs need ask for nothing.
FairSpec == Spec /\ WF_vars(Serve) /\ WF_vars(HeapThread) /\ WF_vars(ReaderThread)
-----------------------------------------------------------------------------
Pages == StackPage .. MaxPage
Listed == [page : Pages, freeSize : Int, wasFreed : BOOLEAN]
Headers == [isFree : BOOLEAN, size : 0 .. PageSize]
IsPage(b) == DOMAIN b \subseteq 0 .. PageSize - 1 /\ b \in [DOMAIN b -> Headers]
Addresses == [pid : Pid \cup {NoPid}, page : Pages \cup {0}, offset : 0 .. 2 * PageSize]
Extents == [pid : Pid, page : Pages, offset : 0 .. PageSize, size : 0 .. PageSize]
HeapStates == [at : {"idle", "fit", "fitted", "add", "format", "formatted",
                     "page", "release", "freed", "released"},
               pid : Pid \cup {NoPid}, size : Nat, from : Nat, page : Pages \cup {0}, offset : 0 .. PageSize]
ReaderStates == [at : {"idle", "page", "stored"}, pid : Pid \cup {NoPid}]
IsRequest(r) ==
    /\ r.op \in {"add", "read", "store", "pageOf", "free", "finish"} /\ r.pid \in Pid
    /\ r.page \in Pages \cup {0} /\ r.offset \in 0 .. PageSize /\ IsPage(r.blocks)
IsWire(w) == w \in Seq(ToSet(w)) /\ \A r \in ToSet(w) : IsRequest(r)
IsReply(r) ==
    /\ r \in [ok : BOOLEAN, buffer : {r.buffer}, page : Pages \cup {0}, offsetAbs : Addresses]
    /\ IsPage(r.buffer)
ArePages(f) == DOMAIN f \subseteq Pages /\ \A n \in DOMAIN f : IsPage(f[n])

TypeOK ==
    /\ heapPages \in [Pid -> Seq(Listed)] /\ running \subseteq Pid
    /\ heap \in HeapStates /\ reader \in ReaderStates
    /\ IsWire(wire) /\ IsReply(reply) /\ answered \in BOOLEAN /\ lost \in BOOLEAN
    /\ DOMAIN memory = Pid /\ \A p \in Pid : ArePages(memory[p])
    /\ IsABag(live) /\ DOMAIN live \subseteq Extents

Settled == heap = IdleHeap /\ wire = <<>>
HeapPagesOf(p) == Range(heapPages[p])
FreeBytes(b) == MapThenSumSet(LAMBDA o : IF b[o].isFree THEN b[o].size ELSE 0, DOMAIN b)

\* The blocks in use, by where their bytes begin.
InUse(b) == {o \in DOMAIN b : ~b[o].isFree}
UsedOn(p, n, b) == {Extent(Address(p, n, o + HeaderSize), b[o].size) : o \in InUse(b)}
Used == UNION {UsedOn(g[1], g[2], memory[g[1]][g[2]]) : g \in Granted}

\* it_fits_malloc splits blocks and free_heap joins them: from header to header the walk
\* visits every header of the page and ends at the end of the page, so that no loop
\* reads a header in the middle of somebody's bytes.
BlocksTileThePage ==
    \A p \in Pid : \A n \in DOMAIN memory[p] :
        LET b == memory[p][n]
        IN  b # Bare => /\ 0 \in DOMAIN b
                        /\ \A o \in DOMAIN b : After(b, o) \in DOMAIN b \cup {PageSize}
                        /\ Walked(b) = DOMAIN b

\* malloc_memory and free_memory: the blocks in use are those that programs have reserved
\* and not freed, each once and with the size that was asked for, at the address that
\* was answered; nobody's block is handed out twice, cut or given away.
AllocationsAreKept == Settled /\ ~lost => live = SetToBag(Used)

\* free_size is kept apart from the headers, with other arithmetic: it never promises
\* bytes that the page does not have.
FreeSizeIsThere ==
    Settled => \A p \in Pid : \A h \in HeapPagesOf(p) :
        ~h.wasFreed => h.freeSize <= FreeBytes(memory[p][h.page])

\* add_heap_page numbers a page by the last one, also after pages were given back: the
\* pages that the kernel takes a program to have are those that the memory granted,
\* each listed once.
PagesAreGranted ==
    Settled => \A p \in Pid :
        /\ {h.page : h \in {h \in HeapPagesOf(p) : ~h.wasFreed}} = DOMAIN memory[p]
        /\ \A i, j \in DOMAIN heapPages[p] : i < j => heapPages[p][i].page < heapPages[p][j].page

\* mem_response is locked by who waits and unlocked by who answers: when nobody else asks
\* the memory at the same time, every request for the heap ends.
HeapIsAnswered == heap # IdleHeap ~> heap = IdleHeap

(* What the documents say and the code does not do. *)

\* kernel.c:840: free_heap returns -1 when the whole page was freed.
FreedPageIsReturned ==
    Settled => \A p \in Pid : \A n \in DOMAIN memory[p] : \E o \in DOMAIN memory[p][n] : ~memory[p][n][o].isFree
=============================================================================
