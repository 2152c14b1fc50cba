------------------------------ MODULE Memoria ------------------------------
(***************************************************************************)
(* The memory process: the inverted page table, the frames and the cache.  *)
(*                                                                         *)
(* One thread serves each connection, one request at a time: the kernel's  *)
(* thread starts and finishes programs, gives and takes heap pages, and    *)
(* reads and stores them; a CPU's thread resolves pointers and reads and   *)
(* stores. mem_mutex serialises all but reads and stores. These look the   *)
(* page up in the cache and in the table under no lock, wait for the time  *)
(* of an access, and only then take frames_mutex to touch the frame, which *)
(* they keep while they enter the page in the cache.                       *)
(***************************************************************************)
EXTENDS Integers, FiniteSets

CONSTANTS
    Pid,            \* the programs the kernel may start, each at most once
    Cpu,            \* the connections of the CPUs
    Kernel,         \* the connection of the kernel
    Frame,          \* the frames
    Zero,           \* frame 0: an administrative one
    Slot,           \* the entries of the cache
    None,           \* no program: PID -1; no frame: NULL
    Adm,            \* PID_ADM_STRUCT
    CodePages,      \* the pages of each program's code
    StackSize,      \* stack_size: pages of stack of every program
    MaxPage,        \* bound: no heap page is asked for beyond it
    CacheXProc,     \* cache_x_proc: entries of the cache a program may have
    Wild,           \* whether a program may follow a pointer outside its pages
    Flushes         \* whether the menu may flush the cache

Thread == Cpu \cup {Kernel}
Page == 0 .. MaxPage
\* What get_page_from_pointer answers for an address beyond the last frame.
NoPage == -1

ASSUME NamesAreDistinct ==
    /\ Kernel \notin Cpu /\ Zero \in Frame
    /\ {None, Adm} \cap Pid = {} /\ None # Adm
    /\ None \notin Frame \cup Slot \cup Thread

ASSUME SizesAreRight ==
    /\ IsFiniteSet(Frame) /\ IsFiniteSet(Slot)
    /\ StackSize \in Nat /\ MaxPage \in Nat /\ CacheXProc \in Nat
    /\ CodePages \in [Pid -> Nat \ {0}]
    /\ \A p \in Pid : CodePages[p] + StackSize <= MaxPage + 1
    /\ {Wild, Flushes} \subseteq BOOLEAN

VARIABLES
    table,      \* adm_list: the program and the page of each frame
    content,    \* frames: whose bytes each frame holds
    cache,      \* cache_list: the page and the frame of each entry
    older,      \* pairs of entries in use: the lru counter of the first is the higher
    mutex,      \* owner of mem_mutex, frames_mutex and frames_cache_mutex
    job,        \* the request each thread serves
    pages,      \* the pages that the kernel and the CPUs take a program to have
    nextPage,   \* the next heap page the kernel will ask for; 0 before the start
    crashed     \* a NULL pointer has been followed

tableVars == <<table, content>>
cacheVars == <<cache, older>>
clientVars == <<pages, nextPage>>
vars == <<tableVars, cacheVars, mutex, job, clientVars, crashed>>

\* Bytes that nobody wrote.
Clean == <<>>
Idle == [op |-> "none", at |-> "idle", pid |-> None, page |-> 0, frame |-> None,
         slot |-> None, got |-> Clean]

Free(m) == mutex[m] = None
Lock(m, t) == mutex' = [mutex EXCEPT ![m] = t]
Unlock(m) == mutex' = [mutex EXCEPT ![m] = None]

At(t, point) == ~crashed /\ job[t].at = point
Go(t, point) == job' = [job EXCEPT ![t].at = point]
Done(t) == job' = [job EXCEPT ![t] = Idle]

FreeFrames == {f \in Frame : table[f].pid = None}
PagesOf(p) == {f \in Frame : table[f].pid = p}
Holding(p, n) == {f \in Frame : table[f] = [pid |-> p, page |-> n]}
Entries(p) == {s \in Slot : cache[s].pid = p}
NoEntry == [pid |-> None, page |-> 0, frame |-> Zero]
Without(ss) == {pair \in older : pair[1] \notin ss /\ pair[2] \notin ss}
-----------------------------------------------------------------------------
(* What the kernel and the CPUs ask. A program is executed by one CPU, which *)
(* waits for every answer; the kernel accesses its heap while the CPU waits, *)
(* and finishes it when the CPU has returned it: at most one request is      *)
(* under way for each program.                                               *)

Busy(p) == \E t \in Thread : job[t].pid = p

Ask(t, op, p, n, point) ==
    /\ At(t, "idle")
    /\ job' = [job EXCEPT ![t] = [Idle EXCEPT !.op = op, !.at = point, !.pid = p, !.page = n]]
    /\ UNCHANGED <<tableVars, cacheVars, mutex, crashed>>

AskStart(p) ==
    /\ nextPage[p] = 0
    /\ Ask(Kernel, "start", p, 0, "lock")
    /\ nextPage' = [nextPage EXCEPT ![p] = CodePages[p] + StackSize]
    /\ UNCHANGED pages

AskFinish(p) ==
    /\ pages[p] # {} /\ ~Busy(p)
    /\ Ask(Kernel, "finish", p, 0, "lock")
    /\ pages' = [pages EXCEPT ![p] = {}]
    /\ UNCHANGED nextPage

AskAddPage(p) ==
    /\ pages[p] # {} /\ ~Busy(p) /\ nextPage[p] <= MaxPage
    /\ Ask(Kernel, "addPage", p, nextPage[p], "lock")
    /\ UNCHANGED clientVars

AskFreePage(p, n) ==
    /\ n \in pages[p] /\ n >= CodePages[p] + StackSize /\ ~Busy(p)
    /\ Ask(Kernel, "freePage", p, n, "lock")
    /\ pages' = [pages EXCEPT ![p] = @ \ {n}]
    /\ UNCHANGED nextPage

\* The kernel accesses heap pages; a CPU, any page of the program it executes.
AskAccess(t, op, p, n) ==
    /\ n \in pages[p] /\ ~Busy(p)
    /\ t = Kernel => n >= CodePages[p] + StackSize
    /\ op = "store" => n >= CodePages[p]
    /\ Ask(t, op, p, n, "search")
    /\ UNCHANGED clientVars

\* The pointer to a variable: first its frame, then the page of the pointer, then the access.
AskVariable(c, op, p, n) ==
    /\ n \in pages[p] /\ n >= CodePages[p] /\ ~Busy(p)
    /\ Ask(c, op, p, n, "frame")
    /\ UNCHANGED clientVars

AskWild(c, op, p) ==
    /\ Wild /\ pages[p] # {} /\ ~Busy(p)
    /\ Ask(c, op, p, NoPage, "pointer")
    /\ UNCHANGED clientVars
-----------------------------------------------------------------------------
(* Requests under mem_mutex. *)

LockMemory(t) ==
    /\ At(t, "lock") /\ Free("mem")
    /\ Lock("mem", t)
    /\ Go(t, CASE job[t].op \in {"start", "addPage"} -> "check"
               [] job[t].op = "finish" -> "finish"
               [] OTHER -> "free")
    /\ UNCHANGED <<tableVars, cacheVars, clientVars, crashed>>

\* Mutated: the pages of the stack are not counted.
NeededForCode(j) == IF j.op = "start" THEN CodePages[j.pid] ELSE 1

Needed(j) == IF j.op = "start" THEN CodePages[j.pid] + StackSize ELSE 1

HasAvailableFrames(t) ==
    /\ At(t, "check") /\ Free("frames")
    /\ IF Cardinality(FreeFrames) >= Needed(job[t])
       THEN /\ Go(t, IF job[t].op = "start" THEN "code" ELSE "page")
            /\ UNCHANGED mutex
       ELSE Done(t) /\ Unlock("mem")
    /\ UNCHANGED <<tableVars, cacheVars, clientVars, crashed>>

\* n pages from the first one on go to free frames, as many as there are: to the
\* frame of hash() as long as that is free, then to the first free one. Any free
\* frame stands for both.
Placed(p, first, n) ==
    LET k == IF n <= Cardinality(FreeFrames) THEN n ELSE Cardinality(FreeFrames)
    IN  {[f \in Frame |-> IF \E i \in first .. first + k - 1 : q[i] = f
                          THEN [pid |-> p, page |-> CHOOSE i \in first .. first + k - 1 : q[i] = f]
                          ELSE table[f]] :
            q \in {r \in [first .. first + k - 1 -> FreeFrames] :
                      \A i, j \in first .. first + k - 1 : r[i] = r[j] => i = j}}

StartProgram(t) ==
    /\ At(t, "code") /\ Free("frames")
    /\ table' \in Placed(job[t].pid, 0, CodePages[job[t].pid])
    /\ Go(t, "stack")
    /\ UNCHANGED <<content, cacheVars, mutex, clientVars, crashed>>

\* add_pages numbers the new pages by how many the program has.
AddPages(t) ==
    /\ At(t, "stack") /\ Free("frames")
    /\ table' \in Placed(job[t].pid, Cardinality(PagesOf(job[t].pid)), StackSize)
    /\ Go(t, "search")
    /\ UNCHANGED <<content, cacheVars, mutex, clientVars, crashed>>

\* i_add_pages_to_program
AddPage(t) ==
    /\ At(t, "page") /\ Free("frames")
    /\ LET p == job[t].pid
           n == job[t].page
       IN  /\ table' \in Placed(p, n, 1)
           /\ pages' = [pages EXCEPT ![p] = @ \cup {n}]
           /\ nextPage' = [nextPage EXCEPT ![p] = n + 1]
    /\ Done(t) /\ Unlock("mem")
    /\ UNCHANGED <<content, cacheVars, crashed>>

\* Mutated: a free frame has no page.
ClearedToNoPage(fs) ==
    /\ table' = [f \in Frame |-> IF f \in fs THEN [pid |-> None, page |-> NoPage] ELSE table[f]]
    /\ content' = [f \in Frame |-> IF f \in fs THEN Clean ELSE content[f]]

Cleared(fs) ==
    /\ table' = [f \in Frame |-> IF f \in fs THEN [pid |-> None, page |-> 0] ELSE table[f]]
    /\ content' = [f \in Frame |-> IF f \in fs THEN Clean ELSE content[f]]

FinishProgram(t) ==
    /\ At(t, "finish") /\ Free("frames")
    /\ Cleared(PagesOf(job[t].pid))
    /\ Go(t, "uncache")
    /\ UNCHANGED <<cacheVars, mutex, clientVars, crashed>>

\* The loop over adm_list has no end of its own.
FreePage(t) ==
    /\ At(t, "free") /\ Free("frames")
    /\ LET fs == Holding(job[t].pid, job[t].page)
       IN  IF fs = {}
           THEN crashed' = TRUE /\ UNCHANGED <<tableVars, job>>
           ELSE (\E f \in fs : Cleared({f})) /\ Go(t, "uncache") /\ UNCHANGED crashed
    /\ UNCHANGED <<cacheVars, mutex, clientVars>>

\* Mutated: finish_program leaves the cache as it is.
DroppedOnFree(j) == {s \in Entries(j.pid) : j.op # "finish" /\ cache[s].page = j.page}

Dropped(j) == {s \in Entries(j.pid) : j.op = "finish" \/ cache[s].page = j.page}

\* The end of finish_program and of free_page.
Uncache(t) ==
    /\ At(t, "uncache") /\ Free("cache")
    /\ LET ss == Dropped(job[t])
       IN  /\ cache' = [s \in Slot |-> IF s \in ss THEN NoEntry ELSE cache[s]]
           /\ older' = Without(ss)
    /\ Done(t) /\ Unlock("mem")
    /\ UNCHANGED <<tableVars, clientVars, crashed>>

\* i_get_frame_from_pid_and_page: when no frame holds the page the answer is not initialised.
GetFrame(t) ==
    /\ At(t, "frame") /\ Free("mem")
    /\ LET fs == Holding(job[t].pid, job[t].page)
       IN  \E f \in (IF fs = {} THEN Frame \cup {None} ELSE fs) :
              job' = [job EXCEPT ![t].frame = f, ![t].at = "pointer"]
    /\ UNCHANGED <<tableVars, cacheVars, mutex, clientVars, crashed>>

\* i_get_page_from_pointer
GetPageFromPointer(t) ==
    /\ At(t, "pointer") /\ Free("mem")
    /\ LET f == job[t].frame
       IN  job' = [job EXCEPT ![t].page = IF f = None THEN NoPage ELSE table[f].page,
                              ![t].frame = None, ![t].at = "search"]
    /\ UNCHANGED <<tableVars, cacheVars, mutex, clientVars, crashed>>
-----------------------------------------------------------------------------
(* read_bytes and store_bytes. i_start_program stores the pages of the code. *)

\* Mutated: an entry is told by its page alone.
CachedByPage(j) == {s \in Slot : cache[s].pid # None /\ cache[s].page = j.page}

CachedAt(j) == {s \in Entries(j.pid) : cache[s].page = j.page}

ExistsInCache(t) ==
    /\ At(t, "search")
    /\ Go(t, IF CachedAt(job[t]) # {} THEN "cached" ELSE "table")
    /\ UNCHANGED <<tableVars, cacheVars, mutex, clientVars, crashed>>

\* get_from_cache returns a pointer into the entry it finds again.
GetFromCache(t) ==
    /\ At(t, "cached")
    /\ \/ /\ CachedAt(job[t]) = {}
          /\ crashed' = TRUE
          /\ UNCHANGED job
       \/ /\ \E s \in CachedAt(job[t]) :
                job' = [job EXCEPT ![t].slot = s, ![t].at = "access"]
          /\ UNCHANGED crashed
    /\ UNCHANGED <<tableVars, cacheVars, mutex, clientVars>>

\* The search of adm_list, before the time of the access.
FindInTable(t) ==
    /\ At(t, "table")
    /\ LET fs == Holding(job[t].pid, job[t].page)
       IN  \E f \in (IF fs = {} THEN {None} ELSE fs) :
              job' = [job EXCEPT ![t].frame = f, ![t].at = "access"]
    /\ UNCHANGED <<tableVars, cacheVars, mutex, clientVars, crashed>>

\* The frame is read through the pointer now: the entry may have changed.
FrameOf(j) == IF j.slot # None THEN cache[j.slot].frame ELSE j.frame

Written(t, f) ==
    content' = IF job[t].op = "read" THEN content
               ELSE [content EXCEPT ![f] = <<job[t].pid, job[t].page>>]

Access(t) ==
    /\ At(t, "access") /\ Free("frames")
    /\ LET f == FrameOf(job[t])
           toCache == job[t].slot = None /\ Slot # {}
       IN  /\ f # None
           /\ Written(t, f)
           /\ job' = [job EXCEPT ![t].got = content[f],
                                 ![t].at = IF toCache THEN "enter" ELSE "answer"]
           /\ IF toCache THEN Lock("frames", t) ELSE UNCHANGED mutex
    /\ UNCHANGED <<table, cacheVars, clientVars, crashed>>

\* A page that is in no frame: frames_mutex is locked, and unlocked only inside the if.
\* A read then answers with a buffer that was never assigned.
AccessNothing(t) ==
    /\ At(t, "access") /\ Free("frames") /\ FrameOf(job[t]) = None
    /\ Lock("frames", t)
    /\ Go(t, "answer")
    /\ crashed' \in (IF job[t].op = "read" THEN BOOLEAN ELSE {FALSE})
    /\ UNCHANGED <<tableVars, cacheVars, clientVars>>
-----------------------------------------------------------------------------
(* store_in_cache, with frames_mutex locked. *)

\* Mutated: one entry more than the program may have.
BelowOrAtShare(p) == Cardinality(Entries(p)) <= CacheXProc

BelowShare(p) == Cardinality(Entries(p)) < CacheXProc

\* A free entry if there is one, else the one with the highest lru.
Oldest == {s \in Slot : \A r \in Slot \ {s} : <<s, r>> \in older}
Victims == IF Entries(None) # {} THEN Entries(None) ELSE Oldest

\* The entry is written field by field while other threads search the cache under no
\* lock: first the frame and the page, then the program.
StoreInCache(t) ==
    /\ At(t, "enter") /\ Free("cache")
    /\ LET new == table[job[t].frame]
       IN  \/ /\ BelowShare(new.pid)
              /\ \E s \in Victims :
                    /\ cache' = [cache EXCEPT ![s].frame = job[t].frame, ![s].page = new.page]
                    /\ job' = [job EXCEPT ![t].slot = s, ![t].at = "name"]
              /\ Lock("cache", t)
           \/ /\ ~BelowShare(new.pid)
              /\ Go(t, "age")
              /\ UNCHANGED <<cache, mutex>>
    /\ UNCHANGED <<tableVars, older, clientVars, crashed>>

\* Mutated: the lru counters are increased with frames_cache_mutex still locked.
EnteredLocked == UNCHANGED mutex

Entered == Unlock("cache")

NameEntry(t) ==
    /\ At(t, "name")
    /\ LET s == job[t].slot
           p == table[job[t].frame].pid
       IN  /\ cache' = [cache EXCEPT ![s].pid = p]
           /\ older' = IF p = None THEN Without({s})
                       ELSE Without({s}) \cup {<<r, s>> : r \in Slot \ (Entries(None) \cup {s})}
    /\ Entered
    /\ Go(t, "age")
    /\ UNCHANGED <<tableVars, clientVars, crashed>>

\* Every lru counter grows by one: their order stays as it is.
IncreaseCacheLru(t) ==
    /\ At(t, "age") /\ Free("cache")
    /\ Unlock("frames")
    /\ Go(t, "answer")
    /\ UNCHANGED <<tableVars, cacheVars, clientVars, crashed>>

\* A start goes on with the next page of the code.
Answer(t) ==
    /\ At(t, "answer")
    /\ LET j == job[t]
           more == j.op = "start" /\ j.page + 1 < CodePages[j.pid]
       IN  IF more
           THEN /\ job' = [job EXCEPT ![t] = [Idle EXCEPT !.op = "start", !.at = "search",
                                                          !.pid = j.pid, !.page = j.page + 1]]
                /\ UNCHANGED <<pages, mutex>>
           ELSE /\ Done(t)
                /\ IF j.op = "start"
                   THEN /\ pages' = [pages EXCEPT ![j.pid] = 0 .. CodePages[j.pid] + StackSize - 1]
                        /\ Unlock("mem")
                   ELSE UNCHANGED <<pages, mutex>>
    /\ UNCHANGED <<tableVars, cacheVars, nextPage, crashed>>

\* Mutated: the flush resets the page and the frame of each entry and not its program.
FlushPages ==
    /\ Flushes /\ ~crashed /\ Free("cache")
    /\ cache' = [s \in Slot |-> [cache[s] EXCEPT !.page = 0, !.frame = Zero]]
    /\ UNCHANGED <<older, tableVars, mutex, job, clientVars, crashed>>

\* The menu's flush leaves the page and the frame of each entry.
Flush ==
    /\ Flushes /\ ~crashed /\ Free("cache")
    /\ cache' = [s \in Slot |-> [cache[s] EXCEPT !.pid = None]]
    /\ older' = {}
    /\ UNCHANGED <<tableVars, mutex, job, clientVars, crashed>>
-----------------------------------------------------------------------------
\* The administrative structures take the first frame.
Init ==
    /\ table = [f \in Frame |-> [pid |-> IF f = Zero THEN Adm ELSE None, page |-> 0]]
    /\ content = [f \in Frame |-> Clean]
    /\ cache = [s \in Slot |-> NoEntry] /\ older = {}
    /\ mutex = [m \in {"mem", "frames", "cache"} |-> None]
    /\ job = [t \in Thread |-> Idle]
    /\ pages = [p \in Pid |-> {}] /\ nextPage = [p \in Pid |-> 0]
    /\ crashed = FALSE

Serve(t) ==
    \/ LockMemory(t) \/ HasAvailableFrames(t) \/ StartProgram(t) \/ AddPages(t) \/ AddPage(t)
    \/ FinishProgram(t) \/ FreePage(t) \/ Uncache(t) \/ GetFrame(t) \/ GetPageFromPointer(t)
    \/ ExistsInCache(t) \/ GetFromCache(t) \/ FindInTable(t) \/ Access(t) \/ AccessNothing(t)
    \/ StoreInCache(t) \/ NameEntry(t) \/ IncreaseCacheLru(t) \/ Answer(t)

Clients ==
    \E p \in Pid :
        \/ AskStart(p) \/ AskFinish(p) \/ AskAddPage(p)
        \/ \E n \in Page : AskFreePage(p, n)
        \/ \E op \in {"read", "store"}, t \in Thread, n \in Page : AskAccess(t, op, p, n)
        \/ \E op \in {"read", "store"}, c \in Cpu, n \in Page : AskVariable(c, op, p, n)
        \/ \E op \in {"read", "store"}, c \in Cpu : AskWild(c, op, p)

Next == (\E t \in Thread : Serve(t)) \/ Clients \/ Flush

Spec == Init /\ [][Next]_vars

\* Every thread goes on with its request; nobody need ask.
FairSpec == Spec /\ \A t \in Thread : WF_vars(Serve(t))
-----------------------------------------------------------------------------
Points == {"idle", "lock", "check", "code", "stack", "page", "finish", "free", "uncache", "frame",
           "pointer", "search", "cached", "table", "access", "enter", "name", "age", "answer"}

Contents == {Clean} \cup (Pid \X Page)

Jobs == [op : {"none", "start", "finish", "addPage", "freePage", "read", "store"}, at : Points,
         pid : Pid \cup {None}, page : Page \cup {NoPage}, frame : Frame \cup {None},
         slot : Slot \cup {None}, got : Contents]

TypeOK ==
    /\ table \in [Frame -> [pid : Pid \cup {Adm, None}, page : Page]]
    /\ content \in [Frame -> Contents]
    /\ cache \in [Slot -> [pid : Pid \cup {None}, page : Page, frame : Frame]]
    /\ older \subseteq Slot \X Slot
    /\ mutex \in [{"mem", "frames", "cache"} -> Thread \cup {None}]
    /\ job \in [Thread -> Jobs]
    /\ pages \in [Pid -> SUBSET Page] /\ nextPage \in [Pid -> Nat]
    /\ crashed \in BOOLEAN
-----------------------------------------------------------------------------
(* What the memory promises. *)

\* i_start_program answers yes after start_program, add_pages and store_bytes, with the
\* frames counted before: every page that a client takes a program to have is in exactly
\* one frame, no frame holds another program's bytes, and the code is what was sent.
PagesAreKept ==
    \A p \in Pid : \A n \in pages[p] :
        \E f \in Frame :
            /\ Holding(p, n) = {f}
            /\ content[f] \in {<<p, n>>} \cup (IF n < CodePages[p] THEN {} ELSE {Clean})

\* read_bytes looks the frame up under no lock and reads it under frames_mutex: the
\* bytes it answers are those of the page that was asked for.
ReadsTheRequestedPage ==
    \A t \in Thread :
        LET j == job[t]
        IN  At(t, "answer") /\ j.op = "read" =>
                j.got \in {<<j.pid, j.page>>} \cup (IF j.page < CodePages[j.pid] THEN {} ELSE {Clean})

\* finish_program and free_page clear the table before the cache, in two critical
\* sections, and store_in_cache copies a table entry found before: unless one of them is
\* in between, each entry of the cache is a page of the table, and no page has two.
CacheIsCoherent ==
    (Free("frames") /\ Free("cache") /\ \A t \in Thread : job[t].at # "uncache") =>
        \A s \in Slot : cache[s].pid # None =>
            /\ table[cache[s].frame] = [pid |-> cache[s].pid, page |-> cache[s].page]
            /\ \A r \in Slot \ {s} : cache[r] # cache[s]

\* store_in_cache counts and enters under frames_cache_mutex: threads that enter pages
\* at the same time never exceed cache_x_proc together.
CacheShareIsBounded == \A p \in Pid : Cardinality(Entries(p)) <= CacheXProc

\* finish_program: a program that is over has no frame and no entry of the cache left,
\* whatever accesses were under way.
FinishedLeavesNothing ==
    \A p \in Pid : (pages[p] = {} /\ ~Busy(p)) => (PagesOf(p) = {} /\ Entries(p) = {})

\* Three mutexes and one order: whoever has frames_mutex goes on to release it.
FramesMutexIsReleased == mutex["frames"] # None ~> mutex["frames"] = None

(* What the documents say and the code does not do. *)

\* memoria/README.md: the concurrency problems are solved; no interleaving of requests
\* makes the process follow a NULL pointer.
StaysUp == ~crashed
=============================================================================
