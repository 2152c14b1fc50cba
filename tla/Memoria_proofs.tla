--------------------------- MODULE Memoria_proofs ---------------------------
(* Proofs about Memoria for any number of programs, CPUs, frames and entries of the cache. *)
EXTENDS Memoria, FiniteSetTheorems, TLAPS
-----------------------------------------------------------------------------
(* The inductive invariant. *)

UnderMemMutex == {"lock", "check", "code", "stack", "page", "finish", "free", "uncache"}
Accessing == {"frame", "pointer", "search", "cached", "table", "access", "enter", "name", "age", "answer"}

\* What a request carries fits the point where it is.
RequestFits(t) ==
    LET j == job[t]
    IN  /\ j.at = "idle" <=> j.pid = None
        /\ j.at \in UnderMemMutex => t = Kernel
        /\ j.op \in {"start", "addPage", "finish", "freePage"} => t = Kernel
        /\ j.at \in {"lock", "uncache"} => j.op \in {"start", "addPage", "finish", "freePage"}
        /\ j.at = "check" => j.op \in {"start", "addPage"}
        /\ j.at \in {"code", "stack"} => j.op = "start"
        /\ j.at = "page" => j.op = "addPage"
        /\ j.at = "free" => j.op = "freePage"
        /\ j.at = "finish" => j.op = "finish"
        /\ j.at \in UnderMemMutex \cup {"enter", "name", "age"} => j.page \in Page
        /\ j.at = "access" /\ j.page = NoPage => j.slot = None /\ j.frame = None
        /\ j.at \in {"enter", "name", "age"} => j.frame \in Frame
        /\ j.at = "enter" => Slot # {}
        /\ j.at = "name" => j.slot \in Slot
        /\ j.slot # None => j.at \in {"access", "name", "age", "answer"}

RequestsFit == \A t \in Thread : RequestFits(t)

\* The stack of a program that starts fits in its pages.
StackFits ==
    \A t \in Thread : job[t].at = "stack" =>
        Cardinality(PagesOf(job[t].pid)) \in Nat /\ Cardinality(PagesOf(job[t].pid)) <= CodePages[job[t].pid]

TypeInv == TypeOK /\ RequestsFit
-----------------------------------------------------------------------------
(* Types. *)

LEMMA ThreadNames == Kernel \in Thread /\ None \notin Thread
BY NamesAreDistinct DEF Thread

\* The table after pages are placed: only free frames change, each to a page in the range.
LEMMA PlacedTables ==
    ASSUME TypeOK, NEW p \in Pid, NEW first \in Nat, NEW n \in Nat, first + n <= MaxPage + 1,
           NEW tb \in Placed(p, first, n)
    PROVE  /\ tb \in [Frame -> [pid : Pid \cup {Adm, None}, page : Page]]
           /\ \A f \in Frame : tb[f] # table[f] => f \in FreeFrames /\ tb[f].pid = p
<1>. DEFINE k == IF n <= Cardinality(FreeFrames) THEN n ELSE Cardinality(FreeFrames)
            R == first .. first + k - 1
<1>1. /\ IsFiniteSet(FreeFrames) /\ Cardinality(FreeFrames) \in Nat
      /\ k \in Nat /\ k <= n
  <2>1. IsFiniteSet(FreeFrames) /\ Cardinality(FreeFrames) \in Nat
    BY SizesAreRight, FS_Subset, FS_CardinalityType DEF FreeFrames
  <2>. QED  BY <2>1
<1>2. R \subseteq Page
  BY <1>1, SizesAreRight DEF Page
<1>3. PICK q \in [R -> FreeFrames] :
        tb = [f \in Frame |-> IF \E i \in R : q[i] = f
                              THEN [pid |-> p, page |-> CHOOSE i \in R : q[i] = f]
                              ELSE table[f]]
  BY DEF Placed
<1>. HIDE DEF k, R
<1>4. ASSUME NEW f \in Frame, \E i \in R : q[i] = f
      PROVE  f \in FreeFrames /\ \E c \in R : tb[f] = [pid |-> p, page |-> c]
  <2>. DEFINE c == CHOOSE i \in R : q[i] = f
  <2>1. c \in R /\ q[c] = f
    BY <1>4
  <2>2. tb[f] = [pid |-> p, page |-> c]
    BY <1>3, <1>4
  <2>3. f \in FreeFrames
    BY <2>1
  <2>. QED  BY <2>1, <2>2, <2>3
<1>5. ASSUME NEW f \in Frame, ~ \E i \in R : q[i] = f
      PROVE  tb[f] = table[f]
  BY <1>3, <1>5
<1>6. ASSUME NEW f \in Frame
      PROVE  /\ tb[f] \in [pid : Pid \cup {Adm, None}, page : Page]
             /\ tb[f] # table[f] => f \in FreeFrames /\ tb[f].pid = p
  <2>1. CASE \E i \in R : q[i] = f
    <3>1. f \in FreeFrames /\ \E c \in R : tb[f] = [pid |-> p, page |-> c]
      BY <2>1, <1>4
    <3>2. PICK c \in R : tb[f] = [pid |-> p, page |-> c]
      BY <3>1
    <3>. QED  BY <3>1, <3>2, <1>2
  <2>2. CASE ~ \E i \in R : q[i] = f
    BY <2>2, <1>5 DEF TypeOK
  <2>. QED  BY <2>1, <2>2
<1>7. tb = [f \in Frame |-> tb[f]]
  BY <1>3
<1>. QED  BY <1>6, <1>7

\* Only requests of a program carry its pages.
LEMMA RequestOfPid ==
    ASSUME TypeInv, NEW t \in Thread, job[t].at # "idle"
    PROVE  job[t].pid \in Pid
BY DEF TypeInv, TypeOK, RequestsFit, RequestFits, Jobs

LEMMA IdleIsTyped == Idle \in Jobs
BY SizesAreRight DEF Idle, Jobs, Points, Contents, Page

\* A step of one thread that leaves the others' requests.
LEMMA OthersFit ==
    ASSUME RequestsFit, NEW t \in Thread, RequestFits(t)',
           \A u \in Thread \ {t} : job'[u] = job[u]
    PROVE  RequestsFit'
BY DEF RequestsFit, RequestFits

LEMMA JobStepTyped ==
    ASSUME TypeOK, NEW t \in Thread, NEW j \in Jobs, job' = [job EXCEPT ![t] = j]
    PROVE  job' \in [Thread -> Jobs]
BY DEF TypeOK

\* What the steps of a request change in it.
LEMMA JobFieldsTyped ==
    ASSUME NEW j \in Jobs, NEW point \in Points
    PROVE  /\ [j EXCEPT !.at = point] \in Jobs
           /\ \A f \in Frame \cup {None} : [j EXCEPT !.frame = f, !.at = point] \in Jobs
           /\ \A s \in Slot : [j EXCEPT !.slot = s, !.at = point] \in Jobs
           /\ \A c \in Contents : [j EXCEPT !.got = c, !.at = point] \in Jobs
<1>1. [j EXCEPT !.at = point] \in Jobs
  BY DEF Jobs
<1>2. ASSUME NEW f \in Frame \cup {None}
      PROVE  [j EXCEPT !.frame = f, !.at = point] \in Jobs
  BY DEF Jobs
<1>3. ASSUME NEW s \in Slot
      PROVE  [j EXCEPT !.slot = s, !.at = point] \in Jobs
  BY DEF Jobs
<1>4. ASSUME NEW c \in Contents
      PROVE  [j EXCEPT !.got = c, !.at = point] \in Jobs
  BY DEF Jobs
<1>. QED  BY <1>1, <1>2, <1>3, <1>4

LEMMA GoTyped ==
    ASSUME TypeOK, NEW t \in Thread, NEW point \in Points, Go(t, point)
    PROVE  job' \in [Thread -> Jobs]
<1>1. [job[t] EXCEPT !.at = point] \in Jobs
  BY JobFieldsTyped DEF TypeOK
<1>2. job' = [job EXCEPT ![t] = [job[t] EXCEPT !.at = point]]
  BY DEF Go, TypeOK
<1>. QED  BY <1>1, <1>2, JobStepTyped

\* A request that goes on, and nothing more.
LEMMA GoFields ==
    ASSUME TypeOK, NEW t \in Thread, NEW point, Go(t, point)
    PROVE  /\ job'[t].at = point
           /\ job'[t].op = job[t].op /\ job'[t].pid = job[t].pid /\ job'[t].page = job[t].page
           /\ job'[t].frame = job[t].frame /\ job'[t].slot = job[t].slot /\ job'[t].got = job[t].got
           /\ \A u \in Thread \ {t} : job'[u] = job[u]
<1>1. job[t] \in Jobs /\ job'[t] = [job[t] EXCEPT !.at = point]
  BY DEF TypeOK, Go
<1>2. \A u \in Thread \ {t} : job'[u] = job[u]
  BY DEF TypeOK, Go
<1>. QED  BY <1>1, <1>2 DEF Jobs

LEMMA DoneTyped ==
    ASSUME TypeOK, NEW t \in Thread, Done(t)
    PROVE  job' \in [Thread -> Jobs]
BY IdleIsTyped DEF TypeOK, Done

LEMMA LockMemoryTyped ==
    ASSUME TypeInv, NEW t \in Thread, LockMemory(t)
    PROVE  TypeInv'
<1>1. TypeOK'
  <2>1. job' \in [Thread -> Jobs]
    BY GoTyped DEF TypeInv, LockMemory, Points
  <2>2. mutex' \in [{"mem", "frames", "cache"} -> Thread \cup {None}]
    BY DEF TypeInv, TypeOK, LockMemory, Lock
  <2>. QED  BY <2>1, <2>2 DEF TypeInv, TypeOK, LockMemory, tableVars, cacheVars, clientVars
<1>2. RequestFits(t)'
  <2>1. /\ job'[t].at = CASE job[t].op \in {"start", "addPage"} -> "check"
                           [] job[t].op = "finish" -> "finish"
                           [] OTHER -> "free"
        /\ job'[t].op = job[t].op /\ job'[t].pid = job[t].pid /\ job'[t].page = job[t].page
        /\ job'[t].frame = job[t].frame /\ job'[t].slot = job[t].slot /\ job[t].at = "lock"
    BY GoFields DEF TypeInv, LockMemory, At
  <2>. QED  BY <2>1 DEF TypeInv, RequestsFit, RequestFits, UnderMemMutex
<1>3. \A u \in Thread \ {t} : job'[u] = job[u]
  BY DEF TypeInv, TypeOK, LockMemory, At, Lock, Go
<1>. QED  BY <1>1, <1>2, <1>3, OthersFit DEF TypeInv

LEMMA HasAvailableFramesTyped ==
    ASSUME TypeInv, NEW t \in Thread, HasAvailableFrames(t)
    PROVE  TypeInv'
<1>1. TypeOK'
  <2>1. job' \in [Thread -> Jobs]
    BY GoTyped, DoneTyped DEF TypeInv, HasAvailableFrames, Points
  <2>2. mutex' \in [{"mem", "frames", "cache"} -> Thread \cup {None}]
    BY DEF TypeInv, TypeOK, HasAvailableFrames, Unlock
  <2>. QED  BY <2>1, <2>2 DEF TypeInv, TypeOK, HasAvailableFrames, tableVars, cacheVars, clientVars
<1>2. RequestFits(t)'
  BY IdleIsTyped, ThreadNames, NamesAreDistinct, SizesAreRight DEF TypeInv, TypeOK, RequestsFit, RequestFits, HasAvailableFrames, At, Unlock, Go, Done, Idle, Jobs, UnderMemMutex, Page, NoPage
<1>3. \A u \in Thread \ {t} : job'[u] = job[u]
  BY DEF TypeInv, TypeOK, HasAvailableFrames, At, Unlock, Go, Done
<1>. QED  BY <1>1, <1>2, <1>3, OthersFit DEF TypeInv

LEMMA FinishProgramTyped ==
    ASSUME TypeInv, NEW t \in Thread, FinishProgram(t)
    PROVE  TypeInv'
<1>1. TypeOK'
  <2>1. job' \in [Thread -> Jobs]
    BY GoTyped DEF TypeInv, FinishProgram, Points
  <2>2. /\ table' \in [Frame -> [pid : Pid \cup {Adm, None}, page : Page]]
        /\ content' \in [Frame -> Contents]
    BY SizesAreRight DEF TypeInv, TypeOK, FinishProgram, Cleared, Contents, Page
  <2>. QED  BY <2>1, <2>2 DEF TypeInv, TypeOK, FinishProgram, cacheVars, clientVars
<1>2. RequestFits(t)'
  BY ThreadNames, NamesAreDistinct, SizesAreRight DEF TypeInv, TypeOK, RequestsFit, RequestFits, FinishProgram, At, Cleared, Go, Idle, Jobs, UnderMemMutex, Page, NoPage
<1>3. \A u \in Thread \ {t} : job'[u] = job[u]
  BY DEF TypeInv, TypeOK, FinishProgram, At, Cleared, Go
<1>. QED  BY <1>1, <1>2, <1>3, OthersFit DEF TypeInv

LEMMA FreePageTyped ==
    ASSUME TypeInv, NEW t \in Thread, FreePage(t)
    PROVE  TypeInv'
<1>1. TypeOK'
  <2>1. job' \in [Thread -> Jobs]
    BY GoTyped DEF TypeInv, TypeOK, FreePage, Points
  <2>2. /\ table' \in [Frame -> [pid : Pid \cup {Adm, None}, page : Page]]
        /\ content' \in [Frame -> Contents]
    BY SizesAreRight DEF TypeInv, TypeOK, FreePage, Cleared, Contents, Page, tableVars
  <2>. QED  BY <2>1, <2>2 DEF TypeInv, TypeOK, FreePage, cacheVars, clientVars
<1>2. RequestFits(t)'
  BY ThreadNames, NamesAreDistinct, SizesAreRight DEF TypeInv, TypeOK, RequestsFit, RequestFits, FreePage, At, Cleared, Go, Idle, Jobs, UnderMemMutex, Page, NoPage
<1>3. \A u \in Thread \ {t} : job'[u] = job[u]
  BY DEF TypeInv, TypeOK, FreePage, At, Cleared, Go
<1>. QED  BY <1>1, <1>2, <1>3, OthersFit DEF TypeInv

LEMMA UncacheTyped ==
    ASSUME TypeInv, NEW t \in Thread, Uncache(t)
    PROVE  TypeInv'
<1>1. TypeOK'
  <2>1. job' \in [Thread -> Jobs]
    BY DoneTyped DEF TypeInv, Uncache
  <2>2. cache' \in [Slot -> [pid : Pid \cup {None}, page : Page, frame : Frame]]
    BY NamesAreDistinct, SizesAreRight DEF TypeInv, TypeOK, Uncache, NoEntry, Page
  <2>3. older' \subseteq Slot \X Slot
    BY DEF TypeInv, TypeOK, Uncache, Without
  <2>4. mutex' \in [{"mem", "frames", "cache"} -> Thread \cup {None}]
    BY DEF TypeInv, TypeOK, Uncache, Unlock
  <2>. QED  BY <2>1, <2>2, <2>3, <2>4 DEF TypeInv, TypeOK, Uncache, tableVars, clientVars
<1>2. RequestFits(t)'
  BY IdleIsTyped, SizesAreRight, ThreadNames, NamesAreDistinct, SizesAreRight DEF TypeInv, TypeOK, RequestsFit, RequestFits, Uncache, At, Dropped, Without, Unlock, Done, NoEntry, Idle, Jobs, UnderMemMutex, Page, NoPage
<1>3. \A u \in Thread \ {t} : job'[u] = job[u]
  BY DEF TypeInv, TypeOK, Uncache, At, Dropped, Without, Unlock, Done, NoEntry
<1>. QED  BY <1>1, <1>2, <1>3, OthersFit DEF TypeInv

LEMMA GetFrameTyped ==
    ASSUME TypeInv, NEW t \in Thread, GetFrame(t)
    PROVE  TypeInv'
<1>1. TypeOK'
  <2>1. PICK f \in Frame \cup {None} : job' = [job EXCEPT ![t].frame = f, ![t].at = "pointer"]
    BY DEF GetFrame, Holding
  <2>2. [job[t] EXCEPT !.frame = f, !.at = "pointer"] \in Jobs
    BY JobFieldsTyped DEF TypeInv, TypeOK, Points
  <2>3. job' \in [Thread -> Jobs]
    BY <2>1, <2>2 DEF TypeInv, TypeOK
  <2>. QED  BY <2>3 DEF TypeInv, TypeOK, GetFrame, tableVars, cacheVars, clientVars
<1>2. RequestFits(t)'
  BY ThreadNames, NamesAreDistinct, SizesAreRight DEF TypeInv, TypeOK, RequestsFit, RequestFits, GetFrame, At, Idle, Jobs, UnderMemMutex, Page, NoPage
<1>3. \A u \in Thread \ {t} : job'[u] = job[u]
  BY DEF TypeInv, TypeOK, GetFrame, At
<1>. QED  BY <1>1, <1>2, <1>3, OthersFit DEF TypeInv

LEMMA GetPageFromPointerTyped ==
    ASSUME TypeInv, NEW t \in Thread, GetPageFromPointer(t)
    PROVE  TypeInv'
<1>0. PICK n \in Page \cup {NoPage} : job' = [job EXCEPT ![t].page = n, ![t].frame = None, ![t].at = "search"]
  <2>1. job[t].frame = None \/ table[job[t].frame].page \in Page
    BY DEF TypeInv, TypeOK, Jobs
  <2>. QED  BY <2>1 DEF GetPageFromPointer
<1>1. TypeOK'
  <2>0. job[t] \in Jobs
    BY DEF TypeInv, TypeOK
  <2>1. [job[t] EXCEPT !.page = n, !.frame = None, !.at = "search"] \in Jobs
    BY <2>0 DEF Jobs, Points
  <2>2. job' \in [Thread -> Jobs]
    BY <1>0, <2>1 DEF TypeInv, TypeOK
  <2>. QED  BY <2>2 DEF TypeInv, TypeOK, GetPageFromPointer, tableVars, cacheVars, clientVars
<1>2. RequestFits(t)'
  <2>1. job[t] \in Jobs /\ job'[t] = [job[t] EXCEPT !.page = n, !.frame = None, !.at = "search"]
    BY <1>0 DEF TypeInv, TypeOK
  <2>2. /\ job'[t].at = "search"
        /\ job'[t].op = job[t].op /\ job'[t].pid = job[t].pid /\ job'[t].slot = job[t].slot
    BY <2>1 DEF Jobs
  <2>3. job[t].at = "pointer"
    BY DEF GetPageFromPointer, At
  <2>. QED  BY <2>2, <2>3 DEF TypeInv, RequestsFit, RequestFits, UnderMemMutex
<1>3. \A u \in Thread \ {t} : job'[u] = job[u]
  BY DEF TypeInv, TypeOK, GetPageFromPointer, At
<1>. QED  BY <1>1, <1>2, <1>3, OthersFit DEF TypeInv

LEMMA ExistsInCacheTyped ==
    ASSUME TypeInv, NEW t \in Thread, ExistsInCache(t)
    PROVE  TypeInv'
<1>1. TypeOK'
  <2>1. job' \in [Thread -> Jobs]
    BY GoTyped DEF TypeInv, ExistsInCache, Points
  <2>. QED  BY <2>1 DEF TypeInv, TypeOK, ExistsInCache, tableVars, cacheVars, clientVars
<1>2. RequestFits(t)'
  <2>1. /\ job'[t].at \in {"cached", "table"} /\ job[t].at = "search"
        /\ job'[t].op = job[t].op /\ job'[t].pid = job[t].pid /\ job'[t].page = job[t].page
        /\ job'[t].slot = job[t].slot
    BY GoFields DEF TypeInv, ExistsInCache, At
  <2>. QED  BY <2>1 DEF TypeInv, RequestsFit, RequestFits, UnderMemMutex
<1>3. \A u \in Thread \ {t} : job'[u] = job[u]
  BY DEF TypeInv, TypeOK, ExistsInCache, At, Go, CachedAt, Entries
<1>. QED  BY <1>1, <1>2, <1>3, OthersFit DEF TypeInv

LEMMA GetFromCacheTyped ==
    ASSUME TypeInv, NEW t \in Thread, GetFromCache(t)
    PROVE  TypeInv'
<1>0. \/ UNCHANGED job
      \/ \E s \in Slot : /\ cache[s].page = job[t].page
                         /\ job' = [job EXCEPT ![t].slot = s, ![t].at = "access"]
  BY DEF CachedAt, Entries, GetFromCache
<1>1. TypeOK'
  <2>1. \A s \in Slot : [job[t] EXCEPT !.slot = s, !.at = "access"] \in Jobs
    BY JobFieldsTyped DEF TypeInv, TypeOK, Points
  <2>2. ASSUME NEW s \in Slot, job' = [job EXCEPT ![t].slot = s, ![t].at = "access"]
        PROVE  job' = [job EXCEPT ![t] = [job[t] EXCEPT !.slot = s, !.at = "access"]]
    BY <2>2 DEF TypeInv, TypeOK
  <2>3. job' \in [Thread -> Jobs]
    <3>1. CASE UNCHANGED job
      BY <3>1 DEF TypeInv, TypeOK
    <3>2. ASSUME NEW s \in Slot, job' = [job EXCEPT ![t].slot = s, ![t].at = "access"]
          PROVE  job' \in [Thread -> Jobs]
      BY <2>1, <2>2, <3>2, JobStepTyped DEF TypeInv
    <3>. QED  BY <1>0, <3>1, <3>2
  <2>. QED  BY <2>3 DEF TypeInv, TypeOK, GetFromCache, tableVars, cacheVars, clientVars
<1>2. RequestFits(t)'
  <2>1. CASE UNCHANGED job
    BY <2>1 DEF TypeInv, RequestsFit, RequestFits
  <2>2. ASSUME NEW s \in Slot, cache[s].page = job[t].page,
               job' = [job EXCEPT ![t].slot = s, ![t].at = "access"]
        PROVE  RequestFits(t)'
    <3>1. cache[s].page # NoPage
      BY SizesAreRight DEF TypeInv, TypeOK, Page, NoPage
    <3>2. /\ job'[t].op = job[t].op /\ job'[t].pid = job[t].pid /\ job'[t].at = "access"
          /\ job'[t].page = job[t].page /\ job'[t].page # NoPage
      <4>1. job[t] \in Jobs /\ job'[t] = [job[t] EXCEPT !.slot = s, !.at = "access"]
        BY <2>2 DEF TypeInv, TypeOK
      <4>. QED  BY <4>1, <2>2, <3>1 DEF Jobs
    <3>. QED  BY <3>2 DEF TypeInv, RequestsFit, RequestFits, GetFromCache, At, UnderMemMutex
  <2>. QED  BY <1>0, <2>1, <2>2
<1>3. \A u \in Thread \ {t} : job'[u] = job[u]
  BY DEF TypeInv, TypeOK, GetFromCache, At, CachedAt, Entries
<1>. QED  BY <1>1, <1>2, <1>3, OthersFit DEF TypeInv

LEMMA FindInTableTyped ==
    ASSUME TypeInv, NEW t \in Thread, FindInTable(t)
    PROVE  TypeInv'
<1>1. TypeOK'
  <2>1. PICK f \in Frame \cup {None} : job' = [job EXCEPT ![t].frame = f, ![t].at = "access"]
    BY DEF FindInTable, Holding
  <2>2. [job[t] EXCEPT !.frame = f, !.at = "access"] \in Jobs
    BY JobFieldsTyped DEF TypeInv, TypeOK, Points
  <2>3. job' \in [Thread -> Jobs]
    BY <2>1, <2>2 DEF TypeInv, TypeOK
  <2>. QED  BY <2>3 DEF TypeInv, TypeOK, FindInTable, tableVars, cacheVars, clientVars
<1>2. RequestFits(t)'
  BY ThreadNames, NamesAreDistinct, SizesAreRight DEF TypeInv, TypeOK, RequestsFit, RequestFits, FindInTable, At, Holding, Idle, Jobs, UnderMemMutex, Page, NoPage
<1>3. \A u \in Thread \ {t} : job'[u] = job[u]
  BY DEF TypeInv, TypeOK, FindInTable, At, Holding
<1>. QED  BY <1>1, <1>2, <1>3, OthersFit DEF TypeInv

LEMMA AccessNothingTyped ==
    ASSUME TypeInv, NEW t \in Thread, AccessNothing(t)
    PROVE  TypeInv'
<1>1. TypeOK'
  <2>1. job' \in [Thread -> Jobs]
    BY GoTyped DEF TypeInv, AccessNothing, Points
  <2>2. mutex' \in [{"mem", "frames", "cache"} -> Thread \cup {None}]
    BY DEF TypeInv, TypeOK, AccessNothing, Lock
  <2>. QED  BY <2>1, <2>2 DEF TypeInv, TypeOK, AccessNothing, tableVars, cacheVars, clientVars
<1>2. RequestFits(t)'
  BY ThreadNames, NamesAreDistinct, SizesAreRight DEF TypeInv, TypeOK, RequestsFit, RequestFits, AccessNothing, At, Lock, Go, Idle, Jobs, UnderMemMutex, Page, NoPage
<1>3. \A u \in Thread \ {t} : job'[u] = job[u]
  BY DEF TypeInv, TypeOK, AccessNothing, At, Lock, Go
<1>. QED  BY <1>1, <1>2, <1>3, OthersFit DEF TypeInv

LEMMA IncreaseCacheLruTyped ==
    ASSUME TypeInv, NEW t \in Thread, IncreaseCacheLru(t)
    PROVE  TypeInv'
<1>1. TypeOK'
  <2>1. job' \in [Thread -> Jobs]
    BY GoTyped DEF TypeInv, IncreaseCacheLru, Points
  <2>2. mutex' \in [{"mem", "frames", "cache"} -> Thread \cup {None}]
    BY DEF TypeInv, TypeOK, IncreaseCacheLru, Unlock
  <2>. QED  BY <2>1, <2>2 DEF TypeInv, TypeOK, IncreaseCacheLru, tableVars, cacheVars, clientVars
<1>2. RequestFits(t)'
  BY ThreadNames, NamesAreDistinct, SizesAreRight DEF TypeInv, TypeOK, RequestsFit, RequestFits, IncreaseCacheLru, At, Unlock, Go, Idle, Jobs, UnderMemMutex, Page, NoPage
<1>3. \A u \in Thread \ {t} : job'[u] = job[u]
  BY DEF TypeInv, TypeOK, IncreaseCacheLru, At, Unlock, Go
<1>. QED  BY <1>1, <1>2, <1>3, OthersFit DEF TypeInv

LEMMA StartProgramTyped ==
    ASSUME TypeInv, NEW t \in Thread, StartProgram(t)
    PROVE  TypeInv'
<1>1. TypeOK'
  <2>1. job' \in [Thread -> Jobs]
    BY GoTyped DEF TypeInv, StartProgram, Points
  <2>2. job[t].pid \in Pid
    BY RequestOfPid DEF StartProgram, At
  <2>3. table' \in [Frame -> [pid : Pid \cup {Adm, None}, page : Page]]
    <3>1. /\ CodePages[job[t].pid] \in Nat
          /\ 0 + CodePages[job[t].pid] <= MaxPage + 1
      BY <2>2, SizesAreRight
    <3>. QED  BY <2>2, <3>1, PlacedTables DEF TypeInv, StartProgram
  <2>. QED  BY <2>1, <2>3 DEF TypeInv, TypeOK, StartProgram, cacheVars, clientVars
<1>2. RequestFits(t)'
  BY ThreadNames, NamesAreDistinct, SizesAreRight DEF TypeInv, TypeOK, RequestsFit, RequestFits, StartProgram, At, Go, Idle, Jobs, UnderMemMutex, Page, NoPage
<1>3. \A u \in Thread \ {t} : job'[u] = job[u]
  BY DEF TypeInv, TypeOK, StartProgram, Go
<1>. QED  BY <1>1, <1>2, <1>3, OthersFit DEF TypeInv

LEMMA AddPagesTyped ==
    ASSUME TypeInv, StackFits, NEW t \in Thread, AddPages(t)
    PROVE  TypeInv'
<1>1. TypeOK'
  <2>1. job' \in [Thread -> Jobs]
    BY GoTyped DEF TypeInv, AddPages, Points
  <2>2. job[t].pid \in Pid
    BY RequestOfPid DEF AddPages, At
  <2>3. table' \in [Frame -> [pid : Pid \cup {Adm, None}, page : Page]]
    <3>1. /\ Cardinality(PagesOf(job[t].pid)) \in Nat
          /\ Cardinality(PagesOf(job[t].pid)) <= CodePages[job[t].pid]
      BY DEF StackFits, AddPages, At
    <3>2. Cardinality(PagesOf(job[t].pid)) + StackSize <= MaxPage + 1
      BY <2>2, <3>1, SizesAreRight
    <3>. QED  BY <2>2, <3>1, <3>2, SizesAreRight, PlacedTables DEF TypeInv, AddPages
  <2>. QED  BY <2>1, <2>3 DEF TypeInv, TypeOK, AddPages, cacheVars, clientVars
<1>2. RequestFits(t)'
  BY GoFields DEF TypeInv, RequestsFit, RequestFits, AddPages, At, UnderMemMutex
<1>3. \A u \in Thread \ {t} : job'[u] = job[u]
  BY DEF TypeInv, TypeOK, AddPages, Go
<1>. QED  BY <1>1, <1>2, <1>3, OthersFit DEF TypeInv

LEMMA AddPageTyped ==
    ASSUME TypeInv, NEW t \in Thread, AddPage(t)
    PROVE  TypeInv'
<1>1. TypeOK'
  <2>1. job' \in [Thread -> Jobs]
    BY DoneTyped DEF TypeInv, AddPage
  <2>2. job[t].pid \in Pid /\ job[t].page \in Page
    BY RequestOfPid DEF TypeInv, RequestsFit, RequestFits, UnderMemMutex, AddPage, At
  <2>3. table' \in [Frame -> [pid : Pid \cup {Adm, None}, page : Page]]
    <3>1. job[t].page \in Nat /\ job[t].page + 1 <= MaxPage + 1
      BY <2>2, SizesAreRight DEF Page
    <3>. QED  BY <2>2, <3>1, PlacedTables DEF TypeInv, AddPage
  <2>4. mutex' \in [{"mem", "frames", "cache"} -> Thread \cup {None}]
    BY DEF TypeInv, TypeOK, AddPage, Unlock
  <2>5. pages' \in [Pid -> SUBSET Page] /\ nextPage' \in [Pid -> Nat]
    BY <2>2, SizesAreRight DEF TypeInv, TypeOK, AddPage, Page
  <2>. QED  BY <2>1, <2>3, <2>4, <2>5 DEF TypeInv, TypeOK, AddPage, cacheVars
<1>2. RequestFits(t)'
  BY ThreadNames, NamesAreDistinct, SizesAreRight DEF TypeInv, TypeOK, RequestsFit, RequestFits, AddPage, At, Unlock, Done, Idle, Jobs, UnderMemMutex, Page, NoPage
<1>3. \A u \in Thread \ {t} : job'[u] = job[u]
  BY DEF TypeInv, TypeOK, AddPage, Unlock, Done
<1>. QED  BY <1>1, <1>2, <1>3, OthersFit DEF TypeInv

LEMMA AccessTyped ==
    ASSUME TypeInv, NEW t \in Thread, Access(t)
    PROVE  TypeInv'
<1>. DEFINE f == FrameOf(job[t])
            toCache == job[t].slot = None /\ Slot # {}
            point == IF toCache THEN "enter" ELSE "answer"
<1>0. /\ job[t].pid \in Pid /\ job[t].page \in Page
      /\ f \in Frame
      /\ toCache => f = job[t].frame
  <2>1. job[t].pid \in Pid
    BY RequestOfPid DEF Access, At
  <2>2. job[t] \in Jobs
    BY DEF TypeInv, TypeOK
  <2>3. f \in Frame
    BY <2>2 DEF TypeInv, TypeOK, Access, FrameOf, Jobs
  <2>4. job[t].page \in Page
    BY <2>2, <2>3, NamesAreDistinct DEF TypeInv, RequestsFit, RequestFits, Access, At, FrameOf, Jobs
  <2>. QED  BY <2>1, <2>3, <2>4 DEF FrameOf
<1>1. TypeOK'
  <2>1. job' \in [Thread -> Jobs]
    <3>1. content[f] \in Contents /\ point \in Points
      BY <1>0 DEF TypeInv, TypeOK, Points
    <3>2. [job[t] EXCEPT !.got = content[f], !.at = point] \in Jobs
      BY <3>1, JobFieldsTyped DEF TypeInv, TypeOK
    <3>3. job' = [job EXCEPT ![t] = [job[t] EXCEPT !.got = content[f], !.at = point]]
      BY DEF TypeInv, TypeOK, Access
    <3>. QED  BY <3>2, <3>3, JobStepTyped DEF TypeInv
  <2>2. content' \in [Frame -> Contents]
    <3>1. <<job[t].pid, job[t].page>> \in Contents
      BY <1>0 DEF Contents
    <3>. QED  BY <1>0, <3>1 DEF TypeInv, TypeOK, Access, Written
  <2>3. mutex' \in [{"mem", "frames", "cache"} -> Thread \cup {None}]
    BY DEF TypeInv, TypeOK, Access, Lock
  <2>. QED  BY <2>1, <2>2, <2>3 DEF TypeInv, TypeOK, Access, cacheVars, clientVars
<1>2. RequestFits(t)'
  <2>1. job[t] \in Jobs
    BY DEF TypeInv, TypeOK
  <2>2. /\ job'[t].op = job[t].op /\ job'[t].pid = job[t].pid /\ job'[t].page = job[t].page
        /\ job'[t].frame = job[t].frame /\ job'[t].slot = job[t].slot /\ job'[t].at = point
    BY <2>1 DEF TypeInv, TypeOK, Access, Jobs
  <2>. QED  BY <1>0, <2>2 DEF TypeInv, RequestsFit, RequestFits, Access, At, UnderMemMutex
<1>3. \A u \in Thread \ {t} : job'[u] = job[u]
  BY DEF TypeInv, TypeOK, Access
<1>. QED  BY <1>1, <1>2, <1>3, OthersFit DEF TypeInv

LEMMA StoreInCacheTyped ==
    ASSUME TypeInv, NEW t \in Thread, StoreInCache(t)
    PROVE  TypeInv'
<1>. DEFINE new == table[job[t].frame]
            Stored(s) == /\ cache' = [cache EXCEPT ![s].frame = job[t].frame, ![s].page = new.page]
                         /\ job' = [job EXCEPT ![t].slot = s, ![t].at = "name"]
                         /\ Lock("cache", t)
<1>0. /\ job[t] \in Jobs /\ job[t].frame \in Frame
      /\ new.page \in Page
      /\ \/ \E s \in Slot : Stored(s)
         \/ Go(t, "age") /\ UNCHANGED <<cache, mutex>>
  <2>1. job[t] \in Jobs /\ job[t].frame \in Frame
    BY DEF TypeInv, TypeOK, RequestsFit, RequestFits, StoreInCache, At
  <2>2. new.page \in Page
    BY <2>1 DEF TypeInv, TypeOK
  <2>. QED  BY <2>1, <2>2 DEF StoreInCache, Victims, Entries, Oldest
<1>1. TypeOK'
  <2>1. CASE Go(t, "age") /\ UNCHANGED <<cache, mutex>>
    <3>1. job' \in [Thread -> Jobs]
      BY <2>1, GoTyped DEF TypeInv, Points
    <3>. QED  BY <2>1, <3>1 DEF TypeInv, TypeOK, StoreInCache, tableVars, clientVars
  <2>2. ASSUME NEW s \in Slot, Stored(s)
        PROVE  TypeOK'
    <3>1. job' \in [Thread -> Jobs]
      <4>1. [job[t] EXCEPT !.slot = s, !.at = "name"] \in Jobs
        BY <1>0, JobFieldsTyped DEF Points
      <4>. QED  BY <2>2, <4>1 DEF TypeInv, TypeOK
    <3>2. cache' \in [Slot -> [pid : Pid \cup {None}, page : Page, frame : Frame]]
      <4>1. [cache[s] EXCEPT !.frame = job[t].frame, !.page = new.page] \in
                [pid : Pid \cup {None}, page : Page, frame : Frame]
        BY <1>0 DEF TypeInv, TypeOK
      <4>2. cache' = [cache EXCEPT ![s] = [cache[s] EXCEPT !.frame = job[t].frame, !.page = new.page]]
        BY <2>2 DEF TypeInv, TypeOK
      <4>. QED  BY <4>1, <4>2 DEF TypeInv, TypeOK
    <3>3. mutex' \in [{"mem", "frames", "cache"} -> Thread \cup {None}]
      BY <2>2 DEF TypeInv, TypeOK, Lock
    <3>. QED  BY <3>1, <3>2, <3>3 DEF TypeInv, TypeOK, StoreInCache, tableVars, clientVars
  <2>. QED  BY <1>0, <2>1, <2>2
<1>2. RequestFits(t)'
  <2>1. CASE Go(t, "age") /\ UNCHANGED <<cache, mutex>>
    BY <2>1, <1>0 DEF TypeInv, TypeOK, RequestsFit, RequestFits, StoreInCache, At, Go, Jobs, UnderMemMutex
  <2>2. ASSUME NEW s \in Slot, Stored(s)
        PROVE  RequestFits(t)'
    <3>1. /\ job'[t].op = job[t].op /\ job'[t].pid = job[t].pid /\ job'[t].page = job[t].page
          /\ job'[t].frame = job[t].frame /\ job'[t].slot = s /\ job'[t].at = "name"
      BY <1>0, <2>2 DEF TypeInv, TypeOK, Jobs
    <3>. QED  BY <3>1, <1>0 DEF TypeInv, RequestsFit, RequestFits, StoreInCache, At, UnderMemMutex
  <2>. QED  BY <1>0, <2>1, <2>2
<1>3. \A u \in Thread \ {t} : job'[u] = job[u]
  BY <1>0 DEF TypeInv, TypeOK, Go
<1>. QED  BY <1>1, <1>2, <1>3, OthersFit DEF TypeInv

LEMMA NameEntryTyped ==
    ASSUME TypeInv, NEW t \in Thread, NameEntry(t), table[job[t].frame].pid # Adm
    PROVE  TypeInv'
<1>0. /\ job[t].frame \in Frame /\ job[t].slot \in Slot
      /\ table[job[t].frame].pid \in Pid \cup {None}
  <2>1. job[t].frame \in Frame /\ job[t].slot \in Slot
    BY DEF TypeInv, RequestsFit, RequestFits, NameEntry, At
  <2>. QED  BY <2>1 DEF TypeInv, TypeOK
<1>1. TypeOK'
  <2>1. job' \in [Thread -> Jobs]
    BY GoTyped DEF TypeInv, NameEntry, Points
  <2>2. cache' \in [Slot -> [pid : Pid \cup {None}, page : Page, frame : Frame]]
    <3>. DEFINE s == job[t].slot
                p == table[job[t].frame].pid
    <3>1. [cache[s] EXCEPT !.pid = p] \in [pid : Pid \cup {None}, page : Page, frame : Frame]
      BY <1>0 DEF TypeInv, TypeOK
    <3>2. cache' = [cache EXCEPT ![s] = [cache[s] EXCEPT !.pid = p]]
      BY <1>0 DEF TypeInv, TypeOK, NameEntry
    <3>. QED  BY <3>1, <3>2 DEF TypeInv, TypeOK
  <2>3. older' \subseteq Slot \X Slot
    BY <1>0 DEF TypeInv, TypeOK, NameEntry, Without
  <2>4. mutex' \in [{"mem", "frames", "cache"} -> Thread \cup {None}]
    BY DEF TypeInv, TypeOK, NameEntry, Entered, Unlock
  <2>. QED  BY <2>1, <2>2, <2>3, <2>4 DEF TypeInv, TypeOK, NameEntry, tableVars, clientVars
<1>2. RequestFits(t)'
  BY GoFields DEF TypeInv, RequestsFit, RequestFits, NameEntry, At, UnderMemMutex
<1>3. \A u \in Thread \ {t} : job'[u] = job[u]
  BY GoFields DEF TypeInv, NameEntry
<1>. QED  BY <1>1, <1>2, <1>3, OthersFit DEF TypeInv

\* The next request of a start.
NextPage(t) == [Idle EXCEPT !.op = "start", !.at = "search", !.pid = job[t].pid, !.page = job[t].page + 1]

LEMMA AnswerTyped ==
    ASSUME TypeInv, NEW t \in Thread, Answer(t)
    PROVE  TypeInv'
<1>1. job[t].pid \in Pid /\ job[t] \in Jobs
  BY RequestOfPid DEF TypeInv, TypeOK, Answer, At
<1>2. CASE job[t].op = "start" /\ job[t].page + 1 < CodePages[job[t].pid]
  <2>0. job[t].page + 1 \in Page
    <3>1. job[t].page \in Page \cup {NoPage}
      BY <1>1 DEF Jobs
    <3>2. CodePages[job[t].pid] <= MaxPage + 1 /\ CodePages[job[t].pid] \in Nat
      BY <1>1, SizesAreRight
    <3>. QED  BY <3>1, <3>2, <1>2, SizesAreRight DEF Page, NoPage
  <2>1. NextPage(t) \in Jobs
    BY <1>1, <2>0 DEF NextPage, Idle, Jobs, Points, Contents
  <2>2. job' = [job EXCEPT ![t] = NextPage(t)] /\ UNCHANGED <<pages, mutex>>
    BY <1>2 DEF Answer, NextPage
  <2>3. TypeOK'
    <3>1. job' \in [Thread -> Jobs]
      BY <2>1, <2>2, JobStepTyped DEF TypeInv
    <3>. QED  BY <3>1, <2>2 DEF TypeInv, TypeOK, Answer, tableVars, cacheVars
  <2>4. RequestFits(t)'
    <3>1. /\ job'[t].op = "start" /\ job'[t].pid = job[t].pid /\ job'[t].at = "search"
          /\ job'[t].slot = None
      BY <2>2 DEF TypeInv, TypeOK, NextPage, Idle
    <3>. QED  BY <1>1, <1>2, <3>1, NamesAreDistinct DEF TypeInv, RequestsFit, RequestFits, UnderMemMutex
  <2>5. \A u \in Thread \ {t} : job'[u] = job[u]
    BY <2>2 DEF TypeInv, TypeOK
  <2>. QED  BY <2>3, <2>4, <2>5, OthersFit DEF TypeInv
<1>3. CASE ~(job[t].op = "start" /\ job[t].page + 1 < CodePages[job[t].pid])
  <2>1. TypeOK'
    <3>1. job' \in [Thread -> Jobs]
      BY <1>3, DoneTyped DEF TypeInv, Answer
    <3>2. mutex' \in [{"mem", "frames", "cache"} -> Thread \cup {None}]
      BY <1>3 DEF TypeInv, TypeOK, Answer, Unlock
    <3>3. pages' \in [Pid -> SUBSET Page]
      <4>1. 0 .. CodePages[job[t].pid] + StackSize - 1 \in SUBSET Page
        BY <1>1, SizesAreRight DEF Page
      <4>. QED  BY <4>1, <1>3 DEF TypeInv, TypeOK, Answer
    <3>. QED  BY <3>1, <3>2, <3>3 DEF TypeInv, TypeOK, Answer, tableVars, cacheVars
  <2>2. RequestFits(t)'
    <3>1. job'[t] = Idle
      BY <1>3 DEF TypeInv, TypeOK, Answer, Done
    <3>. QED  BY <3>1 DEF RequestFits, Idle, UnderMemMutex
  <2>3. \A u \in Thread \ {t} : job'[u] = job[u]
    BY <1>3 DEF TypeInv, TypeOK, Answer, Done
  <2>. QED  BY <2>1, <2>2, <2>3, OthersFit DEF TypeInv
<1>. QED  BY <1>2, <1>3

LEMMA AskTyped ==
    ASSUME TypeInv, NEW t \in Thread, NEW op, NEW p \in Pid, NEW n \in Page \cup {NoPage}, NEW point,
           Ask(t, op, p, n, point),
           \/ t = Kernel /\ op \in {"start", "finish", "addPage", "freePage"} /\ point = "lock" /\ n \in Page
           \/ op \in {"read", "store"} /\ point \in {"search", "frame", "pointer"},
           pages' \in [Pid -> SUBSET Page], nextPage' \in [Pid -> Nat]
    PROVE  TypeInv'
<1>. DEFINE j == [Idle EXCEPT !.op = op, !.at = point, !.pid = p, !.page = n]
<1>1. j \in Jobs
  BY DEF Idle, Jobs, Points, Contents
<1>2. job' = [job EXCEPT ![t] = j]
  BY DEF Ask
<1>3. TypeOK'
  <2>1. job' \in [Thread -> Jobs]
    BY <1>1, <1>2, JobStepTyped DEF TypeInv
  <2>. QED  BY <2>1 DEF TypeInv, TypeOK, Ask, tableVars, cacheVars
<1>4. RequestFits(t)'
  <2>1. /\ job'[t].op = op /\ job'[t].pid = p /\ job'[t].page = n /\ job'[t].at = point
        /\ job'[t].slot = None
    BY <1>2 DEF TypeInv, TypeOK, Idle
  <2>. QED  BY <2>1, NamesAreDistinct DEF RequestFits, UnderMemMutex
<1>5. \A u \in Thread \ {t} : job'[u] = job[u]
  BY <1>2 DEF TypeInv, TypeOK
<1>. QED  BY <1>3, <1>4, <1>5, OthersFit DEF TypeInv

LEMMA ClientsTyped ==
    ASSUME TypeInv, Clients
    PROVE  TypeInv'
<1>. USE ThreadNames, SizesAreRight
<1>0. 0 \in Page
  BY DEF Page
<1>1. ASSUME NEW p \in Pid, AskStart(p)
      PROVE  TypeInv'
  <2>1. pages' \in [Pid -> SUBSET Page] /\ nextPage' \in [Pid -> Nat]
    BY <1>1 DEF AskStart, TypeInv, TypeOK
  <2>. QED  BY <1>0, <1>1, <2>1, AskTyped DEF AskStart
<1>2. ASSUME NEW p \in Pid, AskFinish(p)
      PROVE  TypeInv'
  <2>1. pages' \in [Pid -> SUBSET Page] /\ nextPage' \in [Pid -> Nat]
    BY <1>2 DEF AskFinish, TypeInv, TypeOK
  <2>. QED  BY <1>0, <1>2, <2>1, AskTyped DEF AskFinish
<1>3. ASSUME NEW p \in Pid, AskAddPage(p)
      PROVE  TypeInv'
  <2>1. /\ pages' \in [Pid -> SUBSET Page] /\ nextPage' \in [Pid -> Nat]
        /\ nextPage[p] \in Page
    BY <1>3 DEF AskAddPage, TypeInv, TypeOK, clientVars, Page
  <2>. QED  BY <1>3, <2>1, AskTyped DEF AskAddPage
<1>4. ASSUME NEW p \in Pid, NEW n \in Page, AskFreePage(p, n)
      PROVE  TypeInv'
  <2>1. pages' \in [Pid -> SUBSET Page] /\ nextPage' \in [Pid -> Nat]
    BY <1>4 DEF AskFreePage, TypeInv, TypeOK
  <2>. QED  BY <1>4, <2>1, AskTyped DEF AskFreePage
<1>5. ASSUME NEW p \in Pid, NEW op \in {"read", "store"}, NEW t \in Thread, NEW n \in Page, AskAccess(t, op, p, n)
      PROVE  TypeInv'
  <2>1. pages' \in [Pid -> SUBSET Page] /\ nextPage' \in [Pid -> Nat]
    BY <1>5 DEF AskAccess, TypeInv, TypeOK, clientVars
  <2>. QED  BY <1>5, <2>1, AskTyped DEF AskAccess
<1>6. ASSUME NEW p \in Pid, NEW op \in {"read", "store"}, NEW c \in Cpu, NEW n \in Page, AskVariable(c, op, p, n)
      PROVE  TypeInv'
  <2>1. pages' \in [Pid -> SUBSET Page] /\ nextPage' \in [Pid -> Nat] /\ c \in Thread
    BY <1>6 DEF AskVariable, TypeInv, TypeOK, clientVars, Thread
  <2>. QED  BY <1>6, <2>1, AskTyped DEF AskVariable
<1>7. ASSUME NEW p \in Pid, NEW op \in {"read", "store"}, NEW c \in Cpu, AskWild(c, op, p)
      PROVE  TypeInv'
  <2>1. pages' \in [Pid -> SUBSET Page] /\ nextPage' \in [Pid -> Nat] /\ c \in Thread
    BY <1>7 DEF AskWild, TypeInv, TypeOK, clientVars, Thread
  <2>. QED  BY <1>7, <2>1, AskTyped DEF AskWild
<1>. QED  BY <1>1, <1>2, <1>3, <1>4, <1>5, <1>6, <1>7 DEF Clients

LEMMA FlushTyped ==
    ASSUME TypeInv, Flush
    PROVE  TypeInv'
<1>1. TypeOK'
  BY DEF TypeInv, TypeOK, Flush, tableVars, clientVars
<1>2. RequestsFit'
  BY DEF TypeInv, Flush, RequestsFit, RequestFits
<1>. QED  BY <1>1, <1>2 DEF TypeInv

LEMMA InitTyped == Init => TypeInv
<1>. SUFFICES ASSUME Init PROVE TypeInv
  OBVIOUS
<1>1. 0 \in Page
  BY SizesAreRight DEF Page
<1>2. TypeOK
  BY <1>1, IdleIsTyped, NamesAreDistinct DEF Init, TypeOK, Contents, NoEntry
<1>3. RequestsFit
  BY DEF Init, RequestsFit, RequestFits, Idle, UnderMemMutex
<1>. QED  BY <1>2, <1>3 DEF TypeInv
-----------------------------------------------------------------------------
(* What the steps of a request change, field by field. *)

LEMMA DoneFields ==
    ASSUME TypeOK, NEW t \in Thread, Done(t)
    PROVE  /\ job'[t].at = "idle" /\ job'[t].pid = None /\ job'[t].op = "none"
           /\ job'[t].slot = None /\ job'[t].frame = None
           /\ \A u \in Thread \ {t} : job'[u] = job[u]
<1>1. job'[t] = Idle /\ \A u \in Thread \ {t} : job'[u] = job[u]
  BY DEF TypeOK, Done
<1>. QED  BY <1>1 DEF Idle

LEMMA GetFrameFields ==
    ASSUME TypeOK, NEW t \in Thread, GetFrame(t)
    PROVE  /\ job'[t].at = "pointer"
           /\ job'[t].op = job[t].op /\ job'[t].pid = job[t].pid /\ job'[t].slot = job[t].slot
           /\ job'[t].page = job[t].page
           /\ Holding(job[t].pid, job[t].page) # {} => job'[t].frame \in Holding(job[t].pid, job[t].page)
           /\ \A u \in Thread \ {t} : job'[u] = job[u]
<1>1. PICK f : /\ job' = [job EXCEPT ![t].frame = f, ![t].at = "pointer"]
               /\ Holding(job[t].pid, job[t].page) # {} => f \in Holding(job[t].pid, job[t].page)
  BY DEF GetFrame
<1>2. job[t] \in Jobs /\ job'[t] = [job[t] EXCEPT !.frame = f, !.at = "pointer"]
  BY <1>1 DEF TypeOK
<1>3. \A u \in Thread \ {t} : job'[u] = job[u]
  BY <1>1 DEF TypeOK
<1>4. /\ job'[t].at = "pointer" /\ job'[t].frame = f /\ job'[t].page = job[t].page
      /\ job'[t].op = job[t].op /\ job'[t].pid = job[t].pid /\ job'[t].slot = job[t].slot
  BY <1>2 DEF Jobs
<1>. QED  BY <1>1, <1>3, <1>4

LEMMA FindInTableFields ==
    ASSUME TypeOK, NEW t \in Thread, FindInTable(t)
    PROVE  /\ job'[t].at = "access"
           /\ job'[t].op = job[t].op /\ job'[t].pid = job[t].pid /\ job'[t].page = job[t].page
           /\ job'[t].slot = job[t].slot
           /\ job'[t].frame # None => job'[t].frame \in Holding(job[t].pid, job[t].page)
           /\ Holding(job[t].pid, job[t].page) # {} => job'[t].frame # None
           /\ \A u \in Thread \ {t} : job'[u] = job[u]
<1>0. None \notin Holding(job[t].pid, job[t].page)
  BY NamesAreDistinct DEF Holding
<1>1. PICK f : /\ job' = [job EXCEPT ![t].frame = f, ![t].at = "access"]
               /\ f # None => f \in Holding(job[t].pid, job[t].page)
               /\ Holding(job[t].pid, job[t].page) # {} => f # None
  BY <1>0 DEF FindInTable
<1>2. job[t] \in Jobs /\ job'[t] = [job[t] EXCEPT !.frame = f, !.at = "access"]
  BY <1>1 DEF TypeOK
<1>3. \A u \in Thread \ {t} : job'[u] = job[u]
  BY <1>1 DEF TypeOK
<1>4. /\ job'[t].at = "access" /\ job'[t].frame = f
      /\ job'[t].op = job[t].op /\ job'[t].pid = job[t].pid /\ job'[t].page = job[t].page
      /\ job'[t].slot = job[t].slot
  BY <1>2 DEF Jobs
<1>. QED  BY <1>1, <1>3, <1>4

LEMMA GetFromCacheFields ==
    ASSUME TypeOK, NEW t \in Thread, GetFromCache(t)
    PROVE  \/ UNCHANGED job
           \/ /\ job'[t].at = "access" /\ job'[t].slot \in Slot /\ job'[t].slot \in CachedAt(job[t])
              /\ job'[t].op = job[t].op /\ job'[t].pid = job[t].pid /\ job'[t].page = job[t].page
              /\ job'[t].frame = job[t].frame
              /\ \A u \in Thread \ {t} : job'[u] = job[u]
<1>1. CASE UNCHANGED job
  BY <1>1
<1>2. ASSUME NEW s \in Slot, job' = [job EXCEPT ![t].slot = s, ![t].at = "access"]
      PROVE  /\ job'[t].at = "access" /\ job'[t].slot = s
             /\ job'[t].op = job[t].op /\ job'[t].pid = job[t].pid /\ job'[t].page = job[t].page
             /\ job'[t].frame = job[t].frame
             /\ \A u \in Thread \ {t} : job'[u] = job[u]
  <2>1. job[t] \in Jobs /\ job'[t] = [job[t] EXCEPT !.slot = s, !.at = "access"]
    BY <1>2 DEF TypeOK
  <2>2. \A u \in Thread \ {t} : job'[u] = job[u]
    BY <1>2 DEF TypeOK
  <2>. QED  BY <2>1, <2>2 DEF Jobs
<1>. QED  BY <1>1, <1>2 DEF GetFromCache, CachedAt, Entries

\* The entry that store_in_cache takes, if the program is below its share.
LEMMA StoreInCacheFields ==
    ASSUME TypeOK, NEW t \in Thread, StoreInCache(t)
    PROVE  /\ job[t].at = "enter" /\ Free("cache")
           /\ UNCHANGED <<tableVars, older, clientVars>>
           /\ job'[t].op = job[t].op /\ job'[t].pid = job[t].pid /\ job'[t].page = job[t].page
           /\ job'[t].frame = job[t].frame /\ job'[t].got = job[t].got
           /\ \A u \in Thread \ {t} : job'[u] = job[u]
           /\ \/ /\ job'[t].at = "name" /\ job'[t].slot \in Slot /\ job'[t].slot \in Victims
                 /\ BelowShare(table[job[t].frame].pid)
                 /\ cache'[job'[t].slot].frame = job[t].frame
                 /\ cache'[job'[t].slot].page = table[job[t].frame].page
                 /\ \A r \in Slot : cache'[r].pid = cache[r].pid
                 /\ \A r \in Slot \ {job'[t].slot} : cache'[r] = cache[r]
                 /\ Lock("cache", t)
              \/ /\ job'[t].at = "age" /\ job'[t].slot = job[t].slot
                 /\ UNCHANGED <<cache, mutex>>
<1>0. job[t].at = "enter" /\ Free("cache") /\ UNCHANGED <<tableVars, older, clientVars>>
  BY DEF StoreInCache, At
<1>1. CASE Go(t, "age") /\ UNCHANGED <<cache, mutex>>
  BY <1>0, <1>1, GoFields
<1>2. ASSUME NEW s \in Slot, job' = [job EXCEPT ![t].slot = s, ![t].at = "name"]
      PROVE  /\ job'[t].at = "name" /\ job'[t].slot = s
             /\ job'[t].op = job[t].op /\ job'[t].pid = job[t].pid /\ job'[t].page = job[t].page
             /\ job'[t].frame = job[t].frame /\ job'[t].got = job[t].got
             /\ \A u \in Thread \ {t} : job'[u] = job[u]
  <2>1. job[t] \in Jobs /\ job'[t] = [job[t] EXCEPT !.slot = s, !.at = "name"]
    BY <1>2 DEF TypeOK
  <2>2. \A u \in Thread \ {t} : job'[u] = job[u]
    BY <1>2 DEF TypeOK
  <2>. QED  BY <2>1, <2>2 DEF Jobs
<1>3. Victims \subseteq Slot
  BY DEF Victims, Entries, Oldest
<1>4. CASE ~(Go(t, "age") /\ UNCHANGED <<cache, mutex>>)
  <2>1. PICK s \in Slot :
            /\ s \in Victims
            /\ cache' = [cache EXCEPT ![s].frame = job[t].frame, ![s].page = table[job[t].frame].page]
            /\ job' = [job EXCEPT ![t].slot = s, ![t].at = "name"]
            /\ BelowShare(table[job[t].frame].pid) /\ Lock("cache", t)
    BY <1>3, <1>4 DEF StoreInCache
  <2>2. /\ cache'[s].frame = job[t].frame /\ cache'[s].page = table[job[t].frame].page
        /\ cache'[s].pid = cache[s].pid
        /\ \A r \in Slot \ {s} : cache'[r] = cache[r]
    <3>1. /\ cache[s] \in [pid : Pid \cup {None}, page : Page, frame : Frame]
          /\ cache'[s] = [cache[s] EXCEPT !.frame = job[t].frame, !.page = table[job[t].frame].page]
          /\ \A r \in Slot \ {s} : cache'[r] = cache[r]
      BY <2>1 DEF TypeOK
    <3>. QED  BY <3>1
  <2>. QED  BY <1>0, <2>1, <2>2, <1>2
<1>. QED  BY <1>1, <1>4

LEMMA AccessFields ==
    ASSUME TypeOK, NEW t \in Thread, Access(t)
    PROVE  /\ job[t].at = "access" /\ Free("frames")
           /\ job'[t].at = IF job[t].slot = None /\ Slot # {} THEN "enter" ELSE "answer"
           /\ IF job[t].slot = None /\ Slot # {} THEN Lock("frames", t) ELSE UNCHANGED mutex
           /\ FrameOf(job[t]) # None
           /\ UNCHANGED <<table, cacheVars, clientVars>>
           /\ job'[t].op = job[t].op /\ job'[t].pid = job[t].pid /\ job'[t].page = job[t].page
           /\ job'[t].frame = job[t].frame /\ job'[t].slot = job[t].slot
           /\ job'[t].got = content[FrameOf(job[t])] /\ Written(t, FrameOf(job[t]))
           /\ \A u \in Thread \ {t} : job'[u] = job[u]
<1>. DEFINE point == IF job[t].slot = None /\ Slot # {} THEN "enter" ELSE "answer"
            got == content[FrameOf(job[t])]
<1>0. /\ job[t].at = "access" /\ Free("frames") /\ FrameOf(job[t]) # None
      /\ IF job[t].slot = None /\ Slot # {} THEN Lock("frames", t) ELSE UNCHANGED mutex
      /\ UNCHANGED <<table, cacheVars, clientVars>> /\ Written(t, FrameOf(job[t]))
  BY DEF Access, At
<1>1. job' = [job EXCEPT ![t].got = got, ![t].at = point]
  BY DEF Access
<1>2. job[t] \in Jobs /\ job'[t] = [job[t] EXCEPT !.got = got, !.at = point]
  BY <1>1 DEF TypeOK
<1>3. \A u \in Thread \ {t} : job'[u] = job[u]
  BY <1>1 DEF TypeOK
<1>. HIDE DEF point, got
<1>4. /\ job'[t].at = point
      /\ job'[t].op = job[t].op /\ job'[t].pid = job[t].pid /\ job'[t].page = job[t].page
      /\ job'[t].frame = job[t].frame /\ job'[t].slot = job[t].slot /\ job'[t].got = got
  BY <1>2 DEF Jobs
<1>. QED  BY <1>0, <1>3, <1>4 DEF point, got

LEMMA PointerFields ==
    ASSUME TypeOK, NEW t \in Thread, GetPageFromPointer(t)
    PROVE  /\ job[t].at = "pointer" /\ job'[t].at = "search"
           /\ job'[t].op = job[t].op /\ job'[t].pid = job[t].pid /\ job'[t].slot = job[t].slot
           /\ job'[t].page = IF job[t].frame = None THEN NoPage ELSE table[job[t].frame].page
           /\ \A u \in Thread \ {t} : job'[u] = job[u]
           /\ UNCHANGED <<tableVars, cacheVars, mutex, clientVars>>
<1>0. job[t].at = "pointer" /\ UNCHANGED <<tableVars, cacheVars, mutex, clientVars>>
  BY DEF GetPageFromPointer, At
<1>1. PICK n : /\ job' = [job EXCEPT ![t].page = n, ![t].frame = None, ![t].at = "search"]
               /\ n = IF job[t].frame = None THEN NoPage ELSE table[job[t].frame].page
  BY DEF GetPageFromPointer
<1>2. job[t] \in Jobs /\ job'[t] = [job[t] EXCEPT !.page = n, !.frame = None, !.at = "search"]
  BY <1>1 DEF TypeOK
<1>3. \A u \in Thread \ {t} : job'[u] = job[u]
  BY <1>1 DEF TypeOK
<1>4. /\ job'[t].at = "search" /\ job'[t].page = n
      /\ job'[t].op = job[t].op /\ job'[t].pid = job[t].pid /\ job'[t].slot = job[t].slot
  BY <1>2 DEF Jobs
<1>. QED  BY <1>0, <1>1, <1>3, <1>4

\* Whether a start goes on with another page of its code.
More(t) == job[t].op = "start" /\ job[t].page + 1 < CodePages[job[t].pid]

LEMMA MoreFields ==
    ASSUME TypeOK, NEW t \in Thread, Answer(t), More(t)
    PROVE  /\ job'[t].at = "search" /\ job'[t].op = "start" /\ job'[t].pid = job[t].pid
           /\ job[t].op = "start" /\ job'[t].slot = None /\ job'[t].page = job[t].page + 1
           /\ UNCHANGED <<pages, mutex>>
           /\ \A u \in Thread \ {t} : job'[u] = job[u]
<1>1. job' = [job EXCEPT ![t] = NextPage(t)] /\ UNCHANGED <<pages, mutex>>
  BY DEF Answer, More, NextPage
<1>2. \A u \in Thread \ {t} : job'[u] = job[u]
  BY <1>1 DEF TypeOK
<1>3. /\ job'[t].at = "search" /\ job'[t].op = "start" /\ job'[t].pid = job[t].pid
      /\ job'[t].slot = None /\ job'[t].page = job[t].page + 1
  BY <1>1 DEF TypeOK, NextPage, Idle
<1>. QED  BY <1>1, <1>2, <1>3 DEF More

\* The other answers.
LEMMA LastFields ==
    ASSUME NEW t \in Thread, Answer(t), ~More(t)
    PROVE  /\ Done(t)
           /\ \/ /\ job[t].op = "start" /\ Unlock("mem")
                 /\ pages' = [pages EXCEPT ![job[t].pid] = 0 .. CodePages[job[t].pid] + StackSize - 1]
              \/ job[t].op # "start" /\ UNCHANGED <<pages, mutex>>
BY DEF Answer, More

LEMMA AnswerFields ==
    ASSUME NEW t \in Thread, Answer(t)
    PROVE  job[t].at = "answer" /\ UNCHANGED <<tableVars, cacheVars, nextPage>>
BY DEF Answer, At

LEMMA AskFields ==
    ASSUME TypeOK, NEW t \in Thread, NEW op, NEW p, NEW n, NEW point, Ask(t, op, p, n, point)
    PROVE  /\ job'[t].at = point /\ job'[t].op = op /\ job'[t].pid = p /\ job'[t].page = n
           /\ job'[t].slot = None /\ job'[t].frame = None
           /\ \A u \in Thread \ {t} : job'[u] = job[u]
           /\ UNCHANGED <<tableVars, cacheVars, mutex, crashed>>
<1>1. job' = [job EXCEPT ![t] = [Idle EXCEPT !.op = op, !.at = point, !.pid = p, !.page = n]]
  BY DEF Ask
<1>2. \A u \in Thread \ {t} : job'[u] = job[u]
  BY <1>1 DEF TypeOK
<1>3. /\ job'[t].at = point /\ job'[t].op = op /\ job'[t].pid = p /\ job'[t].page = n
      /\ job'[t].slot = None /\ job'[t].frame = None
  BY <1>1 DEF TypeOK, Idle
<1>. QED  BY <1>2, <1>3 DEF Ask

\* The requests are those of the clients, one for each thread and each program.
Asked(t, p, n) ==
    \/ /\ Ask(t, "start", p, n, "lock") /\ nextPage[p] = 0 /\ n = 0
       /\ nextPage' = [nextPage EXCEPT ![p] = CodePages[p] + StackSize] /\ UNCHANGED pages
    \/ /\ Ask(t, "finish", p, n, "lock") /\ pages[p] # {} /\ ~Busy(p)
       /\ pages' = [pages EXCEPT ![p] = {}] /\ UNCHANGED nextPage
    \/ /\ Ask(t, "addPage", p, n, "lock") /\ pages[p] # {} /\ ~Busy(p)
       /\ n = nextPage[p] /\ UNCHANGED clientVars
    \/ /\ Ask(t, "freePage", p, n, "lock") /\ n \in pages[p] /\ ~Busy(p)
       /\ n >= CodePages[p] + StackSize /\ pages' = [pages EXCEPT ![p] = @ \ {n}]
       /\ UNCHANGED nextPage
    \/ /\ \E op \in {"read", "store"}, point \in {"search", "frame", "pointer"} :
              /\ Ask(t, op, p, n, point)
              /\ IF point = "pointer" THEN Wild /\ n = NoPage ELSE n \in pages[p]
       /\ pages[p] # {} /\ ~Busy(p) /\ UNCHANGED clientVars

LEMMA ClientsAsk ==
    ASSUME TypeOK, Clients
    PROVE  \E t \in Thread, p \in Pid, n \in Page \cup {NoPage} : Asked(t, p, n)
<1>0. 0 \in Page /\ Kernel \in Thread /\ Cpu \subseteq Thread
  BY SizesAreRight DEF Page, Thread
<1>1. ASSUME NEW p \in Pid, AskStart(p)
      PROVE  Asked(Kernel, p, 0)
  BY <1>1 DEF Asked, AskStart
<1>2. ASSUME NEW p \in Pid, AskFinish(p)
      PROVE  Asked(Kernel, p, 0)
  BY <1>2 DEF Asked, AskFinish
<1>3. ASSUME NEW p \in Pid, AskAddPage(p)
      PROVE  Asked(Kernel, p, nextPage[p]) /\ nextPage[p] \in Page
  BY <1>3, SizesAreRight DEF Asked, AskAddPage, Page, TypeOK
<1>4. ASSUME NEW p \in Pid, NEW n \in Page, AskFreePage(p, n)
      PROVE  Asked(Kernel, p, n)
  BY <1>4 DEF Asked, AskFreePage
<1>5. ASSUME NEW p \in Pid, NEW op \in {"read", "store"}, NEW t \in Thread, NEW n \in Page, AskAccess(t, op, p, n)
      PROVE  Asked(t, p, n)
  BY <1>5 DEF Asked, AskAccess
<1>6. ASSUME NEW p \in Pid, NEW op \in {"read", "store"}, NEW c \in Cpu, NEW n \in Page, AskVariable(c, op, p, n)
      PROVE  Asked(c, p, n)
  BY <1>6 DEF Asked, AskVariable
<1>7. ASSUME NEW p \in Pid, NEW op \in {"read", "store"}, NEW c \in Cpu, AskWild(c, op, p)
      PROVE  Asked(c, p, NoPage)
  BY <1>7 DEF Asked, AskWild
<1>. QED  BY <1>0, <1>1, <1>2, <1>3, <1>4, <1>5, <1>6, <1>7 DEF Clients

LEMMA LockFields ==
    ASSUME TypeOK, NEW m \in {"mem", "frames", "cache"}, NEW t
    PROVE  /\ Lock(m, t) => mutex'[m] = t
           /\ Unlock(m) => mutex'[m] = None
           /\ Lock(m, t) \/ Unlock(m) => \A k \in {"mem", "frames", "cache"} \ {m} : mutex'[k] = mutex[k]
BY DEF TypeOK, Lock, Unlock
-----------------------------------------------------------------------------
(* The mutexes of a thread that enters a page in the cache. *)

Entering == {"enter", "name", "age"}

Exclusive ==
    \A t \in Thread :
        /\ job[t].at \in Entering => mutex["frames"] = t
        /\ job[t].at = "name" => mutex["cache"] = t

LEMMA ExclusiveKept ==
    ASSUME TypeInv, Exclusive, NEW t \in Thread, Serve(t)
    PROVE  Exclusive'
<1>. USE ThreadNames DEF TypeInv, At, Free, Entering
<1>1. CASE LockMemory(t)
  BY <1>1, GoFields, LockFields DEF Exclusive, LockMemory
<1>2. CASE HasAvailableFrames(t)
  BY <1>2, GoFields, DoneFields, LockFields DEF Exclusive, HasAvailableFrames
<1>3. CASE StartProgram(t)
  BY <1>3, GoFields DEF Exclusive, StartProgram
<1>4. CASE AddPages(t)
  BY <1>4, GoFields DEF Exclusive, AddPages
<1>5. CASE AddPage(t)
  BY <1>5, DoneFields, LockFields DEF Exclusive, AddPage
<1>6. CASE FinishProgram(t)
  BY <1>6, GoFields DEF Exclusive, FinishProgram
<1>7. CASE FreePage(t)
  BY <1>7, GoFields DEF Exclusive, FreePage
<1>8. CASE Uncache(t)
  BY <1>8, DoneFields, LockFields DEF Exclusive, Uncache
<1>9. CASE GetFrame(t)
  <2>1. UNCHANGED mutex
    BY <1>9 DEF GetFrame
  <2>. QED  BY <1>9, <2>1, GetFrameFields DEF Exclusive
<1>10. CASE GetPageFromPointer(t)
  BY <1>10, PointerFields DEF Exclusive
<1>11. CASE ExistsInCache(t)
  BY <1>11, GoFields DEF Exclusive, ExistsInCache
<1>12. CASE GetFromCache(t)
  <2>1. UNCHANGED mutex
    BY <1>12 DEF GetFromCache
  <2>. QED  BY <1>12, <2>1, GetFromCacheFields DEF Exclusive
<1>13. CASE FindInTable(t)
  <2>1. UNCHANGED mutex
    BY <1>13 DEF FindInTable
  <2>. QED  BY <1>13, <2>1, FindInTableFields DEF Exclusive
<1>14. CASE Access(t)
  BY <1>14, AccessFields, LockFields DEF Exclusive
<1>15. CASE AccessNothing(t)
  BY <1>15, GoFields, LockFields DEF Exclusive, AccessNothing
<1>16. CASE StoreInCache(t)
  BY <1>16, StoreInCacheFields, LockFields DEF Exclusive
<1>17. CASE NameEntry(t)
  BY <1>17, GoFields, LockFields DEF Exclusive, NameEntry, Entered
<1>18. CASE IncreaseCacheLru(t)
  BY <1>18, GoFields, LockFields DEF Exclusive, IncreaseCacheLru
<1>19. CASE Answer(t)
  <2>1. CASE More(t)
    BY <1>19, <2>1, MoreFields DEF Exclusive
  <2>2. CASE ~More(t)
    BY <1>19, <2>2, LastFields, DoneFields, LockFields DEF Exclusive
  <2>. QED  BY <2>1, <2>2
<1>. QED  BY <1>1, <1>2, <1>3, <1>4, <1>5, <1>6, <1>7, <1>8, <1>9, <1>10, <1>11, <1>12, <1>13, <1>14, <1>15, <1>16, <1>17, <1>18, <1>19 DEF Serve

LEMMA ExclusiveKeptByClients ==
    ASSUME TypeInv, Exclusive, Clients \/ Flush
    PROVE  Exclusive'
<1>1. CASE Clients
  <2>1. PICK t \in Thread, p \in Pid, n \in Page \cup {NoPage} : Asked(t, p, n)
    BY <1>1, ClientsAsk DEF TypeInv
  <2>2. /\ job'[t].at \in {"lock", "search", "frame", "pointer"} /\ UNCHANGED mutex
        /\ \A u \in Thread \ {t} : job'[u] = job[u]
    BY <2>1, AskFields DEF TypeInv, Asked
  <2>. QED  BY <2>2 DEF Exclusive, Entering
<1>2. CASE Flush
  BY <1>2 DEF Flush, Exclusive
<1>. QED  BY <1>1, <1>2
-----------------------------------------------------------------------------
(* One request at a time for each program, and what the clients take it to have. *)

Carries(t) == job'[t].op = job[t].op /\ job'[t].pid = job[t].pid

LEMMA RequestGoesOn ==
    ASSUME TypeInv, NEW t \in Thread, Serve(t)
    PROVE  /\ Carries(t) \/ job'[t].pid = None
           /\ \A u \in Thread \ {t} : job'[u] = job[u]
           /\ UNCHANGED clientVars \/ AddPage(t) \/ Answer(t)
<1>. USE DEF TypeInv, Carries
<1>1. CASE LockMemory(t)
  BY <1>1, GoFields DEF LockMemory
<1>2. CASE HasAvailableFrames(t)
  BY <1>2, GoFields, DoneFields DEF HasAvailableFrames
<1>3. CASE StartProgram(t)
  BY <1>3, GoFields DEF StartProgram
<1>4. CASE AddPages(t)
  BY <1>4, GoFields DEF AddPages
<1>5. CASE AddPage(t)
  BY <1>5, DoneFields DEF AddPage
<1>6. CASE FinishProgram(t)
  BY <1>6, GoFields DEF FinishProgram
<1>7. CASE FreePage(t)
  BY <1>7, GoFields DEF FreePage
<1>8. CASE Uncache(t)
  BY <1>8, DoneFields DEF Uncache
<1>9. CASE GetFrame(t)
  BY <1>9, GetFrameFields DEF GetFrame
<1>10. CASE GetPageFromPointer(t)
  BY <1>10, PointerFields
<1>11. CASE ExistsInCache(t)
  BY <1>11, GoFields DEF ExistsInCache
<1>12. CASE GetFromCache(t)
  BY <1>12, GetFromCacheFields DEF GetFromCache
<1>13. CASE FindInTable(t)
  BY <1>13, FindInTableFields DEF FindInTable
<1>14. CASE Access(t)
  BY <1>14, AccessFields
<1>15. CASE AccessNothing(t)
  BY <1>15, GoFields DEF AccessNothing
<1>16. CASE StoreInCache(t)
  BY <1>16, StoreInCacheFields
<1>17. CASE NameEntry(t)
  BY <1>17, GoFields DEF NameEntry
<1>18. CASE IncreaseCacheLru(t)
  BY <1>18, GoFields DEF IncreaseCacheLru
<1>19. CASE Answer(t)
  BY <1>19, DoneFields, MoreFields, LastFields
<1>. QED  BY <1>1, <1>2, <1>3, <1>4, <1>5, <1>6, <1>7, <1>8, <1>9, <1>10, <1>11, <1>12, <1>13, <1>14, <1>15, <1>16, <1>17, <1>18, <1>19 DEF Serve

OneRequest ==
    /\ \A t, u \in Thread : job[t].pid # None /\ job[t].pid = job[u].pid => t = u
    /\ \A p \in Pid : pages[p] # {} => nextPage[p] > 0 /\ 0 \in pages[p]
    /\ \A t \in Thread : job[t].pid # None =>
           /\ nextPage[job[t].pid] > 0
           /\ job[t].op \in {"start", "finish"} <=> pages[job[t].pid] = {}

LEMMA OneRequestKept ==
    ASSUME TypeInv, OneRequest, NEW t \in Thread, Serve(t)
    PROVE  OneRequest'
<1>1. /\ Carries(t) \/ job'[t].pid = None
      /\ \A u \in Thread \ {t} : job'[u] = job[u]
      /\ UNCHANGED clientVars \/ AddPage(t) \/ Answer(t)
  BY RequestGoesOn
<1>2. \A u, v \in Thread : job'[u].pid # None /\ job'[u].pid = job'[v].pid => u = v
  BY <1>1 DEF OneRequest, Carries
<1>3. CASE UNCHANGED clientVars
  BY <1>1, <1>2, <1>3 DEF OneRequest, Carries, clientVars
<1>. DEFINE p == job[t].pid
<1>4. ASSUME job[t].at # "idle", job'[t].pid = None, nextPage'[p] > 0, 0 \in pages'[p],
             \A q \in Pid \ {p} : nextPage'[q] = nextPage[q] /\ pages'[q] = pages[q]
      PROVE  OneRequest'
  <2>1. p \in Pid /\ p # None
    BY <1>4, RequestOfPid, NamesAreDistinct
  <2>2. \A u \in Thread \ {t} : job[u].pid # None => job[u].pid \in Pid \ {p}
    BY <2>1, RequestOfPid DEF TypeInv, RequestsFit, RequestFits, OneRequest
  <2>. QED  BY <1>1, <1>2, <1>4, <2>1, <2>2 DEF OneRequest
<1>5. CASE AddPage(t)
  <2>1. job[t].at = "page" /\ job[t].op = "addPage"
    BY <1>5 DEF TypeInv, RequestsFit, RequestFits, AddPage, At
  <2>2. p \in Pid /\ p # None /\ job[t].page \in Page
    BY <2>1, RequestOfPid, NamesAreDistinct DEF TypeInv, RequestsFit, RequestFits, UnderMemMutex
  <2>3. pages[p] # {} /\ 0 \in pages[p]
    BY <2>1, <2>2 DEF OneRequest
  <2>4. /\ nextPage'[p] = job[t].page + 1 /\ pages'[p] = pages[p] \cup {job[t].page}
        /\ \A q \in Pid \ {p} : nextPage'[q] = nextPage[q] /\ pages'[q] = pages[q]
    BY <1>5, <2>2 DEF TypeInv, TypeOK, AddPage
  <2>5. nextPage'[p] > 0
    BY <2>2, <2>4, SizesAreRight DEF Page
  <2>6. job'[t].pid = None
    BY <1>5, DoneFields DEF TypeInv, AddPage
  <2>. QED  BY <2>1, <2>3, <2>4, <2>5, <2>6, <1>4
<1>6. CASE Answer(t)
  <2>1. p \in Pid /\ p # None /\ job[t].at = "answer" /\ UNCHANGED nextPage
    BY <1>6, AnswerFields, RequestOfPid, NamesAreDistinct
  <2>2. CASE More(t)
    BY <1>6, <2>1, <2>2, <1>3, MoreFields DEF TypeInv, clientVars
  <2>3. CASE ~More(t) /\ job[t].op # "start"
    BY <1>6, <2>1, <2>3, <1>3, LastFields DEF TypeInv, clientVars
  <2>4. CASE ~More(t) /\ job[t].op = "start"
    <3>1. /\ job'[t].pid = None
          /\ pages' = [pages EXCEPT ![p] = 0 .. CodePages[p] + StackSize - 1]
      BY <1>6, <2>4, LastFields, DoneFields DEF TypeInv
    <3>2. 0 \in 0 .. CodePages[p] + StackSize - 1
      BY <2>1, SizesAreRight
    <3>3. 0 \in pages'[p] /\ \A q \in Pid \ {p} : pages'[q] = pages[q]
      BY <2>1, <3>1, <3>2 DEF TypeInv, TypeOK
    <3>4. nextPage[p] > 0
      BY <2>1 DEF OneRequest
    <3>. QED  BY <2>1, <3>1, <3>3, <3>4, <1>4
  <2>. QED  BY <2>2, <2>3, <2>4
<1>. QED  BY <1>1, <1>3, <1>5, <1>6

LEMMA OneRequestKeptByClients ==
    ASSUME TypeInv, OneRequest, Clients
    PROVE  OneRequest'
<1>1. ASSUME NEW t \in Thread, NEW p \in Pid, NEW n, NEW op, NEW point, Ask(t, op, p, n, point),
             nextPage'[p] > 0, op \in {"start", "finish"} <=> pages'[p] = {},
             pages'[p] # {} => 0 \in pages'[p],
             nextPage[p] = 0 \/ ~Busy(p),
             \A q \in Pid \ {p} : nextPage'[q] = nextPage[q] /\ pages'[q] = pages[q]
      PROVE  OneRequest'
  <2>1. /\ job'[t].op = op /\ job'[t].pid = p
        /\ \A u \in Thread \ {t} : job'[u] = job[u]
    BY <1>1, AskFields DEF TypeInv
  <2>2. \A u \in Thread : job[u].pid # p
    BY <1>1, NamesAreDistinct DEF OneRequest, Busy
  <2>3. \A u \in Thread \ {t} : job[u].pid # None => job[u].pid \in Pid \ {p}
    BY <2>2, RequestOfPid DEF TypeInv, RequestsFit, RequestFits
  <2>. QED  BY <1>1, <2>1, <2>2, <2>3 DEF OneRequest
<1>2. PICK t \in Thread, p \in Pid, n \in Page \cup {NoPage} : Asked(t, p, n)
  BY ClientsAsk DEF TypeInv
<1>3. CASE /\ Ask(t, "start", p, n, "lock") /\ nextPage[p] = 0
           /\ nextPage' = [nextPage EXCEPT ![p] = CodePages[p] + StackSize] /\ UNCHANGED pages
  <2>1. nextPage'[p] = CodePages[p] + StackSize /\ \A q \in Pid \ {p} : nextPage'[q] = nextPage[q]
    BY <1>3 DEF TypeInv, TypeOK
  <2>2. nextPage'[p] > 0
    BY <2>1, SizesAreRight
  <2>3. pages[p] = {}
    BY <1>3 DEF OneRequest
  <2>. QED  BY <1>1, <1>3, <2>1, <2>2, <2>3
<1>4. CASE /\ Ask(t, "finish", p, n, "lock") /\ pages[p] # {} /\ ~Busy(p)
           /\ pages' = [pages EXCEPT ![p] = {}] /\ UNCHANGED nextPage
  <2>1. pages'[p] = {} /\ \A q \in Pid \ {p} : pages'[q] = pages[q]
    BY <1>4 DEF TypeInv, TypeOK
  <2>2. nextPage[p] > 0
    BY <1>4 DEF OneRequest
  <2>. QED  BY <1>1, <1>4, <2>1, <2>2
<1>5. CASE /\ Ask(t, "addPage", p, n, "lock") /\ pages[p] # {} /\ ~Busy(p)
           /\ UNCHANGED clientVars
  BY <1>1, <1>5 DEF OneRequest, clientVars
<1>6. CASE /\ Ask(t, "freePage", p, n, "lock") /\ n \in pages[p] /\ ~Busy(p)
           /\ n >= CodePages[p] + StackSize /\ pages' = [pages EXCEPT ![p] = @ \ {n}]
           /\ UNCHANGED nextPage
  <2>1. pages'[p] = pages[p] \ {n} /\ \A q \in Pid \ {p} : pages'[q] = pages[q]
    BY <1>6 DEF TypeInv, TypeOK
  <2>2. n # 0
    BY <1>6, SizesAreRight
  <2>3. nextPage[p] > 0 /\ 0 \in pages[p]
    BY <1>6 DEF OneRequest
  <2>. QED  BY <1>1, <1>6, <2>1, <2>2, <2>3
<1>7. CASE /\ \E op \in {"read", "store"}, point \in {"search", "frame", "pointer"} : Ask(t, op, p, n, point)
           /\ pages[p] # {} /\ ~Busy(p) /\ UNCHANGED clientVars
  BY <1>1, <1>7 DEF OneRequest, clientVars
<1>. QED  BY <1>2, <1>3, <1>4, <1>5, <1>6, <1>7 DEF Asked

LEMMA OneRequestKeptByFlush ==
    ASSUME OneRequest, Flush
    PROVE  OneRequest'
BY DEF OneRequest, Flush, clientVars
-----------------------------------------------------------------------------
(* What the steps of a request change in the table and in the cache. *)

\* A frame that step of t clears: its page is that of the request, which goes on to the cache.
ClearsFrame(t, f) ==
    /\ job'[t].at = "uncache" /\ Carries(t) /\ job'[t].page = job[t].page
    /\ table'[f].pid = None /\ table[f].pid = job[t].pid
    /\ job[t].op = "finish" \/ table[f].page = job[t].page

\* A frame is taken only when it is free, and cleared only by a request for its program.
LEMMA TableSteps ==
    ASSUME TypeInv, StackFits, NEW t \in Thread, Serve(t), NEW f \in Frame
    PROVE  \/ table'[f] = table[f]
           \/ table[f].pid = None /\ table'[f].pid = job[t].pid
           \/ ClearsFrame(t, f)
<1>1. CASE UNCHANGED table
  BY <1>1
<1>2. CASE StartProgram(t)
  <2>1. job[t].pid \in Pid
    BY <1>2, RequestOfPid DEF StartProgram, At
  <2>2. CodePages[job[t].pid] \in Nat /\ 0 + CodePages[job[t].pid] <= MaxPage + 1
    BY <2>1, SizesAreRight
  <2>. QED  BY <1>2, <2>1, <2>2, PlacedTables DEF StartProgram, TypeInv, FreeFrames
<1>3. CASE AddPages(t)
  <2>1. job[t].pid \in Pid
    BY <1>3, RequestOfPid DEF AddPages, At
  <2>2. /\ Cardinality(PagesOf(job[t].pid)) \in Nat
        /\ Cardinality(PagesOf(job[t].pid)) + StackSize <= MaxPage + 1
    BY <1>3, <2>1, SizesAreRight DEF StackFits, AddPages, At
  <2>. QED  BY <1>3, <2>1, <2>2, SizesAreRight, PlacedTables DEF AddPages, TypeInv, FreeFrames
<1>4. CASE AddPage(t)
  <2>1. job[t].pid \in Pid /\ job[t].page \in Page
    BY <1>4, RequestOfPid DEF TypeInv, RequestsFit, RequestFits, UnderMemMutex, AddPage, At
  <2>2. job[t].page \in Nat /\ job[t].page + 1 <= MaxPage + 1
    BY <2>1, SizesAreRight DEF Page
  <2>. QED  BY <1>4, <2>1, <2>2, PlacedTables DEF AddPage, TypeInv, FreeFrames
<1>5. CASE FinishProgram(t)
  <2>1. /\ job'[t].at = "uncache" /\ Carries(t) /\ job'[t].page = job[t].page
        /\ job[t].op = "finish"
    BY <1>5, GoFields DEF FinishProgram, At, Carries, TypeInv, RequestsFit, RequestFits
  <2>2. \/ table'[f] = table[f]
        \/ table[f].pid = job[t].pid /\ table'[f].pid = None
    BY <1>5 DEF FinishProgram, Cleared, PagesOf, TypeInv, TypeOK
  <2>. QED  BY <2>1, <2>2 DEF ClearsFrame
<1>6. CASE FreePage(t)
  <2>1. CASE UNCHANGED table
    BY <2>1
  <2>2. CASE Go(t, "uncache") /\ \E g \in Holding(job[t].pid, job[t].page) : Cleared({g})
    <3>1. job'[t].at = "uncache" /\ Carries(t) /\ job'[t].page = job[t].page
      BY <2>2, GoFields DEF Carries, TypeInv
    <3>2. \/ table'[f] = table[f]
          \/ /\ table[f].pid = job[t].pid /\ table[f].page = job[t].page
             /\ table'[f].pid = None
      BY <2>2 DEF Cleared, Holding, TypeInv, TypeOK
    <3>. QED  BY <3>1, <3>2 DEF ClearsFrame
  <2>. QED  BY <1>6, <2>1, <2>2 DEF FreePage, tableVars
<1>7. CASE HasAvailableFrames(t) \/ LockMemory(t) \/ Uncache(t) \/ GetFrame(t) \/ ExistsInCache(t)
           \/ GetFromCache(t) \/ FindInTable(t) \/ AccessNothing(t) \/ NameEntry(t) \/ IncreaseCacheLru(t)
  BY <1>1, <1>7 DEF HasAvailableFrames, LockMemory, Uncache, GetFrame, ExistsInCache, GetFromCache,
     FindInTable, AccessNothing, NameEntry, IncreaseCacheLru, tableVars
<1>8. CASE GetPageFromPointer(t) \/ Access(t) \/ StoreInCache(t) \/ Answer(t)
  BY <1>1, <1>8, PointerFields, AccessFields, StoreInCacheFields, AnswerFields DEF TypeInv, tableVars
<1>. QED  BY <1>2, <1>3, <1>4, <1>5, <1>6, <1>7, <1>8 DEF Serve

\* The cache changes when entries are dropped, taken and named.
LEMMA CacheSteps ==
    ASSUME TypeInv, NEW t \in Thread, Serve(t)
    PROVE  \/ UNCHANGED cache /\ job[t].at \notin {"name", "uncache"} /\ job'[t].at # "name"
           \/ Uncache(t)
           \/ StoreInCache(t) /\ job'[t].at = "name"
           \/ NameEntry(t)
<1>. USE DEF TypeInv, At, cacheVars
<1>1. CASE LockMemory(t)
  BY <1>1, GoFields DEF LockMemory
<1>2. CASE HasAvailableFrames(t)
  BY <1>2, GoFields, DoneFields DEF HasAvailableFrames
<1>3. CASE StartProgram(t)
  BY <1>3, GoFields DEF StartProgram
<1>4. CASE AddPages(t)
  BY <1>4, GoFields DEF AddPages
<1>5. CASE AddPage(t)
  BY <1>5, DoneFields DEF AddPage
<1>6. CASE FinishProgram(t)
  BY <1>6, GoFields DEF FinishProgram
<1>7. CASE FreePage(t)
  BY <1>7, GoFields DEF FreePage
<1>8. CASE GetFrame(t)
  BY <1>8, GetFrameFields DEF GetFrame
<1>9. CASE GetPageFromPointer(t)
  BY <1>9, PointerFields
<1>10. CASE ExistsInCache(t)
  BY <1>10, GoFields DEF ExistsInCache
<1>11. CASE GetFromCache(t)
  BY <1>11, GetFromCacheFields DEF GetFromCache
<1>12. CASE FindInTable(t)
  BY <1>12, FindInTableFields DEF FindInTable
<1>13. CASE Access(t)
  BY <1>13, AccessFields
<1>14. CASE AccessNothing(t)
  BY <1>14, GoFields DEF AccessNothing
<1>15. CASE StoreInCache(t)
  BY <1>15, StoreInCacheFields
<1>16. CASE IncreaseCacheLru(t)
  BY <1>16, GoFields DEF IncreaseCacheLru
<1>17. CASE Answer(t)
  BY <1>17, AnswerFields, DoneFields, MoreFields, LastFields
<1>. QED  BY <1>1, <1>2, <1>3, <1>4, <1>5, <1>6, <1>7, <1>8, <1>9, <1>10, <1>11, <1>12, <1>13, <1>14, <1>15, <1>16, <1>17 DEF Serve

LEMMA UncacheFields ==
    ASSUME TypeInv, NEW t \in Thread, Uncache(t)
    PROVE  /\ job[t].at = "uncache" /\ t = Kernel /\ Free("cache") /\ job'[t].at = "idle"
           /\ \A u \in Thread \ {t} : job'[u] = job[u]
           /\ \A s \in Dropped(job[t]) : cache'[s].pid = None
           /\ \A s \in Slot \ Dropped(job[t]) : cache'[s] = cache[s]
           /\ UNCHANGED <<tableVars, clientVars>>
<1>1. Dropped(job[t]) \subseteq Slot
  BY DEF Dropped, Entries
<1>2. /\ \A s \in Dropped(job[t]) : cache'[s].pid = None
      /\ \A s \in Slot \ Dropped(job[t]) : cache'[s] = cache[s]
  BY <1>1 DEF Uncache, NoEntry
<1>3. job[t].at = "uncache" /\ Free("cache") /\ Done(t) /\ UNCHANGED <<tableVars, clientVars>>
  BY DEF Uncache, At
<1>. QED  BY <1>2, <1>3, DoneFields DEF TypeInv, RequestsFit, RequestFits, UnderMemMutex

LEMMA NameEntryFields ==
    ASSUME TypeInv, NEW t \in Thread, NameEntry(t)
    PROVE  /\ job[t].at = "name" /\ job'[t].at = "age"
           /\ job[t].slot \in Slot
           /\ job'[t].op = job[t].op /\ job'[t].pid = job[t].pid /\ job'[t].page = job[t].page
           /\ job'[t].got = job[t].got
           /\ \A u \in Thread \ {t} : job'[u] = job[u]
           /\ cache'[job[t].slot].pid = table[job[t].frame].pid
           /\ cache'[job[t].slot].page = cache[job[t].slot].page
           /\ cache'[job[t].slot].frame = cache[job[t].slot].frame
           /\ \A s \in Slot \ {job[t].slot} : cache'[s] = cache[s]
           /\ UNCHANGED <<tableVars, clientVars>>
<1>. DEFINE s == job[t].slot
            p == table[job[t].frame].pid
<1>1. /\ job[t].at = "name" /\ s \in Slot /\ Go(t, "age")
      /\ cache' = [cache EXCEPT ![s].pid = p] /\ UNCHANGED <<tableVars, clientVars>>
  BY DEF NameEntry, At, TypeInv, RequestsFit, RequestFits
<1>2. /\ cache[s] \in [pid : Pid \cup {None}, page : Page, frame : Frame]
      /\ cache'[s] = [cache[s] EXCEPT !.pid = p]
      /\ \A r \in Slot \ {s} : cache'[r] = cache[r]
  BY <1>1 DEF TypeInv, TypeOK
<1>. HIDE DEF s, p
<1>3. cache'[s].pid = p /\ cache'[s].page = cache[s].page /\ cache'[s].frame = cache[s].frame
  BY <1>2
<1>. QED  BY <1>1, <1>2, <1>3, GoFields DEF s, p, TypeInv
-----------------------------------------------------------------------------
(* The cache and the table. *)

\* An entry whose page is written and whose program is not yet; one that is about to go.
Torn(s) == \E t \in Thread : job[t].at = "name" /\ job[t].slot = s
Leaving(s) == \E t \in Thread : job[t].at = "uncache" /\ s \in Dropped(job[t])
Matches(s) == table[cache[s].frame] = [pid |-> cache[s].pid, page |-> cache[s].page]

EntriesMatch == \A s \in Slot : cache[s].pid # None => Matches(s) \/ Torn(s) \/ Leaving(s)

EntriesDiffer ==
    \A r, s \in Slot : r # s /\ cache[r].pid # None /\ ~Torn(r) /\ ~Torn(s) =>
        ~(cache[r].pid = cache[s].pid /\ cache[r].page = cache[s].page)

\* What a request has found holds until it enters the page: the frame has the page, and no
\* entry has it but one that another request is writing over.
Found(t) ==
    LET j == job[t]
    IN  /\ j.at \in {"enter", "name"} \/ (j.at = "access" /\ j.slot = None /\ j.frame # None) =>
               table[j.frame] = [pid |-> j.pid, page |-> j.page]
        /\ j.at \in {"table", "enter"} \/ (j.at = "access" /\ j.slot = None) =>
               \A s \in CachedAt(j) : Torn(s)
        /\ j.at = "name" =>
               /\ cache[j.slot].frame = j.frame /\ cache[j.slot].page = j.page
               /\ CachedAt(j) \subseteq {j.slot}
               /\ BelowShare(j.pid)

AllFound == \A t \in Thread : Found(t)

LEMMA FramesTyped ==
    ASSUME TypeOK, NEW s \in Slot
    PROVE  cache[s].frame \in Frame
BY DEF TypeOK

LEMMA NobodyNames ==
    ASSUME Exclusive, Free("cache"), NEW u \in Thread
    PROVE  job[u].at # "name"
BY ThreadNames DEF Exclusive, Free

LEMMA OneNames ==
    ASSUME Exclusive, NEW t \in Thread, NEW u \in Thread, job[t].at = "name", job[u].at = "name"
    PROVE  t = u
BY DEF Exclusive

LEMMA EntriesMatchKept ==
    ASSUME TypeInv, StackFits, Exclusive, OneRequest, AllFound, EntriesMatch, NEW t \in Thread, Serve(t)
    PROVE  EntriesMatch'
<1>. SUFFICES ASSUME NEW s \in Slot, cache'[s].pid # None
              PROVE  Matches(s)' \/ Torn(s)' \/ Leaving(s)'
  BY DEF EntriesMatch
<1>0. \A u \in Thread \ {t} : job'[u] = job[u]
  BY RequestGoesOn
<1>1. CASE UNCHANGED cache /\ job[t].at \notin {"name", "uncache"} /\ job'[t].at # "name"
  <2>1. CASE Torn(s)
    BY <1>0, <1>1, <2>1 DEF Torn
  <2>2. CASE Leaving(s)
    BY <1>0, <1>1, <2>2 DEF Leaving, Dropped, Entries
  <2>3. CASE Matches(s)
    <3>. DEFINE f == cache[s].frame
    <3>1. /\ f \in Frame /\ table[f].pid = cache[s].pid /\ table[f].page = cache[s].page
          /\ cache[s].pid # None
      BY <1>1, <2>3, FramesTyped DEF Matches, TypeInv
    <3>2. \/ table'[f] = table[f]
          \/ ClearsFrame(t, f)
      BY <3>1, TableSteps
    <3>3. CASE table'[f] = table[f]
      BY <1>1, <2>3, <3>3 DEF Matches
    <3>4. CASE ClearsFrame(t, f)
      BY <1>1, <3>1, <3>4 DEF ClearsFrame, Carries, Leaving, Dropped, Entries
    <3>. QED  BY <3>2, <3>3, <3>4
  <2>. QED  BY <1>1, <2>1, <2>2, <2>3 DEF EntriesMatch
<1>2. CASE Uncache(t)
  <2>1. /\ job[t].at = "uncache" /\ t = Kernel /\ Free("cache")
        /\ s \notin Dropped(job[t]) /\ cache'[s] = cache[s] /\ UNCHANGED table
    BY <1>2, UncacheFields DEF tableVars
  <2>2. ~Torn(s)
    BY <2>1, NobodyNames DEF Torn
  <2>3. ~Leaving(s)
    BY <2>1 DEF Leaving, TypeInv, RequestsFit, RequestFits, UnderMemMutex
  <2>. QED  BY <2>1, <2>2, <2>3 DEF EntriesMatch, Matches
<1>3. CASE StoreInCache(t) /\ job'[t].at = "name"
  <2>1. /\ job[t].at = "enter" /\ Free("cache") /\ UNCHANGED table
        /\ job'[t].slot \in Slot
        /\ s # job'[t].slot => cache'[s] = cache[s]
    BY <1>3, StoreInCacheFields DEF TypeInv, tableVars
  <2>2. CASE s = job'[t].slot
    BY <1>3, <2>2 DEF Torn
  <2>3. CASE s # job'[t].slot
    <3>1. ~Torn(s)
      BY <2>1, NobodyNames DEF Torn
    <3>2. CASE Leaving(s)
      BY <1>0, <2>1, <2>3, <3>2 DEF Leaving, Dropped, Entries
    <3>3. CASE Matches(s)
      BY <2>1, <2>3, <3>3 DEF Matches
    <3>. QED  BY <2>1, <2>3, <3>1, <3>2, <3>3 DEF EntriesMatch
  <2>. QED  BY <2>2, <2>3
<1>4. CASE NameEntry(t)
  <2>. DEFINE n == job[t].slot
  <2>1. /\ job[t].at = "name" /\ n \in Slot /\ UNCHANGED table
        /\ cache'[n].pid = table[job[t].frame].pid
        /\ cache'[n].page = cache[n].page /\ cache'[n].frame = cache[n].frame
        /\ s # n => cache'[s] = cache[s]
    BY <1>4, NameEntryFields DEF tableVars
  <2>2. CASE s = n
    <3>1. /\ table[job[t].frame] = [pid |-> job[t].pid, page |-> job[t].page]
          /\ cache[n].frame = job[t].frame /\ cache[n].page = job[t].page
      BY <2>1 DEF AllFound, Found
    <3>. QED  BY <2>1, <2>2, <3>1 DEF Matches
  <2>3. CASE s # n
    <3>1. ~Torn(s)
      BY <2>1, <2>3, OneNames DEF Torn
    <3>2. CASE Leaving(s)
      BY <1>0, <2>1, <2>3, <3>2 DEF Leaving, Dropped, Entries
    <3>3. CASE Matches(s)
      BY <2>1, <2>3, <3>3 DEF Matches
    <3>. QED  BY <2>1, <2>3, <3>1, <3>2, <3>3 DEF EntriesMatch
  <2>. QED  BY <2>2, <2>3
<1>. QED  BY <1>1, <1>2, <1>3, <1>4, CacheSteps

LEMMA EntriesDifferKept ==
    ASSUME TypeInv, Exclusive, AllFound, EntriesDiffer, NEW t \in Thread, Serve(t)
    PROVE  EntriesDiffer'
<1>. SUFFICES ASSUME NEW r \in Slot, NEW s \in Slot, r # s, cache'[r].pid # None, ~Torn(r)', ~Torn(s)',
                     cache'[r].pid = cache'[s].pid, cache'[r].page = cache'[s].page
              PROVE  FALSE
  BY DEF EntriesDiffer
<1>0. \A u \in Thread \ {t} : job'[u] = job[u]
  BY RequestGoesOn
<1>1. CASE UNCHANGED cache /\ job[t].at \notin {"name", "uncache"} /\ job'[t].at # "name"
  <2>1. ~Torn(r) /\ ~Torn(s)
    BY <1>0, <1>1 DEF Torn
  <2>. QED  BY <1>1, <2>1 DEF EntriesDiffer
<1>2. CASE Uncache(t)
  <2>1. Free("cache") /\ cache'[r] = cache[r] /\ cache'[s] = cache[s]
    BY <1>2, UncacheFields
  <2>2. ~Torn(r) /\ ~Torn(s)
    BY <2>1, NobodyNames DEF Torn
  <2>. QED  BY <2>1, <2>2 DEF EntriesDiffer
<1>3. CASE StoreInCache(t) /\ job'[t].at = "name"
  <2>1. r # job'[t].slot /\ s # job'[t].slot
    BY <1>3 DEF Torn
  <2>2. Free("cache") /\ cache'[r] = cache[r] /\ cache'[s] = cache[s]
    BY <1>3, <2>1, StoreInCacheFields DEF TypeInv
  <2>3. ~Torn(r) /\ ~Torn(s)
    BY <2>2, NobodyNames DEF Torn
  <2>. QED  BY <2>2, <2>3 DEF EntriesDiffer
<1>4. CASE NameEntry(t)
  <2>. DEFINE n == job[t].slot
  <2>1. /\ job[t].at = "name" /\ n \in Slot
        /\ cache'[n].pid = table[job[t].frame].pid
        /\ cache'[n].page = cache[n].page
        /\ \A q \in Slot \ {n} : cache'[q] = cache[q]
    BY <1>4, NameEntryFields
  <2>2. /\ table[job[t].frame] = [pid |-> job[t].pid, page |-> job[t].page]
        /\ cache[n].page = job[t].page
        /\ CachedAt(job[t]) \subseteq {n}
    BY <2>1 DEF AllFound, Found
  <2>3. \A q \in Slot \ {n} : ~(cache[q].pid = job[t].pid /\ cache[q].page = job[t].page)
    BY <2>2 DEF CachedAt, Entries
  <2>4. r # n /\ s # n
    BY <2>1, <2>2, <2>3
  <2>5. ~Torn(r) /\ ~Torn(s)
    BY <2>1, <2>4, OneNames DEF Torn
  <2>. QED  BY <2>1, <2>4, <2>5 DEF EntriesDiffer
<1>. QED  BY <1>1, <1>2, <1>3, <1>4, CacheSteps

\* What the others have found holds whatever t does.
LEMMA FoundKeptByOthers ==
    ASSUME TypeInv, StackFits, Exclusive, OneRequest, AllFound, NEW t \in Thread, Serve(t),
           NEW u \in Thread \ {t}
    PROVE  Found(u)'
<1>. DEFINE j == job[u]
<1>0. job'[u] = j /\ \A v \in Thread \ {t} : job'[v] = job[v]
  BY RequestGoesOn
<1>1. j.pid # None => j.pid # job[t].pid
  BY DEF OneRequest
<1>2. j.at # "idle" => j.pid \in Pid /\ j.pid # None
  BY RequestOfPid, NamesAreDistinct
<1>3. ASSUME j.at \in {"enter", "name"} \/ (j.at = "access" /\ j.slot = None /\ j.frame # None)
      PROVE  table'[j.frame] = [pid |-> j.pid, page |-> j.page]
  <2>1. table[j.frame] = [pid |-> j.pid, page |-> j.page]
    BY <1>3 DEF AllFound, Found
  <2>2. j.frame \in Frame
    BY <1>3 DEF TypeInv, TypeOK, Jobs, RequestsFit, RequestFits
  <2>3. table[j.frame].pid # None /\ table[j.frame].pid # job[t].pid
    BY <1>1, <1>2, <1>3, <2>1
  <2>. QED  BY <2>1, <2>2, <2>3, TableSteps DEF ClearsFrame
<1>4. ASSUME j.at \in {"table", "enter"} \/ (j.at = "access" /\ j.slot = None),
             NEW s \in Slot, cache'[s].pid = j.pid, cache'[s].page = j.page
      PROVE  Torn(s)'
  <2>0. \A r \in Slot : cache[r].pid = j.pid /\ cache[r].page = j.page => Torn(r)
    BY <1>4 DEF AllFound, Found, CachedAt, Entries
  <2>1. CASE UNCHANGED cache /\ job[t].at \notin {"name", "uncache"} /\ job'[t].at # "name"
    BY <1>0, <1>4, <2>0, <2>1 DEF Torn
  <2>2. CASE Uncache(t)
    <3>1. Free("cache") /\ cache'[s] = cache[s]
      BY <1>2, <1>4, <2>2, UncacheFields
    <3>. QED  BY <1>4, <2>0, <3>1, NobodyNames DEF Torn
  <2>3. CASE StoreInCache(t) /\ job'[t].at = "name"
    <3>1. Free("cache") /\ (s # job'[t].slot => cache'[s] = cache[s])
      BY <2>3, StoreInCacheFields DEF TypeInv
    <3>2. ~Torn(s)
      BY <3>1, NobodyNames DEF Torn
    <3>. QED  BY <1>4, <2>0, <2>3, <3>1, <3>2 DEF Torn
  <2>4. CASE NameEntry(t)
    <3>. DEFINE n == job[t].slot
    <3>1. /\ job[t].at = "name" /\ cache'[n].pid = table[job[t].frame].pid
          /\ s # n => cache'[s] = cache[s]
      BY <2>4, NameEntryFields
    <3>2. table[job[t].frame] = [pid |-> job[t].pid, page |-> job[t].page]
      BY <3>1 DEF AllFound, Found
    <3>3. s # n
      BY <1>1, <1>2, <1>4, <3>1, <3>2
    <3>4. ~Torn(s)
      BY <3>1, <3>3, OneNames DEF Torn
    <3>. QED  BY <1>4, <2>0, <3>1, <3>3, <3>4
  <2>. QED  BY <2>1, <2>2, <2>3, <2>4, CacheSteps
<1>5. CASE j.at = "name"
  <2>1. job[t].at # "name" /\ ~Free("cache")
    BY <1>5, OneNames, NobodyNames
  <2>2. UNCHANGED cache
    BY <2>1, CacheSteps, UncacheFields, StoreInCacheFields, NameEntryFields DEF TypeInv
  <2>3. /\ cache[j.slot].frame = j.frame /\ cache[j.slot].page = j.page
        /\ CachedAt(j) \subseteq {j.slot}
        /\ BelowShare(j.pid)
    BY <1>5 DEF AllFound, Found
  <2>. QED  BY <1>0, <1>3, <1>5, <2>2, <2>3 DEF Found, CachedAt, Entries, BelowShare
<1>6. CASE j.at # "name"
  BY <1>0, <1>3, <1>4, <1>6 DEF Found, CachedAt, Entries
<1>. QED  BY <1>5, <1>6

\* The steps that lead to a point where something has been found.
LEMMA StepsThatFind ==
    ASSUME TypeInv, NEW t \in Thread, Serve(t)
    PROVE  \/ job'[t].at \notin {"table", "access", "enter", "name"}
           \/ ExistsInCache(t) \/ GetFromCache(t) \/ FindInTable(t) \/ Access(t) \/ StoreInCache(t)
<1>. USE DEF TypeInv, At
<1>1. CASE LockMemory(t)
  BY <1>1, GoFields DEF LockMemory
<1>2. CASE HasAvailableFrames(t)
  BY <1>2, GoFields, DoneFields DEF HasAvailableFrames
<1>3. CASE StartProgram(t)
  BY <1>3, GoFields DEF StartProgram
<1>4. CASE AddPages(t)
  BY <1>4, GoFields DEF AddPages
<1>5. CASE AddPage(t)
  BY <1>5, DoneFields DEF AddPage
<1>6. CASE FinishProgram(t)
  BY <1>6, GoFields DEF FinishProgram
<1>7. CASE FreePage(t)
  BY <1>7, GoFields DEF FreePage
<1>8. CASE Uncache(t)
  BY <1>8, UncacheFields
<1>9. CASE GetFrame(t)
  BY <1>9, GetFrameFields
<1>10. CASE GetPageFromPointer(t)
  BY <1>10, PointerFields
<1>11. CASE AccessNothing(t)
  BY <1>11, GoFields DEF AccessNothing
<1>12. CASE NameEntry(t)
  BY <1>12, NameEntryFields
<1>13. CASE IncreaseCacheLru(t)
  BY <1>13, GoFields DEF IncreaseCacheLru
<1>14. CASE Answer(t)
  BY <1>14, DoneFields, MoreFields, LastFields
<1>. QED  BY <1>1, <1>2, <1>3, <1>4, <1>5, <1>6, <1>7, <1>8, <1>9, <1>10, <1>11, <1>12, <1>13, <1>14 DEF Serve

\* What t itself finds.
LEMMA FoundKeptOwn ==
    ASSUME TypeInv, Exclusive, AllFound, NEW t \in Thread, Serve(t)
    PROVE  Found(t)'
<1>. DEFINE j == job[t]
            jn == job'[t]
<1>0. \A u \in Thread \ {t} : job'[u] = job[u]
  BY RequestGoesOn
<1>1. CASE jn.at \notin {"table", "access", "enter", "name"}
  BY <1>1 DEF Found
<1>2. CASE ExistsInCache(t) /\ jn.at = "table"
  <2>1. Go(t, "table") /\ CachedAt(j) = {} /\ UNCHANGED cache
    <3>1. jn.at = IF CachedAt(j) # {} THEN "cached" ELSE "table"
      BY <1>2, GoFields DEF ExistsInCache, TypeInv
    <3>. QED  BY <1>2, <3>1 DEF ExistsInCache, cacheVars
  <2>2. jn.pid = j.pid /\ jn.page = j.page
    BY <2>1, GoFields DEF TypeInv
  <2>3. CachedAt(job[t])' = {}
    BY <2>1, <2>2 DEF CachedAt, Entries
  <2>. QED  BY <1>2, <2>3 DEF Found
<1>3. CASE GetFromCache(t)
  <2>1. j.at = "cached" /\ (UNCHANGED job \/ (jn.at = "access" /\ jn.slot \in Slot))
    BY <1>3, GetFromCacheFields DEF TypeInv, GetFromCache, At
  <2>2. jn.at = "cached" \/ (jn.at = "access" /\ jn.slot # None)
    BY <2>1, NamesAreDistinct
  <2>. QED  BY <2>2 DEF Found
<1>4. ASSUME UNCHANGED <<table, cache>>, jn.pid = j.pid, jn.page = j.page, jn.slot = None,
             jn.at \in {"access", "enter"},
             \A s \in CachedAt(j) : Torn(s), j.at # "name",
             jn.frame # None => table[jn.frame] = [pid |-> j.pid, page |-> j.page],
             jn.at = "enter" => jn.frame # None
      PROVE  Found(t)'
  <2>1. \A s \in CachedAt(j) : Torn(s)'
    BY <1>0, <1>4 DEF Torn
  <2>2. CachedAt(job[t])' = CachedAt(j)
    BY <1>4 DEF CachedAt, Entries
  <2>. QED  BY <1>4, <2>1, <2>2 DEF Found
<1>5. CASE FindInTable(t)
  <2>1. /\ j.at = "table" /\ j.slot = None /\ UNCHANGED <<table, cache>>
        /\ \A s \in CachedAt(j) : Torn(s)
    BY <1>5 DEF FindInTable, At, tableVars, cacheVars, TypeInv, RequestsFit, RequestFits, AllFound, Found
  <2>2. /\ jn.at = "access" /\ jn.pid = j.pid /\ jn.page = j.page /\ jn.slot = j.slot
        /\ jn.frame # None => jn.frame \in Holding(j.pid, j.page)
    BY <1>5, FindInTableFields DEF TypeInv
  <2>3. jn.frame # None => table[jn.frame] = [pid |-> j.pid, page |-> j.page]
    BY <2>2 DEF Holding
  <2>. QED  BY <2>1, <2>2, <2>3, <1>4
<1>6. CASE Access(t) /\ jn.at = "enter"
  <2>1. /\ j.at = "access" /\ j.slot = None /\ FrameOf(j) # None /\ UNCHANGED <<table, cache>>
        /\ jn.pid = j.pid /\ jn.page = j.page /\ jn.slot = j.slot /\ jn.frame = j.frame
    BY <1>6, AccessFields DEF TypeInv, cacheVars
  <2>2. j.frame # None
    BY <2>1 DEF FrameOf
  <2>3. /\ \A s \in CachedAt(j) : Torn(s)
        /\ table[j.frame] = [pid |-> j.pid, page |-> j.page]
    BY <2>1, <2>2 DEF AllFound, Found
  <2>. QED  BY <1>6, <2>1, <2>2, <2>3, <1>4
<1>7. CASE StoreInCache(t) /\ jn.at = "name"
  <2>1. /\ j.at = "enter" /\ Free("cache") /\ UNCHANGED table
        /\ jn.pid = j.pid /\ jn.page = j.page /\ jn.frame = j.frame
        /\ jn.slot \in Slot /\ BelowShare(table[j.frame].pid)
        /\ cache'[jn.slot].frame = j.frame
        /\ cache'[jn.slot].page = table[j.frame].page
        /\ \A r \in Slot : cache'[r].pid = cache[r].pid
        /\ \A r \in Slot \ {jn.slot} : cache'[r] = cache[r]
    BY <1>7, StoreInCacheFields DEF TypeInv, tableVars
  <2>2. table[j.frame] = [pid |-> j.pid, page |-> j.page] /\ \A s \in CachedAt(j) : Torn(s)
    BY <2>1 DEF AllFound, Found
  <2>3. table[j.frame].pid = j.pid /\ table[j.frame].page = j.page
    BY <2>2
  <2>4. CachedAt(j) = {}
    BY <2>1, <2>2, NobodyNames DEF Torn
  <2>5. \A s \in Slot \ {jn.slot} : ~(cache'[s].pid = jn.pid /\ cache'[s].page = jn.page)
    BY <2>1, <2>4 DEF CachedAt, Entries
  <2>6. CachedAt(job[t])' \subseteq {jn.slot}
    BY <2>5 DEF CachedAt, Entries
  <2>7. Entries(job[t].pid)' = Entries(j.pid)
    BY <2>1 DEF Entries
  <2>8. BelowShare(job[t].pid)'
    BY <2>1, <2>3, <2>7 DEF BelowShare
  <2>. QED  BY <1>7, <2>1, <2>2, <2>3, <2>6, <2>8 DEF Found
<1>8. CASE ExistsInCache(t) /\ jn.at # "table"
  <2>1. jn.at = "cached"
    BY <1>8, GoFields DEF ExistsInCache, TypeInv
  <2>. QED  BY <2>1 DEF Found
<1>9. CASE (Access(t) /\ jn.at # "enter") \/ (StoreInCache(t) /\ jn.at # "name")
  <2>1. jn.at \in {"answer", "age"}
    BY <1>9, AccessFields, StoreInCacheFields DEF TypeInv
  <2>. QED  BY <2>1, <1>1
<1>. QED  BY <1>1, <1>2, <1>3, <1>5, <1>6, <1>7, <1>8, <1>9, StepsThatFind

LEMMA AllFoundKept ==
    ASSUME TypeInv, StackFits, Exclusive, OneRequest, AllFound, NEW t \in Thread, Serve(t)
    PROVE  AllFound'
BY FoundKeptByOthers, FoundKeptOwn DEF AllFound

\* The requests of the clients find nothing, and the flush leaves no entry.
LEMMA CoherenceKeptByClients ==
    ASSUME TypeInv, Exclusive, EntriesMatch, EntriesDiffer, AllFound, Clients \/ Flush
    PROVE  EntriesMatch' /\ EntriesDiffer' /\ AllFound'
<1>1. CASE Clients
  <2>1. PICK t \in Thread, p \in Pid, n \in Page \cup {NoPage} : Asked(t, p, n)
    BY <1>1, ClientsAsk DEF TypeInv
  <2>2. /\ job'[t].at \in {"lock", "search", "frame", "pointer"} /\ UNCHANGED <<table, cache>>
        /\ \A u \in Thread \ {t} : job'[u] = job[u]
        /\ job[t].at = "idle"
    <3>1. PICK op \in {"start", "finish", "addPage", "freePage", "read", "store"},
              point \in {"lock", "search", "frame", "pointer"} : Ask(t, op, p, n, point)
      BY <2>1 DEF Asked
    <3>2. job[t].at = "idle"
      BY <3>1 DEF Ask, At
    <3>. QED  BY <3>1, <3>2, AskFields DEF TypeInv, tableVars, cacheVars
  <2>3. \A s \in Slot : (Torn(s)' <=> Torn(s)) /\ (Leaving(s) => Leaving(s)') /\ (Matches(s)' <=> Matches(s))
    <3>0. \A u \in Thread : job'[u].at = "name" \/ job[u].at \in {"name", "uncache"} => job'[u] = job[u]
      BY <2>2
    <3>1. ASSUME NEW s \in Slot PROVE Torn(s)' <=> Torn(s)
      BY <3>0 DEF Torn
    <3>2. ASSUME NEW s \in Slot, Leaving(s) PROVE Leaving(s)'
      <4>1. PICK u \in Thread : job[u].at = "uncache" /\ s \in Dropped(job[u])
        BY <3>2 DEF Leaving
      <4>2. job'[u] = job[u] /\ Dropped(job[u])' = Dropped(job[u])
        BY <2>2, <3>0, <4>1 DEF Dropped, Entries
      <4>. QED  BY <4>1, <4>2 DEF Leaving
    <3>3. ASSUME NEW s \in Slot PROVE Matches(s)' <=> Matches(s)
      BY <2>2 DEF Matches
    <3>. QED  BY <3>1, <3>2, <3>3
  <2>4. EntriesMatch'
    BY <2>2, <2>3 DEF EntriesMatch
  <2>5. EntriesDiffer'
    BY <2>2, <2>3 DEF EntriesDiffer
  <2>6. Found(t)'
    BY <2>2 DEF Found
  <2>7. ASSUME NEW u \in Thread \ {t}
        PROVE  Found(u)'
    <3>1. job'[u] = job[u] /\ CachedAt(job[u])' = CachedAt(job[u])
      BY <2>2 DEF CachedAt, Entries
    <3>2. CachedAt(job[u]) \subseteq Slot
      BY DEF CachedAt, Entries
    <3>3. BelowShare(job[u].pid)' <=> BelowShare(job[u].pid)
      BY <2>2 DEF BelowShare, Entries
    <3>. QED  BY <2>2, <2>3, <3>1, <3>2, <3>3 DEF AllFound, Found
  <2>. QED  BY <2>4, <2>5, <2>6, <2>7 DEF AllFound
<1>2. CASE Flush
  <2>1. /\ UNCHANGED <<table, job>> /\ Free("cache")
        /\ \A s \in Slot : cache'[s].pid = None
    BY <1>2 DEF Flush, tableVars, TypeInv, TypeOK
  <2>2. EntriesMatch' /\ EntriesDiffer'
    BY <2>1 DEF EntriesMatch, EntriesDiffer
  <2>3. ASSUME NEW u \in Thread
        PROVE  Found(u)'
    <3>1. job'[u] = job[u] /\ job[u].at # "name"
      BY <2>1, NobodyNames
    <3>2. job[u].at # "idle" => CachedAt(job[u])' = {}
      BY <2>1, <3>1, RequestOfPid, NamesAreDistinct DEF CachedAt, Entries
    <3>3. CASE job[u].at = "idle"
      BY <3>1, <3>3 DEF Found
    <3>4. CASE job[u].at # "idle"
      BY <2>1, <3>1, <3>2, <3>4 DEF AllFound, Found
    <3>. QED  BY <3>3, <3>4
  <2>. QED  BY <2>2, <2>3 DEF AllFound
<1>. QED  BY <1>1, <1>2

\* Outside the moments in which a mutex is held, coherence is what the two say.
LEMMA EntriesCohere ==
    ASSUME TypeInv, Exclusive, EntriesMatch, EntriesDiffer
    PROVE  CacheIsCoherent
<1>. SUFFICES ASSUME Free("cache"), \A t \in Thread : job[t].at # "uncache",
                     NEW s \in Slot, cache[s].pid # None
              PROVE  /\ table[cache[s].frame] = [pid |-> cache[s].pid, page |-> cache[s].page]
                     /\ \A r \in Slot \ {s} : cache[r] # cache[s]
  BY DEF CacheIsCoherent
<1>1. \A r \in Slot : ~Torn(r) /\ ~Leaving(r)
  BY NobodyNames DEF Torn, Leaving
<1>. QED  BY <1>1 DEF EntriesMatch, EntriesDiffer, Matches
-----------------------------------------------------------------------------
(* The share of a program in the cache. *)

LEMMA SmallerSet ==
    ASSUME NEW S \in SUBSET Slot, NEW R \in SUBSET S
    PROVE  /\ IsFiniteSet(S) /\ Cardinality(S) \in Nat /\ Cardinality(R) \in Nat
           /\ Cardinality(R) <= Cardinality(S)
<1>1. IsFiniteSet(Slot)
  BY SizesAreRight
<1>2. IsFiniteSet(S)
  BY <1>1, FS_Subset
<1>3. IsFiniteSet(R) /\ Cardinality(R) <= Cardinality(S)
  BY <1>2, FS_Subset
<1>. QED  BY <1>2, <1>3, FS_CardinalityType

\* The entries of a program grow only when one is named, by the request of that program.
LEMMA EntriesGrow ==
    ASSUME TypeInv, AllFound, NEW t \in Thread, Serve(t), NEW p \in Pid
    PROVE  \/ Entries(p)' \subseteq Entries(p)
           \/ /\ job[t].pid = p /\ job[t].at = "name" /\ job'[t].at = "age" /\ BelowShare(p)
              /\ Entries(p)' \subseteq Entries(p) \cup {job[t].slot}
<1>1. CASE UNCHANGED cache
  BY <1>1 DEF Entries
<1>2. CASE Uncache(t)
  <2>1. \A s \in Slot : cache'[s].pid = None \/ cache'[s] = cache[s]
    BY <1>2, UncacheFields
  <2>. QED  BY <2>1, NamesAreDistinct DEF Entries
<1>3. CASE StoreInCache(t) /\ job'[t].at = "name"
  <2>1. \A s \in Slot : cache'[s].pid = cache[s].pid
    BY <1>3, StoreInCacheFields DEF TypeInv
  <2>. QED  BY <2>1 DEF Entries
<1>4. CASE NameEntry(t)
  <2>. DEFINE n == job[t].slot
  <2>1. /\ job[t].at = "name" /\ job'[t].at = "age"
        /\ cache'[n].pid = table[job[t].frame].pid
        /\ \A s \in Slot \ {n} : cache'[s] = cache[s]
    BY <1>4, NameEntryFields
  <2>2. table[job[t].frame] = [pid |-> job[t].pid, page |-> job[t].page] /\ BelowShare(job[t].pid)
    BY <2>1 DEF AllFound, Found
  <2>3. CASE p = job[t].pid
    BY <2>1, <2>2, <2>3 DEF Entries
  <2>4. CASE p # job[t].pid
    BY <2>1, <2>2, <2>4 DEF Entries
  <2>. QED  BY <2>3, <2>4
<1>. QED  BY <1>1, <1>2, <1>3, <1>4, CacheSteps

LEMMA ShareKept ==
    ASSUME TypeInv, AllFound, CacheShareIsBounded, NEW t \in Thread, Serve(t)
    PROVE  CacheShareIsBounded'
<1>. SUFFICES ASSUME NEW p \in Pid
              PROVE  Cardinality(Entries(p)') <= CacheXProc
  BY DEF CacheShareIsBounded
<1>0. /\ Entries(p) \subseteq Slot /\ Entries(p)' \subseteq Slot
      /\ IsFiniteSet(Entries(p)) /\ Cardinality(Entries(p)) \in Nat
      /\ Cardinality(Entries(p)') \in Nat
      /\ Cardinality(Entries(p)) <= CacheXProc
  <2>1. Entries(p) \subseteq Slot /\ Entries(p)' \subseteq Slot
    BY DEF Entries
  <2>. QED  BY <2>1, SmallerSet DEF CacheShareIsBounded
<1>1. CASE Entries(p)' \subseteq Entries(p)
  <2>1. Cardinality(Entries(p)') <= Cardinality(Entries(p))
    BY <1>0, <1>1, SmallerSet
  <2>. QED  BY <1>0, <2>1, SizesAreRight
<1>2. CASE BelowShare(p) /\ Entries(p)' \subseteq Entries(p) \cup {job[t].slot}
  <2>. DEFINE S == Entries(p) \cup {job[t].slot}
  <2>1. IsFiniteSet(S) /\ Cardinality(S) <= Cardinality(Entries(p)) + 1 /\ Cardinality(S) \in Nat
    <3>1. /\ IsFiniteSet(S)
          /\ Cardinality(S) = IF job[t].slot \in Entries(p) THEN Cardinality(Entries(p)) ELSE Cardinality(Entries(p)) + 1
      BY <1>0, FS_AddElement
    <3>. QED  BY <1>0, <3>1
  <2>2. Cardinality(Entries(p)') <= Cardinality(S)
    BY <1>2, <2>1, FS_Subset
  <2>3. Cardinality(Entries(p)) < CacheXProc
    BY <1>2 DEF BelowShare
  <2>. QED  BY <1>0, <2>1, <2>2, <2>3, SizesAreRight
<1>. QED  BY <1>1, <1>2, EntriesGrow

LEMMA ShareKeptByClients ==
    ASSUME TypeInv, CacheShareIsBounded, Clients \/ Flush
    PROVE  CacheShareIsBounded'
<1>. SUFFICES ASSUME NEW p \in Pid
              PROVE  Cardinality(Entries(p)') <= CacheXProc
  BY DEF CacheShareIsBounded
<1>1. CASE Clients
  <2>1. PICK t \in Thread, q \in Pid, n \in Page \cup {NoPage} : Asked(t, q, n)
    BY <1>1, ClientsAsk DEF TypeInv
  <2>2. UNCHANGED cache
    BY <2>1, AskFields DEF TypeInv, Asked, cacheVars
  <2>. QED  BY <2>2 DEF CacheShareIsBounded, Entries
<1>2. CASE Flush
  <2>1. Entries(p)' = {}
    BY <1>2, NamesAreDistinct DEF Flush, TypeInv, TypeOK, Entries
  <2>. QED  BY <2>1, FS_EmptySet, SizesAreRight
<1>. QED  BY <1>1, <1>2
-----------------------------------------------------------------------------
(* What a program that is over leaves. *)

Absent(p) == PagesOf(p) = {} /\ Entries(p) = {}

\* A program is absent until its start takes frames, and a finish empties the table first.
NothingLeft(t) ==
    LET j == job[t]
    IN  /\ j.at = "uncache" => j.op \in {"finish", "freePage"}
        /\ j.op = "finish" => j.at \in {"lock", "finish", "uncache"}
        /\ j.op = "start" /\ j.at \in {"lock", "check", "code"} => Absent(j.pid)
        /\ j.op = "finish" /\ j.at = "uncache" => PagesOf(j.pid) = {}

NothingIsLeft == FinishedLeavesNothing /\ \A t \in Thread : NothingLeft(t)

\* The steps of a request leave the pages of the other programs, or take some away.
LEMMA OthersShrink ==
    ASSUME TypeInv, StackFits, AllFound, NEW t \in Thread, Serve(t), NEW p \in Pid \ {job[t].pid}
    PROVE  /\ PagesOf(p)' \subseteq PagesOf(p) /\ Entries(p)' \subseteq Entries(p)
           /\ Absent(p) => Absent(p)'
<1>1. \A f \in Frame : table'[f].pid = p => table[f].pid = p
  <2>. SUFFICES ASSUME NEW f \in Frame, table'[f].pid = p
                PROVE  table[f].pid = p
    OBVIOUS
  <2>1. CASE table'[f] = table[f]
    BY <2>1
  <2>2. CASE table[f].pid = None /\ table'[f].pid = job[t].pid
    BY <2>2
  <2>3. CASE ClearsFrame(t, f)
    BY <2>3, NamesAreDistinct DEF ClearsFrame
  <2>. QED  BY <2>1, <2>2, <2>3, TableSteps
<1>2. PagesOf(p)' \subseteq PagesOf(p)
  BY <1>1 DEF PagesOf
<1>3. Entries(p)' \subseteq Entries(p)
  BY EntriesGrow
<1>. QED  BY <1>2, <1>3 DEF Absent

\* Every step is of a request under way.
LEMMA ServesARequest ==
    ASSUME TypeInv, NEW t \in Thread, Serve(t)
    PROVE  job[t].at # "idle" /\ job[t].pid \in Pid /\ job[t].pid # None
<1>1. job[t].at # "idle"
  BY PointerFields, AccessFields, StoreInCacheFields, AnswerFields DEF TypeInv, Serve, At, LockMemory,
     HasAvailableFrames, StartProgram, AddPages, AddPage, FinishProgram, FreePage, Uncache, GetFrame,
     ExistsInCache, GetFromCache, FindInTable, AccessNothing, NameEntry, IncreaseCacheLru
<1>. QED  BY <1>1, RequestOfPid, NamesAreDistinct

\* The clients' view changes for the program of the request alone.
LEMMA OthersPages ==
    ASSUME TypeInv, NEW t \in Thread, Serve(t), NEW p \in Pid \ {job[t].pid}
    PROVE  pages'[p] = pages[p]
<1>1. CASE UNCHANGED clientVars
  BY <1>1 DEF clientVars
<1>2. CASE AddPage(t)
  BY <1>2 DEF AddPage, TypeInv, TypeOK
<1>3. CASE Answer(t)
  <2>1. CASE More(t)
    BY <1>3, <2>1, MoreFields DEF TypeInv
  <2>2. CASE ~More(t)
    BY <1>3, <2>2, LastFields DEF TypeInv, TypeOK
  <2>. QED  BY <2>1, <2>2
<1>. QED  BY <1>1, <1>2, <1>3, RequestGoesOn

\* The steps that end a request.
LEMMA StepsThatEnd ==
    ASSUME TypeInv, NEW t \in Thread, Serve(t), job'[t].pid = None
    PROVE  \/ HasAvailableFrames(t) \/ AddPage(t) \/ Uncache(t)
           \/ Answer(t) /\ ~More(t)
<1>0. job[t].pid # None
  BY ServesARequest
<1>. USE <1>0 DEF TypeInv
<1>1. CASE LockMemory(t)
  BY <1>1, GoFields DEF LockMemory
<1>2. CASE StartProgram(t)
  BY <1>2, GoFields DEF StartProgram
<1>3. CASE AddPages(t)
  BY <1>3, GoFields DEF AddPages
<1>4. CASE FinishProgram(t)
  BY <1>4, GoFields DEF FinishProgram
<1>5. CASE FreePage(t)
  BY <1>5, GoFields DEF FreePage
<1>6. CASE GetFrame(t)
  BY <1>6, GetFrameFields
<1>7. CASE GetPageFromPointer(t)
  BY <1>7, PointerFields
<1>8. CASE ExistsInCache(t)
  BY <1>8, GoFields DEF ExistsInCache
<1>9. CASE GetFromCache(t)
  BY <1>9, GetFromCacheFields
<1>10. CASE FindInTable(t)
  BY <1>10, FindInTableFields
<1>11. CASE Access(t)
  BY <1>11, AccessFields
<1>12. CASE AccessNothing(t)
  BY <1>12, GoFields DEF AccessNothing
<1>13. CASE StoreInCache(t)
  BY <1>13, StoreInCacheFields
<1>14. CASE NameEntry(t)
  BY <1>14, NameEntryFields
<1>15. CASE IncreaseCacheLru(t)
  BY <1>15, GoFields DEF IncreaseCacheLru
<1>16. CASE Answer(t) /\ More(t)
  BY <1>16, MoreFields
<1>. QED  BY <1>1, <1>2, <1>3, <1>4, <1>5, <1>6, <1>7, <1>8, <1>9, <1>10, <1>11, <1>12, <1>13, <1>14, <1>15, <1>16 DEF Serve

\* A request ends with pages that the clients know of, or with nothing at all.
LEMMA EndOfRequest ==
    ASSUME TypeInv, OneRequest, NothingIsLeft, NEW t \in Thread, Serve(t), job'[t].pid = None,
           NEW p \in Pid, p = job[t].pid
    PROVE  pages'[p] # {} \/ Absent(p)'
<1>0. p # None
  BY NamesAreDistinct
<1>1. CASE HasAvailableFrames(t)
  <2>1. job[t].at = "check" /\ UNCHANGED <<table, cache, pages>>
    BY <1>1 DEF HasAvailableFrames, At, tableVars, cacheVars, clientVars
  <2>2. job[t].op \in {"start", "addPage"}
    BY <2>1 DEF TypeInv, RequestsFit, RequestFits
  <2>3. CASE job[t].op = "start"
    <3>1. Absent(p)
      BY <2>1, <2>3 DEF NothingIsLeft, NothingLeft
    <3>. QED  BY <2>1, <3>1 DEF Absent, PagesOf, Entries
  <2>4. CASE job[t].op = "addPage"
    BY <1>0, <2>1, <2>4 DEF OneRequest
  <2>. QED  BY <2>2, <2>3, <2>4
<1>2. CASE AddPage(t)
  <2>1. pages'[p] = pages[p] \cup {job[t].page}
    BY <1>0, <1>2 DEF AddPage, TypeInv, TypeOK
  <2>. QED  BY <2>1
<1>3. CASE Uncache(t)
  <2>1. /\ job[t].at = "uncache" /\ UNCHANGED <<table, pages>>
        /\ \A s \in Dropped(job[t]) : cache'[s].pid = None
        /\ \A s \in Slot \ Dropped(job[t]) : cache'[s] = cache[s]
    BY <1>3, UncacheFields DEF tableVars, clientVars
  <2>2. job[t].op \in {"finish", "freePage"}
    BY <2>1 DEF NothingIsLeft, NothingLeft
  <2>3. CASE job[t].op = "finish"
    <3>1. PagesOf(p) = {}
      BY <2>1, <2>3 DEF NothingIsLeft, NothingLeft
    <3>2. Dropped(job[t]) = Entries(p)
      BY <2>3 DEF Dropped, Entries
    <3>3. \A s \in Slot : cache'[s].pid # p
      BY <1>0, <2>1, <3>2 DEF Entries
    <3>. QED  BY <2>1, <3>1, <3>3 DEF Absent, PagesOf, Entries
  <2>4. CASE job[t].op = "freePage"
    BY <1>0, <2>1, <2>4 DEF OneRequest
  <2>. QED  BY <2>2, <2>3, <2>4
<1>4. CASE Answer(t) /\ ~More(t)
  <2>1. job[t].at = "answer"
    BY <1>4, AnswerFields
  <2>2. CASE job[t].op = "start"
    <3>1. pages' = [pages EXCEPT ![p] = 0 .. CodePages[p] + StackSize - 1]
      BY <1>4, <2>2, LastFields
    <3>2. 0 \in 0 .. CodePages[p] + StackSize - 1
      BY <1>0, SizesAreRight
    <3>. QED  BY <1>0, <3>1, <3>2 DEF TypeInv, TypeOK
  <2>3. CASE job[t].op # "start"
    <3>1. job[t].op # "finish"
      BY <2>1 DEF NothingIsLeft, NothingLeft
    <3>2. pages[p] # {} /\ UNCHANGED pages
      BY <1>0, <1>4, <2>3, <3>1, LastFields DEF OneRequest
    <3>. QED  BY <3>2
  <2>. QED  BY <2>2, <2>3
<1>. QED  BY <1>1, <1>2, <1>3, <1>4, StepsThatEnd

\* No program that is over has anything left, after any step of a request.
LEMMA FinishedKept ==
    ASSUME TypeInv, StackFits, AllFound, OneRequest, NothingIsLeft, NEW t \in Thread, Serve(t)
    PROVE  FinishedLeavesNothing'
<1>. SUFFICES ASSUME NEW p \in Pid, pages'[p] = {}, ~Busy(p)'
              PROVE  Absent(p)'
  BY DEF FinishedLeavesNothing, Absent
<1>0. /\ Carries(t) \/ job'[t].pid = None
      /\ \A u \in Thread \ {t} : job'[u] = job[u]
  BY RequestGoesOn
<1>1. CASE p = job[t].pid
  <2>1. job'[t].pid = None
    BY <1>0, <1>1 DEF Carries, Busy
  <2>. QED  BY <1>1, <2>1, EndOfRequest
<1>2. CASE p # job[t].pid
  <2>1. pages[p] = {}
    BY <1>2, OthersPages
  <2>2. ~Busy(p)
    BY <1>0, <1>2 DEF Busy
  <2>3. Absent(p)
    BY <2>1, <2>2 DEF NothingIsLeft, FinishedLeavesNothing, Absent
  <2>. QED  BY <1>2, <2>3, OthersShrink
<1>. QED  BY <1>1, <1>2

\* The steps that lead to a point under mem_mutex.
LEMMA StepsUnderMemMutex ==
    ASSUME TypeInv, NEW t \in Thread, Serve(t)
    PROVE  \/ job'[t].at \notin UnderMemMutex
           \/ LockMemory(t) \/ HasAvailableFrames(t) \/ StartProgram(t) \/ FinishProgram(t) \/ FreePage(t)
<1>. USE DEF TypeInv, UnderMemMutex
<1>1. CASE AddPages(t)
  BY <1>1, GoFields DEF AddPages
<1>2. CASE AddPage(t)
  BY <1>2, DoneFields DEF AddPage
<1>3. CASE Uncache(t)
  BY <1>3, UncacheFields
<1>4. CASE GetFrame(t)
  BY <1>4, GetFrameFields
<1>5. CASE GetPageFromPointer(t)
  BY <1>5, PointerFields
<1>6. CASE ExistsInCache(t)
  BY <1>6, GoFields DEF ExistsInCache
<1>7. CASE GetFromCache(t)
  BY <1>7, GetFromCacheFields DEF GetFromCache, At
<1>8. CASE FindInTable(t)
  BY <1>8, FindInTableFields
<1>9. CASE Access(t)
  BY <1>9, AccessFields
<1>10. CASE AccessNothing(t)
  BY <1>10, GoFields DEF AccessNothing
<1>11. CASE StoreInCache(t)
  BY <1>11, StoreInCacheFields
<1>12. CASE NameEntry(t)
  BY <1>12, NameEntryFields
<1>13. CASE IncreaseCacheLru(t)
  BY <1>13, GoFields DEF IncreaseCacheLru
<1>14. CASE Answer(t)
  BY <1>14, DoneFields, MoreFields, LastFields
<1>. QED  BY <1>1, <1>2, <1>3, <1>4, <1>5, <1>6, <1>7, <1>8, <1>9, <1>10, <1>11, <1>12, <1>13, <1>14 DEF Serve

\* A request that leaves mem_mutex behind is not a finish.
LEMMA FinishStays ==
    ASSUME TypeInv, NothingIsLeft, NEW t \in Thread, Serve(t), job'[t].at \notin UnderMemMutex
    PROVE  job'[t].op # "finish"
<1>1. CASE job[t].op = "finish"
  <2>1. job[t].at \in {"lock", "finish", "uncache"}
    BY <1>1 DEF NothingIsLeft, NothingLeft
  <2>2. LockMemory(t) \/ FinishProgram(t) \/ Uncache(t)
    BY <2>1, PointerFields, AccessFields, StoreInCacheFields, AnswerFields DEF TypeInv, Serve, At, LockMemory,
       HasAvailableFrames, StartProgram, AddPages, AddPage, FinishProgram, FreePage, Uncache, GetFrame,
       ExistsInCache, GetFromCache, FindInTable, AccessNothing, NameEntry, IncreaseCacheLru
  <2>3. CASE LockMemory(t) \/ FinishProgram(t)
    BY <2>3, GoFields DEF LockMemory, FinishProgram, TypeInv, UnderMemMutex
  <2>4. CASE Uncache(t)
    BY <2>4, DoneFields DEF Uncache, TypeInv
  <2>. QED  BY <2>2, <2>3, <2>4
<1>2. CASE job[t].op # "finish"
  <2>1. CASE Carries(t)
    BY <1>2, <2>1 DEF Carries
  <2>2. CASE job'[t].pid = None
    <3>1. CASE HasAvailableFrames(t) \/ AddPage(t) \/ Uncache(t)
      BY <1>2, <3>1, GoFields, DoneFields DEF HasAvailableFrames, AddPage, Uncache, TypeInv
    <3>2. CASE Answer(t) /\ ~More(t)
      BY <3>2, LastFields, DoneFields DEF TypeInv
    <3>. QED  BY <2>2, <3>1, <3>2, StepsThatEnd
  <2>. QED  BY <2>1, <2>2, RequestGoesOn
<1>. QED  BY <1>1, <1>2

LEMMA NothingLeftKeptByOthers ==
    ASSUME TypeInv, StackFits, AllFound, OneRequest, NothingIsLeft, NEW t \in Thread, Serve(t),
           NEW u \in Thread \ {t}
    PROVE  NothingLeft(u)'
<1>0. job'[u] = job[u]
  BY RequestGoesOn
<1>1. CASE job[u].at \in {"lock", "check", "code", "uncache"}
  <2>1. PICK p \in Pid : p = job[u].pid
    BY <1>1, RequestOfPid
  <2>2. p # job[t].pid
    BY <2>1, NamesAreDistinct DEF OneRequest
  <2>3. (Absent(p) => Absent(p)') /\ (PagesOf(p) = {} => PagesOf(p)' = {})
    BY <2>2, OthersShrink
  <2>. QED  BY <1>0, <2>1, <2>3 DEF NothingIsLeft, NothingLeft
<1>2. CASE job[u].at \notin {"lock", "check", "code", "uncache"}
  BY <1>0, <1>2 DEF NothingIsLeft, NothingLeft
<1>. QED  BY <1>1, <1>2

LEMMA NothingLeftKeptOwn ==
    ASSUME TypeInv, NothingIsLeft, NEW t \in Thread, Serve(t)
    PROVE  NothingLeft(t)'
<1>0. PICK p \in Pid : p = job[t].pid
  BY ServesARequest
<1>1. CASE job'[t].at \notin UnderMemMutex
  BY <1>1, FinishStays DEF NothingLeft, UnderMemMutex
<1>2. ASSUME UNCHANGED <<table, cache>>, job'[t].op = job[t].op, job'[t].pid = job[t].pid,
             job[t].at \in {"lock", "check"}, job'[t].at \in {"check", "finish", "free", "code", "page"},
             job'[t].op = "finish" => job'[t].at = "finish"
      PROVE  NothingLeft(t)'
  <2>1. Absent(p) => Absent(p)'
    BY <1>2 DEF Absent, PagesOf, Entries
  <2>2. job[t].op = "start" => Absent(p)
    BY <1>0, <1>2 DEF NothingIsLeft, NothingLeft
  <2>. QED  BY <1>0, <1>2, <2>1, <2>2 DEF NothingLeft
<1>3. CASE LockMemory(t)
  <2>1. job[t].at = "lock" /\ UNCHANGED <<table, cache>>
    BY <1>3 DEF LockMemory, At, tableVars, cacheVars
  <2>2. /\ job'[t].op = job[t].op /\ job'[t].pid = job[t].pid
        /\ job'[t].at = CASE job[t].op \in {"start", "addPage"} -> "check"
                          [] job[t].op = "finish" -> "finish"
                          [] OTHER -> "free"
    BY <1>3, GoFields DEF LockMemory, TypeInv
  <2>. QED  BY <2>1, <2>2, <1>2
<1>4. CASE HasAvailableFrames(t)
  <2>1. /\ job[t].at = "check" /\ UNCHANGED <<table, cache>>
        /\ job[t].op \in {"start", "addPage"}
    BY <1>4 DEF HasAvailableFrames, At, tableVars, cacheVars, TypeInv, RequestsFit, RequestFits
  <2>2. CASE Done(t)
    BY <2>2, <1>1, DoneFields DEF TypeInv, UnderMemMutex
  <2>3. CASE ~Done(t)
    <3>1. /\ job'[t].op = job[t].op /\ job'[t].pid = job[t].pid
          /\ job'[t].at \in {"code", "page"}
      BY <1>4, <2>3, GoFields DEF HasAvailableFrames, TypeInv
    <3>. QED  BY <2>1, <3>1, <1>2
  <2>. QED  BY <2>2, <2>3
<1>5. CASE StartProgram(t)
  <2>1. job'[t].at = "stack" /\ job'[t].op = "start"
    BY <1>5, GoFields DEF StartProgram, At, TypeInv, RequestsFit, RequestFits
  <2>. QED  BY <2>1 DEF NothingLeft
<1>6. CASE FinishProgram(t)
  <2>1. job'[t].at = "uncache" /\ job'[t].op = "finish" /\ job'[t].pid = p
    BY <1>0, <1>6, GoFields DEF FinishProgram, At, TypeInv, RequestsFit, RequestFits
  <2>2. \A f \in Frame : table'[f].pid # p
    BY <1>0, <1>6, NamesAreDistinct DEF FinishProgram, Cleared, PagesOf
  <2>3. PagesOf(p)' = {}
    BY <2>2 DEF PagesOf
  <2>. QED  BY <2>1, <2>3 DEF NothingLeft
<1>7. CASE FreePage(t)
  <2>1. job[t].at = "free" /\ job[t].op = "freePage"
    BY <1>7 DEF FreePage, At, TypeInv, RequestsFit, RequestFits
  <2>2. job'[t].op = "freePage" /\ job'[t].at \in {"free", "uncache"}
    BY <1>7, <2>1, GoFields DEF FreePage, TypeInv
  <2>. QED  BY <2>2 DEF NothingLeft
<1>. QED  BY <1>1, <1>3, <1>4, <1>5, <1>6, <1>7, StepsUnderMemMutex

LEMMA NothingIsLeftKept ==
    ASSUME TypeInv, StackFits, AllFound, OneRequest, NothingIsLeft, NEW t \in Thread, Serve(t)
    PROVE  NothingIsLeft'
BY FinishedKept, NothingLeftKeptByOthers, NothingLeftKeptOwn DEF NothingIsLeft

\* The pages of a program that had none: no more than asked for.
LEMMA PlacedPages ==
    ASSUME TypeOK, NEW p \in Pid, NEW n \in Nat, n <= MaxPage + 1, PagesOf(p) = {},
           table' \in Placed(p, 0, n)
    PROVE  Cardinality(PagesOf(p)') \in Nat /\ Cardinality(PagesOf(p)') <= n
<1>. DEFINE k == IF n <= Cardinality(FreeFrames) THEN n ELSE Cardinality(FreeFrames)
            R == 0 .. 0 + k - 1
<1>1. /\ IsFiniteSet(FreeFrames) /\ Cardinality(FreeFrames) \in Nat
      /\ k \in Nat /\ k <= n
  <2>1. IsFiniteSet(FreeFrames) /\ Cardinality(FreeFrames) \in Nat
    BY SizesAreRight, FS_Subset, FS_CardinalityType DEF FreeFrames
  <2>. QED  BY <2>1
<1>2. IsFiniteSet(R) /\ Cardinality(R) = k
  <2>1. ASSUME NEW m \in Nat
        PROVE  IsFiniteSet(0 .. 0 + m - 1) /\ Cardinality(0 .. 0 + m - 1) = m
    <3>1. 0 + m - 1 \in Int /\ 0 \in Int
      OBVIOUS
    <3>2. /\ IsFiniteSet(0 .. 0 + m - 1)
          /\ Cardinality(0 .. 0 + m - 1) = IF 0 > 0 + m - 1 THEN 0 ELSE (0 + m - 1) - 0 + 1
      BY <3>1, FS_Interval
    <3>. QED  BY <3>2
  <2>. QED  BY <1>1, <2>1
<1>3. PICK q \in [R -> FreeFrames] :
        table' = [f \in Frame |-> IF \E i \in R : q[i] = f
                                  THEN [pid |-> p, page |-> CHOOSE i \in R : q[i] = f]
                                  ELSE table[f]]
  BY DEF Placed
<1>. HIDE DEF k, R
<1>. DEFINE T == {f \in Frame : \E i \in R : q[i] = f}
<1>4. \A i \in R : q[i] \in T
  BY <1>3 DEF FreeFrames
<1>5. q \in Surjection(R, T)
  <2>1. q \in [R -> T]
    BY <1>3, <1>4
  <2>2. \A f \in T : \E i \in R : q[i] = f
    OBVIOUS
  <2>. QED  BY <2>1, <2>2 DEF Surjection
<1>6. IsFiniteSet(T) /\ Cardinality(T) <= Cardinality(R) /\ Cardinality(T) \in Nat
  BY <1>2, <1>5, FS_Surjection, FS_CardinalityType
<1>7. PagesOf(p)' \subseteq T
  <2>1. ASSUME NEW f \in Frame, f \notin T
        PROVE  table'[f] = table[f]
    BY <1>3, <2>1
  <2>. QED  BY <2>1 DEF PagesOf
<1>8. /\ IsFiniteSet(PagesOf(p)') /\ Cardinality(PagesOf(p)') <= Cardinality(T)
      /\ Cardinality(PagesOf(p)') \in Nat
  BY <1>6, <1>7, FS_Subset, FS_CardinalityType
<1>. QED  BY <1>1, <1>2, <1>6, <1>8

LEMMA StackFitsKept ==
    ASSUME TypeInv, StackFits, AllFound, OneRequest, NothingIsLeft, NEW t \in Thread, Serve(t)
    PROVE  StackFits'
<1>. DEFINE Fits(u) == /\ Cardinality(PagesOf(job[u].pid)) \in Nat
                       /\ Cardinality(PagesOf(job[u].pid)) <= CodePages[job[u].pid]
<1>. SUFFICES ASSUME NEW u \in Thread, job'[u].at = "stack"
              PROVE  Fits(u)'
  BY DEF StackFits
<1>0. \A v \in Thread \ {t} : job'[v] = job[v]
  BY RequestGoesOn
<1>1. CASE u # t
  <2>1. PICK p \in Pid : p = job[u].pid
    BY <1>0, <1>1, RequestOfPid
  <2>2. p # job[t].pid
    BY <1>1, <2>1, NamesAreDistinct DEF OneRequest
  <2>3. PagesOf(p)' \subseteq PagesOf(p) /\ IsFiniteSet(PagesOf(p))
    BY <2>2, OthersShrink, SizesAreRight, FS_Subset DEF PagesOf
  <2>4. Cardinality(PagesOf(p)') <= Cardinality(PagesOf(p)) /\ Cardinality(PagesOf(p)') \in Nat
    BY <2>3, FS_Subset, FS_CardinalityType
  <2>5. Cardinality(PagesOf(p)) \in Nat /\ Cardinality(PagesOf(p)) <= CodePages[p]
    BY <1>0, <1>1, <2>1 DEF StackFits
  <2>6. Cardinality(PagesOf(p)') <= CodePages[p]
    BY <2>4, <2>5, SizesAreRight
  <2>7. job'[u].pid = p
    BY <1>0, <1>1, <2>1
  <2>. QED  BY <2>4, <2>6, <2>7 DEF PagesOf
<1>2. CASE u = t
  <2>1. StartProgram(t)
    <3>1. ~LockMemory(t) /\ ~HasAvailableFrames(t) /\ ~FinishProgram(t) /\ ~FreePage(t)
      BY <1>2, GoFields, DoneFields DEF LockMemory, HasAvailableFrames, FinishProgram, FreePage, At, TypeInv
    <3>. QED  BY <1>2, <3>1, StepsUnderMemMutex DEF UnderMemMutex
  <2>2. job[t].at = "code" /\ job[t].op = "start" /\ job'[t].pid = job[t].pid
    BY <2>1, GoFields DEF StartProgram, At, TypeInv, RequestsFit, RequestFits
  <2>3. PICK p \in Pid : p = job[t].pid
    BY ServesARequest
  <2>4. PagesOf(p) = {}
    BY <2>2, <2>3 DEF NothingIsLeft, NothingLeft, Absent
  <2>5. CodePages[p] \in Nat /\ CodePages[p] <= MaxPage + 1
    BY SizesAreRight
  <2>6. table' \in Placed(p, 0, CodePages[p])
    BY <2>1, <2>3 DEF StartProgram
  <2>7. Cardinality(PagesOf(p)') \in Nat /\ Cardinality(PagesOf(p)') <= CodePages[p]
    BY <2>4, <2>5, <2>6, PlacedPages DEF TypeInv
  <2>8. job'[u].pid = p
    BY <1>2, <2>2, <2>3
  <2>. QED  BY <2>7, <2>8 DEF PagesOf
<1>. QED  BY <1>1, <1>2

\* A request that is asked for takes no frame, and the flush leaves no entry.
LEMMA NothingLeftKeptByClients ==
    ASSUME TypeInv, StackFits, OneRequest, NothingIsLeft, Clients
    PROVE  NothingIsLeft' /\ StackFits'
<1>1. PICK t \in Thread, p \in Pid, n \in Page \cup {NoPage} : Asked(t, p, n)
  BY ClientsAsk DEF TypeInv
<1>2. PICK op \in {"start", "finish", "addPage", "freePage", "read", "store"},
           point \in {"lock", "search", "frame", "pointer"} :
        /\ Ask(t, op, p, n, point)
        /\ op \in {"start", "finish"} => point = "lock"
        /\ op = "start" => nextPage[p] = 0
  BY <1>1 DEF Asked
<1>3. /\ job[t].at = "idle" /\ job[t].pid = None
      /\ job'[t].at = point /\ job'[t].op = op /\ job'[t].pid = p
      /\ \A u \in Thread \ {t} : job'[u] = job[u]
      /\ UNCHANGED <<table, cache>>
  <2>1. job[t].at = "idle"
    BY <1>2 DEF Ask, At
  <2>2. job[t].pid = None
    BY <2>1 DEF TypeInv, RequestsFit, RequestFits
  <2>. QED  BY <1>2, <2>1, <2>2, AskFields DEF TypeInv, tableVars, cacheVars
<1>4. \A q \in Pid \ {p} : pages'[q] = pages[q]
  BY <1>1 DEF Asked, TypeInv, TypeOK, clientVars
<1>5. \A q : PagesOf(q)' = PagesOf(q) /\ Entries(q)' = Entries(q)
  BY <1>3 DEF PagesOf, Entries
<1>6. FinishedLeavesNothing'
  <2>. SUFFICES ASSUME NEW q \in Pid, pages'[q] = {}, ~Busy(q)'
                PROVE  PagesOf(q)' = {} /\ Entries(q)' = {}
    BY DEF FinishedLeavesNothing
  <2>1. q # p
    BY <1>3 DEF Busy
  <2>2. pages[q] = {} /\ ~Busy(q)
    BY <1>3, <1>4, <2>1, NamesAreDistinct DEF Busy
  <2>. QED  BY <1>5, <2>2 DEF NothingIsLeft, FinishedLeavesNothing
<1>7. NothingLeft(t)'
  <2>1. op = "start" => Absent(p)
    <3>1. ASSUME op = "start"
          PROVE  pages[p] = {} /\ ~Busy(p)
      BY <1>2, <3>1, NamesAreDistinct DEF OneRequest, Busy
    <3>. QED  BY <3>1 DEF NothingIsLeft, FinishedLeavesNothing, Absent
  <2>2. Absent(p) => Absent(p)'
    BY <1>5 DEF Absent
  <2>. QED  BY <1>2, <1>3, <2>1, <2>2 DEF NothingLeft
<1>8. ASSUME NEW u \in Thread \ {t}
      PROVE  NothingLeft(u)'
  BY <1>3 DEF NothingIsLeft, NothingLeft, Absent, PagesOf, Entries
<1>9. StackFits'
  BY <1>3 DEF StackFits, PagesOf
<1>. QED  BY <1>6, <1>7, <1>8, <1>9 DEF NothingIsLeft

LEMMA NothingLeftKeptByFlush ==
    ASSUME TypeInv, StackFits, NothingIsLeft, Flush
    PROVE  NothingIsLeft' /\ StackFits'
<1>1. /\ UNCHANGED <<table, job, pages>>
      /\ \A s \in Slot : cache'[s].pid = None
  BY DEF Flush, tableVars, clientVars, TypeInv, TypeOK
<1>2. \A q \in Pid : PagesOf(q)' = PagesOf(q) /\ Entries(q)' = {}
  BY <1>1, NamesAreDistinct DEF PagesOf, Entries
<1>3. FinishedLeavesNothing'
  BY <1>1, <1>2 DEF NothingIsLeft, FinishedLeavesNothing, Busy
<1>4. ASSUME NEW u \in Thread
      PROVE  NothingLeft(u)'
  <2>1. job'[u] = job[u]
    BY <1>1
  <2>2. CASE job[u].at \in {"lock", "check", "code", "uncache"}
    <3>1. PICK p \in Pid : p = job[u].pid
      BY <2>2, RequestOfPid
    <3>2. (Absent(p) => Absent(p)') /\ PagesOf(p)' = PagesOf(p)
      BY <1>2 DEF Absent
    <3>. QED  BY <2>1, <3>1, <3>2 DEF NothingIsLeft, NothingLeft
  <2>3. CASE job[u].at \notin {"lock", "check", "code", "uncache"}
    BY <2>1, <2>3 DEF NothingIsLeft, NothingLeft
  <2>. QED  BY <2>2, <2>3
<1>5. StackFits'
  BY <1>1 DEF StackFits, PagesOf
<1>. QED  BY <1>3, <1>4, <1>5 DEF NothingIsLeft
-----------------------------------------------------------------------------
(* The theorems. *)

IInv ==
    /\ TypeInv /\ StackFits
    /\ Exclusive
    /\ OneRequest
    /\ EntriesMatch /\ EntriesDiffer /\ AllFound
    /\ CacheShareIsBounded
    /\ NothingIsLeft

LEMMA ServeTyped ==
    ASSUME TypeInv, StackFits, AllFound, NEW t \in Thread, Serve(t)
    PROVE  TypeInv'
<1>1. CASE NameEntry(t)
  <2>1. job[t].at = "name"
    BY <1>1, NameEntryFields
  <2>2. table[job[t].frame] = [pid |-> job[t].pid, page |-> job[t].page]
    BY <2>1 DEF AllFound, Found
  <2>3. job[t].pid \in Pid
    BY <2>1, RequestOfPid
  <2>. QED  BY <1>1, <2>2, <2>3, NameEntryTyped, NamesAreDistinct
<1>. QED  BY <1>1, LockMemoryTyped, HasAvailableFramesTyped, StartProgramTyped, AddPagesTyped, AddPageTyped,
     FinishProgramTyped, FreePageTyped, UncacheTyped, GetFrameTyped, GetPageFromPointerTyped,
     ExistsInCacheTyped, GetFromCacheTyped, FindInTableTyped, AccessTyped, AccessNothingTyped,
     StoreInCacheTyped, IncreaseCacheLruTyped, AnswerTyped DEF Serve

LEMMA InitIInv == Init => IInv
<1>. SUFFICES ASSUME Init PROVE IInv
  OBVIOUS
<1>1. TypeInv
  BY InitTyped
<1>2. /\ \A t \in Thread : job[t].at = "idle" /\ job[t].pid = None /\ job[t].op = "none"
      /\ \A s \in Slot : cache[s].pid = None
      /\ \A f \in Frame : table[f].pid \in {Adm, None}
      /\ \A p \in Pid : pages[p] = {}
  BY DEF Init, Idle, NoEntry
<1>3. \A p \in Pid : PagesOf(p) = {} /\ Entries(p) = {}
  BY <1>2, NamesAreDistinct DEF PagesOf, Entries
<1>4. StackFits /\ Exclusive /\ OneRequest
  BY <1>2 DEF StackFits, Exclusive, Entering, OneRequest
<1>5. EntriesMatch /\ EntriesDiffer /\ AllFound
  BY <1>2 DEF EntriesMatch, EntriesDiffer, AllFound, Found
<1>6. CacheShareIsBounded
  BY <1>3, FS_EmptySet, SizesAreRight DEF CacheShareIsBounded
<1>7. NothingIsLeft
  BY <1>2, <1>3 DEF NothingIsLeft, FinishedLeavesNothing, NothingLeft
<1>. QED  BY <1>1, <1>4, <1>5, <1>6, <1>7 DEF IInv

LEMMA IInvStutters ==
    ASSUME IInv, UNCHANGED vars
    PROVE  IInv'
<1>. USE DEF IInv, vars, tableVars, cacheVars, clientVars
<1>1. TypeInv' /\ StackFits'
  BY DEF TypeInv, TypeOK, RequestsFit, RequestFits, StackFits, PagesOf
<1>2. Exclusive' /\ OneRequest'
  BY DEF Exclusive, OneRequest
<1>3. EntriesMatch' /\ EntriesDiffer'
  BY DEF EntriesMatch, EntriesDiffer, Matches, Torn, Leaving, Dropped, Entries
<1>4. AllFound'
  BY DEF AllFound, Found, CachedAt, Entries, Torn, BelowShare
<1>5. CacheShareIsBounded'
  BY DEF CacheShareIsBounded, Entries
<1>6. NothingIsLeft'
  BY DEF NothingIsLeft, FinishedLeavesNothing, NothingLeft, Absent, PagesOf, Entries, Busy
<1>. QED  BY <1>1, <1>2, <1>3, <1>4, <1>5, <1>6

LEMMA IInvKept == IInv /\ [Next]_vars => IInv'
<1>. SUFFICES ASSUME IInv, [Next]_vars PROVE IInv'
  OBVIOUS
<1>1. ASSUME NEW t \in Thread, Serve(t)
      PROVE  IInv'
  <2>1. TypeInv' /\ StackFits'
    BY <1>1, ServeTyped, StackFitsKept DEF IInv
  <2>2. Exclusive' /\ OneRequest'
    BY <1>1, ExclusiveKept, OneRequestKept DEF IInv
  <2>3. EntriesMatch' /\ EntriesDiffer' /\ AllFound'
    BY <1>1, EntriesMatchKept, EntriesDifferKept, AllFoundKept DEF IInv
  <2>4. CacheShareIsBounded' /\ NothingIsLeft'
    BY <1>1, ShareKept, NothingIsLeftKept DEF IInv
  <2>. QED  BY <2>1, <2>2, <2>3, <2>4 DEF IInv
<1>2. CASE Clients
  BY <1>2, ClientsTyped, NothingLeftKeptByClients, ExclusiveKeptByClients, OneRequestKeptByClients,
     CoherenceKeptByClients, ShareKeptByClients DEF IInv
<1>3. CASE Flush
  BY <1>3, FlushTyped, NothingLeftKeptByFlush, ExclusiveKeptByClients, OneRequestKeptByFlush,
     CoherenceKeptByClients, ShareKeptByClients DEF IInv
<1>4. CASE UNCHANGED vars
  BY <1>4, IInvStutters
<1>. QED  BY <1>1, <1>2, <1>3, <1>4 DEF Next

LEMMA IInvHolds == Spec => []IInv
BY InitIInv, IInvKept, PTL DEF Spec

(* Every variable keeps its type, on the error paths of memoria.c too: an access *)
(* to a page in no frame, a pointer that leads nowhere, an entry named after a   *)
(* frame that was found before.                                                  *)
THEOREM TypesAreKept == Spec => []TypeOK
<1>1. IInv => TypeOK
  BY DEF IInv, TypeInv
<1>. QED  BY <1>1, IInvHolds, PTL

(* store_in_cache copies into the cache, field by field and while other threads  *)
(* search it under no lock, what read_bytes found in the table before it waited; *)
(* finish_program and free_page clear the table and the cache in two critical    *)
(* sections: even so the entries agree with the table and no page has two.       *)
THEOREM CacheStaysCoherent == Spec => []CacheIsCoherent
<1>1. IInv => CacheIsCoherent
  BY EntriesCohere DEF IInv
<1>. QED  BY <1>1, IInvHolds, PTL

(* store_in_cache tests the share of a program before the page is entered: no    *)
(* number of threads that enter pages at once exceeds cache_x_proc.              *)
THEOREM CacheShareStaysBounded == Spec => []CacheShareIsBounded
<1>1. IInv => CacheShareIsBounded
  BY DEF IInv
<1>. QED  BY <1>1, IInvHolds, PTL

(* finish_program and the failure of i_start_program leave no frame and no entry *)
(* of the cache to a program that is over.                                       *)
THEOREM NothingStaysLeft == Spec => []FinishedLeavesNothing
<1>1. IInv => FinishedLeavesNothing
  BY DEF IInv, NothingIsLeft
<1>. QED  BY <1>1, IInvHolds, PTL
-----------------------------------------------------------------------------
(* The pages that a request takes. *)

LEMMA FramesAreFinite ==
    ASSUME NEW S \in SUBSET Frame
    PROVE  IsFiniteSet(S) /\ Cardinality(S) \in Nat
BY SizesAreRight, FS_Subset, FS_CardinalityType

\* The table after a placement: each frame is as it was, or it was free and has a new page.
Places(p, new) ==
    /\ \A f \in Frame :
          \/ table'[f] = table[f]
          \/ table[f].pid = None /\ \E n \in new : table'[f] = [pid |-> p, page |-> n]
    /\ \A n \in new : \E f \in Frame : table'[f] = [pid |-> p, page |-> n]
    /\ \A f, g \in Frame :
          table[f].pid = None /\ table'[f].pid = p /\ table[g].pid = None /\ table'[g] = table'[f] => f = g

LEMMA PlacedInRange ==
    ASSUME NEW p, NEW new, Places(p, new), NEW f \in Frame, table'[f] # table[f]
    PROVE  \E n \in new : table'[f] = [pid |-> p, page |-> n]
BY Zenon DEF Places

\* With frames enough, each page goes to a frame of its own.
LEMMA PlacedExactly ==
    ASSUME TypeOK, NEW p \in Pid, NEW first \in Nat, NEW n \in Nat, n <= Cardinality(FreeFrames),
           table' \in Placed(p, first, n)
    PROVE  /\ Places(p, first .. first + n - 1)
           /\ Cardinality(FreeFrames)' = Cardinality(FreeFrames) - n
<1>. DEFINE R == first .. first + n - 1
<1>1. IsFiniteSet(FreeFrames) /\ Cardinality(FreeFrames) \in Nat
  BY FramesAreFinite DEF FreeFrames
<1>2. IsFiniteSet(R) /\ Cardinality(R) = n
  <2>1. first + n - 1 \in Int /\ first \in Int
    OBVIOUS
  <2>2. Cardinality(R) = IF first > first + n - 1 THEN 0 ELSE (first + n - 1) - first + 1
    BY <2>1, FS_Interval
  <2>. QED  BY <2>1, <2>2, FS_Interval
<1>3. PICK q \in [R -> FreeFrames] :
        /\ \A i, j \in R : q[i] = q[j] => i = j
        /\ table' = [f \in Frame |-> IF \E i \in R : q[i] = f
                                     THEN [pid |-> p, page |-> CHOOSE i \in R : q[i] = f]
                                     ELSE table[f]]
  BY DEF Placed
<1>. HIDE DEF R
<1>4. ASSUME NEW i \in R
      PROVE  q[i] \in Frame /\ table[q[i]].pid = None /\ table'[q[i]] = [pid |-> p, page |-> i]
  <2>1. q[i] \in Frame /\ table[q[i]].pid = None
    BY <1>3 DEF FreeFrames
  <2>2. (CHOOSE k \in R : q[k] = q[i]) = i
    BY <1>3
  <2>. QED  BY <1>3, <2>1, <2>2
<1>5. ASSUME NEW f \in Frame, ~ \E i \in R : q[i] = f
      PROVE  table'[f] = table[f]
  BY <1>3, <1>5
<1>6. p # None
  BY NamesAreDistinct
<1>7. Places(p, R)
  <2>1. ASSUME NEW f \in Frame
        PROVE  \/ table'[f] = table[f]
               \/ table[f].pid = None /\ \E m \in R : table'[f] = [pid |-> p, page |-> m]
    <3>1. CASE \E i \in R : q[i] = f
      <4>1. PICK i \in R : q[i] = f
        BY <3>1
      <4>. QED  BY <1>4, <4>1
    <3>2. CASE ~ \E i \in R : q[i] = f
      BY <1>5, <3>2
    <3>. QED  BY <3>1, <3>2
  <2>2. \A m \in R : \E f \in Frame : table'[f] = [pid |-> p, page |-> m]
    BY <1>4
  <2>3. ASSUME NEW f \in Frame, NEW g \in Frame,
               table[f].pid = None, table'[f].pid = p, table[g].pid = None, table'[g] = table'[f]
        PROVE  f = g
    <3>1. PICK i \in R : q[i] = f
      BY <1>5, <1>6, <2>3
    <3>2. table'[g].pid = p
      BY <2>3
    <3>3. PICK k \in R : q[k] = g
      BY <1>5, <1>6, <2>3, <3>2
    <3>4. table'[f] = [pid |-> p, page |-> i] /\ table'[g] = [pid |-> p, page |-> k]
      BY <1>4, <3>1, <3>3
    <3>5. i = k
      BY <2>3, <3>4
    <3>. QED  BY <3>1, <3>3, <3>5
  <2>. QED  BY <2>1, <2>2, <2>3 DEF Places
<1>8. Cardinality(FreeFrames)' = Cardinality(FreeFrames) - n
  <2>. DEFINE T == {f \in Frame : \E i \in R : q[i] = f}
  <2>1. q \in Bijection(R, T)
    <3>1. q \in [R -> T] /\ \A f \in T : \E i \in R : q[i] = f
      BY <1>3, <1>4
    <3>. QED  BY <1>3, <3>1 DEF Bijection, Injection, IsInjective, Surjection
  <2>2. Cardinality(T) = n
    BY <1>2, <2>1, FS_Bijection DEF ExistsBijection
  <2>3. FreeFrames' = FreeFrames \ T
    <3>1. ASSUME NEW f \in Frame
          PROVE  table'[f].pid = None <=> (table[f].pid = None /\ f \notin T)
      <4>1. CASE \E i \in R : q[i] = f
        <5>1. PICK i \in R : q[i] = f
          BY <4>1
        <5>2. table'[f] = [pid |-> p, page |-> i] /\ f \in T
          BY <1>4, <5>1
        <5>3. table'[f].pid = p
          BY <5>2
        <5>. QED  BY <1>6, <5>2, <5>3
      <4>2. CASE ~ \E i \in R : q[i] = f
        BY <1>5, <4>2
      <4>. QED  BY <4>1, <4>2
    <3>. QED  BY <3>1 DEF FreeFrames
  <2>4. FreeFrames \cap T = T
    BY <1>4 DEF FreeFrames
  <2>5. Cardinality(FreeFrames \ T) = Cardinality(FreeFrames) - Cardinality(T)
    BY <1>1, <2>4, FS_Difference
  <2>. QED  BY <2>2, <2>3, <2>5
<1>. QED  BY <1>7, <1>8 DEF R

\* The pages of a program, when they are the first n and each is in one frame, are n.
LEMMA PagesCounted ==
    ASSUME TypeOK, NEW p \in Pid, NEW n \in Nat,
           \A f \in PagesOf(p) : table[f].page < n,
           \A f, g \in PagesOf(p) : table[f] = table[g] => f = g,
           \A i \in 0 .. n - 1 : Holding(p, i) # {}
    PROVE  Cardinality(PagesOf(p)) = n
<1>. DEFINE h == [f \in PagesOf(p) |-> table[f].page]
            R == 0 .. n - 1
<1>1. \A f \in PagesOf(p) : table[f] = [pid |-> p, page |-> h[f]] /\ h[f] \in R
  BY SizesAreRight DEF PagesOf, TypeOK, Page
<1>2. ASSUME NEW i \in R
      PROVE  \E f \in PagesOf(p) : h[f] = i
  <2>1. PICK f \in Frame : table[f] = [pid |-> p, page |-> i]
    BY DEF Holding
  <2>. QED  BY <2>1 DEF PagesOf
<1>3. h \in [PagesOf(p) -> R] /\ \A f, g \in PagesOf(p) : h[f] = h[g] => f = g
  BY <1>1
<1>4. h \in Bijection(PagesOf(p), R)
  BY <1>2, <1>3 DEF Bijection, Injection, IsInjective, Surjection
<1>5. IsFiniteSet(PagesOf(p))
  BY FramesAreFinite DEF PagesOf
<1>6. Cardinality(R) = Cardinality(PagesOf(p))
  BY <1>4, <1>5, FS_Bijection DEF ExistsBijection
<1>7. Cardinality(R) = n
  <2>1. 0 \in Int /\ n - 1 \in Int
    OBVIOUS
  <2>2. Cardinality(R) = IF 0 > n - 1 THEN 0 ELSE (n - 1) - 0 + 1
    BY <2>1, FS_Interval
  <2>. QED  BY <2>2
<1>. QED  BY <1>6, <1>7
-----------------------------------------------------------------------------
(* A cache with room for the share of every program. *)

\* The menu does not flush the cache, and every program may have its share at once.
RoomForAll ==
    /\ ~Flushes
    /\ Slot = {} \/ (IsFiniteSet(Pid) /\ Cardinality(Pid) * CacheXProc <= Cardinality(Slot))

\* As long as a program is below its share, there is a free entry.
LEMMA RoomForOne ==
    ASSUME TypeOK, CacheShareIsBounded, RoomForAll, Slot # {}, NEW p \in Pid, BelowShare(p)
    PROVE  Entries(None) # {}
<1>. SUFFICES ASSUME Entries(None) = {} PROVE FALSE
  OBVIOUS
<1>. DEFINE size(q) == Cardinality(Entries(q))
            Seats == Pid \X (1 .. CacheXProc)
            Last == <<p, CacheXProc>>
<1>1. \A q \in Pid : IsFiniteSet(Entries(q)) /\ size(q) \in Nat /\ size(q) <= CacheXProc
  <2>1. \A q \in Pid : Entries(q) \subseteq Slot
    BY DEF Entries
  <2>. QED  BY <2>1, SizesAreRight, FS_Subset, FS_CardinalityType DEF CacheShareIsBounded
<1>2. \A q \in Pid : \E h : h \in Bijection(Entries(q), 1 .. size(q))
  <2>1. ASSUME NEW q \in Pid
        PROVE  ExistsBijection(Entries(q), 1 .. size(q))
    <3>1. size(q) \in Int /\ 1 \in Int
      BY <1>1
    <3>2. IsFiniteSet(1 .. size(q)) /\ Cardinality(1 .. size(q)) = size(q)
      <4>1. Cardinality(1 .. size(q)) = IF 1 > size(q) THEN 0 ELSE size(q) - 1 + 1
        BY <3>1, FS_Interval
      <4>. QED  BY <1>1, <3>1, <4>1, FS_Interval
    <3>. QED  BY <1>1, <3>2, FS_SameCardinalityBij
  <2>. QED  BY <2>1 DEF ExistsBijection
<1>. DEFINE seat == [q \in Pid |-> CHOOSE h : h \in Bijection(Entries(q), 1 .. size(q))]
            place == [s \in Slot |-> <<cache[s].pid, seat[cache[s].pid][s]>>]
<1>3. \A q \in Pid : seat[q] \in Bijection(Entries(q), 1 .. size(q))
  BY <1>2
<1>. HIDE DEF seat
<1>4. \A s \in Slot : cache[s].pid \in Pid /\ s \in Entries(cache[s].pid)
  BY DEF TypeOK, Entries
<1>5. \A q \in Pid : \A s \in Entries(q) : seat[q][s] \in 1 .. size(q)
  BY <1>3 DEF Bijection, Injection, IsInjective
<1>6. \A q \in Pid : \A r, s \in Entries(q) : seat[q][r] = seat[q][s] => r = s
  BY <1>3 DEF Bijection, Injection, IsInjective
<1>7. ASSUME NEW s \in Slot
      PROVE  place[s] \in Seats \ {Last}
  <2>1. PICK q \in Pid : q = cache[s].pid
    BY <1>4
  <2>2. seat[q][s] \in 1 .. size(q)
    BY <1>4, <1>5, <2>1
  <2>3. seat[q][s] \in 1 .. CacheXProc
    BY <1>1, <2>2, SizesAreRight
  <2>4. size(p) < CacheXProc
    BY DEF BelowShare
  <2>5. q = p => seat[q][s] # CacheXProc
    BY <1>1, <2>2, <2>4, SizesAreRight
  <2>6. place[s] = <<q, seat[q][s]>>
    BY <2>1
  <2>. QED  BY <2>3, <2>5, <2>6
<1>8. ASSUME NEW r \in Slot, NEW s \in Slot, place[r] = place[s]
      PROVE  r = s
  BY <1>4, <1>6, <1>8
<1>9. place \in Injection(Slot, Seats \ {Last})
  <2>1. place \in [Slot -> Seats \ {Last}]
    BY <1>7
  <2>. QED  BY <1>8, <2>1 DEF Injection, IsInjective
<1>. HIDE DEF place
<1>10. IsFiniteSet(Seats) /\ Cardinality(Seats) = Cardinality(Pid) * CacheXProc
  <2>1. IsFiniteSet(1 .. CacheXProc) /\ Cardinality(1 .. CacheXProc) = CacheXProc
    <3>1. 1 \in Int /\ CacheXProc \in Int
      BY SizesAreRight
    <3>2. Cardinality(1 .. CacheXProc) = IF 1 > CacheXProc THEN 0 ELSE CacheXProc - 1 + 1
      BY <3>1, FS_Interval
    <3>. QED  BY <3>1, <3>2, FS_Interval, SizesAreRight
  <2>. QED  BY <2>1, FS_Product DEF RoomForAll
<1>11. Last \in Seats
  <2>1. size(p) < CacheXProc /\ size(p) \in Nat
    BY <1>1 DEF BelowShare
  <2>2. CacheXProc \in 1 .. CacheXProc
    BY <2>1, SizesAreRight
  <2>. QED  BY <2>2
<1>12. /\ IsFiniteSet(Seats \ {Last}) /\ Cardinality(Seats \ {Last}) = Cardinality(Seats) - 1
       /\ Cardinality(Seats) \in Nat
  BY <1>10, <1>11, FS_RemoveElement, FS_CardinalityType
<1>13. Cardinality(Slot) <= Cardinality(Seats \ {Last})
  BY <1>9, <1>12, FS_Injection
<1>14. Cardinality(Seats) <= Cardinality(Slot) /\ Cardinality(Slot) \in Nat
  BY <1>10, SizesAreRight, FS_CardinalityType DEF RoomForAll
<1>. QED  BY <1>12, <1>13, <1>14
-----------------------------------------------------------------------------
(* Where the pages are, and their bytes. *)

PastAccess == {"enter", "name", "age", "answer"}

OneFrame == \A f, g \in Frame : table[f].pid \in Pid /\ table[f] = table[g] => f = g

BytesFit ==
    \A f \in Frame :
        /\ table[f].pid \in Pid => content[f] \in {Clean, <<table[f].pid, table[f].page>>}
        /\ table[f].pid \notin Pid => content[f] = Clean

PagesBelow ==
    /\ \A f \in Frame : table[f].pid \in Pid => table[f].page < nextPage[table[f].pid]
    /\ \A p \in Pid : nextPage[p] = 0 \/ nextPage[p] >= CodePages[p] + StackSize

TableFits == OneFrame /\ BytesFit /\ PagesBelow

PagesPresent == \A p \in Pid : \A n \in pages[p] : Holding(p, n) # {}

CodeStored ==
    \A f \in Frame : table[f].pid \in Pid /\ pages[table[f].pid] # {} /\ table[f].page < CodePages[table[f].pid]
        => content[f] # Clean

\* What a request of the kernel has counted and placed, and the code it has stored.
Prepares(t) ==
    LET j == job[t]
        p == j.pid
    IN  /\ j.at = "idle" => j.op = "none"
        /\ j.op = "start" =>
              nextPage[p] = CodePages[p] + StackSize /\ (j.at \notin Accessing => j.page = 0)
        /\ j.op = "addPage" => j.page = nextPage[p]
        /\ j.op = "freePage" => j.page \notin pages[p]
        /\ j.at \in {"code", "page"} => Needed(j) <= Cardinality(FreeFrames)
        /\ j.at = "stack" =>
              /\ StackSize <= Cardinality(FreeFrames)
              /\ \A f \in PagesOf(p) : table[f].page < CodePages[p]
              /\ \A n \in 0 .. CodePages[p] - 1 : Holding(p, n) # {}
        /\ j.op = "start" /\ j.at \in Accessing =>
              /\ j.page \in Page /\ j.page < CodePages[p]
              /\ \A n \in 0 .. CodePages[p] + StackSize - 1 : Holding(p, n) # {}
              /\ \A f \in PagesOf(p) :
                    table[f].page < j.page \/ (table[f].page = j.page /\ j.at \in PastAccess) => content[f] # Clean

\* What an access finds is the page it was asked for.
Reaches(t) ==
    LET j == job[t]
    IN  /\ j.at \in Accessing => j.op \in {"read", "store", "start"}
        /\ j.op \in {"read", "store"} => j.page \in pages[j.pid] \/ (Wild /\ j.page = NoPage)
        /\ j.at \in {"frame", "pointer"} => j.op # "start"
        /\ j.at = "frame" => j.page # NoPage
        /\ j.at = "pointer" =>
              IF j.frame = None THEN j.page = NoPage ELSE table[j.frame] = [pid |-> j.pid, page |-> j.page]
        /\ j.at = "access" /\ j.slot # None => cache[j.slot].pid = j.pid /\ cache[j.slot].page = j.page
        /\ j.at = "access" /\ j.slot = None /\ j.page # NoPage => j.frame # None
        /\ j.at \in PastAccess /\ j.op = "read" /\ j.page # NoPage =>
              j.got \in {<<j.pid, j.page>>} \cup (IF j.page < CodePages[j.pid] THEN {} ELSE {Clean})
        /\ j.at = "name" => cache[j.slot].pid = None

KInv ==
    /\ TableFits /\ PagesPresent /\ CodeStored
    /\ \A t \in Thread : Prepares(t)
    /\ \A t \in Thread : Reaches(t)

LEMMA ServeKinds ==
    ASSUME TypeInv, NEW t \in Thread, Serve(t)
    PROVE  \/ UNCHANGED <<tableVars, nextPage>>
           \/ StartProgram(t) \/ AddPages(t) \/ AddPage(t) \/ FinishProgram(t) \/ FreePage(t)
           \/ Access(t)
<1>1. CASE HasAvailableFrames(t) \/ LockMemory(t) \/ Uncache(t) \/ GetFrame(t) \/ ExistsInCache(t)
           \/ GetFromCache(t) \/ FindInTable(t) \/ AccessNothing(t) \/ NameEntry(t) \/ IncreaseCacheLru(t)
  BY <1>1 DEF HasAvailableFrames, LockMemory, Uncache, GetFrame, ExistsInCache, GetFromCache,
     FindInTable, AccessNothing, NameEntry, IncreaseCacheLru, clientVars
<1>2. CASE GetPageFromPointer(t) \/ StoreInCache(t) \/ Answer(t)
  BY <1>2, PointerFields, StoreInCacheFields, AnswerFields DEF TypeInv, clientVars
<1>. QED  BY <1>1, <1>2 DEF Serve

\* Frames change hands only at requests of the kernel.
LEMMA OnlyTheKernelPlaces ==
    ASSUME TypeInv, NEW t \in Thread, Serve(t), t # Kernel
    PROVE  UNCHANGED <<table, nextPage>>
<1>1. job[t].at \notin {"code", "stack", "page", "finish", "free"}
  BY DEF TypeInv, RequestsFit, RequestFits, UnderMemMutex
<1>2. ~StartProgram(t) /\ ~AddPages(t) /\ ~AddPage(t) /\ ~FinishProgram(t) /\ ~FreePage(t)
  BY <1>1 DEF StartProgram, AddPages, AddPage, FinishProgram, FreePage, At
<1>. QED  BY <1>2, ServeKinds, AccessFields DEF TypeInv, tableVars, clientVars

\* An access that follows an entry of the cache or a frame of the table.
LEMMA AccessReaches ==
    ASSUME TypeInv, OneRequest, EntriesMatch, AllFound, \A u \in Thread : Reaches(u),
           NEW t \in Thread, job[t].at = "access", FrameOf(job[t]) # None
    PROVE  /\ FrameOf(job[t]) \in Frame
           /\ table[FrameOf(job[t])] = [pid |-> job[t].pid, page |-> job[t].page]
           /\ job[t].page \in Page
<1>. DEFINE j == job[t]
<1>0. j.pid \in Pid /\ j.pid # None /\ j \in Jobs
  BY RequestOfPid, NamesAreDistinct DEF TypeInv, TypeOK
<1>1. CASE j.slot # None
  <2>1. j.slot \in Slot /\ cache[j.slot].pid = j.pid /\ cache[j.slot].page = j.page
    BY <1>0, <1>1 DEF Reaches, Jobs
  <2>2. ~Torn(j.slot)
    BY <1>0, <2>1 DEF Torn, Reaches
  <2>3. ~Leaving(j.slot)
    <3>1. ASSUME NEW u \in Thread, job[u].at = "uncache", j.slot \in Dropped(job[u])
          PROVE  FALSE
      <4>1. job[u].pid = j.pid
        BY <2>1, <3>1 DEF Dropped, Entries
      <4>. QED  BY <1>0, <3>1, <4>1 DEF OneRequest
    <3>. QED  BY <3>1 DEF Leaving
  <2>4. Matches(j.slot)
    BY <1>0, <2>1, <2>2, <2>3 DEF EntriesMatch
  <2>5. cache[j.slot].frame \in Frame /\ cache[j.slot].page \in Page
    BY <2>1 DEF TypeInv, TypeOK
  <2>. QED  BY <1>1, <2>1, <2>4, <2>5 DEF FrameOf, Matches
<1>2. CASE j.slot = None
  <2>1. j.frame # None /\ j.frame \in Frame
    BY <1>0, <1>2 DEF FrameOf, Jobs
  <2>2. table[j.frame] = [pid |-> j.pid, page |-> j.page]
    BY <1>2, <2>1 DEF AllFound, Found
  <2>3. table[j.frame].page = j.page
    BY <2>2
  <2>4. table[j.frame].page \in Page
    BY <2>1 DEF TypeInv, TypeOK
  <2>. QED  BY <1>2, <2>1, <2>2, <2>3, <2>4 DEF FrameOf
<1>. QED  BY <1>1, <1>2

\* The frame that an access finds is one unless the pointer led outside the pages.
LEMMA AccessFinds ==
    ASSUME TypeInv, NEW t \in Thread, Reaches(t), job[t].at = "access", job[t].page # NoPage
    PROVE  FrameOf(job[t]) # None
<1>1. CASE job[t].slot # None
  <2>1. job[t].slot \in Slot
    BY <1>1 DEF TypeInv, TypeOK, Jobs
  <2>2. cache[job[t].slot].frame \in Frame
    BY <2>1, FramesTyped DEF TypeInv
  <2>. QED  BY <1>1, <2>2, NamesAreDistinct DEF FrameOf
<1>2. CASE job[t].slot = None
  BY <1>2 DEF FrameOf, Reaches
<1>. QED  BY <1>1, <1>2
-----------------------------------------------------------------------------
(* How the steps change the table. *)

\* Pages are placed above those that the program has.
LEMMA PlacingFits ==
    ASSUME TypeOK, TableFits, NEW p \in Pid, NEW first \in Nat, NEW n \in Nat,
           Places(p, first .. first + n - 1), UNCHANGED content,
           \A f \in PagesOf(p) : table[f].page < first,
           nextPage' \in [Pid -> Nat],
           \A q \in Pid : nextPage'[q] >= nextPage[q],
           nextPage'[p] >= first + n,
           \A q \in Pid : nextPage'[q] = 0 \/ nextPage'[q] >= CodePages[q] + StackSize
    PROVE  /\ TableFits'
           /\ \A q \in Pid : \A i : Holding(q, i) # {} => Holding(q, i)' # {}
           /\ \A i \in first .. first + n - 1 : Holding(p, i)' # {}
<1>. DEFINE R == first .. first + n - 1
<1>1. \A f \in Frame : \/ table'[f] = table[f]
                       \/ /\ table[f].pid = None /\ table'[f].pid = p /\ table'[f].page \in R
                          /\ table'[f].page >= first /\ table'[f].page < first + n
                          /\ table'[f].page \in Int
  <2>1. ASSUME NEW f \in Frame, NEW i \in R, table'[f] = [pid |-> p, page |-> i]
        PROVE  /\ table'[f].pid = p /\ table'[f].page \in R /\ table'[f].page >= first
               /\ table'[f].page < first + n /\ table'[f].page \in Int
    <3>1. table'[f].pid = p /\ table'[f].page = i
      BY <2>1
    <3>2. i >= first /\ i < first + n /\ i \in Int
      OBVIOUS
    <3>. QED  BY <3>1, <3>2
  <2>2. ASSUME NEW f \in Frame, table'[f] # table[f]
        PROVE  table[f].pid = None /\ \E i \in R : table'[f] = [pid |-> p, page |-> i]
    BY <2>2 DEF Places
  <2>. QED  BY <2>1, <2>2
<1>2. p # None /\ None \notin Pid
  BY NamesAreDistinct
<1>3. \A f \in Frame : table[f].page \in Int /\ table[f].page >= 0
  BY SizesAreRight DEF TypeOK, Page
<1>4. OneFrame'
  <2>. SUFFICES ASSUME NEW f \in Frame, NEW g \in Frame, table'[f].pid \in Pid, table'[f] = table'[g]
                PROVE  f = g
    BY DEF OneFrame
  <2>0. table'[f].pid = table'[g].pid /\ table'[f].page = table'[g].page
    OBVIOUS
  <2>1. CASE table'[f] = table[f] /\ table'[g] = table[g]
    BY <2>1 DEF TableFits, OneFrame
  <2>2. CASE table'[f] = table[f] /\ table'[g] # table[g]
    <3>1. table[f].pid = p /\ table[f].page >= first
      BY <1>1, <2>0, <2>2
    <3>2. table[f].page < first
      BY <3>1 DEF PagesOf
    <3>. QED  BY <1>3, <3>1, <3>2
  <2>3. CASE table'[f] # table[f] /\ table'[g] = table[g]
    <3>1. table[g].pid = p /\ table[g].page >= first
      BY <1>1, <2>0, <2>3
    <3>2. table[g].page < first
      BY <3>1 DEF PagesOf
    <3>. QED  BY <1>3, <3>1, <3>2
  <2>4. CASE table'[f] # table[f] /\ table'[g] # table[g]
    <3>1. table[f].pid = None /\ table[g].pid = None /\ table'[f].pid = p
      BY <1>1, <2>4
    <3>. QED  BY <3>1 DEF Places
  <2>. QED  BY <2>1, <2>2, <2>3, <2>4
<1>5. BytesFit'
  <2>. SUFFICES ASSUME NEW f \in Frame
                PROVE  /\ table'[f].pid \in Pid => content'[f] \in {Clean, <<table'[f].pid, table'[f].page>>}
                       /\ table'[f].pid \notin Pid => content'[f] = Clean
    BY DEF BytesFit
  <2>1. CASE table'[f] = table[f]
    BY <2>1 DEF TableFits, BytesFit
  <2>2. CASE table'[f] # table[f]
    BY <1>1, <1>2, <2>2 DEF TableFits, BytesFit
  <2>. QED  BY <2>1, <2>2
<1>6. PagesBelow'
  <2>1. ASSUME NEW f \in Frame, table'[f].pid \in Pid
        PROVE  table'[f].page < nextPage'[table'[f].pid]
    <3>1. CASE table'[f] = table[f]
      <4>1. table[f].page < nextPage[table[f].pid] /\ nextPage[table[f].pid] <= nextPage'[table[f].pid]
        BY <2>1, <3>1 DEF TableFits, PagesBelow
      <4>2. nextPage[table[f].pid] \in Nat /\ nextPage'[table[f].pid] \in Nat
        BY <2>1, <3>1 DEF TypeOK
      <4>. QED  BY <1>3, <3>1, <4>1, <4>2
    <3>2. CASE table'[f] # table[f]
      <4>1. table'[f].pid = p /\ table'[f].page < first + n /\ table'[f].page \in Int
        BY <1>1, <3>2
      <4>2. nextPage'[p] \in Nat
        OBVIOUS
      <4>. QED  BY <4>1, <4>2
    <3>. QED  BY <3>1, <3>2
  <2>. QED  BY <2>1 DEF PagesBelow
<1>7. ASSUME NEW q \in Pid, NEW i, Holding(q, i) # {}
      PROVE  Holding(q, i)' # {}
  <2>1. PICK f \in Frame : table[f] = [pid |-> q, page |-> i]
    BY <1>7 DEF Holding
  <2>2. table[f].pid = q
    BY <2>1
  <2>3. table'[f] = table[f]
    BY <1>1, <1>2, <2>2
  <2>. QED  BY <2>1, <2>3 DEF Holding
<1>8. \A i \in R : Holding(p, i)' # {}
  BY DEF Places, Holding
<1>. QED  BY <1>4, <1>5, <1>6, <1>7, <1>8 DEF TableFits

\* Frames of a program are cleared.
LEMMA ClearingFits ==
    ASSUME TypeOK, TableFits, NEW p \in Pid, NEW fs \in SUBSET PagesOf(p), Cleared(fs), UNCHANGED nextPage
    PROVE  /\ TableFits'
           /\ \A f \in Frame \ fs : table'[f] = table[f] /\ content'[f] = content[f]
           /\ \A f \in fs : table'[f].pid = None
<1>1. /\ \A f \in Frame \ fs : table'[f] = table[f] /\ content'[f] = content[f]
      /\ \A f \in Frame : f \in fs => table'[f].pid = None /\ content'[f] = Clean
      /\ fs \subseteq Frame
  BY DEF Cleared, PagesOf
<1>2. None \notin Pid
  BY NamesAreDistinct
<1>3. OneFrame'
  <2>. SUFFICES ASSUME NEW f \in Frame, NEW g \in Frame, table'[f].pid \in Pid, table'[f] = table'[g]
                PROVE  f = g
    BY DEF OneFrame
  <2>1. table'[f].pid = table'[g].pid
    OBVIOUS
  <2>2. f \notin fs /\ g \notin fs
    BY <1>1, <1>2, <2>1
  <2>. QED  BY <1>1, <2>2 DEF TableFits, OneFrame
<1>4. BytesFit'
  BY <1>1, <1>2 DEF TableFits, BytesFit
<1>5. PagesBelow'
  BY <1>1, <1>2 DEF TableFits, PagesBelow
<1>. QED  BY <1>1, <1>3, <1>4, <1>5 DEF TableFits

\* An access writes the page that it was asked for.
LEMMA WritingFits ==
    ASSUME TypeInv, TableFits, NEW t \in Thread, NEW f \in Frame, job[t].pid \in Pid,
           table[f] = [pid |-> job[t].pid, page |-> job[t].page], Written(t, f), UNCHANGED <<table, nextPage>>
    PROVE  /\ TableFits'
           /\ \A g \in Frame : g # f => content'[g] = content[g]
           /\ content'[f] = IF job[t].op = "read" THEN content[f] ELSE <<job[t].pid, job[t].page>>
<1>1. /\ \A g \in Frame : g # f => content'[g] = content[g]
      /\ content'[f] = IF job[t].op = "read" THEN content[f] ELSE <<job[t].pid, job[t].page>>
  BY DEF Written, TypeInv, TypeOK
<1>2. table[f].pid = job[t].pid /\ table[f].page = job[t].page
  OBVIOUS
<1>3. BytesFit'
  BY <1>1, <1>2 DEF TableFits, BytesFit
<1>4. OneFrame' /\ PagesBelow'
  BY DEF TableFits, OneFrame, PagesBelow
<1>. QED  BY <1>1, <1>3, <1>4 DEF TableFits

LEMMA NotClean ==
    ASSUME NEW p, NEW n
    PROVE  <<p, n>> # Clean
BY DEF Clean
-----------------------------------------------------------------------------
(* The requests that place and clear pages. *)

\* Pages that are in a frame stay in one.
PagesStay == \A q \in Pid, i \in Page : Holding(q, i) # {} => Holding(q, i)' # {}

LEMMA StartProgramStep ==
    ASSUME TypeInv, OneRequest, NothingIsLeft, KInv, NEW t \in Thread, StartProgram(t), NEW p \in Pid, p = job[t].pid
    PROVE  /\ job[t].op = "start" /\ job'[t].at = "stack" /\ UNCHANGED <<content, clientVars>>
           /\ TableFits' /\ PagesStay
           /\ StackSize <= Cardinality(FreeFrames)'
           /\ \A f \in PagesOf(p)' : table'[f].page < CodePages[p]
           /\ \A n \in 0 .. CodePages[p] - 1 : Holding(p, n)' # {}
           /\ \A f \in Frame : table'[f] = table[f] \/ table'[f].pid = p
<1>1. /\ job[t].at = "code" /\ job[t].op = "start" /\ job'[t].at = "stack"
      /\ UNCHANGED <<content, clientVars>> /\ table' \in Placed(p, 0, CodePages[p])
  BY GoFields DEF StartProgram, At, TypeInv, RequestsFit, RequestFits
<1>2. PagesOf(p) = {}
  BY <1>1 DEF NothingIsLeft, NothingLeft, Absent
<1>3. /\ nextPage[p] = CodePages[p] + StackSize
      /\ CodePages[p] + StackSize <= Cardinality(FreeFrames)
  BY <1>1 DEF KInv, Prepares, Needed
<1>4. Cardinality(FreeFrames) \in Nat /\ CodePages[p] \in Nat /\ StackSize \in Nat
  BY SizesAreRight, FramesAreFinite DEF FreeFrames
<1>5. /\ Places(p, 0 .. 0 + CodePages[p] - 1)
      /\ Cardinality(FreeFrames)' = Cardinality(FreeFrames) - CodePages[p]
  BY <1>1, <1>3, <1>4, PlacedExactly DEF TypeInv
<1>6. nextPage' = nextPage /\ nextPage \in [Pid -> Nat]
  BY <1>1 DEF clientVars, TypeInv, TypeOK
<1>7. nextPage'[p] >= 0 + CodePages[p] /\ \A q \in Pid : nextPage'[q] >= nextPage[q]
  BY <1>3, <1>4, <1>6
<1>8. \A q \in Pid : nextPage'[q] = 0 \/ nextPage'[q] >= CodePages[q] + StackSize
  BY <1>6 DEF KInv, TableFits, PagesBelow
<1>9. /\ TableFits'
      /\ \A q \in Pid : \A i : Holding(q, i) # {} => Holding(q, i)' # {}
      /\ \A i \in 0 .. 0 + CodePages[p] - 1 : Holding(p, i)' # {}
  <2>1. \A f \in PagesOf(p) : table[f].page < 0
    BY <1>2
  <2>2. nextPage' \in [Pid -> Nat] /\ TypeOK /\ UNCHANGED content /\ TableFits
    BY <1>1, <1>6 DEF TypeInv, KInv
  <2>. QED  BY <1>4, <1>5, <1>7, <1>8, <2>1, <2>2, PlacingFits
<1>10. \A f \in PagesOf(p)' : table'[f].page < CodePages[p]
  <2>. SUFFICES ASSUME NEW f \in Frame, table'[f].pid = p
                PROVE  table'[f].page < CodePages[p]
    BY DEF PagesOf
  <2>1. table[f].pid # p
    BY <1>2 DEF PagesOf
  <2>. DEFINE R == 0 .. 0 + CodePages[p] - 1
  <2>4. Places(p, R) /\ table'[f] # table[f]
    BY <1>5, <2>1
  <2>. HIDE DEF R
  <2>2. PICK n \in R : table'[f] = [pid |-> p, page |-> n]
    BY <2>4, PlacedInRange
  <2>. USE DEF R
  <2>3. table'[f].page = n /\ n < CodePages[p]
    BY <1>4, <2>2
  <2>. QED  BY <2>3
<1>11. ASSUME NEW f \in Frame, table'[f] # table[f]
       PROVE  table'[f].pid = p
  <2>. DEFINE R == 0 .. 0 + CodePages[p] - 1
  <2>1. Places(p, R)
    BY <1>5
  <2>. HIDE DEF R
  <2>2. \E n \in R : table'[f] = [pid |-> p, page |-> n]
    BY <1>11, <2>1, PlacedInRange
  <2>. QED  BY <2>2
<1>12. StackSize <= Cardinality(FreeFrames)'
  BY <1>3, <1>4, <1>5
<1>13. 0 .. 0 + CodePages[p] - 1 = 0 .. CodePages[p] - 1
  BY <1>4
<1>. QED  BY <1>1, <1>9, <1>10, <1>11, <1>12, <1>13 DEF PagesStay

LEMMA AddPagesStep ==
    ASSUME TypeInv, OneRequest, KInv, NEW t \in Thread, AddPages(t), NEW p \in Pid, p = job[t].pid
    PROVE  /\ job[t].op = "start" /\ job[t].at = "stack"
           /\ job'[t].at = "search" /\ UNCHANGED <<content, clientVars>>
           /\ TableFits' /\ PagesStay
           /\ \A n \in 0 .. CodePages[p] + StackSize - 1 : Holding(p, n)' # {}
           /\ \A f \in Frame : table'[f] = table[f] \/ table'[f].pid = p
<1>. DEFINE first == Cardinality(PagesOf(p))
<1>1. /\ job[t].at = "stack" /\ job[t].op = "start" /\ job'[t].at = "search"
      /\ UNCHANGED <<content, clientVars>> /\ table' \in Placed(p, first, StackSize)
  BY GoFields DEF AddPages, At, TypeInv, RequestsFit, RequestFits
<1>2. /\ StackSize <= Cardinality(FreeFrames)
      /\ \A f \in PagesOf(p) : table[f].page < CodePages[p]
      /\ \A n \in 0 .. CodePages[p] - 1 : Holding(p, n) # {}
      /\ nextPage[p] = CodePages[p] + StackSize
  BY <1>1 DEF KInv, Prepares
<1>3. CodePages[p] \in Nat /\ StackSize \in Nat
  BY SizesAreRight
<1>4. first = CodePages[p]
  <2>1. \A f, g \in PagesOf(p) : table[f] = table[g] => f = g
    BY DEF KInv, TableFits, OneFrame, PagesOf
  <2>. QED  BY <1>2, <1>3, <2>1, PagesCounted DEF TypeInv
<1>5. Places(p, CodePages[p] .. CodePages[p] + StackSize - 1)
  BY <1>1, <1>2, <1>3, <1>4, PlacedExactly DEF TypeInv
<1>6. nextPage' = nextPage /\ nextPage \in [Pid -> Nat]
  BY <1>1 DEF clientVars, TypeInv, TypeOK
<1>7. nextPage'[p] >= CodePages[p] + StackSize /\ \A q \in Pid : nextPage'[q] >= nextPage[q]
  BY <1>2, <1>3, <1>6
<1>8. \A q \in Pid : nextPage'[q] = 0 \/ nextPage'[q] >= CodePages[q] + StackSize
  BY <1>6 DEF KInv, TableFits, PagesBelow
<1>9. /\ TableFits'
      /\ \A q \in Pid : \A i : Holding(q, i) # {} => Holding(q, i)' # {}
      /\ \A i \in CodePages[p] .. CodePages[p] + StackSize - 1 : Holding(p, i)' # {}
  <2>1. nextPage' \in [Pid -> Nat] /\ TypeOK /\ UNCHANGED content /\ TableFits
    BY <1>1, <1>6 DEF TypeInv, KInv
  <2>. QED  BY <1>2, <1>3, <1>5, <1>7, <1>8, <2>1, PlacingFits
<1>10. ASSUME NEW n \in 0 .. CodePages[p] + StackSize - 1
       PROVE  Holding(p, n)' # {}
  <2>1. n \in 0 .. CodePages[p] - 1 \/ n \in CodePages[p] .. CodePages[p] + StackSize - 1
    BY <1>3
  <2>. QED  BY <1>2, <1>9, <2>1
<1>11. ASSUME NEW f \in Frame, table'[f] # table[f]
       PROVE  table'[f].pid = p
  <2>. DEFINE R == CodePages[p] .. CodePages[p] + StackSize - 1
  <2>1. Places(p, R)
    BY <1>5
  <2>. HIDE DEF R
  <2>2. \E n \in R : table'[f] = [pid |-> p, page |-> n]
    BY <1>11, <2>1, PlacedInRange
  <2>. QED  BY <2>2
<1>. QED  BY <1>1, <1>9, <1>10, <1>11 DEF PagesStay

LEMMA AddPageStep ==
    ASSUME TypeInv, OneRequest, KInv, NEW t \in Thread, AddPage(t), NEW p \in Pid, p = job[t].pid,
           NEW n \in Page, n = job[t].page
    PROVE  /\ job[t].op = "addPage" /\ job'[t].pid = None /\ UNCHANGED content
           /\ pages[p] # {} /\ pages' = [pages EXCEPT ![p] = @ \cup {n}]
           /\ TableFits' /\ PagesStay /\ Holding(p, n)' # {}
           /\ \A f \in Frame : \/ table'[f] = table[f]
                               \/ table'[f].pid = p /\ table'[f].page = n /\ n >= CodePages[p]
<1>1. /\ job[t].at = "page" /\ job[t].op = "addPage" /\ job'[t].pid = None
      /\ UNCHANGED content /\ table' \in Placed(p, n, 1)
      /\ pages' = [pages EXCEPT ![p] = @ \cup {n}] /\ nextPage' = [nextPage EXCEPT ![p] = n + 1]
  BY DoneFields DEF AddPage, At, TypeInv, RequestsFit, RequestFits
<1>2. n = nextPage[p] /\ 1 <= Cardinality(FreeFrames)
  BY <1>1 DEF KInv, Prepares, Needed
<1>3. p # None /\ nextPage[p] > 0 /\ pages[p] # {}
  <2>1. p # None
    BY NamesAreDistinct
  <2>. QED  BY <1>1, <2>1 DEF OneRequest
<1>4. CodePages[p] \in Nat /\ StackSize \in Nat /\ n \in Nat /\ nextPage \in [Pid -> Nat]
  BY SizesAreRight DEF Page, TypeInv, TypeOK
<1>5. n >= CodePages[p] + StackSize
  BY <1>2, <1>3 DEF KInv, TableFits, PagesBelow
<1>6. Places(p, n .. n + 1 - 1)
  BY <1>1, <1>2, <1>4, PlacedExactly DEF TypeInv
<1>7. /\ nextPage'[p] = n + 1 /\ \A q \in Pid \ {p} : nextPage'[q] = nextPage[q]
      /\ nextPage' \in [Pid -> Nat]
  BY <1>1, <1>4
<1>8. \A q \in Pid : nextPage'[q] >= nextPage[q]
  <2>1. \A q \in Pid : nextPage[q] \in Nat
    BY <1>4
  <2>. QED  BY <1>2, <1>4, <1>7, <2>1
<1>9. \A q \in Pid : nextPage'[q] = 0 \/ nextPage'[q] >= CodePages[q] + StackSize
  BY <1>4, <1>5, <1>7 DEF KInv, TableFits, PagesBelow
<1>10. /\ TableFits'
       /\ \A q \in Pid : \A i : Holding(q, i) # {} => Holding(q, i)' # {}
       /\ \A i \in n .. n + 1 - 1 : Holding(p, i)' # {}
  <2>1. \A f \in PagesOf(p) : table[f].page < n
    BY <1>2 DEF KInv, TableFits, PagesBelow, PagesOf
  <2>2. TypeOK /\ TableFits /\ nextPage'[p] >= n + 1 /\ UNCHANGED content /\ n \in Nat /\ 1 \in Nat
    BY <1>1, <1>4, <1>7 DEF TypeInv, KInv
  <2>3. nextPage' \in [Pid -> Nat]
    BY <1>7
  <2>. QED  BY <1>6, <1>8, <1>9, <2>1, <2>2, <2>3, PlacingFits
<1>11. n \in n .. n + 1 - 1 /\ \A i \in n .. n + 1 - 1 : i = n
  BY <1>4
<1>12. ASSUME NEW f \in Frame, table'[f] # table[f]
       PROVE  table'[f].pid = p /\ table'[f].page = n /\ n >= CodePages[p]
  <2>. DEFINE R == n .. n + 1 - 1
  <2>0. Places(p, R)
    BY <1>6
  <2>. HIDE DEF R
  <2>1. PICK i \in R : table'[f] = [pid |-> p, page |-> i]
    BY <1>12, <2>0, PlacedInRange
  <2>. USE DEF R
  <2>2. table'[f].pid = p /\ table'[f].page = n
    BY <1>11, <2>1
  <2>. QED  BY <1>4, <1>5, <2>2
<1>. QED  BY <1>1, <1>3, <1>10, <1>11, <1>12 DEF PagesStay

\* A finish and the freeing of a page: the pages that clients still take the program to have stay.
LEMMA ClearingStep ==
    ASSUME TypeInv, OneRequest, KInv, NEW t \in Thread, FinishProgram(t) \/ FreePage(t),
           NEW p \in Pid, p = job[t].pid
    PROVE  /\ job[t].op \in {"finish", "freePage"} /\ UNCHANGED clientVars
           /\ job'[t].op = job[t].op /\ job'[t].at \notin Accessing \cup {"code", "page", "stack"}
           /\ TableFits' /\ PagesPresent'
           /\ \A f \in Frame : \/ table'[f] = table[f] /\ content'[f] = content[f]
                               \/ table'[f].pid = None
           /\ \A f \in Frame : table[f].pid # p => table'[f] = table[f]
<1>1. /\ job[t].op \in {"finish", "freePage"} /\ UNCHANGED clientVars
      /\ job'[t].op = job[t].op /\ job'[t].at \in {"free", "uncache"}
      /\ FinishProgram(t) => job[t].op = "finish"
  BY GoFields DEF FinishProgram, FreePage, At, TypeInv, RequestsFit, RequestFits
<1>2. None \notin Pid /\ p # None
  BY NamesAreDistinct
<1>3. CASE UNCHANGED tableVars
  <2>1. TableFits' /\ PagesPresent'
    BY <1>1, <1>3 DEF tableVars, clientVars, KInv, TableFits, OneFrame, BytesFit, PagesBelow, PagesPresent, Holding
  <2>. QED  BY <1>1, <1>3, <2>1 DEF tableVars, Accessing
<1>4. ASSUME NEW fs \in SUBSET PagesOf(p), Cleared(fs),
             \A n \in pages[p] : \A f \in fs : table[f].page # n
      PROVE  /\ TableFits' /\ PagesPresent'
             /\ \A f \in Frame : \/ table'[f] = table[f] /\ content'[f] = content[f]
                                 \/ table'[f].pid = None
             /\ \A f \in Frame : table[f].pid # p => table'[f] = table[f]
  <2>1. /\ TableFits'
        /\ \A f \in Frame \ fs : table'[f] = table[f] /\ content'[f] = content[f]
        /\ \A f \in fs : table'[f].pid = None
    BY <1>1, <1>4, ClearingFits DEF KInv, TypeInv, clientVars
  <2>2. ASSUME NEW q \in Pid, NEW n \in pages[q]
        PROVE  Holding(q, n)' # {}
    <3>1. PICK f \in Frame : table[f] = [pid |-> q, page |-> n]
      BY DEF KInv, PagesPresent, Holding
    <3>2. table[f].pid = q /\ table[f].page = n
      BY <3>1
    <3>3. f \notin fs
      BY <1>4, <3>2 DEF PagesOf
    <3>. QED  BY <2>1, <3>1, <3>3 DEF Holding
  <2>3. pages' = pages
    BY <1>1 DEF clientVars
  <2>. QED  BY <2>1, <2>2, <2>3 DEF PagesPresent, PagesOf
<1>5. CASE FinishProgram(t)
  <2>1. Cleared(PagesOf(p))
    BY <1>5 DEF FinishProgram
  <2>2. pages[p] = {}
    BY <1>1, <1>2, <1>5 DEF OneRequest
  <2>. QED  BY <1>1, <1>4, <2>1, <2>2 DEF Accessing
<1>6. CASE FreePage(t) /\ ~UNCHANGED tableVars
  <2>1. PICK f \in Holding(p, job[t].page) : Cleared({f})
    BY <1>6 DEF FreePage
  <2>2. table[f] = [pid |-> p, page |-> job[t].page] /\ f \in Frame
    BY DEF Holding
  <2>3. f \in PagesOf(p) /\ table[f].page = job[t].page
    BY <2>2 DEF PagesOf
  <2>4. job[t].page \notin pages[p]
    BY <1>6 DEF FreePage, At, TypeInv, RequestsFit, RequestFits, KInv, Prepares
  <2>5. \A n \in pages[p] : \A g \in {f} : table[g].page # n
    BY <2>3, <2>4
  <2>. QED  BY <1>1, <1>4, <2>1, <2>3, <2>5 DEF Accessing
<1>. QED  BY <1>3, <1>5, <1>6
-----------------------------------------------------------------------------
(* The pages stay where they are, and so do their bytes. *)

\* The access is to f, which has the page that was asked for.
Accesses(t, p, f) ==
    /\ f = FrameOf(job[t]) /\ table[f] = [pid |-> p, page |-> job[t].page] /\ job[t].page \in Page
    /\ \A g \in Frame : g # f => content'[g] = content[g]
    /\ content'[f] = IF job[t].op = "read" THEN content[f] ELSE <<p, job[t].page>>

LEMMA AccessStep ==
    ASSUME TypeInv, OneRequest, EntriesMatch, AllFound, KInv, NEW t \in Thread, Access(t),
           NEW p \in Pid, p = job[t].pid
    PROVE  /\ table' = table /\ UNCHANGED clientVars /\ TableFits'
           /\ \E f \in Frame : Accesses(t, p, f)
<1>. DEFINE f == FrameOf(job[t])
<1>1. /\ job[t].at = "access" /\ FrameOf(job[t]) # None
      /\ UNCHANGED <<table, clientVars>> /\ Written(t, f)
  BY AccessFields DEF TypeInv
<1>2. f \in Frame /\ table[f] = [pid |-> p, page |-> job[t].page] /\ job[t].page \in Page
  BY <1>1, AccessReaches DEF KInv
<1>3. /\ TableFits'
      /\ \A g \in Frame : g # f => content'[g] = content[g]
      /\ content'[f] = IF job[t].op = "read" THEN content[f] ELSE <<p, job[t].page>>
  BY <1>1, <1>2, WritingFits DEF KInv, clientVars
<1>4. Accesses(t, p, f)
  BY <1>2, <1>3 DEF Accesses
<1>. HIDE DEF f
<1>. QED  BY <1>1, <1>2, <1>3, <1>4

LEMMA TableFitsKept ==
    ASSUME IInv, KInv, NEW t \in Thread, Serve(t)
    PROVE  TableFits'
<1>. USE DEF IInv
<1>0. PICK p \in Pid : p = job[t].pid
  BY ServesARequest
<1>1. CASE UNCHANGED <<tableVars, nextPage>>
  BY <1>1 DEF tableVars, KInv, TableFits, OneFrame, BytesFit, PagesBelow
<1>2. CASE StartProgram(t)
  BY <1>0, <1>2, StartProgramStep
<1>3. CASE AddPages(t)
  BY <1>0, <1>3, AddPagesStep
<1>4. CASE AddPage(t)
  <2>1. PICK n \in Page : n = job[t].page
    BY <1>4 DEF AddPage, At, TypeInv, RequestsFit, RequestFits, UnderMemMutex
  <2>. QED  BY <1>0, <1>4, <2>1, AddPageStep
<1>5. CASE FinishProgram(t) \/ FreePage(t)
  BY <1>0, <1>5, ClearingStep
<1>6. CASE Access(t)
  BY <1>0, <1>6, AccessStep
<1>. QED  BY <1>1, <1>2, <1>3, <1>4, <1>5, <1>6, ServeKinds

\* Every page that the clients take a program to have is in a frame.
LEMMA PagesPresentKept ==
    ASSUME IInv, KInv, NEW t \in Thread, Serve(t)
    PROVE  PagesPresent'
<1>. USE DEF IInv
<1>0. PICK p \in Pid : p = job[t].pid
  BY ServesARequest
<1>1. \A q \in Pid : pages[q] \subseteq Page /\ \A n \in pages[q] : Holding(q, n) # {}
  BY DEF KInv, PagesPresent, TypeInv, TypeOK
<1>2. ASSUME PagesStay, UNCHANGED pages
      PROVE  PagesPresent'
  BY <1>1, <1>2 DEF PagesStay, PagesPresent
<1>3. ASSUME UNCHANGED <<table, pages>>
      PROVE  PagesPresent'
  BY <1>1, <1>3 DEF PagesPresent, Holding
<1>4. CASE StartProgram(t) \/ AddPages(t)
  BY <1>0, <1>2, <1>4, StartProgramStep, AddPagesStep DEF clientVars
<1>5. CASE AddPage(t)
  <2>1. PICK n \in Page : n = job[t].page
    BY <1>5 DEF AddPage, At, TypeInv, RequestsFit, RequestFits, UnderMemMutex
  <2>2. pages' = [pages EXCEPT ![p] = @ \cup {n}] /\ PagesStay /\ Holding(p, n)' # {}
    BY <1>0, <1>5, <2>1, AddPageStep
  <2>3. \A q \in Pid : pages'[q] = IF q = p THEN pages[p] \cup {n} ELSE pages[q]
    BY <2>2 DEF TypeInv, TypeOK
  <2>. QED  BY <1>1, <2>2, <2>3 DEF PagesPresent, PagesStay
<1>6. CASE FinishProgram(t) \/ FreePage(t)
  BY <1>0, <1>6, ClearingStep
<1>7. CASE Access(t)
  BY <1>0, <1>3, <1>7, AccessStep DEF clientVars
<1>8. CASE UNCHANGED tableVars /\ ~AddPage(t)
  <2>1. UNCHANGED clientVars \/ Answer(t)
    BY <1>8, RequestGoesOn
  <2>2. CASE UNCHANGED clientVars
    BY <1>3, <1>8, <2>2 DEF tableVars, clientVars
  <2>3. CASE Answer(t) /\ More(t)
    BY <1>3, <1>8, <2>3, MoreFields DEF tableVars, TypeInv
  <2>4. CASE Answer(t) /\ ~More(t) /\ job[t].op # "start"
    BY <1>3, <1>8, <2>4, LastFields DEF tableVars
  <2>5. CASE Answer(t) /\ ~More(t) /\ job[t].op = "start"
    <3>1. /\ pages' = [pages EXCEPT ![p] = 0 .. CodePages[p] + StackSize - 1]
          /\ job[t].at = "answer"
      BY <1>0, <2>5, LastFields, AnswerFields
    <3>2. \A n \in 0 .. CodePages[p] + StackSize - 1 : Holding(p, n) # {}
      BY <1>0, <2>5, <3>1 DEF KInv, Prepares, Accessing
    <3>3. \A q \in Pid : pages'[q] = IF q = p THEN 0 .. CodePages[p] + StackSize - 1 ELSE pages[q]
      BY <3>1 DEF TypeInv, TypeOK
    <3>4. \A q \in Pid, n \in Int : Holding(q, n)' = Holding(q, n)
      BY <1>8 DEF Holding, tableVars
    <3>5. ASSUME NEW q \in Pid, NEW n \in pages'[q]
          PROVE  Holding(q, n) # {} /\ n \in Int
      <4>1. CASE q = p
        <5>1. n \in 0 .. CodePages[p] + StackSize - 1
          BY <3>3, <3>5, <4>1
        <5>2. CodePages[p] + StackSize - 1 \in Int
          BY SizesAreRight
        <5>. QED  BY <3>2, <4>1, <5>1, <5>2
      <4>2. CASE q # p
        BY <1>1, <3>3, <3>5, <4>2, SizesAreRight DEF Page
      <4>. QED  BY <4>1, <4>2
    <3>. QED  BY <3>4, <3>5 DEF PagesPresent
  <2>. QED  BY <2>1, <2>2, <2>3, <2>4, <2>5
<1>. QED  BY <1>4, <1>5, <1>6, <1>7, <1>8, ServeKinds

\* The code of a program that has started is in its frames.
LEMMA CodeStoredKept ==
    ASSUME IInv, KInv, NEW t \in Thread, Serve(t)
    PROVE  CodeStored'
<1>. USE DEF IInv
<1>0. PICK p \in Pid : p = job[t].pid
  BY ServesARequest
<1>. SUFFICES ASSUME NEW f \in Frame, NEW q \in Pid, table'[f].pid = q, pages'[q] # {},
                     table'[f].page < CodePages[q]
              PROVE  content'[f] # Clean
  BY DEF CodeStored
<1>1. table[f].pid = q /\ pages[q] # {} /\ table[f].page < CodePages[q] => content[f] # Clean
  BY DEF KInv, CodeStored
<1>2. None \notin Pid /\ p # None
  BY NamesAreDistinct
<1>3. CASE StartProgram(t) \/ AddPages(t)
  <2>1. /\ job[t].op = "start" /\ UNCHANGED <<content, clientVars>>
        /\ table'[f] = table[f] \/ q = p
    BY <1>0, <1>3, StartProgramStep, AddPagesStep
  <2>2. pages[p] = {}
    BY <1>0, <1>2, <2>1 DEF OneRequest
  <2>. QED  BY <1>1, <2>1, <2>2 DEF clientVars
<1>4. CASE AddPage(t)
  <2>1. PICK n \in Page : n = job[t].page
    BY <1>4 DEF AddPage, At, TypeInv, RequestsFit, RequestFits, UnderMemMutex
  <2>2. /\ UNCHANGED content /\ pages[p] # {}
        /\ table'[f] = table[f] \/ (table'[f].pid = p /\ table'[f].page = n /\ n >= CodePages[p])
    BY <1>0, <1>4, <2>1, AddPageStep
  <2>3. CodePages[p] \in Nat /\ n \in Nat
    BY SizesAreRight DEF Page
  <2>4. table'[f] = table[f]
    BY <2>2, <2>3
  <2>5. pages[q] # {}
    BY <1>0, <2>2, OthersPages
  <2>. QED  BY <1>1, <2>2, <2>4, <2>5
<1>5. CASE FinishProgram(t) \/ FreePage(t)
  <2>1. UNCHANGED clientVars /\ table'[f] = table[f] /\ content'[f] = content[f]
    BY <1>0, <1>2, <1>5, ClearingStep
  <2>. QED  BY <1>1, <2>1 DEF clientVars
<1>6. CASE Access(t)
  <2>1. PICK g \in Frame : Accesses(t, p, g)
    BY <1>0, <1>6, AccessStep
  <2>2. table' = table /\ UNCHANGED clientVars
    BY <1>0, <1>6, AccessStep
  <2>3. content'[f] = content[f] \/ content'[f] = <<p, job[t].page>>
    BY <2>1 DEF Accesses
  <2>. QED  BY <1>1, <2>2, <2>3, NotClean DEF clientVars
<1>7. CASE UNCHANGED tableVars /\ ~AddPage(t)
  <2>1. table' = table /\ content' = content
    BY <1>7 DEF tableVars
  <2>2. CASE pages[q] # {}
    BY <1>1, <2>1, <2>2
  <2>3. CASE pages[q] = {}
    <3>1. q = p /\ Answer(t)
      BY <1>0, <1>7, <2>3, OthersPages, RequestGoesOn DEF clientVars
    <3>2. ~More(t) /\ job[t].op = "start" /\ job[t].at = "answer"
      BY <1>0, <2>3, <3>1, MoreFields, LastFields, AnswerFields DEF TypeInv
    <3>3. /\ job[t].page \in Page /\ job[t].page < CodePages[p]
          /\ \A g \in PagesOf(p) : table[g].page < job[t].page \/ table[g].page = job[t].page => content[g] # Clean
      BY <1>0, <3>2 DEF KInv, Prepares, Accessing, PastAccess
    <3>4. ~(job[t].page + 1 < CodePages[p])
      BY <1>0, <3>2 DEF More
    <3>5. f \in PagesOf(p)
      BY <2>1, <3>1 DEF PagesOf
    <3>6. table[f].page < CodePages[p] /\ table[f].page \in Page
      BY <2>1, <3>1 DEF TypeInv, TypeOK
    <3>7. table[f].page < job[t].page \/ table[f].page = job[t].page
      <4>1. CodePages[p] \in Nat /\ job[t].page \in Nat /\ table[f].page \in Nat
        BY <3>3, <3>6, SizesAreRight DEF Page
      <4>. QED  BY <3>3, <3>4, <3>6, <4>1
    <3>. QED  BY <2>1, <3>3, <3>5, <3>7
  <2>. QED  BY <2>2, <2>3
<1>. QED  BY <1>3, <1>4, <1>5, <1>6, <1>7, ServeKinds
-----------------------------------------------------------------------------
(* What the requests of the kernel have counted and placed. *)

LEMMA PreparesKeptByOthers ==
    ASSUME IInv, KInv, NEW t \in Thread, Serve(t), NEW u \in Thread \ {t}
    PROVE  Prepares(u)'
<1>. USE DEF IInv
<1>. DEFINE j == job[u]
<1>0. job'[u] = j
  BY RequestGoesOn
<1>1. PICK p \in Pid : p = job[t].pid
  BY ServesARequest
<1>2. CASE u # Kernel
  <2>1. /\ j.op \notin {"start", "addPage", "freePage"} /\ j.at \notin {"code", "page", "stack"}
        /\ j.at = "idle" => j.op = "none"
    BY <1>2 DEF KInv, Prepares, TypeInv, RequestsFit, RequestFits, UnderMemMutex
  <2>. QED  BY <1>0, <2>1 DEF Prepares
<1>3. CASE u = Kernel /\ j.at = "idle"
  <2>1. j.op = "none"
    BY <1>3 DEF KInv, Prepares
  <2>. QED  BY <1>0, <1>3, <2>1 DEF Prepares
<1>4. CASE u = Kernel /\ j.at # "idle"
  <2>1. PICK q \in Pid : q = j.pid
    BY <1>4, RequestOfPid
  <2>2. q # p /\ table' = table /\ nextPage' = nextPage /\ pages'[q] = pages[q]
    <3>1. q # p
      BY <1>1, <2>1, NamesAreDistinct DEF OneRequest
    <3>. QED  BY <1>1, <1>4, <3>1, OnlyTheKernelPlaces, OthersPages
  <2>3. \A f \in PagesOf(q) : content'[f] = content[f]
    <3>1. CASE UNCHANGED tableVars
      BY <3>1 DEF tableVars
    <3>2. CASE Access(t)
      <4>1. PICK g \in Frame : Accesses(t, p, g)
        BY <1>1, <3>2, AccessStep
      <4>2. table[g].pid # q
        BY <2>2, <4>1 DEF Accesses
      <4>. QED  BY <4>1, <4>2 DEF Accesses, PagesOf
    <3>3. CASE StartProgram(t) \/ AddPages(t) \/ AddPage(t) \/ FinishProgram(t) \/ FreePage(t)
      BY <1>4, <3>3 DEF StartProgram, AddPages, AddPage, FinishProgram, FreePage, At, TypeInv, RequestsFit,
         RequestFits, UnderMemMutex
    <3>. QED  BY <3>1, <3>2, <3>3, ServeKinds
  <2>4. PagesOf(q)' = PagesOf(q) /\ FreeFrames' = FreeFrames /\ \A n : Holding(q, n)' = Holding(q, n)
    BY <2>2 DEF PagesOf, FreeFrames, Holding
  <2>5. Prepares(u)
    BY DEF KInv
  <2>. QED  BY <1>0, <2>1, <2>2, <2>3, <2>4, <2>5 DEF Prepares, Needed
<1>. QED  BY <1>2, <1>3, <1>4

\* A request that ended.
LEMMA EndPrepares ==
    ASSUME TypeInv, NEW t \in Thread, Done(t)
    PROVE  Prepares(t)'
<1>1. job'[t].at = "idle" /\ job'[t].op = "none"
  BY DoneFields DEF TypeInv
<1>. QED  BY <1>1 DEF Prepares, Accessing

\* One that goes on, while the table and the clients stay as they are.
LEMMA StepPrepares ==
    ASSUME TypeInv, KInv, NEW t \in Thread, UNCHANGED <<tableVars, clientVars>>,
           job'[t].op = job[t].op, job'[t].pid = job[t].pid, job'[t].page = job[t].page,
           job'[t].at \notin {"idle", "code", "page", "stack"},
           job[t].op = "start" /\ job'[t].at \in Accessing =>
               /\ job[t].at \in Accessing
               /\ job'[t].at \in PastAccess => job[t].at \in PastAccess,
           job'[t].at \notin Accessing => job[t].at \notin Accessing
    PROVE  Prepares(t)'
<1>1. Prepares(t)
  BY DEF KInv
<1>2. \A p, n : PagesOf(p)' = PagesOf(p) /\ Holding(p, n)' = Holding(p, n)
  BY DEF PagesOf, Holding, tableVars
<1>. QED  BY <1>1, <1>2 DEF Prepares, tableVars, clientVars

LEMMA PlacingPrepares ==
    ASSUME IInv, KInv, NEW t \in Thread, StartProgram(t) \/ AddPages(t)
    PROVE  Prepares(t)'
<1>. USE DEF IInv
<1>0. PICK p \in Pid : p = job[t].pid
  BY RequestOfPid DEF StartProgram, AddPages, At
<1>1. job'[t].op = job[t].op /\ job'[t].pid = p /\ job'[t].page = job[t].page
  BY <1>0, GoFields DEF StartProgram, AddPages, TypeInv
<1>2. CASE StartProgram(t)
  <2>1. /\ job[t].op = "start" /\ job'[t].at = "stack" /\ UNCHANGED clientVars
        /\ StackSize <= Cardinality(FreeFrames)'
        /\ \A f \in PagesOf(p)' : table'[f].page < CodePages[p]
        /\ \A n \in 0 .. CodePages[p] - 1 : Holding(p, n)' # {}
    BY <1>0, <1>2, StartProgramStep
  <2>2. nextPage[p] = CodePages[p] + StackSize /\ job[t].page = 0
    <3>1. job[t].at = "code"
      BY <1>2 DEF StartProgram, At
    <3>. QED  BY <1>0, <2>1, <3>1 DEF KInv, Prepares, Accessing
  <2>. QED  BY <1>1, <2>1, <2>2 DEF Prepares, Accessing, clientVars
<1>3. CASE AddPages(t)
  <2>1. /\ job[t].op = "start" /\ job[t].at = "stack" /\ job'[t].at = "search" /\ UNCHANGED clientVars
        /\ \A n \in 0 .. CodePages[p] + StackSize - 1 : Holding(p, n)' # {}
    BY <1>0, <1>3, AddPagesStep
  <2>2. nextPage[p] = CodePages[p] + StackSize /\ job[t].page = 0
    BY <1>0, <2>1 DEF KInv, Prepares, Accessing
  <2>3. 0 \in Page /\ 0 < CodePages[p]
    BY SizesAreRight DEF Page
  <2>4. \A f \in PagesOf(p)' : ~(table'[f].page < 0)
    BY <1>3, ServeTyped, SizesAreRight DEF Serve, PagesOf, TypeInv, TypeOK, Page
  <2>. QED  BY <1>1, <2>1, <2>2, <2>3, <2>4 DEF Prepares, Accessing, PastAccess, clientVars
<1>. QED  BY <1>2, <1>3

\* A page of the code that is stored.
LEMMA AccessPrepares ==
    ASSUME IInv, KInv, NEW t \in Thread, Access(t)
    PROVE  Prepares(t)'
<1>. USE DEF IInv
<1>0. /\ job[t].at = "access" /\ job'[t].at \in {"enter", "answer"}
      /\ job'[t].op = job[t].op /\ job'[t].pid = job[t].pid /\ job'[t].page = job[t].page
  BY AccessFields DEF TypeInv
<1>1. PICK p \in Pid : p = job[t].pid
  BY <1>0, RequestOfPid
<1>10. PICK f \in Frame : Accesses(t, p, f)
  BY <1>1, AccessStep
<1>11. table' = table /\ UNCHANGED clientVars
  BY <1>1, AccessStep
<1>2. /\ table[f] = [pid |-> p, page |-> job[t].page]
      /\ table' = table /\ UNCHANGED clientVars
      /\ \A g \in Frame : g # f => content'[g] = content[g]
      /\ content'[f] = IF job[t].op = "read" THEN content[f] ELSE <<p, job[t].page>>
  BY <1>10, <1>11 DEF Accesses
<1>3. job[t].op # "addPage" /\ job[t].op # "freePage"
  BY <1>0 DEF KInv, Reaches, Accessing
<1>4. CASE job[t].op # "start"
  BY <1>0, <1>3, <1>4 DEF Prepares
<1>5. CASE job[t].op = "start"
  <2>1. /\ nextPage[p] = CodePages[p] + StackSize
        /\ job[t].page \in Page /\ job[t].page < CodePages[p]
        /\ \A n \in 0 .. CodePages[p] + StackSize - 1 : Holding(p, n) # {}
        /\ \A g \in PagesOf(p) : table[g].page < job[t].page => content[g] # Clean
    BY <1>0, <1>1, <1>5 DEF KInv, Prepares, Accessing
  <2>2. ASSUME NEW g \in PagesOf(p), table[g].page < job[t].page \/ table[g].page = job[t].page
        PROVE  content'[g] # Clean
    <3>1. CASE g = f
      BY <1>2, <1>5, <3>1, NotClean
    <3>2. CASE g # f
      <4>1. g \in Frame /\ table[g].pid = p /\ content'[g] = content[g]
        BY <1>2, <3>2 DEF PagesOf
      <4>2. table[g].page # job[t].page
        <5>1. SUFFICES ASSUME table[g].page = job[t].page PROVE FALSE
          OBVIOUS
        <5>2. table[g] = table[f]
          BY <1>2, <4>1, <5>1 DEF TypeInv, TypeOK
        <5>. QED  BY <3>2, <4>1, <5>2 DEF KInv, TableFits, OneFrame
      <4>. QED  BY <2>1, <2>2, <4>1, <4>2
    <3>. QED  BY <3>1, <3>2
  <2>3. PagesOf(p)' = PagesOf(p) /\ \A n : Holding(p, n)' = Holding(p, n)
    BY <1>2 DEF PagesOf, Holding
  <2>. QED  BY <1>0, <1>1, <1>2, <1>5, <2>1, <2>2, <2>3 DEF Prepares, clientVars, Accessing, PastAccess
<1>. QED  BY <1>4, <1>5

LEMMA PreparesKeptOwn ==
    ASSUME IInv, KInv, NEW t \in Thread, Serve(t)
    PROVE  Prepares(t)'
<1>. USE DEF IInv, At, tableVars, cacheVars
<1>. DEFINE Stays == /\ job'[t].op = job[t].op /\ job'[t].pid = job[t].pid /\ job'[t].page = job[t].page
                     /\ UNCHANGED <<tableVars, clientVars>>
<1>0. Prepares(t) /\ Reaches(t)
  BY DEF KInv
<1>1. CASE LockMemory(t)
  <2>1. Stays /\ job[t].at = "lock" /\ job'[t].at \in {"check", "finish", "free"}
    BY <1>1, GoFields DEF LockMemory, TypeInv
  <2>. QED  BY <2>1, StepPrepares DEF Accessing
<1>2. CASE HasAvailableFrames(t)
  <2>1. CASE Done(t)
    BY <2>1, EndPrepares
  <2>2. CASE ~Done(t)
    <3>1. /\ Stays /\ job[t].at = "check" /\ job'[t].at \in {"code", "page"}
          /\ Needed(job[t]) <= Cardinality(FreeFrames)
      <4>1. Cardinality(FreeFrames) \in Nat
        BY FramesAreFinite DEF FreeFrames
      <4>2. Needed(job[t]) \in Nat
        BY <1>2, SizesAreRight, RequestOfPid DEF Needed, HasAvailableFrames
      <4>. QED  BY <1>2, <2>2, <4>1, <4>2, GoFields DEF HasAvailableFrames, TypeInv
    <3>2. Needed(job[t])' = Needed(job[t]) /\ FreeFrames' = FreeFrames
      BY <3>1 DEF Needed, FreeFrames
    <3>. QED  BY <1>0, <3>1, <3>2 DEF Prepares, Accessing, clientVars
  <2>. QED  BY <2>1, <2>2
<1>3. CASE StartProgram(t) \/ AddPages(t)
  BY <1>3, PlacingPrepares
<1>4. CASE AddPage(t) \/ Uncache(t) \/ (Answer(t) /\ ~More(t))
  BY <1>4, EndPrepares, LastFields DEF AddPage, Uncache
<1>5. CASE FinishProgram(t)
  <2>1. job'[t].op = "finish" /\ job'[t].at = "uncache"
    BY <1>5, GoFields DEF FinishProgram, TypeInv, RequestsFit, RequestFits
  <2>. QED  BY <2>1 DEF Prepares, Accessing
<1>6. CASE FreePage(t)
  <2>1. /\ job'[t].op = "freePage" /\ job'[t].at \in {"free", "uncache"} /\ UNCHANGED clientVars
        /\ job[t].op = "freePage" /\ job'[t].pid = job[t].pid /\ job'[t].page = job[t].page
    BY <1>6, GoFields DEF FreePage, TypeInv, RequestsFit, RequestFits
  <2>. QED  BY <1>0, <2>1 DEF Prepares, Accessing, clientVars
<1>7. CASE GetFrame(t) \/ GetPageFromPointer(t)
  <2>1. job[t].at \in {"frame", "pointer"} /\ job'[t].op = job[t].op /\ job'[t].at \in {"pointer", "search"}
    BY <1>7, GetFrameFields, PointerFields DEF GetFrame, TypeInv
  <2>2. job'[t].op \in {"read", "store"}
    BY <1>0, <2>1 DEF Reaches, Accessing
  <2>. QED  BY <2>1, <2>2 DEF Prepares
<1>8. CASE ExistsInCache(t)
  <2>1. Stays /\ job[t].at = "search" /\ job'[t].at \in {"cached", "table"}
    BY <1>8, GoFields DEF ExistsInCache, TypeInv
  <2>. QED  BY <2>1, StepPrepares DEF Accessing, PastAccess
<1>9. CASE GetFromCache(t)
  <2>1. Stays /\ job[t].at = "cached" /\ job'[t].at \in {"cached", "access"}
    BY <1>9, GetFromCacheFields DEF GetFromCache, TypeInv
  <2>. QED  BY <2>1, StepPrepares DEF Accessing, PastAccess
<1>10. CASE FindInTable(t)
  <2>1. Stays /\ job[t].at = "table" /\ job'[t].at = "access"
    BY <1>10, FindInTableFields DEF FindInTable, TypeInv
  <2>. QED  BY <2>1, StepPrepares DEF Accessing, PastAccess
<1>11. CASE Access(t)
  BY <1>11, AccessPrepares
<1>12. CASE AccessNothing(t)
  <2>1. job[t].at = "access" /\ job'[t].at = "answer" /\ job'[t].op = job[t].op /\ job[t].page = NoPage
    BY <1>0, <1>12, GoFields, AccessFinds DEF AccessNothing, TypeInv
  <2>2. NoPage \notin Page
    BY SizesAreRight DEF Page, NoPage
  <2>3. job'[t].op \in {"read", "store"}
    BY <1>0, <2>1, <2>2 DEF Prepares, Reaches, Accessing
  <2>. QED  BY <2>1, <2>3 DEF Prepares
<1>13. CASE StoreInCache(t) \/ NameEntry(t) \/ IncreaseCacheLru(t)
  <2>1. Stays /\ job[t].at \in PastAccess /\ job'[t].at \in {"name", "age", "answer"}
    BY <1>13, StoreInCacheFields, NameEntryFields, GoFields DEF IncreaseCacheLru, TypeInv, PastAccess
  <2>. QED  BY <2>1, StepPrepares DEF Accessing, PastAccess
<1>14. CASE Answer(t) /\ More(t)
  <2>1. /\ job[t].at = "answer" /\ job[t].op = "start" /\ UNCHANGED <<tableVars, clientVars>>
        /\ job'[t].at = "search" /\ job'[t].op = "start" /\ job'[t].pid = job[t].pid
        /\ job'[t].page = job[t].page + 1
    BY <1>14, AnswerFields, MoreFields DEF TypeInv, clientVars
  <2>2. PICK p \in Pid : p = job[t].pid
    BY <2>1, RequestOfPid
  <2>3. /\ nextPage[p] = CodePages[p] + StackSize
        /\ job[t].page \in Page
        /\ \A n \in 0 .. CodePages[p] + StackSize - 1 : Holding(p, n) # {}
        /\ \A f \in PagesOf(p) : table[f].page < job[t].page \/ table[f].page = job[t].page => content[f] # Clean
    BY <1>0, <2>1, <2>2 DEF Prepares, Accessing, PastAccess
  <2>4. job[t].page + 1 < CodePages[p] /\ CodePages[p] <= MaxPage + 1
    BY <1>14, <2>2, SizesAreRight DEF More
  <2>5. job[t].page + 1 \in Page
    BY <2>3, <2>4, SizesAreRight DEF Page
  <2>6. ASSUME NEW f \in PagesOf(p), table[f].page < job[t].page + 1
        PROVE  content[f] # Clean
    <3>1. table[f].page \in Nat /\ job[t].page \in Nat
      BY <2>3, SizesAreRight DEF PagesOf, Page, TypeInv, TypeOK
    <3>. QED  BY <2>3, <2>6, <3>1
  <2>7. PagesOf(p)' = PagesOf(p) /\ \A n : Holding(p, n)' = Holding(p, n)
    BY <2>1 DEF PagesOf, Holding
  <2>. QED  BY <2>1, <2>2, <2>3, <2>4, <2>5, <2>6, <2>7 DEF Prepares, Accessing, PastAccess, clientVars
<1>. QED  BY <1>1, <1>2, <1>3, <1>4, <1>5, <1>6, <1>7, <1>8, <1>9, <1>10, <1>11, <1>12, <1>13, <1>14 DEF Serve
-----------------------------------------------------------------------------
(* What the accesses find. *)

\* The entries that a request follows, and the one that it writes, are touched by no other.
LEMMA EntriesStay ==
    ASSUME IInv, KInv, RoomForAll, NEW t \in Thread, Serve(t), NEW u \in Thread \ {t}, NEW s \in Slot
    PROVE  /\ job[u].pid \in Pid /\ cache[s].pid = job[u].pid => cache'[s] = cache[s]
           /\ job[u].at = "name" => cache'[s] = cache[s]
<1>. USE DEF IInv
<1>0. None \notin Pid
  BY NamesAreDistinct
<1>1. CASE UNCHANGED cache
  BY <1>1
<1>2. CASE Uncache(t)
  <2>1. Free("cache") /\ (s \notin Dropped(job[t]) => cache'[s] = cache[s])
    BY <1>2, UncacheFields
  <2>2. job[u].at # "name"
    BY <2>1, NobodyNames
  <2>3. job[u].pid \in Pid /\ cache[s].pid = job[u].pid => s \notin Dropped(job[t])
    BY <1>0 DEF Dropped, Entries, OneRequest
  <2>. QED  BY <2>1, <2>2, <2>3
<1>3. CASE StoreInCache(t) /\ job'[t].at = "name"
  <2>1. /\ job[t].at = "enter" /\ Free("cache") /\ BelowShare(table[job[t].frame].pid)
        /\ job'[t].slot \in Victims
        /\ s # job'[t].slot => cache'[s] = cache[s]
    BY <1>3, StoreInCacheFields DEF TypeInv
  <2>2. job[u].at # "name"
    BY <2>1, NobodyNames
  <2>3. table[job[t].frame] = [pid |-> job[t].pid, page |-> job[t].page] /\ job[t].pid \in Pid
    BY <2>1, RequestOfPid DEF AllFound, Found
  <2>4. Entries(None) # {}
    BY <2>1, <2>3, RoomForOne DEF TypeInv
  <2>5. cache[job'[t].slot].pid = None
    BY <2>1, <2>4 DEF Victims, Entries
  <2>. QED  BY <1>0, <2>1, <2>2, <2>5
<1>4. CASE NameEntry(t)
  <2>1. job[t].at = "name" /\ (s # job[t].slot => cache'[s] = cache[s])
    BY <1>4, NameEntryFields
  <2>2. job[u].at # "name"
    BY <2>1, OneNames
  <2>3. cache[job[t].slot].pid = None
    BY <2>1 DEF KInv, Reaches
  <2>. QED  BY <1>0, <2>1, <2>2, <2>3
<1>. QED  BY <1>1, <1>2, <1>3, <1>4, CacheSteps

LEMMA ReachesKeptByOthers ==
    ASSUME IInv, KInv, RoomForAll, NEW t \in Thread, Serve(t), NEW u \in Thread \ {t}
    PROVE  Reaches(u)'
<1>. USE DEF IInv
<1>. DEFINE j == job[u]
<1>0. job'[u] = j /\ Reaches(u)
  BY RequestGoesOn DEF KInv
<1>1. CASE j.at = "idle"
  <2>1. j.op = "none"
    BY <1>1 DEF KInv, Prepares
  <2>. QED  BY <1>0, <1>1, <2>1 DEF Reaches, Accessing, PastAccess
<1>2. CASE j.at # "idle"
  <2>1. j.pid \in Pid /\ j.pid # None /\ j \in Jobs
    BY <1>2, RequestOfPid, NamesAreDistinct DEF TypeInv, TypeOK
  <2>2. j.pid # job[t].pid /\ pages'[j.pid] = pages[j.pid]
    <3>1. j.pid # job[t].pid
      BY <2>1 DEF OneRequest
    <3>. QED  BY <2>1, <3>1, OthersPages
  <2>3. ASSUME j.at = "pointer", j.frame # None
        PROVE  table'[j.frame] = table[j.frame]
    <3>1. table[j.frame] = [pid |-> j.pid, page |-> j.page] /\ j.frame \in Frame
      BY <1>0, <2>1, <2>3 DEF Reaches, Jobs
    <3>2. table[j.frame].pid = j.pid
      BY <3>1
    <3>. QED  BY <2>1, <2>2, <3>1, <3>2, TableSteps DEF ClearsFrame
  <2>4. ASSUME j.slot # None, j.at \in {"access", "name"}
        PROVE  cache'[j.slot] = cache[j.slot]
    <3>1. j.slot \in Slot
      BY <2>1, <2>4 DEF Jobs
    <3>2. CASE j.at = "name"
      BY <3>1, <3>2, EntriesStay
    <3>3. CASE j.at = "access"
      <4>1. cache[j.slot].pid = j.pid
        BY <1>0, <2>4, <3>3 DEF Reaches
      <4>. QED  BY <2>1, <3>1, <4>1, EntriesStay
    <3>. QED  BY <2>4, <3>2, <3>3
  <2>5. j.at = "name" => j.slot # None
    BY NamesAreDistinct DEF TypeInv, RequestsFit, RequestFits
  <2>. QED  BY <1>0, <2>2, <2>3, <2>4, <2>5 DEF Reaches
<1>. QED  BY <1>1, <1>2

\* The page of an access is in a frame.
LEMMA PageIsHeld ==
    ASSUME TypeInv, KInv, NEW t \in Thread, job[t].at \in Accessing, job[t].page # NoPage
    PROVE  job[t].page \in Page /\ Holding(job[t].pid, job[t].page) # {}
<1>. DEFINE j == job[t]
<1>1. PICK p \in Pid : p = j.pid
  BY RequestOfPid DEF Accessing
<1>2. CASE j.op = "start"
  <2>1. /\ j.page \in Page /\ j.page < CodePages[p]
        /\ \A n \in 0 .. CodePages[p] + StackSize - 1 : Holding(p, n) # {}
    BY <1>1, <1>2 DEF KInv, Prepares
  <2>2. j.page \in 0 .. CodePages[p] + StackSize - 1
    BY <2>1, SizesAreRight DEF Page
  <2>. QED  BY <1>1, <2>1, <2>2
<1>3. CASE j.op # "start"
  <2>1. j.page \in pages[p]
    BY <1>1, <1>3 DEF KInv, Reaches
  <2>2. pages[p] \subseteq Page
    BY DEF TypeInv, TypeOK
  <2>. QED  BY <1>1, <2>1, <2>2 DEF KInv, PagesPresent
<1>. QED  BY <1>2, <1>3

LEMMA EndReaches ==
    ASSUME TypeInv, NEW t \in Thread, Done(t)
    PROVE  Reaches(t)'
<1>1. job'[t].at = "idle" /\ job'[t].op = "none"
  BY DoneFields DEF TypeInv
<1>. QED  BY <1>1 DEF Reaches, Accessing, PastAccess

\* The bytes that a read answers.
LEMMA AccessReads ==
    ASSUME IInv, KInv, NEW t \in Thread, Access(t)
    PROVE  Reaches(t)'
<1>. USE DEF IInv
<1>. DEFINE j == job[t]
<1>0. /\ j.at = "access" /\ job'[t].at \in {"enter", "answer"}
      /\ job'[t].op = j.op /\ job'[t].pid = j.pid /\ job'[t].page = j.page
      /\ job'[t].got = content[FrameOf(j)]
  BY AccessFields DEF TypeInv
<1>1. PICK p \in Pid : p = j.pid
  BY <1>0, RequestOfPid
<1>10. PICK f \in Frame : Accesses(t, p, f)
  BY <1>1, AccessStep
<1>11. table' = table /\ UNCHANGED clientVars
  BY <1>1, AccessStep
<1>2. /\ f = FrameOf(j) /\ table[f] = [pid |-> p, page |-> j.page] /\ j.page \in Page
      /\ table' = table /\ UNCHANGED clientVars
  BY <1>10, <1>11 DEF Accesses
<1>3. j.op \in {"read", "store", "start"} /\ (j.op \in {"read", "store"} => j.page \in pages[p])
  <2>1. NoPage \notin Page
    BY SizesAreRight DEF Page, NoPage
  <2>. QED  BY <1>0, <1>1, <1>2, <2>1 DEF KInv, Reaches, Accessing
<1>4. ASSUME j.op = "read"
      PROVE  content[f] \in {<<p, j.page>>} \cup (IF j.page < CodePages[p] THEN {} ELSE {Clean})
  <2>1. table[f].pid = p /\ table[f].page = j.page
    BY <1>2
  <2>2. content[f] \in {Clean, <<p, j.page>>}
    BY <2>1 DEF KInv, TableFits, BytesFit
  <2>3. pages[p] # {}
    BY <1>3, <1>4
  <2>4. j.page < CodePages[p] => content[f] # Clean
    BY <2>1, <2>3 DEF KInv, CodeStored
  <2>. QED  BY <2>2, <2>4
<1>. QED  BY <1>0, <1>1, <1>2, <1>3, <1>4 DEF Reaches, clientVars

LEMMA ReachesKeptOwn ==
    ASSUME IInv, KInv, RoomForAll, NEW t \in Thread, Serve(t)
    PROVE  Reaches(t)'
<1>. USE DEF IInv, At, tableVars, cacheVars
<1>. DEFINE j == job[t]
            Stays == job'[t].op = j.op /\ job'[t].pid = j.pid /\ job'[t].page = j.page /\ UNCHANGED clientVars
<1>0. Reaches(t) /\ j \in Jobs
  BY DEF KInv, TypeInv, TypeOK
<1>1. CASE LockMemory(t) \/ HasAvailableFrames(t) \/ StartProgram(t) \/ FinishProgram(t) \/ FreePage(t)
  <2>1. CASE Done(t)
    BY <2>1, EndReaches
  <2>2. CASE ~Done(t)
    <3>1. /\ job'[t].op = j.op
          /\ job'[t].at \in {"check", "finish", "free", "code", "page", "stack", "uncache"}
      BY <1>1, <2>2, GoFields DEF LockMemory, HasAvailableFrames, StartProgram, FinishProgram, FreePage, TypeInv
    <3>2. j.op \notin {"read", "store"}
      BY <1>1 DEF LockMemory, HasAvailableFrames, StartProgram, FinishProgram, FreePage, TypeInv, RequestsFit, RequestFits
    <3>. QED  BY <3>1, <3>2 DEF Reaches, Accessing, PastAccess
  <2>. QED  BY <2>1, <2>2
<1>2. CASE AddPages(t)
  <2>1. job'[t].op = "start" /\ job'[t].at = "search"
    BY <1>2, GoFields DEF AddPages, TypeInv, RequestsFit, RequestFits
  <2>. QED  BY <2>1 DEF Reaches, Accessing, PastAccess
<1>3. CASE AddPage(t) \/ Uncache(t) \/ (Answer(t) /\ ~More(t))
  BY <1>3, EndReaches, LastFields DEF AddPage, Uncache
<1>4. CASE GetFrame(t)
  <2>1. /\ j.at = "frame" /\ job'[t].at = "pointer" /\ Stays
        /\ Holding(j.pid, j.page) # {} => job'[t].frame \in Holding(j.pid, j.page)
        /\ UNCHANGED table
    BY <1>4, GetFrameFields DEF GetFrame, TypeInv
  <2>2. job'[t].frame \in Holding(j.pid, j.page)
    BY <1>0, <2>1, PageIsHeld DEF Reaches, Accessing
  <2>3. job'[t].frame \in Frame /\ table[job'[t].frame] = [pid |-> j.pid, page |-> j.page]
    BY <2>2 DEF Holding
  <2>4. job'[t].frame # None
    BY <2>3, NamesAreDistinct
  <2>. QED  BY <1>0, <2>1, <2>3, <2>4 DEF Reaches, Accessing, PastAccess, clientVars
<1>5. CASE GetPageFromPointer(t)
  <2>1. /\ j.at = "pointer" /\ job'[t].at = "search" /\ job'[t].op = j.op /\ job'[t].pid = j.pid
        /\ job'[t].page = IF j.frame = None THEN NoPage ELSE table[j.frame].page
        /\ UNCHANGED clientVars
    BY <1>5, PointerFields DEF TypeInv
  <2>2. job'[t].page = j.page
    BY <1>0, <2>1 DEF Reaches
  <2>. QED  BY <1>0, <2>1, <2>2 DEF Reaches, Accessing, PastAccess, clientVars
<1>6. CASE ExistsInCache(t)
  <2>1. Stays /\ j.at = "search" /\ job'[t].at \in {"cached", "table"}
    BY <1>6, GoFields DEF ExistsInCache, TypeInv
  <2>. QED  BY <1>0, <2>1 DEF Reaches, Accessing, PastAccess, clientVars
<1>7. CASE GetFromCache(t)
  <2>1. CASE UNCHANGED job
    <3>1. UNCHANGED clientVars /\ j.at = "cached"
      BY <1>7 DEF GetFromCache
    <3>. QED  BY <1>0, <2>1, <3>1 DEF Reaches, Accessing, PastAccess, clientVars
  <2>2. CASE job' # job
    <3>1. Stays /\ j.at = "cached" /\ job'[t].at = "access" /\ job'[t].slot \in CachedAt(j) /\ UNCHANGED cache
      BY <1>7, <2>2, GetFromCacheFields DEF GetFromCache, TypeInv
    <3>2. cache[job'[t].slot].pid = j.pid /\ cache[job'[t].slot].page = j.page /\ job'[t].slot # None
      BY <3>1, NamesAreDistinct DEF CachedAt, Entries
    <3>. QED  BY <1>0, <3>1, <3>2 DEF Reaches, Accessing, PastAccess, clientVars
  <2>. QED  BY <2>1, <2>2
<1>8. CASE FindInTable(t)
  <2>1. /\ Stays /\ j.at = "table" /\ job'[t].at = "access" /\ job'[t].slot = j.slot
        /\ Holding(j.pid, j.page) # {} => job'[t].frame # None
    BY <1>8, FindInTableFields DEF FindInTable, TypeInv
  <2>2. j.slot = None
    BY <2>1 DEF TypeInv, RequestsFit, RequestFits
  <2>3. j.page # NoPage => job'[t].frame # None
    BY <2>1, PageIsHeld DEF Accessing
  <2>. QED  BY <1>0, <2>1, <2>2, <2>3 DEF Reaches, Accessing, PastAccess, clientVars
<1>9. CASE Access(t)
  BY <1>9, AccessReads
<1>10. CASE AccessNothing(t)
  <2>1. Stays /\ j.at = "access" /\ job'[t].at = "answer" /\ j.page = NoPage
    BY <1>0, <1>10, GoFields, AccessFinds DEF AccessNothing, TypeInv
  <2>. QED  BY <1>0, <2>1 DEF Reaches, Accessing, PastAccess, clientVars
<1>11. CASE StoreInCache(t)
  <2>1. /\ Stays /\ j.at = "enter" /\ job'[t].got = j.got
        /\ \/ /\ job'[t].at = "name" /\ job'[t].slot \in Slot /\ job'[t].slot \in Victims
              /\ BelowShare(table[j.frame].pid)
              /\ \A r \in Slot : cache'[r].pid = cache[r].pid
           \/ job'[t].at = "age"
    BY <1>11, StoreInCacheFields DEF TypeInv
  <2>2. ASSUME job'[t].at = "name"
        PROVE  cache'[job'[t].slot].pid = None
    <3>1. table[j.frame] = [pid |-> j.pid, page |-> j.page] /\ j.pid \in Pid
      BY <2>1, RequestOfPid DEF AllFound, Found
    <3>2. Entries(None) # {}
      BY <2>1, <2>2, <3>1, RoomForOne DEF TypeInv
    <3>. QED  BY <2>1, <2>2, <3>2 DEF Victims, Entries
  <2>. QED  BY <1>0, <2>1, <2>2 DEF Reaches, Accessing, PastAccess, clientVars
<1>12. CASE NameEntry(t) \/ IncreaseCacheLru(t)
  <2>1. Stays /\ j.at \in PastAccess /\ job'[t].at \in {"age", "answer"} /\ job'[t].got = j.got
    BY <1>12, NameEntryFields, GoFields DEF IncreaseCacheLru, TypeInv, PastAccess
  <2>. QED  BY <1>0, <2>1 DEF Reaches, Accessing, PastAccess, clientVars
<1>13. CASE Answer(t) /\ More(t)
  <2>1. job'[t].at = "search" /\ job'[t].op = "start"
    BY <1>13, MoreFields DEF TypeInv
  <2>. QED  BY <2>1 DEF Reaches, Accessing, PastAccess
<1>. QED  BY <1>1, <1>2, <1>3, <1>4, <1>5, <1>6, <1>7, <1>8, <1>9, <1>10, <1>11, <1>12, <1>13 DEF Serve
-----------------------------------------------------------------------------
LEMMA KInvKeptByClients ==
    ASSUME IInv, KInv, Clients
    PROVE  KInv'
<1>. USE DEF IInv
<1>1. PICK t \in Thread, p \in Pid, n \in Page \cup {NoPage} : Asked(t, p, n)
  BY ClientsAsk DEF TypeInv
<1>2. PICK op \in {"start", "finish", "addPage", "freePage", "read", "store"},
           point \in {"lock", "search", "frame", "pointer"} : Ask(t, op, p, n, point)
  BY <1>1 DEF Asked
<1>3. /\ job'[t].pid = p /\ job'[t].page = n /\ job'[t].slot = None /\ job'[t].frame = None
      /\ job'[t].at \in {"lock", "search", "frame", "pointer"}
      /\ \A u \in Thread \ {t} : job'[u] = job[u]
      /\ table' = table /\ content' = content /\ cache' = cache
      /\ job[t].at = "idle"
  <2>1. /\ job'[t].pid = p /\ job'[t].page = n /\ job'[t].slot = None /\ job'[t].frame = None
        /\ job'[t].at = point
        /\ \A u \in Thread \ {t} : job'[u] = job[u]
    BY <1>2, AskFields DEF TypeInv
  <2>2. job[t].at = "idle" /\ UNCHANGED <<tableVars, cacheVars>>
    BY <1>2 DEF Ask, At
  <2>. QED  BY <2>1, <2>2 DEF tableVars, cacheVars
<1>4. /\ \A q \in Pid : pages'[q] \subseteq pages[q]
      /\ \A q \in Pid \ {p} : pages'[q] = pages[q] /\ nextPage'[q] = nextPage[q]
      /\ nextPage[p] = 0 \/ ~Busy(p)
      /\ nextPage'[p] \in Nat /\ nextPage'[p] >= nextPage[p]
      /\ nextPage'[p] = 0 \/ nextPage'[p] >= CodePages[p] + StackSize
  <2>1. CASE /\ nextPage[p] = 0 /\ UNCHANGED pages
             /\ nextPage' = [nextPage EXCEPT ![p] = CodePages[p] + StackSize]
    <3>1. /\ nextPage'[p] = CodePages[p] + StackSize
          /\ \A q \in Pid \ {p} : nextPage'[q] = nextPage[q]
      BY <2>1 DEF TypeInv, TypeOK
    <3>2. CodePages[p] \in Nat /\ StackSize \in Nat
      BY SizesAreRight
    <3>3. CodePages[p] + StackSize \in Nat /\ CodePages[p] + StackSize >= 0
      BY <3>2
    <3>4. pages' = pages
      BY <2>1
    <3>. QED  BY <2>1, <3>1, <3>3, <3>4
  <2>2. CASE /\ ~Busy(p) /\ UNCHANGED nextPage
             /\ pages' = [pages EXCEPT ![p] = {}] \/ pages' = [pages EXCEPT ![p] = @ \ {n}] \/ UNCHANGED pages
    <3>1. /\ \A q \in Pid : pages'[q] \subseteq pages[q]
          /\ \A q \in Pid \ {p} : pages'[q] = pages[q]
      BY <2>2 DEF TypeInv, TypeOK
    <3>2. nextPage' = nextPage /\ nextPage[p] \in Nat
      BY <2>2 DEF TypeInv, TypeOK
    <3>. QED  BY <2>2, <3>1, <3>2 DEF KInv, TableFits, PagesBelow
  <2>. QED  BY <1>1, <2>1, <2>2 DEF Asked, clientVars
<1>5. TableFits'
  <2>1. OneFrame' /\ BytesFit'
    BY <1>3 DEF KInv, TableFits, OneFrame, BytesFit
  <2>2. ASSUME NEW f \in Frame, table[f].pid \in Pid
        PROVE  table[f].page < nextPage'[table[f].pid]
    <3>1. table[f].page < nextPage[table[f].pid]
      BY <2>2 DEF KInv, TableFits, PagesBelow
    <3>2. nextPage[p] \in Nat /\ table[f].page \in Nat
      BY SizesAreRight DEF TypeInv, TypeOK, Page
    <3>. QED  BY <1>4, <2>2, <3>1, <3>2
  <2>3. PagesBelow'
    BY <1>3, <1>4, <2>2 DEF KInv, TableFits, PagesBelow
  <2>. QED  BY <2>1, <2>3 DEF TableFits
<1>6. PagesPresent' /\ CodeStored'
  <2>1. PagesPresent'
    BY <1>3, <1>4 DEF KInv, PagesPresent, Holding
  <2>2. CodeStored'
    BY <1>3, <1>4 DEF KInv, CodeStored
  <2>. QED  BY <2>1, <2>2
<1>7. ASSUME NEW u \in Thread \ {t}
      PROVE  Prepares(u)' /\ Reaches(u)'
  <2>0. job'[u] = job[u] /\ Prepares(u) /\ Reaches(u)
    BY <1>3 DEF KInv
  <2>1. CASE job[u].at = "idle"
    BY <2>0, <2>1 DEF Prepares, Reaches, Accessing, PastAccess
  <2>2. CASE job[u].at # "idle"
    <3>1. job[u].pid \in Pid /\ job[u].pid # None
      BY <2>2, RequestOfPid, NamesAreDistinct
    <3>2. job[u].pid # p
      BY <1>4, <3>1 DEF OneRequest, Busy
    <3>3. pages'[job[u].pid] = pages[job[u].pid] /\ nextPage'[job[u].pid] = nextPage[job[u].pid]
      BY <1>4, <3>1, <3>2
    <3>4. FreeFrames' = FreeFrames /\ \A q, i : PagesOf(q)' = PagesOf(q) /\ Holding(q, i)' = Holding(q, i)
      BY <1>3 DEF FreeFrames, PagesOf, Holding
    <3>5. Prepares(u)'
      BY <1>3, <2>0, <3>3, <3>4 DEF Prepares, Needed
    <3>6. Reaches(u)'
      BY <1>3, <2>0, <3>3 DEF Reaches
    <3>. QED  BY <3>5, <3>6
  <2>. QED  BY <2>1, <2>2
<1>8. Prepares(t)' /\ Reaches(t)'
  <2>0. NoPage \notin Page /\ \A q \in Pid : pages[q] \subseteq Page
    BY SizesAreRight DEF Page, NoPage, TypeInv, TypeOK
  <2>1. CASE /\ Ask(t, "start", p, n, "lock") /\ n = 0
             /\ nextPage' = [nextPage EXCEPT ![p] = CodePages[p] + StackSize]
    <3>1. job'[t].op = "start" /\ job'[t].at = "lock" /\ nextPage'[p] = CodePages[p] + StackSize
      BY <2>1, AskFields DEF TypeInv, TypeOK
    <3>. QED  BY <1>3, <2>1, <3>1 DEF Prepares, Reaches, Accessing, PastAccess
  <2>2. CASE Ask(t, "finish", p, n, "lock")
    <3>1. job'[t].op = "finish" /\ job'[t].at = "lock"
      BY <2>2, AskFields DEF TypeInv
    <3>. QED  BY <1>3, <3>1 DEF Prepares, Reaches, Accessing, PastAccess
  <2>3. CASE Ask(t, "addPage", p, n, "lock") /\ n = nextPage[p] /\ UNCHANGED clientVars
    <3>1. job'[t].op = "addPage" /\ job'[t].at = "lock"
      BY <2>3, AskFields DEF TypeInv
    <3>. QED  BY <1>3, <2>3, <3>1 DEF Prepares, Reaches, Accessing, PastAccess, clientVars
  <2>4. CASE Ask(t, "freePage", p, n, "lock") /\ pages' = [pages EXCEPT ![p] = @ \ {n}]
    <3>1. job'[t].op = "freePage" /\ job'[t].at = "lock" /\ n \notin pages'[p]
      BY <2>4, AskFields DEF TypeInv, TypeOK
    <3>. QED  BY <1>3, <3>1 DEF Prepares, Reaches, Accessing, PastAccess
  <2>5. ASSUME NEW o \in {"read", "store"}, NEW at \in {"search", "frame", "pointer"}, Ask(t, o, p, n, at),
               IF at = "pointer" THEN Wild /\ n = NoPage ELSE n \in pages[p],
               UNCHANGED clientVars
        PROVE  Prepares(t)' /\ Reaches(t)'
    <3>1. job'[t].op = o /\ job'[t].at = at /\ pages' = pages
      BY <2>5, AskFields DEF TypeInv, clientVars
    <3>2. Prepares(t)'
      BY <3>1 DEF Prepares
    <3>3. Reaches(t)'
      BY <1>3, <2>0, <2>5, <3>1 DEF Reaches, Accessing, PastAccess
    <3>. QED  BY <3>2, <3>3
  <2>. QED  BY <1>1, <2>1, <2>2, <2>3, <2>4, <2>5 DEF Asked
<1>. QED  BY <1>5, <1>6, <1>7, <1>8 DEF KInv

LEMMA InitKInv == Init => KInv
<1>. SUFFICES ASSUME Init PROVE KInv
  OBVIOUS
<1>1. /\ \A t \in Thread : job[t].at = "idle" /\ job[t].op = "none"
      /\ \A f \in Frame : table[f].pid \notin Pid /\ content[f] = Clean
      /\ \A p \in Pid : pages[p] = {} /\ nextPage[p] = 0
  BY NamesAreDistinct DEF Init, Idle
<1>2. TableFits /\ PagesPresent /\ CodeStored
  BY <1>1 DEF TableFits, OneFrame, BytesFit, PagesBelow, PagesPresent, CodeStored
<1>3. \A t \in Thread : Prepares(t) /\ Reaches(t)
  BY <1>1 DEF Prepares, Reaches, Accessing, PastAccess
<1>. QED  BY <1>2, <1>3 DEF KInv

LEMMA KInvStutters ==
    ASSUME KInv, UNCHANGED vars
    PROVE  KInv'
<1>. USE DEF KInv, vars, tableVars, cacheVars, clientVars
<1>1. TableFits' /\ PagesPresent' /\ CodeStored'
  BY DEF TableFits, OneFrame, BytesFit, PagesBelow, PagesPresent, CodeStored, Holding
<1>2. \A t \in Thread : Prepares(t)'
  BY DEF Prepares, Needed, FreeFrames, PagesOf, Holding
<1>3. \A t \in Thread : Reaches(t)'
  BY DEF Reaches
<1>. QED  BY <1>1, <1>2, <1>3

LEMMA KInvKept ==
    ASSUME IInv, KInv, RoomForAll, [Next]_vars
    PROVE  KInv'
<1>1. ASSUME NEW t \in Thread, Serve(t)
      PROVE  KInv'
  <2>1. TableFits' /\ PagesPresent' /\ CodeStored'
    BY <1>1, TableFitsKept, PagesPresentKept, CodeStoredKept
  <2>2. \A u \in Thread : Prepares(u)'
    BY <1>1, PreparesKeptByOthers, PreparesKeptOwn
  <2>3. \A u \in Thread : Reaches(u)'
    BY <1>1, ReachesKeptByOthers, ReachesKeptOwn
  <2>. QED  BY <2>1, <2>2, <2>3 DEF KInv
<1>2. CASE Clients
  BY <1>2, KInvKeptByClients
<1>3. CASE Flush
  BY <1>3 DEF Flush, RoomForAll
<1>4. CASE UNCHANGED vars
  BY <1>4, KInvStutters
<1>. QED  BY <1>1, <1>2, <1>3, <1>4 DEF Next

LEMMA KInvHolds ==
    ASSUME RoomForAll
    PROVE  Spec => []KInv
<1>1. IInv /\ KInv /\ [Next]_vars => KInv'
  BY KInvKept
<1>. QED  BY <1>1, InitKInv, IInvHolds, PTL DEF Spec

(* With room in the cache for the share of every program, so that no entry is    *)
(* taken from one that is found: every page that the kernel and the CPUs take a  *)
(* program to have is in one frame, whose bytes are its own, and its code is as  *)
(* it was sent. The frames that i_start_program counts before are enough, and    *)
(* add_pages may number the stack by how many pages the program has.             *)
THEOREM PagesStayKept ==
    ASSUME RoomForAll
    PROVE  Spec => []PagesAreKept
<1>1. IInv /\ KInv => PagesAreKept
  <2>. SUFFICES ASSUME IInv, KInv, NEW p \in Pid, NEW n \in pages[p]
                PROVE  \E f \in Frame :
                           /\ Holding(p, n) = {f}
                           /\ content[f] \in {<<p, n>>} \cup (IF n < CodePages[p] THEN {} ELSE {Clean})
    BY DEF PagesAreKept
  <2>1. PICK f \in Frame : table[f] = [pid |-> p, page |-> n]
    BY DEF KInv, PagesPresent, Holding
  <2>2. table[f].pid = p /\ table[f].page = n
    BY <2>1
  <2>3. Holding(p, n) = {f}
    BY <2>1, <2>2 DEF KInv, TableFits, OneFrame, Holding
  <2>4. content[f] \in {Clean, <<p, n>>} /\ (n < CodePages[p] => content[f] # Clean)
    BY <2>2 DEF KInv, TableFits, BytesFit, CodeStored
  <2>. QED  BY <2>3, <2>4
<1>. QED  BY <1>1, IInvHolds, KInvHolds, PTL

(* read_bytes looks the page up under no lock, waits, and reads the frame that   *)
(* the entry of the cache or the table led it to: as long as entries are not     *)
(* taken away and no pointer leads outside the pages of its program, what it     *)
(* answers are the bytes of the page that was asked for.                         *)
THEOREM ReadsStayRight ==
    ASSUME RoomForAll, ~Wild
    PROVE  Spec => []ReadsTheRequestedPage
<1>1. IInv /\ KInv => ReadsTheRequestedPage
  <2>. SUFFICES ASSUME IInv, KInv, NEW t \in Thread, At(t, "answer"), job[t].op = "read"
                PROVE  job[t].got \in {<<job[t].pid, job[t].page>>}
                                        \cup (IF job[t].page < CodePages[job[t].pid] THEN {} ELSE {Clean})
    BY DEF ReadsTheRequestedPage
  <2>1. job[t].at = "answer"
    BY DEF At
  <2>2. job[t].pid \in Pid
    BY <2>1, RequestOfPid DEF IInv
  <2>3. job[t].page \in pages[job[t].pid]
    BY DEF KInv, Reaches
  <2>4. job[t].page # NoPage
    BY <2>2, <2>3, SizesAreRight DEF IInv, TypeInv, TypeOK, Page, NoPage
  <2>. QED  BY <2>1, <2>4 DEF KInv, Reaches, PastAccess
<1>. QED  BY <1>1, IInvHolds, KInvHolds, PTL
=============================================================================
