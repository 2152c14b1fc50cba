-------------------------- MODULE KernelHeap_proofs --------------------------
(* Proofs about KernelHeap: whatever is reserved and freed, the blocks of a   *)
(* page tile it, those in use are the ones that programs hold, the pages that *)
(* the kernel lists are those that the memory has granted, and free_size,     *)
(* which malloc_memory and free_memory keep by adding and taking off, agrees  *)
(* with the sizes in the headers of a page.                                   *)
EXTENDS KernelHeap, SequenceLemmas

\* No file is read while another program uses its heap.
NobodyOverlaps == ~Overlap
-----------------------------------------------------------------------------
(* A page of blocks, without walking it. *)

Tiles(b) ==
    /\ IsPage(b) /\ 0 \in DOMAIN b
    /\ \A o \in DOMAIN b : After(b, o) \in DOMAIN b \cup {PageSize}
    /\ \A o, q \in DOMAIN b : o < q => After(b, o) <= q

LiveOn(p, n) == {r \in DOMAIN live : r.pid = p /\ r.page = n}

\* An extent of a page is in use there, and is the only one that no program holds.
Held(p, n, b, r) == r \notin DOMAIN live /\ UsedOn(p, n, b) = LiveOn(p, n) \cup {r}
-----------------------------------------------------------------------------
(* The conversation with the memory. *)

HeapPages == FirstPage .. MaxPage

\* The requests that are waited for, which are all but those to finish a program.
Asking(w) == {i \in 1 .. Len(w) : w[i].op # "finish"}
AskedIn(w) == {w[i] : i \in Asking(w)}
Once(w) == \A i, k \in Asking(w) : i = k
LeavingIn(w, p) == \E i \in 1 .. Len(w) : w[i].op = "finish" /\ w[i].pid = p
Leaving(p) == LeavingIn(wire, p)
Waits == heap # IdleHeap \/ reader # IdleReader

\* Who waits has one request on the wire, or its answer.
OneRequest ==
    /\ Once(wire)
    /\ AskedIn(wire) # {} <=> Waits /\ ~answered
    /\ answered => Waits
    /\ heap = IdleHeap \/ reader = IdleReader
    /\ heap.at = "idle" => heap = IdleHeap
    /\ reader.at = "idle" => reader = IdleReader
    /\ ~lost

\* The program that a request is for has not ended, and one that is leaving has.
RunningFits ==
    /\ heap # IdleHeap => heap.pid \in running
    /\ reader # IdleReader => reader.pid \in running
    /\ \A p \in Pid : Leaving(p) => p \notin running /\ heapPages[p] = <<>>

\* A page that no request is about.
Fine(p, n) ==
    IF n \in DOMAIN memory[p]
    THEN Tiles(memory[p][n]) /\ LiveOn(p, n) = UsedOn(p, n, memory[p][n])
    ELSE LiveOn(p, n) = {}

Page(n) == memory[heap.pid][n]
There(n) == n \in DOMAIN memory[heap.pid]
Taking(n, offset) == Extent(Address(heap.pid, n, offset), heap.size)
Asks(op, n, offset, b) == AskedIn(wire) \subseteq {Request(op, heap.pid, n, offset, b)}
Wants(n) == heap.page = n /\ heap.size \in 1 .. MaxAlloc
Written(n) == answered => Page(n) = reply.buffer /\ reply.offsetAbs = Address(heap.pid, n, 0)
Found(n) == answered => reply.buffer = Page(n)

\* What malloc_memory waits for at each of its points, and what page n is then.
FitFits(n) ==
    /\ Asks("read", n, 0, Bare) /\ Wants(n) /\ Found(n)
    /\ There(n) /\ Fine(heap.pid, n) /\ NextPage(heap.pid) <= MaxPage

FittedFits(n) ==
    /\ Asks("store", n, 0, reply.buffer) /\ Wants(n) /\ Written(n)
    /\ There(n) /\ Tiles(Page(n)) /\ Tiles(reply.buffer)
    /\ Held(heap.pid, n, reply.buffer, Taking(n, heap.offset))

AddFits(n) ==
    /\ Asks("add", n, 0, Bare) /\ Wants(n)
    /\ n = NextPage(heap.pid) /\ LiveOn(heap.pid, n) = {}
    /\ There(n) <=> answered /\ reply.ok
    /\ There(n) => Page(n) = Bare

FormatFits(n) ==
    /\ Asks("read", n, 0, Bare) /\ Wants(n)
    /\ There(n) /\ Page(n) = Bare /\ LiveOn(heap.pid, n) = {}

FormattedFits(n) ==
    /\ Asks("store", n, 0, reply.buffer) /\ Wants(n) /\ Written(n)
    /\ There(n) /\ Tiles(reply.buffer)
    /\ Held(heap.pid, n, reply.buffer, Taking(n, HeaderSize))
    /\ ~answered => Page(n) = Bare

\* And for free_memory.
Freeing(n) ==
    /\ There(n) /\ Tiles(Page(n)) /\ heap.offset \in InUse(Page(n))
    /\ Held(heap.pid, n, Page(n),
            Extent(Address(heap.pid, n, heap.offset + HeaderSize), Page(n)[heap.offset].size))

PageFits(n) ==
    /\ Asks("pageOf", n, heap.offset + HeaderSize, Bare) /\ Freeing(n)
    /\ answered => reply.page = n

ReleaseFits(n) == Asks("read", n, 0, Bare) /\ Freeing(n) /\ reply.page = n /\ Found(n)

FreedFits(n) ==
    /\ Asks("free", n, 0, Bare) /\ reply.page = n /\ LiveOn(heap.pid, n) = {}
    /\ There(n) <=> ~answered
    /\ There(n) => Tiles(Page(n))

ReleasedFits(n) ==
    /\ Asks("store", n, 0, reply.buffer) /\ reply.page = n /\ Found(n)
    /\ There(n) /\ Tiles(Page(n)) /\ Tiles(reply.buffer)
    /\ LiveOn(heap.pid, n) = UsedOn(heap.pid, n, reply.buffer)

\* The request of the heap is about page n.
HeapFitsOn(n) ==
    /\ heap.at = "fit" => FitFits(n)
    /\ heap.at = "fitted" => FittedFits(n)
    /\ heap.at = "add" => AddFits(n)
    /\ heap.at = "format" => FormatFits(n)
    /\ heap.at = "formatted" => FormattedFits(n)
    /\ heap.at = "page" => PageFits(n)
    /\ heap.at = "release" => ReleaseFits(n)
    /\ heap.at = "freed" => FreedFits(n)
    /\ heap.at = "released" => ReleasedFits(n)
    /\ \A m \in HeapPages \ {n} : Fine(heap.pid, m)

HeapFits == heap # IdleHeap => \E n \in HeapPages : HeapFitsOn(n)

ReaderFits ==
    /\ reader.at = "page" =>
          /\ AskedIn(wire) \subseteq {Request("pageOf", reader.pid, StackPage, Variable, Bare)}
          /\ answered => reply.page = StackPage
    /\ reader.at = "stored" =>
          AskedIn(wire) \subseteq {Request("store", reader.pid, StackPage, Variable, Bare)}

\* The programs that wait for nothing.
LeftFine(p, n) == LiveOn(p, n) = {} /\ (n \in DOMAIN memory[p] => Tiles(memory[p][n]))
OtherFits(p) ==
    \A n \in HeapPages : /\ Leaving(p) => LeftFine(p, n)
                         /\ ~Leaving(p) /\ p # heap.pid => Fine(p, n)
OthersFit == \A p \in Pid : OtherFits(p)

\* The pages that the kernel takes a program to have.
KeptIn(s) == {h.page : h \in {h \in Range(s) : ~h.wasFreed}}
Kept(p) == KeptIn(heapPages[p])

Increasing(s) == \A i, k \in 1 .. Len(s) : i < k => s[i].page < s[k].page
GrantedFits(p) ==
    IF p = heap.pid /\ heap.at = "add" THEN DOMAIN memory[p] \ {heap.page} = Kept(p)
    ELSE IF p = heap.pid /\ heap.at = "freed" THEN DOMAIN memory[p] \cup {reply.page} = Kept(p)
    ELSE DOMAIN memory[p] = Kept(p)
ListFits(p) ==
    /\ \A i \in 1 .. Len(heapPages[p]) : heapPages[p][i].page \in HeapPages
    /\ Increasing(heapPages[p])
    /\ DOMAIN memory[p] \subseteq HeapPages
    /\ ~Leaving(p) => GrantedFits(p)
ListsFit == \A p \in Pid : ListFits(p)

\* A range is handed out once, on a page of the heap.
LiveFits == \A r \in DOMAIN live : live[r] = 1 /\ r.page \in HeapPages

TalkFits == OneRequest /\ RunningFits /\ ReaderFits
IInv == TypeOK /\ TalkFits /\ HeapFits /\ OthersFit /\ ListsFit /\ LiveFits

-----------------------------------------------------------------------------
(* The walks over a page. *)

\* A function on D that is defined from what it is further on; D ends at N.
IsWalk(f, D, Ends, next, own) == f = [o \in D |-> IF o \in Ends THEN {} ELSE own[o] \cup f[next[o]]]
Climbs(N, D, Ends, next) == N \in Nat /\ D \subseteq 0 .. N /\ \A o \in D \ Ends : next[o] \in D /\ next[o] > o

LEMMA WalkExists ==
    ASSUME NEW N, NEW D, NEW Ends, NEW next, NEW own, Climbs(N, D, Ends, next)
    PROVE  \E f : IsWalk(f, D, Ends, next, own)
<1>. DEFINE Part(n) == {o \in D : o + n > N}
            Walks(f, S) == IsWalk(f, S, Ends, next, own)
            Good(n) == \E f : Walks(f, Part(n))
            Bad == {n \in 0 .. N + 1 : ~Good(n)}
<1>0. N \in Nat /\ \A o \in D : o \in Nat /\ o <= N
  BY DEF Climbs
<1>1. Good(0)
  <2>1. Part(0) = {}
    <3>1. ASSUME NEW o \in D PROVE ~(o + 0 > N)
      <4>1. o \in Nat /\ o <= N
        BY <1>0
      <4>. QED  BY <1>0, <4>1
    <3>. QED  BY <1>0, <3>1
  <2>. DEFINE e == [o \in {} |-> {}]
  <2>2. Walks(e, {})
    BY DEF IsWalk
  <2>. QED  BY <2>1, <2>2
<1>2. ASSUME NEW m \in 1 .. N + 1, Good(m - 1)
      PROVE  Good(m)
  <2>1. PICK f : Walks(f, Part(m - 1))
    BY <1>2
  <2>. DEFINE g == [o \in Part(m) |-> IF o \in Ends THEN {} ELSE own[o] \cup f[next[o]]]
  <2>2. ASSUME NEW o \in Part(m), o \notin Ends
        PROVE  next[o] \in Part(m - 1)
    <3>1. o \in D /\ next[o] \in D /\ next[o] > o /\ o + m > N
      BY <2>2 DEF Climbs
    <3>2. o \in Nat /\ next[o] \in Nat
      BY <1>0, <3>1
    <3>3. next[o] + (m - 1) > N
      BY <1>0, <3>1, <3>2
    <3>. QED  BY <3>1, <3>3
  <2>3. \A o \in Part(m - 1) : o \in Part(m)
    BY <1>0
  <2>4. ASSUME NEW o \in Part(m - 1)
        PROVE  g[o] = f[o]
    <3>. HIDE DEF Part
    <3>. QED  BY <2>1, <2>3, <2>4 DEF IsWalk
  <2>5. \A o \in Part(m) : o \notin Ends => g[next[o]] = f[next[o]]
    BY <2>2, <2>4
  <2>6. Walks(g, Part(m))
    <3>. HIDE DEF Part
    <3>. QED  BY <2>5 DEF IsWalk
  <2>. HIDE DEF Walks, g, Part
  <2>. QED  BY <2>6
<1>3. Bad = {}
  <2>. HIDE DEF Good
  <2>1. SUFFICES ASSUME Bad # {} PROVE FALSE
    OBVIOUS
  <2>2. PICK m \in Bad : \A k \in Bad : m <= k
    <3>1. Bad \subseteq Nat
      BY <1>0
    <3>. HIDE DEF Bad
    <3>. QED  BY <2>1, <3>1, LeastMember
  <2>3. m \in 1 .. N + 1 /\ m - 1 \in 0 .. N + 1 /\ ~(m <= m - 1)
    BY <1>0, <1>1, <2>2
  <2>4. Good(m - 1)
    BY <2>2, <2>3
  <2>. QED  BY <1>2, <2>2, <2>3, <2>4
<1>4. Part(N + 1) = D
  <2>1. ASSUME NEW o \in D PROVE o + (N + 1) > N
    <3>1. o \in Nat /\ o <= N
      BY <1>0
    <3>. QED  BY <1>0, <3>1
  <2>. QED  BY <2>1
<1>5. Good(N + 1)
  <2>. HIDE DEF Good
  <2>. QED  BY <1>0, <1>3
<1>. QED  BY <1>4, <1>5

\* What holds where the walks end, and wherever it holds one step on, holds everywhere.
LEMMA WalkInduction ==
    ASSUME NEW N, NEW D, NEW Ends, NEW next, Climbs(N, D, Ends, next), NEW S,
           \A o \in D : o \in Ends => o \in S,
           \A o \in D \ Ends : next[o] \in S => o \in S
    PROVE  D \subseteq S
<1>. DEFINE Bad == {k \in 0 .. N : N - k \in D \ S}
<1>0. N \in Nat /\ \A o \in D : o \in Nat /\ o <= N
  BY DEF Climbs
<1>1. Bad = {}
  <2>1. SUFFICES ASSUME Bad # {} PROVE FALSE
    OBVIOUS
  <2>2. PICK k \in Bad : \A m \in Bad : k <= m
    <3>1. Bad \subseteq Nat
      BY <1>0
    <3>. HIDE DEF Bad
    <3>. QED  BY <2>1, <3>1, LeastMember
  <2>. DEFINE o == N - k
  <2>3. o \in D \ Ends /\ o \notin S /\ k \in 0 .. N
    BY <2>2
  <2>4. next[o] \in D /\ next[o] > o /\ next[o] \notin S
    BY <2>3 DEF Climbs
  <2>5. N - next[o] \in Bad /\ ~(k <= N - next[o])
    <3>1. next[o] \in Nat /\ next[o] <= N
      BY <1>0, <2>4
    <3>2. N - next[o] \in 0 .. N /\ N - (N - next[o]) = next[o] /\ ~(k <= N - next[o])
      <4>. DEFINE x == next[o]
      <4>1. x \in Nat /\ x <= N /\ x > N - k /\ k \in 0 .. N /\ N \in Nat
        BY <1>0, <2>3, <2>4, <3>1
      <4>. HIDE DEF x
      <4>2. N - x \in 0 .. N /\ N - (N - x) = x /\ ~(k <= N - x)
        BY <4>1
      <4>. QED  BY <4>2 DEF x
    <3>. QED  BY <2>4, <3>2
  <2>. QED  BY <2>2, <2>5
<1>2. ASSUME NEW o \in D PROVE o \in S
  <2>1. o \in Nat /\ o <= N
    BY <1>0
  <2>2. N - o \in 0 .. N /\ N - (N - o) = o
    BY <1>0, <2>1
  <2>. QED  BY <1>1, <2>2
<1>. QED  BY <1>2

LEMMA AfterTypes ==
    ASSUME NEW b, Tiles(b), NEW o \in DOMAIN b
    PROVE  /\ o \in 0 .. PageSize - 1 /\ b[o] \in Headers /\ b[o].size \in 0 .. PageSize /\ b[o].isFree \in BOOLEAN
           /\ After(b, o) \in DOMAIN b \cup {PageSize} /\ After(b, o) \in 1 .. PageSize
           /\ o + HeaderSize + b[o].size = After(b, o) /\ o < After(b, o)
           /\ \A q \in DOMAIN b : o < q => After(b, o) <= q
<1>1. PageSize \in Nat /\ HeaderSize \in Nat \ {0}
  BY HeapConstants
<1>2. o \in 0 .. PageSize - 1 /\ b[o] \in Headers
  BY DEF Tiles, IsPage
<1>3. b[o].size \in 0 .. PageSize /\ b[o].isFree \in BOOLEAN
  BY <1>2 DEF Headers
<1>4. After(b, o) \in DOMAIN b \cup {PageSize} /\ \A q \in DOMAIN b : o < q => After(b, o) <= q
  BY DEF Tiles
<1>5. DOMAIN b \subseteq 0 .. PageSize - 1
  BY DEF Tiles, IsPage
<1>. QED  BY <1>1, <1>2, <1>3, <1>4, <1>5 DEF After

\* The walk of a page that is tiled visits every block.
LEMMA WalkVisitsAll ==
    ASSUME NEW b, Tiles(b)
    PROVE  Walked(b) = DOMAIN b
<1>. DEFINE D == DOMAIN b \cup {PageSize}
            IsIt(f) == f = [o \in D |-> IF o = PageSize THEN {} ELSE {o} \cup f[After(b, o)]]
            Ends == {PageSize}
            next == [o \in D |-> After(b, o)]
            own == [o \in D |-> {o}]
            w == CHOOSE f : IsIt(f)
            S == {o \in D : w[o] = {q \in DOMAIN b : o <= q}}
<1>0. PageSize \in Nat /\ D \subseteq 0 .. PageSize /\ 0 \in DOMAIN b /\ PageSize \notin DOMAIN b
  BY HeapConstants DEF Tiles, IsPage
<1>1. Climbs(PageSize, D, Ends, next)
  <2>1. \A o \in D \ Ends : next[o] \in D /\ next[o] > o
    BY <1>0, AfterTypes
  <2>. HIDE DEF next, own, D, Ends
  <2>. QED  BY <1>0, <2>1 DEF Climbs
<1>2. IsIt(w)
  <2>1. PICK f : IsWalk(f, D, Ends, next, own)
    <3>. HIDE DEF next, own, D, Ends
    <3>. QED  BY ONLY <1>1, WalkExists
  <2>2. IsIt(f)
    BY <2>1 DEF IsWalk
  <2>. QED  BY <2>2
<1>3. D \subseteq S
  <2>. HIDE DEF w
  <2>1. \A o \in D : o \in Ends => o \in S
    <3>1. PageSize \in D /\ {q \in DOMAIN b : PageSize <= q} = {}
      BY <1>0
    <3>. QED  BY <1>2, <3>1
  <2>2. ASSUME NEW o \in D \ Ends, next[o] \in S
        PROVE  o \in S
    <3>. DEFINE a == After(b, o)
    <3>1. o \in DOMAIN b /\ a \in D /\ a \in 0 .. PageSize /\ o < a /\ \A q \in DOMAIN b : o < q => a <= q
      BY <1>0, AfterTypes
    <3>2. w[o] = {o} \cup w[a]
      BY <1>2, <3>1
    <3>3. w[a] = {q \in DOMAIN b : a <= q}
      BY <2>2
    <3>4. {o} \cup {q \in DOMAIN b : a <= q} = {q \in DOMAIN b : o <= q}
      BY <1>0, <3>1
    <3>. QED  BY <3>2, <3>3, <3>4
  <2>. HIDE DEF next, D, Ends, S
  <2>. QED  BY <1>1, <2>1, <2>2, WalkInduction
<1>4. w[0] = DOMAIN b
  <2>1. w[0] = {q \in DOMAIN b : 0 <= q}
    BY <1>0, <1>3
  <2>2. {q \in DOMAIN b : 0 <= q} = DOMAIN b
    BY <1>0
  <2>. QED  BY <2>1, <2>2
<1>. QED  BY <1>4 DEF Walked

\* The blocks that one pass joins to the next: both are free, and the next is not the
\* first of another pair.
Pairs(b, H) ==
    /\ \A h \in H : /\ h \in DOMAIN b /\ After(b, h) \in DOMAIN b
                    /\ b[h].isFree /\ b[After(b, h)].isFree
    /\ \A h \in H : After(b, h) \notin H

LEMMA AbsorbingPairs ==
    ASSUME NEW b, Tiles(b)
    PROVE  Pairs(b, Absorbing(b))
<1>. DEFINE D == DOMAIN b \cup {PageSize}
            Joins(o) == b[o].isFree /\ b[After(b, o)].isFree
            IsIt(f) == f = [o \in D |->
                          IF o = PageSize \/ After(b, o) = PageSize THEN {}
                          ELSE IF b[o].isFree /\ b[After(b, o)].isFree
                               THEN {o} \cup f[After(b, After(b, o))]
                               ELSE f[After(b, o)]]
            Ends == {o \in D : o = PageSize \/ After(b, o) = PageSize}
            next == [o \in D |-> IF Joins(o) THEN After(b, After(b, o)) ELSE After(b, o)]
            own == [o \in D |-> IF Joins(o) THEN {o} ELSE {}]
            w == CHOOSE f : IsIt(f)
            S == {o \in D : (\A h \in w[o] : h \in D /\ o <= h) /\ Pairs(b, w[o])}
<1>0. PageSize \in Nat /\ D \subseteq 0 .. PageSize /\ 0 \in DOMAIN b /\ PageSize \notin DOMAIN b
  BY HeapConstants DEF Tiles, IsPage
<1>1. ASSUME NEW o \in D \ Ends
      PROVE  /\ o \in DOMAIN b /\ After(b, o) \in DOMAIN b /\ o < After(b, o)
             /\ After(b, After(b, o)) \in D /\ After(b, o) < After(b, After(b, o))
  <2>1. o \in DOMAIN b /\ After(b, o) # PageSize
    BY <1>1
  <2>2. After(b, o) \in DOMAIN b /\ o < After(b, o)
    BY <2>1, AfterTypes
  <2>. QED  BY <2>1, <2>2, AfterTypes
<1>2. Climbs(PageSize, D, Ends, next)
  <2>1. ASSUME NEW o \in D \ Ends
        PROVE  next[o] \in D /\ next[o] > o
    <3>. DEFINE a == After(b, o)
                c == After(b, a)
    <3>1. o \in D /\ a \in D /\ c \in D /\ o < a /\ a < c /\ next[o] \in {a, c}
      BY <1>1, <2>1
    <3>2. o \in Nat /\ a \in Nat /\ c \in Nat
      BY <1>0, <3>1
    <3>. HIDE DEF a, c, D, next
    <3>. QED  BY <3>1, <3>2
  <2>. HIDE DEF next, own, D, Ends
  <2>. QED  BY <1>0, <2>1 DEF Climbs
<1>3. IsIt(w)
  <2>1. PICK f : IsWalk(f, D, Ends, next, own)
    <3>. HIDE DEF next, own, D, Ends
    <3>. QED  BY ONLY <1>2, WalkExists
  <2>2. ASSUME NEW o \in D
        PROVE  (IF o \in Ends THEN {} ELSE own[o] \cup f[next[o]])
                = IF o = PageSize \/ After(b, o) = PageSize THEN {}
                  ELSE IF b[o].isFree /\ b[After(b, o)].isFree
                       THEN {o} \cup f[After(b, After(b, o))]
                       ELSE f[After(b, o)]
    OBVIOUS
  <2>3. IsIt(f)
    <3>. HIDE DEF next, own, Ends
    <3>. QED  BY <2>1, <2>2 DEF IsWalk
  <2>. QED  BY <2>3
<1>4. D \subseteq S
  <2>. HIDE DEF w
  <2>1. \A o \in D : o \in Ends => o \in S
    <3>1. ASSUME NEW o \in D, o \in Ends PROVE w[o] = {}
      BY <1>3, <3>1
    <3>. QED  BY <3>1 DEF Pairs
  <2>2. ASSUME NEW o \in D \ Ends, next[o] \in S
        PROVE  o \in S
    <3>. DEFINE a == After(b, o)
                c == After(b, a)
    <3>1. o \in DOMAIN b /\ a \in DOMAIN b /\ c \in D /\ o < a /\ a < c
      BY <1>1
    <3>2. o \in Nat /\ a \in Nat /\ c \in Nat /\ \A h \in D : h \in Nat
      BY <1>0, <3>1
    <3>3. CASE Joins(o)
      <4>1. w[o] = {o} \cup w[c] /\ next[o] = c
        BY <1>3, <3>1, <3>3
      <4>2. (\A h \in w[c] : h \in D /\ c <= h) /\ Pairs(b, w[c])
        BY <2>2, <4>1
      <4>3. a \notin w[o]
        <5>. HIDE DEF a, c, D
        <5>. QED  BY <3>1, <3>2, <4>1, <4>2
      <4>4. ASSUME NEW h \in w[c]
            PROVE  After(b, h) # o /\ After(b, h) \notin w[c] /\ h \in DOMAIN b /\ b[h].isFree
                   /\ After(b, h) \in DOMAIN b /\ b[After(b, h)].isFree /\ o <= h
        <5>1. /\ h \in DOMAIN b /\ c <= h /\ After(b, h) \notin w[c] /\ b[h].isFree
              /\ After(b, h) \in DOMAIN b /\ b[After(b, h)].isFree
          BY <4>2, <4>4 DEF Pairs
        <5>2. h \in Nat /\ After(b, h) \in Nat /\ h < After(b, h)
          BY <5>1, <3>2, AfterTypes
        <5>3. o < h
          <6>. HIDE DEF a, c
          <6>. QED  BY <3>1, <3>2, <5>1, <5>2
        <5>. QED  BY <3>2, <5>1, <5>2, <5>3
      <4>5. Pairs(b, w[o])
        <5>. HIDE DEF c
        <5>1. ASSUME NEW h \in w[o]
              PROVE  /\ h \in DOMAIN b /\ After(b, h) \in DOMAIN b /\ b[h].isFree
                     /\ b[After(b, h)].isFree /\ After(b, h) \notin w[o]
          <6>1. CASE h = o
            BY <3>1, <3>3, <4>3, <6>1
          <6>2. CASE h \in w[c]
            BY <4>1, <4>4, <6>2
          <6>. QED  BY <4>1, <5>1, <6>1, <6>2
        <5>. QED  BY <5>1 DEF Pairs
      <4>6. \A h \in w[o] : h \in D /\ o <= h
        <5>. HIDE DEF c
        <5>. QED  BY <3>1, <3>2, <4>1, <4>4
      <4>. QED  BY <4>5, <4>6
    <3>4. CASE ~Joins(o)
      <4>1. w[o] = w[a] /\ next[o] = a
        BY <1>3, <3>1, <3>4
      <4>2. (\A h \in w[a] : h \in D /\ a <= h) /\ Pairs(b, w[a])
        BY <2>2, <4>1
      <4>3. ASSUME NEW h \in w[a]
            PROVE  h \in D /\ o <= h
        <5>1. h \in D /\ a <= h /\ h \in Nat
          BY <3>2, <4>2
        <5>. HIDE DEF a, c, D
        <5>. QED  BY <3>1, <3>2, <5>1
      <4>. QED  BY <4>1, <4>2, <4>3
    <3>. QED  BY <3>3, <3>4
  <2>. HIDE DEF next, D, Ends, S
  <2>. QED  BY <1>2, <2>1, <2>2, WalkInduction
<1>5. Pairs(b, w[0])
  BY <1>0, <1>4
<1>. QED  BY <1>5 DEF Absorbing
-----------------------------------------------------------------------------
(* What reserving and freeing a block does to a page. *)

Room(b, o, n) == o \in DOMAIN b /\ b[o].isFree /\ (b[o].size = n \/ b[o].size >= n + HeaderSize)

\* The page d is b with one more block in use, the one of n bytes at o.
OneMore(b, d, o, n) ==
    /\ Tiles(d) /\ InUse(d) = InUse(b) \cup {o} /\ o \in DOMAIN d /\ d[o].size = n
    /\ \A q \in InUse(b) : q # o /\ d[q] = b[q]

LEMMA SplitTiles ==
    ASSUME NEW b, Tiles(b), NEW o, NEW n \in Nat, Room(b, o, n)
    PROVE  OneMore(b, Split(b, o, n), o, n)
<1>. DEFINE c == Split(b, o, n)
            rest == b[o].size - n
            x == o + HeaderSize + n
            a == After(b, o)
            E == DOMAIN b \cup (IF rest > 0 THEN {x} ELSE {})
            v(r) == CASE r = o -> Header(FALSE, n)
                      [] r = x /\ rest > 0 -> Header(TRUE, rest - HeaderSize)
                      [] OTHER -> b[r]
<1>c. c = [r \in E |-> v(r)]
  BY DEF Split
<1>0. PageSize \in Nat /\ HeaderSize \in Nat \ {0}
  BY HeapConstants
<1>1. /\ o \in DOMAIN b /\ o \in 0 .. PageSize - 1 /\ b[o].size \in 0 .. PageSize /\ b[o].isFree
      /\ a \in DOMAIN b \cup {PageSize} /\ a \in 1 .. PageSize /\ o + HeaderSize + b[o].size = a
      /\ \A q \in DOMAIN b : o < q => a <= q
  BY AfterTypes DEF Room
<1>2. /\ DOMAIN c = DOMAIN b \cup (IF rest > 0 THEN {x} ELSE {})
      /\ o < x /\ c[o] = Header(FALSE, n)
      /\ \A q \in DOMAIN b : q # o /\ q # x => c[q] = b[q]
  <2>1. o < x
    BY <1>0, <1>1
  <2>2. o \in E /\ DOMAIN c = E
    BY <1>1, <1>c
  <2>3. v(o) = Header(FALSE, n) /\ c[o] = v(o)
    <3>1. v(o) = Header(FALSE, n)
      <4>1. ~(o = x /\ rest > 0)
        BY <2>1, <1>1, <1>0
      <4>. HIDE DEF x, rest
      <4>. QED  BY <4>1
    <3>2. c[o] = v(o)
      <4>. HIDE DEF c, v, E
      <4>. QED  BY <2>2, <1>c
    <3>. QED  BY <3>1, <3>2
  <2>4. \A q \in DOMAIN b : q # o /\ q # x => c[q] = v(q) /\ v(q) = b[q]
    <3>. HIDE DEF c
    <3>. QED  BY <1>c
  <2>. QED  BY <2>1, <2>2, <2>3, <2>4
<1>3. CASE rest = 0
  <2>1. DOMAIN c = DOMAIN b /\ b[o].size = n
    BY <1>0, <1>1, <1>2, <1>3
  <2>2. x = a
    BY <1>1, <2>1
  <2>3. \A q \in DOMAIN b : q # o => c[q] = b[q]
    <3>1. ASSUME NEW q \in DOMAIN b, q = x PROVE c[q] = b[q]
      <4>1. q # o /\ ~(rest > 0)
        BY <1>1, <1>2, <1>3, <3>1
      <4>2. v(q) = b[q]
        <5>. HIDE DEF x, rest
        <5>. QED  BY <4>1
      <4>3. q \in E
        BY <3>1
      <4>. HIDE DEF c, v, E
      <4>. QED  BY <1>c, <4>2, <4>3
    <3>. QED  BY <1>2, <3>1
  <2>4. \A q \in DOMAIN b : c[q].size = b[q].size /\ c[q] \in Headers /\ After(c, q) = After(b, q)
    <3>1. ASSUME NEW q \in DOMAIN b PROVE c[q].size = b[q].size /\ c[q] \in Headers
      <4>1. CASE q = o
        <5>1. n \in 0 .. PageSize /\ b[q].size = n
          BY <1>1, <2>1, <4>1
        <5>2. c[q] = Header(FALSE, n)
          <6>. HIDE DEF c, x
          <6>. QED  BY <1>2, <4>1
        <5>. HIDE DEF c
        <5>. QED  BY <5>1, <5>2 DEF Header, Headers
      <4>2. CASE q # o
        <5>. HIDE DEF c
        <5>. QED  BY <2>3, <4>2, AfterTypes
      <4>. QED  BY <4>1, <4>2
    <3>. QED  BY <3>1 DEF After
  <2>5. IsPage(c)
    <3>1. c = [q \in DOMAIN b |-> c[q]]
      <4>. HIDE DEF v
      <4>. QED  BY <1>c, <2>1
    <3>. HIDE DEF c
    <3>2. c \in [DOMAIN c -> Headers]
      BY <2>1, <2>4, <3>1
    <3>. QED  BY <2>1, <3>2 DEF Tiles, IsPage
  <2>6. Tiles(c)
    <3>. HIDE DEF c
    <3>. QED  BY <2>1, <2>4, <2>5 DEF Tiles
  <2>7. InUse(c) = InUse(b) \cup {o} /\ o \notin InUse(b) /\ c[o].size = n
    <3>. HIDE DEF c
    <3>. QED  BY <1>1, <1>2, <2>1, <2>3 DEF InUse, Header
  <2>8. \A q \in InUse(b) : q # o /\ c[q] = b[q]
    <3>. HIDE DEF c
    <3>. QED  BY <2>3, <2>7 DEF InUse
  <2>9. o \in DOMAIN c
    BY <1>1, <2>1
  <2>. HIDE DEF c
  <2>. QED  BY <2>6, <2>7, <2>8, <2>9 DEF OneMore, c
<1>4. CASE rest # 0
  <2>1. rest >= HeaderSize /\ rest > 0 /\ n <= b[o].size
    BY <1>0, <1>1, <1>4 DEF Room
  <2>2. x < a /\ x \in 0 .. PageSize - 1 /\ o < x
    BY <1>0, <1>1, <1>2, <2>1
  <2>3. x \notin DOMAIN b
    BY <1>1, <2>2
  <2>4. DOMAIN c = DOMAIN b \cup {x} /\ c[x] = Header(TRUE, rest - HeaderSize) /\ \A q \in DOMAIN b : q # o => c[q] = b[q]
    <3>1. DOMAIN c = DOMAIN b \cup {x}
      BY <1>2, <2>1
    <3>2. c[x] = Header(TRUE, rest - HeaderSize)
      <4>1. o # x /\ rest > 0
        BY <2>1, <2>2, <1>1, <2>3
      <4>2. x \in E /\ v(x) = Header(TRUE, rest - HeaderSize)
        BY <4>1
      <4>. QED  BY <1>c, <4>2
    <3>. QED  BY <1>2, <2>3, <3>1, <3>2
  <2>5. c[o] \in Headers /\ c[x] \in Headers /\ c[x].isFree
    BY <1>0, <1>1, <1>2, <2>1, <2>4 DEF Header, Headers
  <2>6. After(c, o) = x /\ After(c, x) = a
    BY <1>0, <1>1, <1>2, <2>1, <2>4 DEF Header, After
  <2>7. \A q \in DOMAIN b : q # o => After(c, q) = After(b, q) /\ c[q] \in Headers
    BY <2>4, AfterTypes DEF After
  <2>8. IsPage(c)
    <3>1. c = [q \in DOMAIN c |-> c[q]]
      <4>. HIDE DEF v, E
      <4>. QED  BY <1>c
    <3>2. \A q \in DOMAIN c : c[q] \in Headers
      BY <2>4, <2>5, <2>7
    <3>. HIDE DEF c, x
    <3>3. c \in [DOMAIN c -> Headers]
      BY <3>1, <3>2
    <3>. QED  BY <2>2, <2>4, <3>3 DEF Tiles, IsPage
  <2>. HIDE DEF c, x, a, rest
  <2>9. \A q \in DOMAIN c : After(c, q) \in DOMAIN c \cup {PageSize}
    BY <1>1, <2>4, <2>6, <2>7, AfterTypes
  <2>10. ASSUME NEW q \in DOMAIN c, NEW r \in DOMAIN c, q < r
         PROVE  After(c, q) <= r
    <3>0. /\ \A s \in DOMAIN b : s \in Nat /\ After(b, s) \in Nat
          /\ o \in Nat /\ x \in Nat /\ a \in Nat
          /\ \A s, t \in DOMAIN b : s < t => After(b, s) <= t
      <4>1. \A s \in DOMAIN b : s \in Nat /\ After(b, s) \in Nat
        BY <1>0, AfterTypes
      <4>2. o \in Nat /\ x \in Nat /\ a \in Nat
        BY <1>0, <1>1, <2>2
      <4>. QED  BY <4>1, <4>2 DEF Tiles
    <3>1. CASE q = o /\ r \in DOMAIN b
      BY <3>0, <3>1, <2>10, <2>2, <2>6, <1>1
    <3>2. CASE q = x /\ r \in DOMAIN b
      BY <3>0, <3>2, <2>10, <2>2, <2>6, <1>1
    <3>3. CASE q \in DOMAIN b /\ q # o /\ r \in DOMAIN b
      BY <3>0, <3>3, <2>10, <2>7
    <3>4. CASE q \in DOMAIN b /\ q # o /\ r = x
      <4>1. q < o \/ o < q
        BY <1>1, <3>0, <3>4
      <4>2. ~(o < q)
        BY <1>1, <2>2, <2>10, <3>0, <3>4
      <4>. QED  BY <1>1, <2>2, <2>7, <3>0, <3>4, <4>1, <4>2
    <3>5. CASE q = o /\ r = x
      BY <2>6, <3>0, <3>5
    <3>6. CASE q = x /\ r = x
      BY <2>10, <3>0, <3>6
    <3>. QED  BY <2>4, <3>1, <3>2, <3>3, <3>4, <3>5, <3>6
  <2>11. Tiles(c)
    <3>1. 0 \in DOMAIN c
      BY <2>4 DEF Tiles
    <3>. QED  BY <2>8, <2>9, <2>10, <3>1 DEF Tiles
  <2>12. InUse(c) = InUse(b) \cup {o} /\ o \notin InUse(b) /\ c[o].size = n
    BY <1>1, <1>2, <2>3, <2>4, <2>5 DEF InUse, Header
  <2>13. \A q \in InUse(b) : q # o /\ c[q] = b[q]
    BY <2>4, <2>12 DEF InUse
  <2>. QED  BY <1>1, <2>4, <2>11, <2>12, <2>13 DEF OneMore, c
<1>. QED  BY <1>3, <1>4

LEMMA NewPageTiles ==
    ASSUME NEW n \in 1 .. MaxAlloc
    PROVE  Tiles(NewPage) /\ Room(NewPage, 0, n) /\ InUse(NewPage) = {}
<1>1. PageSize \in Nat /\ HeaderSize \in Nat \ {0} /\ PageSize > 2 * HeaderSize
  BY HeapConstants
<1>2. DOMAIN NewPage = {0} /\ NewPage[0] = Header(TRUE, PageSize - HeaderSize)
  BY DEF NewPage
<1>3. PageSize - HeaderSize \in 0 .. PageSize /\ PageSize - HeaderSize >= n + HeaderSize
  BY <1>1 DEF MaxAlloc
<1>4. NewPage[0] \in Headers /\ NewPage[0].isFree /\ NewPage[0].size = PageSize - HeaderSize
  BY <1>2, <1>3 DEF Header, Headers
<1>5. After(NewPage, 0) = PageSize
  BY <1>1, <1>4 DEF After
<1>6. IsPage(NewPage)
  <2>1. NewPage \in [{0} -> Headers]
    BY <1>2, <1>4 DEF NewPage
  <2>2. {0} \subseteq 0 .. PageSize - 1
    BY <1>1
  <2>. HIDE DEF NewPage
  <2>. QED  BY <1>2, <2>1, <2>2 DEF IsPage
<1>7. Tiles(NewPage)
  BY <1>2, <1>5, <1>6 DEF Tiles
<1>. QED  BY <1>2, <1>3, <1>4, <1>7 DEF Room, InUse

\* Joining leaves the blocks in use where they are.
LEMMA JoinedTiles ==
    ASSUME NEW b, Tiles(b)
    PROVE  Tiles(Joined(b)) /\ InUse(Joined(b)) = InUse(b) /\ \A q \in InUse(b) : Joined(b)[q] = b[q]
<1>. DEFINE c == Joined(b)
            H == Absorbing(b)
            E == DOMAIN b \ {After(b, h) : h \in H}
            v(o) == IF o \in H THEN Header(TRUE, b[o].size + HeaderSize + b[After(b, o)].size) ELSE b[o]
<1>0. PageSize \in Nat /\ HeaderSize \in Nat \ {0}
  BY HeapConstants
<1>1. c = [o \in E |-> v(o)]
  BY DEF Joined
<1>2. /\ \A h \in H : h \in DOMAIN b /\ After(b, h) \in DOMAIN b /\ b[h].isFree /\ b[After(b, h)].isFree
      /\ \A h \in H : After(b, h) \notin H
  BY AbsorbingPairs DEF Pairs
<1>3. \A o \in DOMAIN b : /\ o \in Nat /\ After(b, o) \in Nat /\ o < After(b, o)
                          /\ After(b, o) \in DOMAIN b \cup {PageSize} /\ b[o] \in Headers
                          /\ \A q \in DOMAIN b : o < q => After(b, o) <= q
  BY <1>0, AfterTypes
<1>4. ASSUME NEW o \in DOMAIN b, NEW q \in DOMAIN b, After(b, o) = After(b, q)
      PROVE  o = q
  <2>. HIDE DEF H
  <2>1. o \in Nat /\ q \in Nat /\ o < After(b, o) /\ q < After(b, o)
    BY <1>3, <1>4
  <2>2. (o < q => After(b, o) <= q) /\ (q < o => After(b, q) <= o)
    BY <1>3
  <2>. QED  BY <1>3, <1>4, <2>1, <2>2
<1>. HIDE DEF H, c
<1>5. DOMAIN c = E /\ \A o \in E : c[o] = v(o)
  <2>. HIDE DEF E, v
  <2>. QED  BY <1>1
<1>6. \A h \in H : h \in E
  BY <1>2
<1>7. \A h \in H : /\ c[h].isFree /\ c[h] \in Headers /\ After(c, h) = After(b, After(b, h))
                   /\ After(b, h) \in DOMAIN b
  <2>1. ASSUME NEW h \in H
        PROVE  c[h].isFree /\ c[h] \in Headers /\ After(c, h) = After(b, After(b, h)) /\ After(b, h) \in DOMAIN b
    <3>. DEFINE a == After(b, h)
                size == b[h].size + HeaderSize + b[a].size
    <3>1. h \in DOMAIN b /\ a \in DOMAIN b /\ h \in E
      BY <1>2, <1>6, <2>1
    <3>2. /\ h \in 0 .. PageSize - 1 /\ b[h].size \in 0 .. PageSize /\ b[a].size \in 0 .. PageSize
          /\ After(b, a) \in 1 .. PageSize /\ h + HeaderSize + b[h].size = a /\ a + HeaderSize + b[a].size = After(b, a)
      BY <3>1, AfterTypes
    <3>3. size \in 0 .. PageSize /\ h + HeaderSize + size = After(b, a)
      <4>. DEFINE z == After(b, a)
                  s == b[h].size
                  t == b[a].size
      <4>. HIDE DEF a, z
      <4>1. s \in 0 .. PageSize /\ t \in 0 .. PageSize /\ z \in 1 .. PageSize
            /\ h + HeaderSize + s = a /\ a + HeaderSize + t = z /\ h \in 0 .. PageSize - 1
        BY <3>2 DEF z
      <4>. HIDE DEF s, t
      <4>2. (s + HeaderSize + t) \in 0 .. PageSize /\ h + HeaderSize + (s + HeaderSize + t) = z
        BY <1>0, <4>1
      <4>. QED  BY <4>2 DEF s, t, z
    <3>4. c[h] = Header(TRUE, size)
      BY <1>5, <2>1, <3>1
    <3>. HIDE DEF size
    <3>5. c[h].isFree /\ c[h] \in Headers /\ c[h].size = size
      BY <3>3, <3>4 DEF Header, Headers
    <3>6. After(c, h) = After(b, a)
      BY <3>3, <3>5 DEF After
    <3>. QED  BY <3>1, <3>5, <3>6
  <2>. QED  BY <2>1
<1>8. \A o \in E \ H : c[o] = b[o] /\ After(c, o) = After(b, o)
  BY <1>5 DEF After
<1>9. Tiles(c)
  <2>1. IsPage(c)
    <3>1. c = [q \in E |-> c[q]]
      <4>. HIDE DEF v, E
      <4>. QED  BY <1>1
    <3>2. \A q \in E : c[q] \in Headers
      BY <1>3, <1>7, <1>8
    <3>3. E \subseteq 0 .. PageSize - 1
      BY DEF Tiles, IsPage
    <3>. HIDE DEF E
    <3>. QED  BY <1>5, <3>1, <3>2, <3>3 DEF IsPage
  <2>2. 0 \in E
    <3>1. \A h \in H : After(b, h) # 0
      BY <1>2, <1>3
    <3>. QED  BY <3>1 DEF Tiles
  <2>3. \A o \in E : After(c, o) \in E \cup {PageSize}
    <3>1. ASSUME NEW o \in H
          PROVE  After(c, o) \in E \cup {PageSize}
      <4>. DEFINE a == After(b, o)
      <4>1. o \in DOMAIN b /\ a \in DOMAIN b /\ a \notin H
        BY <1>2
      <4>2. After(b, a) \in DOMAIN b \cup {PageSize} /\ After(c, o) = After(b, a)
        BY <1>3, <1>7, <4>1
      <4>3. \A h \in H : After(b, h) = After(b, a) => h = a
        BY <1>2, <1>4, <4>1
      <4>. HIDE DEF a
      <4>. QED  BY <4>1, <4>2, <4>3
    <3>2. ASSUME NEW o \in E \ H
          PROVE  After(c, o) \in E \cup {PageSize}
      <4>1. o \in DOMAIN b /\ After(c, o) = After(b, o) /\ After(b, o) \in DOMAIN b \cup {PageSize}
        BY <1>3, <1>8
      <4>2. \A h \in H : After(b, h) = After(b, o) => h = o
        BY <1>2, <1>4, <4>1
      <4>. QED  BY <4>1, <4>2
    <3>. QED  BY <1>6, <3>1, <3>2
  <2>4. ASSUME NEW o \in E, NEW q \in E, o < q
        PROVE  After(c, o) <= q
    <3>1. o \in DOMAIN b /\ q \in DOMAIN b /\ After(b, o) <= q
      BY <1>3, <2>4
    <3>2. CASE o \in H
      <4>. DEFINE a == After(b, o)
      <4>1. a \in DOMAIN b /\ q # a /\ a <= q /\ After(c, o) = After(b, a)
        BY <1>2, <1>7, <3>1, <3>2
      <4>2. a < q
        <5>. HIDE DEF a
        <5>. QED  BY <1>3, <3>1, <4>1
      <4>. QED  BY <1>3, <3>1, <4>1, <4>2
    <3>3. CASE o \notin H
      BY <1>8, <3>1, <3>3
    <3>. QED  BY <3>2, <3>3
  <2>. HIDE DEF E
  <2>. QED  BY <1>5, <2>1, <2>2, <2>3, <2>4 DEF Tiles
<1>10. \A q \in InUse(b) : q \in E \ H /\ c[q] = b[q]
  BY <1>2, <1>8 DEF InUse
<1>11. InUse(c) = InUse(b)
  <2>1. \A q \in InUse(c) : q \in InUse(b)
    <3>1. ASSUME NEW q \in InUse(c) PROVE q \in InUse(b)
      <4>1. q \in E /\ ~c[q].isFree
        BY <1>5 DEF InUse
      <4>2. q \notin H
        BY <1>7, <4>1
      <4>. QED  BY <1>8, <4>1, <4>2 DEF InUse
    <3>. QED  BY <3>1
  <2>2. \A q \in InUse(b) : q \in InUse(c)
    BY <1>5, <1>10 DEF InUse
  <2>. QED  BY <2>1, <2>2
<1>. QED  BY <1>9, <1>10, <1>11 DEF c

LEMMA FreeBlockTiles ==
    ASSUME NEW b, Tiles(b), NEW o \in InUse(b)
    PROVE  Tiles(FreeBlock(b, o)) /\ OneMore(FreeBlock(b, o), b, o, b[o].size)
<1>. DEFINE d == [b EXCEPT ![o].isFree = TRUE]
            c == FreeBlock(b, o)
<1>1. o \in DOMAIN b /\ ~b[o].isFree
  BY DEF InUse
<1>2. DOMAIN d = DOMAIN b /\ \A q \in DOMAIN b : q # o => d[q] = b[q]
  OBVIOUS
<1>3. d[o] \in Headers /\ d[o].isFree /\ d[o].size = b[o].size
  <2>1. b[o] \in Headers
    BY <1>1, AfterTypes
  <2>2. d[o] = [b[o] EXCEPT !.isFree = TRUE]
    BY <1>1
  <2>. HIDE DEF d
  <2>. QED  BY <2>1, <2>2 DEF Headers
<1>4. \A q \in DOMAIN b : After(d, q) = After(b, q) /\ d[q] \in Headers
  <2>. HIDE DEF d
  <2>. QED  BY <1>2, <1>3, AfterTypes DEF After
<1>5. Tiles(d)
  <2>1. d = [q \in DOMAIN b |-> d[q]]
    OBVIOUS
  <2>. HIDE DEF d
  <2>2. IsPage(d)
    BY <1>2, <1>4, <2>1 DEF Tiles, IsPage
  <2>. QED  BY <1>2, <1>4, <2>2 DEF Tiles
<1>. HIDE DEF d
<1>6. InUse(d) = InUse(b) \ {o}
  BY <1>2, <1>3 DEF InUse
<1>7. c = Joined(d)
  BY DEF FreeBlock, d
<1>8. Tiles(c) /\ InUse(c) = InUse(d) /\ \A q \in InUse(d) : c[q] = d[q]
  BY <1>5, <1>7, JoinedTiles
<1>. HIDE DEF c
<1>9. InUse(b) = InUse(c) \cup {o} /\ \A q \in InUse(c) : q # o /\ b[q] = c[q]
  <2>1. \A q \in InUse(c) : q # o /\ q \in DOMAIN b
    BY <1>6, <1>8 DEF InUse
  <2>. QED  BY <1>2, <1>6, <1>8, <2>1
<1>. QED  BY <1>1, <1>8, <1>9 DEF OneMore, c

LEMMA OneMoreUsed ==
    ASSUME NEW b, NEW d, NEW o, NEW n, Tiles(b), OneMore(b, d, o, n), NEW p, NEW k
    PROVE  /\ UsedOn(p, k, d) = UsedOn(p, k, b) \cup {Extent(Address(p, k, o + HeaderSize), n)}
           /\ Extent(Address(p, k, o + HeaderSize), n) \notin UsedOn(p, k, b)
<1>. DEFINE Of(c, q) == Extent(Address(p, k, q + HeaderSize), c[q].size)
            e == Extent(Address(p, k, o + HeaderSize), n)
<1>1. InUse(d) = InUse(b) \cup {o} /\ d[o].size = n /\ \A q \in InUse(b) : q # o /\ d[q] = b[q]
  BY DEF OneMore
<1>2. HeaderSize \in Nat /\ o \in Nat /\ \A q \in InUse(b) : q \in Nat
  <2>1. PageSize \in Nat /\ HeaderSize \in Nat
    BY HeapConstants
  <2>2. o \in 0 .. PageSize - 1
    BY AfterTypes DEF OneMore
  <2>3. \A q \in InUse(b) : q \in 0 .. PageSize - 1
    BY AfterTypes DEF InUse
  <2>. QED  BY <2>1, <2>2, <2>3
<1>3. \A c : UsedOn(p, k, c) = {Of(c, q) : q \in InUse(c)}
  BY DEF UsedOn
<1>4. Of(d, o) = e /\ \A q \in InUse(b) : Of(d, q) = Of(b, q)
  BY <1>1
<1>5. \A q \in InUse(b) : Of(b, q) # e
  <2>1. ASSUME NEW q \in InUse(b), Of(b, q) = e PROVE FALSE
    <3>1. q + HeaderSize = o + HeaderSize
      BY <2>1 DEF Extent, Address
    <3>. QED  BY <1>1, <1>2, <3>1
  <2>. QED  BY <2>1
<1>. HIDE DEF Of, e
<1>6. UsedOn(p, k, d) = UsedOn(p, k, b) \cup {e}
  BY <1>1, <1>3, <1>4
<1>7. e \notin UsedOn(p, k, b)
  BY <1>3, <1>5
<1>. QED  BY <1>6, <1>7 DEF e

LEMMA WholePageIsFree ==
    ASSUME NEW b, Tiles(b), WholePage(b), NEW p, NEW k
    PROVE  UsedOn(p, k, b) = {}
<1>1. PageSize \in Nat /\ HeaderSize \in Nat
  BY HeapConstants
<1>2. 0 \in DOMAIN b /\ b[0].isFree /\ b[0].size = PageSize - HeaderSize
  BY DEF Tiles, WholePage
<1>3. After(b, 0) = PageSize
  BY <1>1, <1>2 DEF After
<1>4. ASSUME NEW q \in DOMAIN b PROVE q = 0
  <2>1. q \in 0 .. PageSize - 1
    BY AfterTypes
  <2>2. 0 < q => PageSize <= q
    BY <1>2, <1>3, AfterTypes
  <2>. QED  BY <1>1, <2>1, <2>2
<1>5. InUse(b) = {}
  BY <1>2, <1>4 DEF InUse
<1>. QED  BY <1>5 DEF UsedOn

LEMMA FittingHasRoom ==
    ASSUME NEW b, Tiles(b), NEW n, Fitting(b, n) # {}
    PROVE  Room(b, Min(Fitting(b, n)), n)
<1>1. Fitting(b, n) \subseteq DOMAIN b
  BY WalkVisitsAll DEF Fitting
<1>2. Fitting(b, n) \subseteq Nat
  BY <1>1 DEF Tiles, IsPage
<1>3. Min(Fitting(b, n)) \in Fitting(b, n)
  BY <1>2, MinIsMember
<1>. QED  BY <1>1, <1>3 DEF Fitting, Fits, Room
-----------------------------------------------------------------------------
(* The requests on the wire. *)

LEMMA SentRequest ==
    ASSUME NEW w, IsWire(w), NEW r, IsRequest(r)
    PROVE  /\ IsWire(Append(w, r))
           /\ r.op # "finish" /\ AskedIn(w) = {} =>
                 /\ Once(Append(w, r)) /\ AskedIn(Append(w, r)) = {r}
                 /\ \A p : LeavingIn(Append(w, r), p) <=> LeavingIn(w, p)
           /\ r.op = "finish" =>
                 /\ Once(w) => Once(Append(w, r))
                 /\ AskedIn(Append(w, r)) = AskedIn(w)
                 /\ \A p : LeavingIn(Append(w, r), p) <=> LeavingIn(w, p) \/ p = r.pid
<1>. DEFINE v == Append(w, r)
            n == Len(w)
            S == ToSet(w) \cup {r}
<1>0. w \in Seq(ToSet(w)) /\ w \in Seq(S) /\ n \in Nat /\ DOMAIN w = 1 .. n
  BY DEF IsWire
<1>1. /\ v \in Seq(S) /\ Len(v) = n + 1 /\ v[n + 1] = r /\ DOMAIN v = 1 .. n + 1
      /\ \A i \in 1 .. n : v[i] = w[i]
  BY <1>0
<1>2. ToSet(v) = S
  <2>1. ToSet(v) = {v[i] : i \in 1 .. n + 1} /\ ToSet(w) = {w[i] : i \in 1 .. n}
    BY <1>0, <1>1 DEF ToSet
  <2>2. 1 .. n + 1 = 1 .. n \cup {n + 1}
    BY <1>0
  <2>. HIDE DEF v, n
  <2>. QED  BY <1>1, <2>1, <2>2
<1>3. IsWire(v)
  <2>. HIDE DEF v
  <2>. QED  BY <1>1, <1>2 DEF IsWire
<1>. HIDE DEF v, n
<1>4. \A i \in 1 .. n + 1 : i = n + 1 \/ i \in 1 .. n
  BY <1>0
<1>5. \A i \in 1 .. n : i \in 1 .. n + 1 /\ i # n + 1
  BY <1>0
<1>6. n + 1 \in 1 .. n + 1
  BY <1>0
<1>7. Len(w) = n
  BY DEF n
<1>8. CASE r.op # "finish" /\ AskedIn(w) = {}
  <2>1. \A i \in 1 .. n : w[i].op = "finish"
    BY <1>7, <1>8 DEF AskedIn, Asking
  <2>2. Asking(v) = {n + 1}
    BY <1>1, <1>4, <1>6, <1>8, <2>1 DEF Asking
  <2>3. Once(v) /\ AskedIn(v) = {r}
    BY <1>1, <2>2 DEF Once, AskedIn
  <2>4. \A p : LeavingIn(v, p) <=> LeavingIn(w, p)
    BY <1>1, <1>4, <1>5, <1>7, <1>8 DEF LeavingIn
  <2>. QED  BY <1>3, <1>8, <2>3, <2>4 DEF v
<1>9. CASE r.op = "finish"
  <2>1. Asking(v) = Asking(w) /\ \A i \in Asking(w) : v[i] = w[i]
    BY <1>1, <1>4, <1>5, <1>7, <1>9 DEF Asking
  <2>2. (Once(w) => Once(v)) /\ AskedIn(v) = AskedIn(w)
    BY <2>1 DEF Once, AskedIn
  <2>3. \A p : LeavingIn(v, p) <=> LeavingIn(w, p) \/ p = r.pid
    BY <1>1, <1>4, <1>5, <1>6, <1>7, <1>9 DEF LeavingIn
  <2>. QED  BY <1>3, <1>9, <2>2, <2>3 DEF v
<1>. QED  BY <1>3, <1>8, <1>9 DEF v

LEMMA ServedRequest ==
    ASSUME NEW w, IsWire(w), w # <<>>, Once(w)
    PROVE  /\ IsWire(Tail(w)) /\ IsRequest(Head(w)) /\ Once(Tail(w))
           /\ Head(w).op # "finish" =>
                 /\ AskedIn(w) = {Head(w)} /\ AskedIn(Tail(w)) = {}
                 /\ \A p : LeavingIn(Tail(w), p) <=> LeavingIn(w, p)
           /\ Head(w).op = "finish" =>
                 /\ AskedIn(Tail(w)) = AskedIn(w) /\ LeavingIn(w, Head(w).pid)
                 /\ \A p : LeavingIn(Tail(w), p) => LeavingIn(w, p)
                 /\ \A p : p # Head(w).pid => (LeavingIn(Tail(w), p) <=> LeavingIn(w, p))
<1>. DEFINE v == Tail(w)
            n == Len(w)
            r == Head(w)
<1>0. w \in Seq(ToSet(w)) /\ n \in Nat \ {0} /\ DOMAIN w = 1 .. n /\ r = w[1]
  BY DEF IsWire
<1>1. v \in Seq(ToSet(w)) /\ Len(v) = n - 1 /\ DOMAIN v = 1 .. n - 1 /\ \A i \in 1 .. n - 1 : v[i] = w[i + 1]
  BY <1>0
<1>2. ToSet(v) \subseteq ToSet(w) /\ v \in Seq(ToSet(v)) /\ r \in ToSet(w)
  <2>. HIDE DEF v, n, r
  <2>1. \A i \in 1 .. n - 1 : v[i] \in ToSet(w) /\ v[i] \in ToSet(v)
    BY <1>1, ElementOfSeq DEF ToSet
  <2>2. v \in Seq(ToSet(v))
    BY <1>0, <1>1, <2>1
  <2>3. r \in ToSet(w)
    BY <1>0 DEF ToSet
  <2>. QED  BY <1>1, <2>1, <2>2, <2>3 DEF ToSet
<1>3. IsWire(v) /\ IsRequest(r)
  <2>. HIDE DEF v, r
  <2>. QED  BY <1>2 DEF IsWire
<1>. HIDE DEF v, n, r
<1>4. \A i \in 1 .. n : i = 1 \/ (i - 1 \in 1 .. n - 1 /\ (i - 1) + 1 = i)
  BY <1>0
<1>5. \A i \in 1 .. n - 1 : i + 1 \in 1 .. n /\ i + 1 # 1
  BY <1>0
<1>6. 1 \in 1 .. n
  BY <1>0
<1>7. Len(w) = n
  BY DEF n
<1>8. \A i \in Asking(v) : i \in 1 .. n - 1 /\ i + 1 \in Asking(w)
  BY <1>1, <1>5, <1>7 DEF Asking
<1>9. Once(v)
  <2>1. \A i, k \in 1 .. n - 1 : i + 1 = k + 1 => i = k
    BY <1>0
  <2>. QED  BY <1>8, <2>1 DEF Once
<1>10. \A p : LeavingIn(v, p) => LeavingIn(w, p)
  BY <1>1, <1>5, <1>7 DEF LeavingIn
<1>11. \A p : LeavingIn(w, p) => LeavingIn(v, p) \/ (r.op = "finish" /\ r.pid = p)
  <2>1. ASSUME NEW p, LeavingIn(w, p)
        PROVE  LeavingIn(v, p) \/ (r.op = "finish" /\ r.pid = p)
    <3>1. PICK i \in 1 .. n : w[i].op = "finish" /\ w[i].pid = p
      BY <1>7, <2>1 DEF LeavingIn
    <3>2. i # 1 => i - 1 \in 1 .. n - 1 /\ v[i - 1] = w[i]
      BY <1>1, <1>4
    <3>. QED  BY <1>0, <1>1, <3>1, <3>2 DEF LeavingIn
  <2>. QED  BY <2>1
<1>12. CASE r.op # "finish"
  <2>1. 1 \in Asking(w)
    BY <1>0, <1>6, <1>7, <1>12 DEF Asking
  <2>2. Asking(w) = {1} /\ Asking(v) = {}
    BY <1>5, <1>8, <2>1 DEF Once
  <2>3. AskedIn(w) = {r} /\ AskedIn(v) = {}
    BY <1>0, <2>2 DEF AskedIn
  <2>. QED  BY <1>3, <1>9, <1>10, <1>11, <1>12, <2>3 DEF v, r
<1>13. CASE r.op = "finish"
  <2>1. AskedIn(v) \subseteq AskedIn(w)
    BY <1>1, <1>8 DEF AskedIn
  <2>2. ASSUME NEW i \in Asking(w) PROVE w[i] \in AskedIn(v)
    <3>1. i \in 1 .. n /\ w[i].op # "finish"
      BY <1>7 DEF Asking
    <3>2. i # 1
      BY <1>0, <1>13, <3>1
    <3>3. i - 1 \in 1 .. n - 1 /\ v[i - 1] = w[i]
      BY <1>1, <1>4, <3>1, <3>2
    <3>. QED  BY <1>1, <3>1, <3>3 DEF AskedIn, Asking
  <2>3. AskedIn(v) = AskedIn(w)
    BY <2>1, <2>2 DEF AskedIn
  <2>4. LeavingIn(w, r.pid)
    BY <1>0, <1>6, <1>7, <1>13 DEF LeavingIn
  <2>. QED  BY <1>3, <1>9, <1>10, <1>11, <1>13, <2>3, <2>4 DEF v, r
<1>. QED  BY <1>12, <1>13 DEF r
-----------------------------------------------------------------------------
(* The pages that the kernel lists, and the ranges that programs hold. *)

LEMMA KeptByIndex ==
    ASSUME NEW s, s \in Seq(Listed)
    PROVE  \A n : n \in KeptIn(s) <=> \E i \in 1 .. Len(s) : s[i].page = n /\ ~s[i].wasFreed
BY DEF KeptIn, Range

\* occupy_space
Marked(s, n, space, freed) ==
    [i \in DOMAIN s |-> IF s[i].page = n THEN Spent(s[i], space, freed) ELSE s[i]]

LEMMA MarkedKeeps ==
    ASSUME NEW s \in Seq(Listed), NEW n, NEW space \in Int, NEW freed \in BOOLEAN
    PROVE  /\ Marked(s, n, space, freed) \in Seq(Listed)
           /\ Len(Marked(s, n, space, freed)) = Len(s)
           /\ \A i \in 1 .. Len(s) : Marked(s, n, space, freed)[i].page = s[i].page
           /\ Increasing(s) => Increasing(Marked(s, n, space, freed))
           /\ freed => KeptIn(Marked(s, n, space, freed)) = KeptIn(s) \ {n}
           /\ ~freed /\ n \in KeptIn(s) => KeptIn(Marked(s, n, space, freed)) = KeptIn(s)
<1>. DEFINE t == Marked(s, n, space, freed)
            k == Len(s)
<1>1. k \in Nat /\ DOMAIN s = 1 .. k /\ \A i \in 1 .. k : s[i] \in Listed
  BY ElementOfSeq
<1>2. \A i \in 1 .. k : t[i] = IF s[i].page = n THEN Spent(s[i], space, freed) ELSE s[i]
  BY <1>1 DEF Marked
<1>3. ASSUME NEW i \in 1 .. k
      PROVE  /\ t[i] \in Listed /\ t[i].page = s[i].page
             /\ t[i].wasFreed = IF s[i].page = n THEN freed ELSE s[i].wasFreed
  <2>1. s[i] \in Listed
    BY <1>1
  <2>2. CASE s[i].page = n
    <3>1. t[i] = [s[i] EXCEPT !.freeSize = @ - space, !.wasFreed = freed]
      BY <1>2, <2>2 DEF Spent
    <3>. HIDE DEF t
    <3>2. s[i].freeSize - space \in Int
      BY <2>1 DEF Listed
    <3>. QED  BY <2>1, <2>2, <3>1, <3>2 DEF Listed
  <2>3. CASE s[i].page # n
    BY <1>2, <2>1, <2>3
  <2>. QED  BY <2>2, <2>3
<1>4. t = [i \in 1 .. k |-> t[i]]
  BY <1>1 DEF Marked
<1>. HIDE DEF t
<1>5. t \in Seq(Listed) /\ Len(t) = k
  BY <1>1, <1>3, <1>4
<1>. HIDE DEF k
<1>6. Increasing(s) => Increasing(t)
  BY <1>3, <1>5 DEF Increasing, k
<1>7. \A m : m \in KeptIn(t) <=> \E i \in 1 .. k : t[i].page = m /\ ~t[i].wasFreed
  BY <1>5, KeptByIndex
<1>8. \A m : m \in KeptIn(s) <=> \E i \in 1 .. k : s[i].page = m /\ ~s[i].wasFreed
  BY KeptByIndex DEF k
<1>9. freed => KeptIn(t) = KeptIn(s) \ {n}
  <2>1. ASSUME freed, NEW m PROVE m \in KeptIn(t) <=> m \in KeptIn(s) \ {n}
    <3>1. CASE m = n
      BY <1>3, <1>7, <2>1, <3>1
    <3>2. CASE m # n
      <4>1. \A i \in 1 .. k : t[i].page = m => t[i].wasFreed = s[i].wasFreed /\ s[i].page = m
        BY <1>3, <3>2
      <4>2. \A i \in 1 .. k : s[i].page = m => t[i].wasFreed = s[i].wasFreed /\ t[i].page = m
        BY <1>3, <3>2
      <4>3. m \in KeptIn(t) <=> m \in KeptIn(s)
        BY <1>7, <1>8, <4>1, <4>2
      <4>. QED  BY <3>2, <4>3
    <3>. QED  BY <3>1, <3>2
  <2>. QED  BY <2>1
<1>10. ~freed /\ n \in KeptIn(s) => KeptIn(t) = KeptIn(s)
  <2>1. ASSUME ~freed, n \in KeptIn(s), NEW m PROVE m \in KeptIn(t) <=> m \in KeptIn(s)
    <3>1. CASE m = n
      BY <1>3, <1>7, <1>8, <2>1, <3>1
    <3>2. CASE m # n
      BY <1>3, <1>7, <1>8, <2>1, <3>2
    <3>. QED  BY <3>1, <3>2
  <2>. QED  BY <2>1
<1>. QED  BY <1>3, <1>5, <1>6, <1>9, <1>10 DEF t, k

\* The page that add_heap_page numbers comes after every page that is listed.
LEMMA NextPageIsNew ==
    ASSUME heapPages \in [Pid -> Seq(Listed)], NEW p \in Pid, ListFits(p)
    PROVE  /\ NextPage(p) \in FirstPage .. MaxPage + 1
           /\ \A i \in 1 .. Len(heapPages[p]) : heapPages[p][i].page < NextPage(p)
           /\ NextPage(p) \notin Kept(p)
<1>. DEFINE s == heapPages[p]
            k == Len(s)
<1>0. FirstPage \in Nat /\ MaxPage \in Nat /\ FirstPage <= MaxPage
  BY HeapConstants
<1>1. s \in Seq(Listed) /\ k \in Nat
  OBVIOUS
<1>2. \A i \in 1 .. k : s[i].page \in FirstPage .. MaxPage
  BY DEF ListFits, HeapPages
<1>3. NextPage(p) \in FirstPage .. MaxPage + 1 /\ \A i \in 1 .. k : s[i].page < NextPage(p)
  <2>1. CASE s = <<>>
    BY <1>0, <2>1 DEF NextPage
  <2>2. CASE s # <<>>
    <3>1. k \in 1 .. k /\ NextPage(p) = s[k].page + 1
      BY <1>1, <2>2 DEF NextPage, Last
    <3>2. \A i \in 1 .. k : s[i].page <= s[k].page
      <4>1. \A i \in 1 .. k : i = k \/ i < k
        BY <1>1
      <4>. QED  BY <1>2, <3>1, <4>1 DEF ListFits, Increasing
    <3>. QED  BY <1>0, <1>2, <3>1, <3>2
  <2>. QED  BY <2>1, <2>2
<1>4. NextPage(p) \notin Kept(p)
  BY <1>1, <1>3, <1>2, <1>0, KeptByIndex DEF Kept
<1>. QED  BY <1>3, <1>4

LEMMA AppendKeeps ==
    ASSUME NEW s \in Seq(Listed), NEW h \in Listed, ~h.wasFreed
    PROVE  /\ Append(s, h) \in Seq(Listed) /\ Len(Append(s, h)) = Len(s) + 1
           /\ Increasing(s) /\ (\A i \in 1 .. Len(s) : s[i].page < h.page) => Increasing(Append(s, h))
           /\ \A i \in 1 .. Len(s) + 1 : Append(s, h)[i].page = h.page \/ \E k \in 1 .. Len(s) : Append(s, h)[i].page = s[k].page
           /\ KeptIn(Append(s, h)) = KeptIn(s) \cup {h.page}
<1>. DEFINE t == Append(s, h)
            k == Len(s)
<1>1. /\ k \in Nat /\ t \in Seq(Listed) /\ Len(t) = k + 1 /\ t[k + 1] = h
      /\ \A i \in 1 .. k : t[i] = s[i]
  OBVIOUS
<1>. HIDE DEF t
<1>2. \A i \in 1 .. k + 1 : i = k + 1 \/ i \in 1 .. k
  BY <1>1
<1>3. \A i \in 1 .. k : i \in 1 .. k + 1 /\ i < k + 1
  BY <1>1
<1>4. k + 1 \in 1 .. k + 1
  BY <1>1
<1>5. ASSUME Increasing(s), \A i \in 1 .. k : s[i].page < h.page
      PROVE  Increasing(t)
  <2>1. ASSUME NEW i \in 1 .. k + 1, NEW j \in 1 .. k + 1, i < j
        PROVE  t[i].page < t[j].page
    <3>1. i \in 1 .. k
      BY <1>1, <2>1
    <3>2. CASE j = k + 1
      BY <1>1, <1>5, <3>1, <3>2
    <3>3. CASE j \in 1 .. k
      BY <1>1, <1>5, <2>1, <3>1, <3>3 DEF Increasing
    <3>. QED  BY <1>2, <3>2, <3>3
  <2>. QED  BY <1>1, <2>1 DEF Increasing
<1>. HIDE DEF k
<1>6. \A m : m \in KeptIn(t) <=> \E i \in 1 .. k + 1 : t[i].page = m /\ ~t[i].wasFreed
  BY <1>1, KeptByIndex
<1>7. \A m : m \in KeptIn(s) <=> \E i \in 1 .. k : s[i].page = m /\ ~s[i].wasFreed
  BY KeptByIndex DEF k
<1>8. ASSUME NEW m PROVE m \in KeptIn(t) <=> m \in KeptIn(s) \/ m = h.page
  <2>1. m \in KeptIn(t) => m \in KeptIn(s) \/ m = h.page
    BY <1>1, <1>2, <1>6, <1>7
  <2>2. m \in KeptIn(s) => m \in KeptIn(t)
    BY <1>1, <1>3, <1>6, <1>7
  <2>3. m = h.page => m \in KeptIn(t)
    BY <1>1, <1>4, <1>6
  <2>. QED  BY <2>1, <2>2, <2>3
<1>9. KeptIn(t) = KeptIn(s) \cup {h.page}
  BY <1>8
<1>10. \A i \in 1 .. k + 1 : t[i].page = h.page \/ \E j \in 1 .. k : t[i].page = s[j].page
  BY <1>1, <1>2
<1>. QED  BY <1>1, <1>5, <1>9, <1>10 DEF t, k

LEMMA ReserveLive ==
    ASSUME NEW b, IsABag(b), NEW r, r \notin DOMAIN b
    PROVE  /\ IsABag(b (+) SetToBag({r})) /\ DOMAIN (b (+) SetToBag({r})) = DOMAIN b \cup {r}
           /\ (b (+) SetToBag({r}))[r] = 1 /\ \A x \in DOMAIN b : (b (+) SetToBag({r}))[x] = b[x]
<1>. DEFINE c == b (+) SetToBag({r})
<1>1. DOMAIN c = DOMAIN b \cup {r}
  BY DEF (+), SetToBag
<1>2. \A x \in DOMAIN b : b[x] \in Nat \ {0}
  BY DEF IsABag
<1>3. c[r] = 1
  BY DEF (+), SetToBag
<1>4. \A x \in DOMAIN b : c[x] = b[x]
  BY <1>2 DEF (+), SetToBag
<1>5. c = [x \in DOMAIN c |-> c[x]]
  BY DEF (+), SetToBag
<1>. HIDE DEF c
<1>6. IsABag(c)
  BY <1>1, <1>2, <1>3, <1>4, <1>5 DEF IsABag
<1>. QED  BY <1>1, <1>3, <1>4, <1>6 DEF c

LEMMA FreeLive ==
    ASSUME NEW b, IsABag(b), NEW r \in DOMAIN b, b[r] = 1
    PROVE  /\ IsABag(b (-) SetToBag({r})) /\ DOMAIN (b (-) SetToBag({r})) = DOMAIN b \ {r}
           /\ \A x \in DOMAIN b \ {r} : (b (-) SetToBag({r}))[x] = b[x]
<1>. DEFINE e == [x \in DOMAIN b |-> IF x = r THEN 0 ELSE b[x]]
            c == [x \in {d \in DOMAIN e : e[d] > 0} |-> e[x]]
<1>1. \A x \in DOMAIN b : b[x] \in Nat \ {0}
  BY DEF IsABag
<1>2. b (-) SetToBag({r}) = c
  <2>. DEFINE one == SetToBag({r})
              g == [x \in DOMAIN b |-> IF x \in DOMAIN one THEN b[x] - one[x] ELSE b[x]]
  <2>1. g = e
    BY <1>1 DEF SetToBag
  <2>2. b (-) one = [x \in {d \in DOMAIN g : g[d] > 0} |-> g[x]]
    <3>. HIDE DEF one
    <3>. QED  BY DEF (-)
  <2>. HIDE DEF e, g
  <2>. QED  BY <2>1, <2>2
<1>3. DOMAIN c = DOMAIN b \ {r}
  BY <1>1
<1>4. \A x \in DOMAIN b \ {r} : c[x] = b[x]
  BY <1>3
<1>5. c = [x \in DOMAIN c |-> c[x]]
  OBVIOUS
<1>. HIDE DEF c
<1>6. IsABag(c)
  BY <1>1, <1>3, <1>4, <1>5 DEF IsABag
<1>. QED  BY <1>2, <1>3, <1>4, <1>6
-----------------------------------------------------------------------------
(* What one step leaves as it was. *)

\* A page of a program, with what is held there.
Untouched(p, n) ==
    /\ LiveOn(p, n)' = LiveOn(p, n)
    /\ n \in DOMAIN memory'[p] <=> n \in DOMAIN memory[p]
    /\ n \in DOMAIN memory[p] => memory'[p][n] = memory[p][n]

AllFine(p) == \A n \in HeapPages : Fine(p, n)

\* A step of the heap, or a request for it, that is about program P.
OnlyFor(P) ==
    /\ heap.pid \in {P, NoPid} /\ heap'.pid \in {P, NoPid}
    /\ \A q \in Pid : Leaving(q)' <=> Leaving(q)
    /\ \A q \in Pid \ {P} : /\ heapPages'[q] = heapPages[q] /\ DOMAIN memory'[q] = DOMAIN memory[q]
                            /\ \A m \in HeapPages : Untouched(q, m)

LEMMA UntouchedFine ==
    ASSUME NEW p, NEW n, Untouched(p, n)
    PROVE  (Fine(p, n) => Fine(p, n)') /\ (LeftFine(p, n) => LeftFine(p, n)')
BY DEF Untouched, Fine, LeftFine

LEMMA AllUntouched ==
    ASSUME UNCHANGED <<memory, live>>, NEW p, NEW n
    PROVE  Untouched(p, n)
BY DEF Untouched, LiveOn

LEMMA OthersGoOn ==
    ASSUME OthersFit, ListsFit, NEW P \in Pid, NoPid \notin Pid, OnlyFor(P), ~Leaving(P), ListFits(P)',
           heap'.pid = P \/ AllFine(P)'
    PROVE  OthersFit' /\ ListsFit'
<1>1. ASSUME NEW q \in Pid \ {P}
      PROVE  OtherFits(q)' /\ ListFits(q)'
  <2>1. /\ q # heap.pid /\ q # heap'.pid /\ (Leaving(q)' <=> Leaving(q))
        /\ heapPages'[q] = heapPages[q] /\ DOMAIN memory'[q] = DOMAIN memory[q]
        /\ \A m \in HeapPages : Untouched(q, m)
    BY DEF OnlyFor
  <2>2. OtherFits(q)'
    <3>1. OtherFits(q)
      BY DEF OthersFit
    <3>2. ASSUME NEW n \in HeapPages
          PROVE  (Leaving(q)' => LeftFine(q, n)') /\ (~Leaving(q)' => Fine(q, n)')
      BY <2>1, <3>1, UntouchedFine DEF OtherFits
    <3>. QED  BY <3>2 DEF OtherFits, HeapPages
  <2>3. ListFits(q)'
    <3>1. ListFits(q)
      BY DEF ListsFit
    <3>2. ~Leaving(q) => DOMAIN memory[q] = Kept(q)
      BY <2>1, <3>1 DEF ListFits, GrantedFits
    <3>3. ~Leaving(q)' => GrantedFits(q)'
      BY <2>1, <3>2 DEF GrantedFits, Kept
    <3>. QED  BY <2>1, <3>1, <3>3 DEF ListFits
  <2>. QED  BY <2>2, <2>3
<1>2. OtherFits(P)'
  <2>1. ~Leaving(P)'
    BY DEF OnlyFor
  <2>2. ASSUME NEW n \in HeapPages PROVE P # heap'.pid => Fine(P, n)'
    BY DEF AllFine, HeapPages
  <2>. QED  BY <2>1, <2>2 DEF OtherFits, HeapPages
<1>. QED  BY <1>1, <1>2 DEF OthersFit, ListsFit

\* A page that is stored.
LEMMA StoreTouches ==
    ASSUME DOMAIN memory = Pid, NEW P \in Pid, NEW n, NEW b, Store(P, n, b), live' = live
    PROVE  /\ DOMAIN memory' = Pid /\ DOMAIN memory'[P] = DOMAIN memory[P] \cup {n} /\ memory'[P][n] = b
           /\ \A q \in Pid \ {P} : memory'[q] = memory[q] /\ \A m : Untouched(q, m)
           /\ \A m : m # n => Untouched(P, m)
           /\ \A q, m : LiveOn(q, m)' = LiveOn(q, m)
<1>. DEFINE f == [m \in DOMAIN memory[P] \cup {n} |-> IF m = n THEN b ELSE memory[P][m]]
<1>1. memory' = [memory EXCEPT ![P] = f]
  BY DEF Store
<1>2. DOMAIN memory' = Pid /\ memory'[P] = f /\ \A q \in Pid \ {P} : memory'[q] = memory[q]
  <2>. HIDE DEF f
  <2>. QED  BY <1>1
<1>3. DOMAIN f = DOMAIN memory[P] \cup {n} /\ f[n] = b /\ \A m \in DOMAIN memory[P] : m # n => f[m] = memory[P][m]
  OBVIOUS
<1>. HIDE DEF f
<1>4. \A q, m : LiveOn(q, m)' = LiveOn(q, m)
  BY DEF LiveOn
<1>5. \A q \in Pid \ {P} : \A m : Untouched(q, m)
  BY <1>2, <1>4 DEF Untouched
<1>6. \A m : m # n => Untouched(P, m)
  BY <1>2, <1>3, <1>4 DEF Untouched
<1>. QED  BY <1>2, <1>3, <1>4, <1>5, <1>6

\* A page that is taken back.
LEMMA TakeTouches ==
    ASSUME DOMAIN memory = Pid, NEW P \in Pid, NEW n, Take(P, n), live' = live
    PROVE  /\ DOMAIN memory' = Pid /\ DOMAIN memory'[P] = DOMAIN memory[P] \ {n}
           /\ \A m \in DOMAIN memory'[P] : memory'[P][m] = memory[P][m]
           /\ \A q \in Pid \ {P} : memory'[q] = memory[q] /\ \A m : Untouched(q, m)
           /\ \A m : m # n => Untouched(P, m)
           /\ \A q, m : LiveOn(q, m)' = LiveOn(q, m)
<1>. DEFINE f == [m \in DOMAIN memory[P] \ {n} |-> memory[P][m]]
<1>1. memory' = [memory EXCEPT ![P] = f]
  BY DEF Take
<1>2. DOMAIN memory' = Pid /\ memory'[P] = f /\ \A q \in Pid \ {P} : memory'[q] = memory[q]
  <2>. HIDE DEF f
  <2>. QED  BY <1>1
<1>3. DOMAIN f = DOMAIN memory[P] \ {n} /\ \A m \in DOMAIN memory[P] : m # n => f[m] = memory[P][m]
  OBVIOUS
<1>. HIDE DEF f
<1>4. \A q, m : LiveOn(q, m)' = LiveOn(q, m)
  BY DEF LiveOn
<1>5. \A q \in Pid \ {P} : \A m : Untouched(q, m)
  BY <1>2, <1>4 DEF Untouched
<1>6. \A m : m # n => Untouched(P, m)
  BY <1>2, <1>3, <1>4 DEF Untouched
<1>. QED  BY <1>2, <1>3, <1>4, <1>5, <1>6

\* A range that is reserved, and one that is freed.
LEMMA ReserveTouches ==
    ASSUME memory' = memory, NEW r, live' = live (+) SetToBag({r}), IsABag(live), r \notin DOMAIN live, LiveFits,
           DOMAIN live \subseteq Extents, r \in Extents, r.page \in HeapPages
    PROVE  /\ IsABag(live)' /\ (DOMAIN live \subseteq Extents)' /\ LiveFits'
           /\ LiveOn(r.pid, r.page)' = LiveOn(r.pid, r.page) \cup {r}
           /\ \A q, m : q # r.pid \/ m # r.page => Untouched(q, m)
<1>1. /\ IsABag(live') /\ DOMAIN live' = DOMAIN live \cup {r} /\ live'[r] = 1
      /\ \A x \in DOMAIN live : live'[x] = live[x]
  <2>1. IsABag(live) /\ r \notin DOMAIN live
    OBVIOUS
  <2>. DEFINE c == live (+) SetToBag({r})
  <2>2. /\ IsABag(c) /\ DOMAIN c = DOMAIN live \cup {r} /\ c[r] = 1
        /\ \A x \in DOMAIN live : c[x] = live[x]
    BY ONLY <2>1, ReserveLive
  <2>3. live' = c
    OBVIOUS
  <2>. HIDE DEF c
  <2>. QED  BY <2>2, <2>3
<1>2. LiveFits'
  BY <1>1 DEF LiveFits, HeapPages
<1>3. LiveOn(r.pid, r.page)' = LiveOn(r.pid, r.page) \cup {r}
  BY <1>1 DEF LiveOn
<1>4. \A q, m : q # r.pid \/ m # r.page => LiveOn(q, m)' = LiveOn(q, m)
  BY <1>1 DEF LiveOn
<1>5. (DOMAIN live \subseteq Extents)'
  BY <1>1 DEF Extents
<1>. QED  BY <1>1, <1>2, <1>3, <1>4, <1>5 DEF Untouched

LEMMA FreeTouches ==
    ASSUME memory' = memory, NEW r \in DOMAIN live, live' = live (-) SetToBag({r}), IsABag(live), LiveFits,
           DOMAIN live \subseteq Extents
    PROVE  /\ IsABag(live)' /\ (DOMAIN live \subseteq Extents)' /\ LiveFits'
           /\ DOMAIN live' = DOMAIN live \ {r}
           /\ LiveOn(r.pid, r.page)' = LiveOn(r.pid, r.page) \ {r}
           /\ \A q, m : q # r.pid \/ m # r.page => Untouched(q, m)
<1>1. /\ IsABag(live') /\ DOMAIN live' = DOMAIN live \ {r}
      /\ \A x \in DOMAIN live \ {r} : live'[x] = live[x]
  BY FreeLive DEF LiveFits
<1>2. LiveFits'
  BY <1>1 DEF LiveFits, HeapPages
<1>3. LiveOn(r.pid, r.page)' = LiveOn(r.pid, r.page) \ {r}
  BY <1>1 DEF LiveOn
<1>4. \A q, m : q # r.pid \/ m # r.page => LiveOn(q, m)' = LiveOn(q, m)
  BY <1>1 DEF LiveOn
<1>5. (DOMAIN live \subseteq Extents)'
  BY <1>1 DEF Extents
<1>. QED  BY <1>1, <1>2, <1>3, <1>4, <1>5 DEF Untouched
-----------------------------------------------------------------------------
(* The turns of the heap. *)

\* The heap's answer has come.
LEMMA HeapTurn ==
    ASSUME IInv, heap.at # "idle", answered
    PROVE  /\ reader = IdleReader /\ AskedIn(wire) = {} /\ heap.pid \in running /\ heap.pid \in Pid
           /\ ~Leaving(heap.pid) /\ (\E n \in HeapPages : HeapFitsOn(n)) /\ ListFits(heap.pid)
<1>1. heap # IdleHeap
  BY DEF IdleHeap
<1>2. heap = IdleHeap \/ reader = IdleReader
  BY DEF IInv, TalkFits, OneRequest
<1>3. AskedIn(wire) = {}
  BY DEF IInv, TalkFits, OneRequest
<1>4. heap.pid \in running
  BY <1>1 DEF IInv, TalkFits, RunningFits
<1>5. heap.pid \in Pid
  BY <1>4 DEF IInv, TypeOK
<1>6. ~Leaving(heap.pid)
  BY <1>4, <1>5 DEF IInv, TalkFits, RunningFits
<1>7. \E n \in HeapPages : HeapFitsOn(n)
  BY <1>1 DEF IInv, HeapFits
<1>. QED  BY <1>1, <1>2, <1>3, <1>4, <1>5, <1>6, <1>7 DEF IInv, ListsFit

\* A program asks for something while nobody uses the heap.
LEMMA IdleTurn ==
    ASSUME IInv, NobodyOverlaps, heap = IdleHeap, NEW p, MayStart(p)
    PROVE  /\ reader = IdleReader /\ AskedIn(wire) = {} /\ answered = FALSE /\ p \in running /\ p \in Pid
           /\ heap.pid = NoPid /\ ~Leaving(p) /\ AllFine(p) /\ ListFits(p) /\ DOMAIN memory[p] = Kept(p)
<1>0. NoPid \notin Pid
  BY HeapConstants
<1>1. p \in running /\ reader = IdleReader /\ wire = <<>>
  BY DEF MayStart, NobodyOverlaps, Quiet
<1>2. AskedIn(wire) = {}
  BY <1>1 DEF AskedIn, Asking
<1>3. answered = FALSE
  BY <1>1 DEF IInv, TypeOK, TalkFits, OneRequest, Waits
<1>4. p \in Pid /\ heap.pid = NoPid
  BY <1>1 DEF IInv, TypeOK, IdleHeap
<1>5. ~Leaving(p)
  BY <1>1 DEF Leaving, LeavingIn
<1>6. OtherFits(p) /\ ListFits(p)
  BY <1>4 DEF IInv, OthersFit, ListsFit
<1>7. AllFine(p)
  BY <1>0, <1>4, <1>5, <1>6 DEF OtherFits, AllFine
<1>8. DOMAIN memory[p] = Kept(p)
  BY <1>0, <1>4, <1>5, <1>6 DEF ListFits, GrantedFits
<1>. QED  BY <1>1, <1>2, <1>3, <1>4, <1>5, <1>6, <1>7, <1>8

\* The heap asks the memory for something.
LEMMA HeapAsks ==
    ASSUME IInv, AskedIn(wire) = {}, reader = IdleReader, NEW r, IsRequest(r), r.op # "finish", Send(r),
           answered' = FALSE, heap'.at # "idle", heap'.pid \in running, UNCHANGED <<running, reader, lost>>,
           \A p \in Pid : Leaving(p) => heapPages'[p] = heapPages[p]
    PROVE  /\ TalkFits' /\ IsWire(wire)' /\ AskedIn(wire)' = {r} /\ \A p : Leaving(p)' <=> Leaving(p)
<1>1. IsWire(wire) /\ wire' = Append(wire, r)
  BY DEF IInv, TypeOK, Send
<1>2. IsWire(wire') /\ Once(wire') /\ AskedIn(wire') = {r} /\ \A p : LeavingIn(wire', p) <=> LeavingIn(wire, p)
  BY <1>1, SentRequest
<1>3. \A p : Leaving(p)' <=> Leaving(p)
  BY <1>2 DEF Leaving
<1>4. heap' # IdleHeap
  BY DEF IdleHeap
<1>5. ~lost
  BY DEF IInv, TalkFits, OneRequest
<1>6. OneRequest'
  BY <1>2, <1>4, <1>5 DEF OneRequest, Waits, IdleReader
<1>7. RunningFits'
  BY <1>3 DEF IInv, TalkFits, RunningFits
<1>8. ReaderFits'
  BY DEF ReaderFits, IdleReader
<1>. QED  BY <1>2, <1>3, <1>6, <1>7, <1>8 DEF TalkFits

\* The heap has what it waited for.
LEMMA HeapRests ==
    ASSUME IInv, AskedIn(wire) = {}, reader = IdleReader, UNCHANGED <<wire, reader, lost>>,
           answered' = FALSE, heap' = IdleHeap, running' \subseteq running,
           \A p \in Pid : Leaving(p) => heapPages'[p] = heapPages[p]
    PROVE  TalkFits' /\ IsWire(wire)' /\ HeapFits' /\ \A p : Leaving(p)' <=> Leaving(p)
<1>1. IsWire(wire) /\ Once(wire) /\ ~lost
  BY DEF IInv, TypeOK, TalkFits, OneRequest
<1>2. \A p : Leaving(p)' <=> Leaving(p)
  BY DEF Leaving
<1>3. OneRequest'
  BY <1>1 DEF OneRequest, Waits
<1>4. RunningFits'
  BY <1>2 DEF IInv, TalkFits, RunningFits
<1>5. ReaderFits'
  BY DEF ReaderFits, IdleReader
<1>6. HeapFits'
  BY DEF HeapFits
<1>. QED  BY <1>1, <1>2, <1>3, <1>4, <1>5, <1>6 DEF TalkFits
-----------------------------------------------------------------------------
(* malloc_memory *)

LEMMA BareIsPage == IsPage(Bare) /\ \A b : Tiles(b) => b # Bare
<1>1. DOMAIN Bare = {} /\ Bare \in [{} -> Headers]
  BY DEF Bare
<1>. QED  BY <1>1 DEF IsPage, Tiles

LEMMA RequestTypes ==
    ASSUME NEW op \in {"add", "read", "store", "pageOf", "free", "finish"}, NEW p \in Pid,
           NEW n \in Pages \cup {0}, NEW o \in 0 .. PageSize, NEW b, IsPage(b)
    PROVE  IsRequest(Request(op, p, n, o, b)) /\ Request(op, p, n, o, b).op = op
BY DEF IsRequest, Request

LEMMA PageNumbers ==
    /\ HeapPages \subseteq Pages /\ StackPage \in Pages /\ StackPage \notin HeapPages /\ HeapPages \subseteq Nat
    /\ 0 \in 0 .. PageSize /\ HeaderSize \in 0 .. PageSize
    /\ MaxAlloc \in Nat /\ PageSize \in Nat /\ HeaderSize \in Nat \ {0} /\ NoPid \notin Pid
<1>1. /\ FirstPage \in Nat \ {0} /\ MaxPage \in Nat /\ FirstPage <= MaxPage /\ NoPid \notin Pid
      /\ PageSize \in Nat /\ HeaderSize \in Nat \ {0} /\ PageSize > 2 * HeaderSize
  BY HeapConstants
<1>2. PageSize - 2 * HeaderSize \in Nat /\ HeaderSize \in 0 .. PageSize
  BY <1>1
<1>. QED  BY <1>1, <1>2 DEF HeapPages, Pages, StackPage, MaxAlloc

LEMMA IdleHeapTypes == IdleHeap \in HeapStates /\ IdleReader \in ReaderStates /\ IdleHeap.at = "idle" /\ IdleHeap.pid = NoPid
BY PageNumbers DEF IdleHeap, HeapStates, IdleReader, ReaderStates

LEMMA TryFromKeeps ==
    ASSUME IInv, NEW p \in Pid, p \in running, ~Leaving(p), AllFine(p), DOMAIN memory[p] = Kept(p),
           NextPage(p) <= MaxPage, AskedIn(wire) = {}, reader = IdleReader, heap.pid \in {p, NoPid},
           NEW n \in 1 .. MaxAlloc, NEW i \in Nat \ {0}, TryFrom(p, n, i), answered' = FALSE,
           UNCHANGED <<kernelVars, reader, memory, live, lost, reply>>
    PROVE  IInv'
<1>. DEFINE k == Min(Suitable(p, n, i))
<1>p. PICK page, op, at, from :
         /\ page = IF Suitable(p, n, i) # {} THEN heapPages[p][k].page ELSE NextPage(p)
         /\ op = IF Suitable(p, n, i) # {} THEN "read" ELSE "add"
         /\ at = IF Suitable(p, n, i) # {} THEN "fit" ELSE "add"
         /\ from = IF Suitable(p, n, i) # {} THEN i ELSE 1
  OBVIOUS
<1>. DEFINE r == Request(op, p, page, 0, Bare)
<1>0. /\ TypeOK /\ ListFits(p) /\ heapPages \in [Pid -> Seq(Listed)] /\ heapPages[p] \in Seq(Listed)
      /\ Len(heapPages[p]) \in Nat
  BY DEF IInv, TypeOK, ListsFit
<1>1. page \in HeapPages /\ (Suitable(p, n, i) # {} => page \in DOMAIN memory[p])
  <2>1. CASE Suitable(p, n, i) # {}
    <3>1. Suitable(p, n, i) \subseteq Nat
      BY <1>0 DEF Suitable
    <3>2. k \in Suitable(p, n, i)
      BY <2>1, <3>1, MinIsMember
    <3>3. k \in 1 .. Len(heapPages[p]) /\ ~heapPages[p][k].wasFreed
      <4>1. k \in i .. Len(heapPages[p]) /\ ~heapPages[p][k].wasFreed
        BY <3>2 DEF Suitable
      <4>. HIDE DEF k
      <4>. QED  BY <1>0, <4>1
    <3>. HIDE DEF k
    <3>4. heapPages[p][k].page \in Kept(p) /\ heapPages[p][k].page \in HeapPages
      BY <1>0, <3>3, KeptByIndex DEF Kept, ListFits
    <3>. QED  BY <1>p, <2>1, <3>4
  <2>2. CASE Suitable(p, n, i) = {}
    BY <1>p, <1>0, <2>2, NextPageIsNew, PageNumbers, HeapConstants DEF HeapPages
  <2>. QED  BY <2>1, <2>2
<1>2. Send(r) /\ heap' = [at |-> at, pid |-> p, size |-> n, from |-> from, page |-> page, offset |-> 0]
  <2>1. CASE Suitable(p, n, i) # {}
    BY <1>p, <2>1 DEF TryFrom, IdleHeap
  <2>2. CASE Suitable(p, n, i) = {}
    BY <1>p, <2>2 DEF TryFrom, IdleHeap
  <2>. QED  BY <2>1, <2>2
<1>3. IsRequest(r) /\ r.op # "finish"
  <2>1. page \in Pages \cup {0}
    BY <1>1, PageNumbers
  <2>2. op \in {"add", "read", "store", "pageOf", "free", "finish"} /\ op # "finish"
    BY <1>p
  <2>. QED  BY <2>1, <2>2, RequestTypes, BareIsPage, PageNumbers
<1>4. heap'.at = at /\ heap'.pid = p /\ heap'.size = n /\ heap'.page = page /\ heap' \in HeapStates
  <2>1. page \in Pages \cup {0} /\ n \in Nat /\ from \in Nat /\ at \in {"fit", "add"}
    BY <1>p, <1>1, PageNumbers
  <2>. QED  BY <1>2, <2>1, PageNumbers DEF HeapStates
<1>. HIDE DEF r
<1>5. TalkFits' /\ IsWire(wire)' /\ AskedIn(wire)' = {r} /\ \A q : Leaving(q)' <=> Leaving(q)
  <2>1. heap'.at # "idle" /\ heap'.pid \in running /\ heapPages' = heapPages /\ running' = running
    BY <1>p, <1>4 DEF kernelVars
  <2>. QED  BY <1>2, <1>3, <2>1, HeapAsks
<1>6. \A q, m : Untouched(q, m)
  BY AllUntouched
<1>7. \A m \in HeapPages : Fine(p, m)'
  BY <1>6, UntouchedFine DEF AllFine
<1>8. HeapFitsOn(page)'
  <2>1. CASE Suitable(p, n, i) # {}
    <3>1. heap'.at = "fit" /\ op = "read"
      BY <1>p, <1>4, <2>1
    <3>2. page \in DOMAIN memory[p]
      BY <1>1, <2>1
    <3>3. FitFits(page)'
      <4>1. Asks("read", page, 0, Bare)'
        BY <1>4, <1>5, <3>1 DEF Asks, r
      <4>2. Wants(page)' /\ Found(page)'
        BY <1>4 DEF Wants, Found
      <4>3. There(page)'
        BY <1>4, <3>2 DEF There
      <4>4. Fine(heap.pid, page)'
        BY <1>1, <1>4, <1>7
      <4>5. (NextPage(heap.pid) <= MaxPage)'
        BY <1>4 DEF NextPage, kernelVars
      <4>. QED  BY <4>1, <4>2, <4>3, <4>4, <4>5 DEF FitFits
    <3>. QED  BY <1>4, <1>7, <3>1, <3>3 DEF HeapFitsOn, HeapPages
  <2>2. CASE Suitable(p, n, i) = {}
    <3>1. heap'.at = "add" /\ op = "add" /\ page = NextPage(p)
      BY <1>p, <1>4, <2>2
    <3>2. page \notin DOMAIN memory[p]
      BY <1>0, <3>1, NextPageIsNew
    <3>3. AddFits(page)'
      <4>1. Asks("add", page, 0, Bare)'
        BY <1>4, <1>5, <3>1 DEF Asks, r
      <4>2. Wants(page)'
        BY <1>4 DEF Wants
      <4>3. ~There(page)' /\ ~answered'
        BY <1>4, <3>2 DEF There
      <4>4. LiveOn(heap.pid, page)' = {}
        BY <1>1, <1>4, <1>6, <3>2 DEF AllFine, Fine, Untouched
      <4>5. page = NextPage(heap.pid)'
        BY <1>4, <3>1 DEF NextPage, kernelVars
      <4>. QED  BY <4>1, <4>2, <4>3, <4>4, <4>5 DEF AddFits
    <3>. QED  BY <1>4, <1>7, <3>1, <3>3 DEF HeapFitsOn, HeapPages
  <2>. QED  BY <2>1, <2>2
<1>9. HeapFits'
  BY <1>1, <1>8 DEF HeapFits, HeapPages
<1>10. ListFits(p)'
  <2>1. heapPages' = heapPages /\ memory' = memory
    BY DEF kernelVars
  <2>2. DOMAIN memory'[p] = Kept(p)' /\ DOMAIN memory[p] = Kept(p)
    BY <2>1 DEF Kept
  <2>3. heap'.at = "add" => page \notin Kept(p)
    <3>1. ASSUME heap'.at = "add" PROVE page = NextPage(p)
      BY <1>p, <1>4, <3>1
    <3>. QED  BY <1>0, <3>1, NextPageIsNew
  <2>4. GrantedFits(p)'
    <3>1. heap'.at \in {"fit", "add"}
      BY <1>p, <1>4
    <3>2. heap'.at = "add" => DOMAIN memory'[p] \ {heap'.page} = Kept(p)'
      BY <1>4, <2>1, <2>2, <2>3
    <3>. QED  BY <2>2, <3>1, <3>2 DEF GrantedFits
  <2>. QED  BY <1>0, <2>1, <2>4 DEF ListFits
<1>11. OthersFit' /\ ListsFit'
  <2>1. OnlyFor(p)
    BY <1>4, <1>5, <1>6 DEF OnlyFor, kernelVars
  <2>. QED  BY <1>4, <1>10, <2>1, OthersGoOn, PageNumbers DEF IInv
<1>12. TypeOK'
  BY <1>0, <1>4, <1>5 DEF TypeOK, kernelVars
<1>13. LiveFits'
  BY DEF IInv, LiveFits
<1>. QED  BY <1>5, <1>9, <1>11, <1>12, <1>13 DEF IInv

LEMMA MallocKeeps ==
    ASSUME IInv, NobodyOverlaps, NEW p \in Pid, NEW n \in Sizes, Malloc(p, n)
    PROVE  IInv'
<1>1. /\ heap = IdleHeap /\ MayStart(p) /\ NextPage(p) <= MaxPage /\ n <= MaxAlloc /\ TryFrom(p, n, 1)
      /\ UNCHANGED <<kernelVars, reader, reply, answered, memory, live, lost>>
  BY DEF Malloc
<1>2. /\ reader = IdleReader /\ AskedIn(wire) = {} /\ answered = FALSE /\ p \in running
      /\ heap.pid = NoPid /\ ~Leaving(p) /\ AllFine(p) /\ DOMAIN memory[p] = Kept(p)
  BY <1>1, IdleTurn
<1>3. n \in 1 .. MaxAlloc /\ 1 \in Nat \ {0}
  <2>1. n \in Nat \ {0}
    BY HeapConstants
  <2>. QED  BY <1>1, <2>1, PageNumbers
<1>4. answered' = FALSE /\ UNCHANGED <<kernelVars, reader, memory, live, lost, reply>> /\ heap.pid \in {p, NoPid}
  BY <1>1, <1>2
<1>. QED  BY ONLY <1>1, <1>2, <1>3, <1>4, IInv, p \in Pid, TryFromKeeps

\* What the heap waits for has not changed, and it is answered with page n.
LEMMA HeapOn ==
    ASSUME IInv, HeapAt(heap.at), heap.at # "idle"
    PROVE  \E P \in Pid, n \in HeapPages :
              /\ P = heap.pid /\ P \in running /\ ~Leaving(P) /\ HeapFitsOn(n) /\ ListFits(P)
              /\ \A m \in HeapPages \ {n} : Fine(P, m)
              /\ reader = IdleReader /\ AskedIn(wire) = {} /\ answered /\ answered' = FALSE /\ GrantedFits(P)
<1>1. answered /\ answered' = FALSE
  BY DEF HeapAt, Answered
<1>2. PICK n \in HeapPages : HeapFitsOn(n)
  BY <1>1, HeapTurn
<1>3. \A m \in HeapPages \ {n} : Fine(heap.pid, m)
  BY <1>2 DEF HeapFitsOn
<1>. QED  BY <1>1, <1>2, <1>3, HeapTurn DEF ListFits

LEMMA FitKeeps ==
    ASSUME IInv, Fit
    PROVE  IInv'
<1>1. /\ HeapAt("fit") /\ heap.at = "fit" /\ UNCHANGED <<kernelVars, reader, memory, live, lost>>
  BY DEF Fit, HeapAt
<1>2. PICK P \in Pid, n \in HeapPages :
              /\ P = heap.pid /\ P \in running /\ ~Leaving(P) /\ HeapFitsOn(n) /\ ListFits(P)
              /\ \A m \in HeapPages \ {n} : Fine(P, m)
              /\ reader = IdleReader /\ AskedIn(wire) = {} /\ answered /\ answered' = FALSE /\ GrantedFits(P)
  BY <1>1, HeapOn
<1>3. /\ heap.page = n /\ heap.size \in 1 .. MaxAlloc /\ reply.buffer = memory[P][n]
      /\ n \in DOMAIN memory[P] /\ Fine(P, n) /\ NextPage(P) <= MaxPage
  BY <1>1, <1>2 DEF HeapFitsOn, FitFits, Wants, Found, There, Page
<1>4. AllFine(P) /\ DOMAIN memory[P] = Kept(P) /\ TypeOK
  BY <1>1, <1>2, <1>3 DEF AllFine, GrantedFits, IInv
<1>5. CASE Fitting(reply.buffer, heap.size) = {}
  <2>1. TryFrom(P, heap.size, heap.from + 1) /\ UNCHANGED reply
    BY <1>2, <1>5 DEF Fit
  <2>2. heap.from + 1 \in Nat \ {0}
    BY <1>4 DEF TypeOK, HeapStates
  <2>. QED  BY <1>1, <1>2, <1>3, <1>4, <2>1, <2>2, TryFromKeeps
<1>6. CASE Fitting(reply.buffer, heap.size) # {}
  <2>1. PICK o, s, page : /\ o = Min(Fitting(reply.buffer, heap.size)) /\ s = heap.size
                          /\ page = Split(reply.buffer, o, s)
    OBVIOUS
  <2>. DEFINE r == Request("store", P, n, 0, page)
  <2>2. /\ reply' = [reply EXCEPT !.buffer = page] /\ Send(r)
        /\ heap' = [heap EXCEPT !.at = "fitted", !.offset = o + HeaderSize]
    BY <1>2, <1>3, <1>6, <2>1 DEF Fit
  <2>3. s \in 1 .. MaxAlloc /\ s \in Nat /\ Tiles(memory[P][n]) /\ LiveOn(P, n) = UsedOn(P, n, memory[P][n])
    BY <1>3, <2>1, PageNumbers DEF Fine
  <2>4. OneMore(memory[P][n], page, o, s)
    <3>1. Room(memory[P][n], o, s)
      BY <1>3, <1>6, <2>1, <2>3, FittingHasRoom
    <3>. QED  BY <1>3, <2>1, <2>3, <3>1, SplitTiles
  <2>5. Tiles(page) /\ IsPage(page) /\ o + HeaderSize \in 0 .. PageSize
    <3>1. Tiles(page) /\ o \in DOMAIN page
      BY <2>4 DEF OneMore
    <3>2. /\ After(page, o) \in 1 .. PageSize /\ o + HeaderSize + page[o].size = After(page, o)
          /\ o \in 0 .. PageSize - 1 /\ page[o].size \in 0 .. PageSize
      BY <3>1, AfterTypes
    <3>3. o + HeaderSize \in 0 .. PageSize
      <4>. DEFINE a == After(page, o)
                  z == page[o].size
      <4>. HIDE DEF a, z
      <4>1. a \in 1 .. PageSize /\ o + HeaderSize + z = a /\ o \in 0 .. PageSize - 1 /\ z \in 0 .. PageSize
        BY <3>2 DEF a, z
      <4>. QED  BY <4>1, PageNumbers
    <3>. QED  BY <3>1, <3>3 DEF Tiles
  <2>6. IsRequest(r) /\ r.op # "finish"
    BY <1>2, <2>5, RequestTypes, PageNumbers
  <2>7. heap'.at = "fitted" /\ heap'.pid = P /\ heap'.size = s /\ heap'.page = n /\ heap'.offset = o + HeaderSize
        /\ heap' \in HeapStates
    BY <1>2, <1>3, <1>4, <2>1, <2>2, <2>5 DEF TypeOK, HeapStates
  <2>8. reply'.buffer = page /\ IsReply(reply)'
    BY <1>4, <2>2, <2>5 DEF TypeOK, IsReply
  <2>. HIDE DEF r
  <2>9. TalkFits' /\ IsWire(wire)' /\ AskedIn(wire)' = {r} /\ \A q : Leaving(q)' <=> Leaving(q)
    BY <1>1, <1>2, <2>2, <2>6, <2>7, HeapAsks DEF kernelVars
  <2>10. \A q, m : Untouched(q, m)
    BY <1>1, AllUntouched
  <2>11. HeapFitsOn(n)'
    <3>1. Asks("store", n, 0, reply.buffer)'
      BY <2>7, <2>8, <2>9 DEF Asks, r
    <3>2. Wants(n)' /\ Written(n)'
      BY <1>2, <2>3, <2>7 DEF Wants, Written
    <3>3. There(n)' /\ Page(n)' = memory[P][n]
      BY <1>1, <1>3, <2>7 DEF There, Page
    <3>4. Held(heap.pid, n, reply.buffer, Taking(n, heap.offset))'
      <4>. DEFINE x == Extent(Address(P, n, o + HeaderSize), s)
      <4>1. UsedOn(P, n, page) = UsedOn(P, n, memory[P][n]) \cup {x} /\ x \notin UsedOn(P, n, memory[P][n])
        BY <2>3, <2>4, OneMoreUsed
      <4>2. x.pid = P /\ x.page = n
        BY DEF Extent, Address
      <4>3. x \notin DOMAIN live
        BY <2>3, <4>1, <4>2 DEF LiveOn
      <4>4. LiveOn(P, n)' = LiveOn(P, n)
        BY <2>10 DEF Untouched
      <4>5. Taking(n, heap.offset)' = x
        BY <2>7 DEF Taking
      <4>. QED  BY <1>1, <2>3, <2>7, <2>8, <4>1, <4>3, <4>4, <4>5 DEF Held
    <3>5. FittedFits(n)'
      BY <2>3, <2>5, <2>8, <3>1, <3>2, <3>3, <3>4 DEF FittedFits
    <3>6. \A m \in HeapPages \ {n} : Fine(heap.pid, m)'
      BY <1>2, <2>7, <2>10, UntouchedFine
    <3>. QED  BY <2>7, <3>5, <3>6 DEF HeapFitsOn, HeapPages
  <2>12. HeapFits'
    BY <2>11 DEF HeapFits, HeapPages
  <2>13. ListFits(P)'
    BY <1>1, <1>2, <1>4, <2>7 DEF ListFits, GrantedFits, Kept, kernelVars
  <2>14. OthersFit' /\ ListsFit'
    <3>1. OnlyFor(P)
      BY <1>1, <1>2, <2>7, <2>9, <2>10 DEF OnlyFor, kernelVars
    <3>. QED  BY <1>2, <2>7, <2>13, <3>1, OthersGoOn, PageNumbers DEF IInv
  <2>15. TypeOK'
    BY <1>1, <1>2, <1>4, <2>7, <2>8, <2>9 DEF TypeOK, kernelVars
  <2>16. LiveFits'
    BY <1>1 DEF IInv, LiveFits
  <2>. QED  BY <2>9, <2>12, <2>14, <2>15, <2>16 DEF IInv
<1>. QED  BY <1>5, <1>6

LEMMA OccupiedFits ==
    ASSUME heapPages \in [Pid -> Seq(Listed)], NEW P \in Pid, ListFits(P), NEW n, NEW space \in Int, NEW freed \in BOOLEAN,
           heapPages' = Occupied(P, n, space, freed)
    PROVE  /\ (heapPages \in [Pid -> Seq(Listed)])' /\ \A q \in Pid \ {P} : heapPages'[q] = heapPages[q]
           /\ \A i \in 1 .. Len(heapPages'[P]) : heapPages'[P][i].page \in HeapPages
           /\ Increasing(heapPages'[P])
           /\ freed => Kept(P)' = Kept(P) \ {n}
           /\ ~freed /\ n \in Kept(P) => Kept(P)' = Kept(P)
<1>. DEFINE s == heapPages[P]
            t == Marked(s, n, space, freed)
<1>1. s \in Seq(Listed)
  OBVIOUS
<1>2. heapPages' = [heapPages EXCEPT ![P] = t]
  BY DEF Occupied, Marked
<1>3. /\ t \in Seq(Listed) /\ Len(t) = Len(s) /\ \A i \in 1 .. Len(s) : t[i].page = s[i].page
      /\ Increasing(s) => Increasing(t)
      /\ freed => KeptIn(t) = KeptIn(s) \ {n}
      /\ ~freed /\ n \in KeptIn(s) => KeptIn(t) = KeptIn(s)
  <2>. HIDE DEF s
  <2>. QED  BY <1>1, MarkedKeeps
<1>. HIDE DEF t
<1>4. heapPages' \in [Pid -> Seq(Listed)] /\ heapPages'[P] = t /\ \A q \in Pid \ {P} : heapPages'[q] = heapPages[q]
  BY <1>2, <1>3
<1>5. (\A i \in 1 .. Len(s) : s[i].page \in HeapPages) /\ Increasing(s)
  BY DEF ListFits
<1>. QED  BY <1>3, <1>4, <1>5 DEF Kept

LEMMA RefuseRests ==
    ASSUME IInv, NEW P \in Pid, P \in running, ~Leaving(P), AllFine(P), DOMAIN memory[P] = Kept(P), Refuse(P),
           heap.pid \in {P, NoPid}, AskedIn(wire) = {}, reader = IdleReader, wire' = wire, answered' = FALSE
    PROVE  IInv'
<1>1. /\ running' = running \ {P} /\ heap' = IdleHeap
      /\ UNCHANGED <<heapPages, reader, reply, memory, live, lost>>
  BY DEF Refuse
<1>2. TalkFits' /\ IsWire(wire)' /\ HeapFits' /\ \A p : Leaving(p)' <=> Leaving(p)
  <2>1. UNCHANGED <<wire, reader, lost>> /\ running' \subseteq running /\ \A p \in Pid : Leaving(p) => heapPages'[p] = heapPages[p]
    BY <1>1
  <2>. QED  BY <1>1, <2>1, HeapRests
<1>3. \A q, m : Untouched(q, m)
  BY <1>1, AllUntouched
<1>4. AllFine(P)'
  BY <1>3, UntouchedFine DEF AllFine, HeapPages
<1>5. heap'.pid = NoPid /\ TypeOK
  BY <1>1, IdleHeapTypes DEF IInv
<1>6. ListFits(P)'
  <2>1. ListFits(P)
    BY DEF IInv, ListsFit
  <2>2. GrantedFits(P)'
    BY <1>1, <1>5, PageNumbers DEF GrantedFits, Kept
  <2>. QED  BY <1>1, <2>1, <2>2 DEF ListFits
<1>7. OthersFit' /\ ListsFit'
  <2>1. OnlyFor(P)
    BY <1>1, <1>2, <1>3, <1>5 DEF OnlyFor
  <2>. QED  BY <1>4, <1>6, <2>1, OthersGoOn, PageNumbers DEF IInv
<1>8. TypeOK'
  BY <1>1, <1>2, <1>5, IdleHeapTypes DEF TypeOK
<1>9. LiveFits'
  BY <1>1 DEF IInv, LiveFits
<1>. QED  BY <1>2, <1>7, <1>8, <1>9 DEF IInv

LEMMA MallocTooMuchKeeps ==
    ASSUME IInv, NobodyOverlaps, NEW p \in Pid, NEW n \in Sizes, MallocTooMuch(p, n)
    PROVE  IInv'
<1>1. heap = IdleHeap /\ MayStart(p) /\ Refuse(p) /\ UNCHANGED <<wire, answered>>
  BY DEF MallocTooMuch
<1>. QED  BY <1>1, IdleTurn, RefuseRests

\* A step that ends what the heap does for P; what the program holds may have changed.
LEMMA HeapFinishes ==
    ASSUME IInv, NEW P \in Pid, heap.pid = P, ~Leaving(P), AskedIn(wire) = {}, reader = IdleReader,
           heap' = IdleHeap, answered' = FALSE, UNCHANGED <<running, reader, wire, reply, memory, lost>>,
           (heapPages \in [Pid -> Seq(Listed)])', \A q \in Pid \ {P} : heapPages'[q] = heapPages[q],
           \A i \in 1 .. Len(heapPages'[P]) : heapPages'[P][i].page \in HeapPages,
           Increasing(heapPages'[P]), DOMAIN memory[P] = Kept(P)', AllFine(P)',
           \A q \in Pid \ {P} : \A m : Untouched(q, m),
           IsABag(live)', (DOMAIN live \subseteq Extents)', LiveFits'
    PROVE  IInv'
<1>1. heap'.pid = NoPid /\ TypeOK /\ ListFits(P)
  BY IdleHeapTypes DEF IInv, ListsFit
<1>2. ListFits(P)'
  <2>1. GrantedFits(P)'
    BY <1>1, PageNumbers DEF GrantedFits
  <2>. QED  BY <1>1, <2>1 DEF ListFits, HeapPages
<1>3. TalkFits' /\ IsWire(wire)' /\ HeapFits' /\ \A p : Leaving(p)' <=> Leaving(p)
  <2>1. UNCHANGED <<wire, reader, lost>> /\ running' \subseteq running /\ \A p \in Pid : Leaving(p) => heapPages'[p] = heapPages[p]
    OBVIOUS
  <2>. QED  BY <2>1, HeapRests
<1>4. OthersFit' /\ ListsFit'
  <2>1. OnlyFor(P)
    BY <1>1, <1>3 DEF OnlyFor
  <2>. QED  BY <1>2, <2>1, OthersGoOn, PageNumbers DEF IInv
<1>5. TypeOK'
  BY <1>1, <1>3, IdleHeapTypes DEF TypeOK
<1>. QED  BY <1>3, <1>4, <1>5 DEF IInv

LEMMA FittedKeeps ==
    ASSUME IInv, Fitted
    PROVE  IInv'
<1>1. /\ HeapAt("fitted") /\ heap.at = "fitted" /\ UNCHANGED <<running, reader, wire, reply, memory, lost>>
      /\ heap' = IdleHeap /\ heapPages' = Occupied(heap.pid, heap.page, Taken, FALSE)
      /\ Reserve([reply.offsetAbs EXCEPT !.offset = @ + heap.offset])
  BY DEF Fitted, HeapAt
<1>2. PICK P \in Pid, n \in HeapPages :
              /\ P = heap.pid /\ P \in running /\ ~Leaving(P) /\ HeapFitsOn(n) /\ ListFits(P)
              /\ \A m \in HeapPages \ {n} : Fine(P, m)
              /\ reader = IdleReader /\ AskedIn(wire) = {} /\ answered /\ answered' = FALSE /\ GrantedFits(P)
  BY <1>1, HeapOn
<1>3. /\ heap.page = n /\ heap.size \in 1 .. MaxAlloc /\ n \in DOMAIN memory[P] /\ Tiles(memory[P][n])
      /\ memory[P][n] = reply.buffer /\ reply.offsetAbs = Address(P, n, 0)
      /\ Held(P, n, memory[P][n], Taking(n, heap.offset))
  BY <1>1, <1>2 DEF HeapFitsOn, FittedFits, Wants, Written, There, Page
<1>4. DOMAIN memory[P] = Kept(P) /\ TypeOK /\ heapPages \in [Pid -> Seq(Listed)] /\ heap \in HeapStates
  BY <1>1, <1>2 DEF GrantedFits, IInv, TypeOK
<1>5. PICK r : r = Taking(n, heap.offset)
  OBVIOUS
<1>6. live' = live (+) SetToBag({r})
  <2>1. heap.offset \in 0 .. PageSize
    BY <1>4 DEF HeapStates
  <2>2. [reply.offsetAbs EXCEPT !.offset = @ + heap.offset] = Address(P, n, heap.offset)
    BY <1>3, <2>1 DEF Address
  <2>. QED  BY <1>1, <1>2, <1>5, <2>2 DEF Reserve, Taking
<1>7. r.pid = P /\ r.page = n /\ r \in Extents /\ r \notin DOMAIN live /\ UsedOn(P, n, memory[P][n]) = LiveOn(P, n) \cup {r}
  <2>1. r = [pid |-> P, page |-> n, offset |-> heap.offset, size |-> heap.size]
    BY <1>2, <1>5 DEF Taking, Extent, Address
  <2>2. heap.size \in 0 .. PageSize /\ heap.offset \in 0 .. PageSize /\ n \in Pages
    <3>1. heap.offset \in 0 .. PageSize
      BY <1>4 DEF HeapStates
    <3>2. MaxAlloc \in Nat /\ MaxAlloc <= PageSize
      BY HeapConstants DEF MaxAlloc
    <3>. QED  BY <1>3, <3>1, <3>2, PageNumbers
  <2>. QED  BY <1>3, <1>5, <2>1, <2>2 DEF Extents, Held
<1>8. /\ IsABag(live)' /\ (DOMAIN live \subseteq Extents)' /\ LiveFits' /\ LiveOn(P, n)' = LiveOn(P, n) \cup {r}
      /\ \A q, m : q # P \/ m # n => Untouched(q, m)
  <2>1. IsABag(live) /\ LiveFits /\ DOMAIN live \subseteq Extents /\ r.page \in HeapPages /\ memory' = memory
    BY <1>1, <1>4, <1>7 DEF IInv, TypeOK
  <2>2. /\ IsABag(live)' /\ (DOMAIN live \subseteq Extents)' /\ LiveFits' /\ LiveOn(r.pid, r.page)' = LiveOn(r.pid, r.page) \cup {r}
        /\ \A q, m : q # r.pid \/ m # r.page => Untouched(q, m)
    BY <1>6, <1>7, <2>1, ReserveTouches
  <2>. QED  BY <1>7, <2>2
<1>9. AllFine(P)'
  <2>1. Fine(P, n)'
    BY <1>1, <1>3, <1>7, <1>8 DEF Fine
  <2>2. \A m \in HeapPages \ {n} : Fine(P, m)'
    BY <1>2, <1>8, UntouchedFine
  <2>. QED  BY <2>1, <2>2 DEF AllFine, HeapPages
<1>10. /\ (heapPages \in [Pid -> Seq(Listed)])' /\ \A q \in Pid \ {P} : heapPages'[q] = heapPages[q]
       /\ \A i \in 1 .. Len(heapPages'[P]) : heapPages'[P][i].page \in HeapPages
       /\ Increasing(heapPages'[P]) /\ Kept(P)' = Kept(P)
  <2>1. Taken \in Int
    BY <1>4, PageNumbers DEF Taken, HeapStates
  <2>2. heapPages' = Occupied(P, n, Taken, FALSE) /\ n \in Kept(P) /\ FALSE \in BOOLEAN
    BY <1>1, <1>2, <1>3, <1>4
  <2>. QED  BY <1>2, <1>4, <2>1, <2>2, OccupiedFits
<1>11. DOMAIN memory[P] = Kept(P)' /\ \A q \in Pid \ {P} : \A m : Untouched(q, m)
  BY <1>4, <1>8, <1>10
<1>. QED  BY <1>1, <1>2, <1>8, <1>9, <1>10, <1>11, HeapFinishes

LEMMA AddKeeps ==
    ASSUME IInv, Add
    PROVE  IInv'
<1>1. /\ HeapAt("add") /\ heap.at = "add"
  BY DEF Add, HeapAt
<1>2. PICK P \in Pid, n \in HeapPages :
              /\ P = heap.pid /\ P \in running /\ ~Leaving(P) /\ HeapFitsOn(n) /\ ListFits(P)
              /\ \A m \in HeapPages \ {n} : Fine(P, m)
              /\ reader = IdleReader /\ AskedIn(wire) = {} /\ answered /\ answered' = FALSE /\ GrantedFits(P)
  BY <1>1, HeapOn
<1>3. /\ heap.page = n /\ heap.size \in 1 .. MaxAlloc /\ n = NextPage(P) /\ LiveOn(P, n) = {}
      /\ n \in DOMAIN memory[P] <=> reply.ok
      /\ n \in DOMAIN memory[P] => memory[P][n] = Bare
  BY <1>1, <1>2 DEF HeapFitsOn, AddFits, Wants, There, Page
<1>4. DOMAIN memory[P] \ {n} = Kept(P) /\ TypeOK /\ heapPages \in [Pid -> Seq(Listed)] /\ heap \in HeapStates
  BY <1>1, <1>2, <1>3 DEF GrantedFits, IInv, TypeOK
<1>5. CASE ~reply.ok
  <2>1. Refuse(P) /\ wire' = wire
    BY <1>2, <1>5 DEF Add
  <2>2. AllFine(P) /\ DOMAIN memory[P] = Kept(P)
    BY <1>2, <1>3, <1>4, <1>5 DEF AllFine, Fine
  <2>. QED  BY <1>2, <2>1, <2>2, RefuseRests
<1>6. CASE reply.ok
  <2>. DEFINE r == Request("read", P, n, 0, Bare)
  <2>1. PICK h : h = [page |-> n, freeSize |-> MaxAlloc - heap.size, wasFreed |-> FALSE]
    OBVIOUS
  <2>2. /\ heapPages' = [heapPages EXCEPT ![P] = Append(@, h)] /\ Send(r)
        /\ heap' = [heap EXCEPT !.at = "format"]
        /\ UNCHANGED <<running, reader, reply, memory, live, lost>>
    BY <1>2, <1>3, <1>6, <2>1 DEF Add, GoHeap
  <2>3. h \in Listed /\ ~h.wasFreed /\ h.page = n
    BY <1>3, <2>1, PageNumbers DEF Listed
  <2>4. /\ Append(heapPages[P], h) \in Seq(Listed)
        /\ Increasing(Append(heapPages[P], h)) /\ KeptIn(Append(heapPages[P], h)) = Kept(P) \cup {n}
        /\ \A i \in 1 .. Len(Append(heapPages[P], h)) : Append(heapPages[P], h)[i].page \in HeapPages
    <3>. DEFINE s == heapPages[P]
                t == Append(s, h)
    <3>1. s \in Seq(Listed) /\ Increasing(s) /\ \A i \in 1 .. Len(s) : s[i].page \in HeapPages
      BY <1>2, <1>4 DEF ListFits
    <3>2. \A i \in 1 .. Len(s) : s[i].page < n
      BY <1>2, <1>3, <1>4, NextPageIsNew
    <3>. HIDE DEF s
    <3>3. /\ t \in Seq(Listed) /\ Len(t) = Len(s) + 1 /\ KeptIn(t) = KeptIn(s) \cup {n}
          /\ Increasing(s) /\ (\A i \in 1 .. Len(s) : s[i].page < h.page) => Increasing(t)
          /\ \A i \in 1 .. Len(s) + 1 : t[i].page = h.page \/ \E k \in 1 .. Len(s) : t[i].page = s[k].page
      BY <2>3, <3>1, AppendKeeps
    <3>. HIDE DEF t
    <3>4. Increasing(t) /\ \A i \in 1 .. Len(t) : t[i].page \in HeapPages
      BY <2>3, <3>1, <3>2, <3>3
    <3>. QED  BY <3>3, <3>4 DEF s, t, Kept
  <2>5. /\ (heapPages \in [Pid -> Seq(Listed)])' /\ \A q \in Pid \ {P} : heapPages'[q] = heapPages[q]
        /\ \A i \in 1 .. Len(heapPages'[P]) : heapPages'[P][i].page \in HeapPages
        /\ Increasing(heapPages'[P]) /\ Kept(P)' = DOMAIN memory[P]
    <3>. DEFINE t == Append(heapPages[P], h)
    <3>1. n \in DOMAIN memory[P]
      BY <1>3, <1>6
    <3>. HIDE DEF t
    <3>2. heapPages' = [heapPages EXCEPT ![P] = t]
      BY <2>2 DEF t
    <3>3. t \in Seq(Listed) /\ Increasing(t) /\ KeptIn(t) = Kept(P) \cup {n} /\ \A i \in 1 .. Len(t) : t[i].page \in HeapPages
      BY <2>4 DEF t
    <3>4. heapPages' \in [Pid -> Seq(Listed)] /\ heapPages'[P] = t /\ \A q \in Pid \ {P} : heapPages'[q] = heapPages[q]
      BY <1>4, <3>2, <3>3
    <3>. QED  BY <1>4, <3>1, <3>3, <3>4 DEF Kept
  <2>6. IsRequest(r) /\ r.op # "finish"
    BY <1>2, RequestTypes, BareIsPage, PageNumbers
  <2>7. heap'.at = "format" /\ heap'.pid = P /\ heap'.size = heap.size /\ heap'.page = n /\ heap' \in HeapStates
    BY <1>2, <1>3, <1>4, <2>2 DEF HeapStates
  <2>. HIDE DEF r
  <2>9. TalkFits' /\ IsWire(wire)' /\ AskedIn(wire)' = {r} /\ \A q : Leaving(q)' <=> Leaving(q)
    <3>1. \A p \in Pid : Leaving(p) => heapPages'[p] = heapPages[p]
      BY <1>2, <2>5
    <3>. QED  BY <1>2, <2>2, <2>6, <2>7, <3>1, HeapAsks
  <2>10. \A q, m : Untouched(q, m)
    BY <2>2, AllUntouched
  <2>11. HeapFitsOn(n)'
    <3>1. Asks("read", n, 0, Bare)'
      BY <2>7, <2>9 DEF Asks, r
    <3>2. Wants(n)'
      BY <1>3, <2>7 DEF Wants
    <3>3. There(n)' /\ Page(n)' = Bare
      BY <1>3, <1>6, <2>2, <2>7 DEF There, Page
    <3>4. LiveOn(heap.pid, n)' = {}
      BY <1>3, <2>7, <2>10 DEF Untouched
    <3>5. FormatFits(n)'
      BY <3>1, <3>2, <3>3, <3>4 DEF FormatFits
    <3>6. \A m \in HeapPages \ {n} : Fine(heap.pid, m)'
      BY <1>2, <2>7, <2>10, UntouchedFine
    <3>. QED  BY <2>7, <3>5, <3>6 DEF HeapFitsOn, HeapPages
  <2>12. HeapFits'
    BY <2>11 DEF HeapFits, HeapPages
  <2>13. ListFits(P)'
    <3>1. GrantedFits(P)'
      BY <2>2, <2>5, <2>7 DEF GrantedFits
    <3>. QED  BY <1>2, <2>2, <2>5, <3>1 DEF ListFits, HeapPages
  <2>14. OthersFit' /\ ListsFit'
    <3>1. OnlyFor(P)
      BY <1>2, <2>2, <2>5, <2>7, <2>9, <2>10 DEF OnlyFor
    <3>. QED  BY <1>2, <2>7, <2>13, <3>1, OthersGoOn, PageNumbers DEF IInv
  <2>15. TypeOK'
    BY <1>2, <1>4, <2>2, <2>5, <2>7, <2>9 DEF TypeOK
  <2>16. LiveFits'
    BY <2>2 DEF IInv, LiveFits
  <2>. QED  BY <2>9, <2>12, <2>14, <2>15, <2>16 DEF IInv
<1>. QED  BY <1>5, <1>6

LEMMA FormatKeeps ==
    ASSUME IInv, Format
    PROVE  IInv'
<1>1. HeapAt("format") /\ heap.at = "format"
  BY DEF Format, HeapAt
<1>2. PICK P \in Pid, n \in HeapPages :
              /\ P = heap.pid /\ P \in running /\ ~Leaving(P) /\ HeapFitsOn(n) /\ ListFits(P)
              /\ \A m \in HeapPages \ {n} : Fine(P, m)
              /\ reader = IdleReader /\ AskedIn(wire) = {} /\ answered /\ answered' = FALSE /\ GrantedFits(P)
  BY <1>1, HeapOn
<1>3. /\ heap.page = n /\ heap.size \in 1 .. MaxAlloc /\ LiveOn(P, n) = {}
      /\ n \in DOMAIN memory[P] /\ memory[P][n] = Bare
  BY <1>1, <1>2 DEF HeapFitsOn, FormatFits, Wants, There, Page
<1>4. DOMAIN memory[P] = Kept(P) /\ TypeOK /\ heap \in HeapStates
  BY <1>1, <1>2, <1>3 DEF GrantedFits, IInv, TypeOK
<1>5. PICK s, page : s = heap.size /\ page = Split(NewPage, 0, s)
  OBVIOUS
<1>. DEFINE r == Request("store", P, n, 0, page)
<1>6. /\ reply' = [reply EXCEPT !.buffer = page] /\ Send(r) /\ heap' = [heap EXCEPT !.at = "formatted"]
      /\ UNCHANGED <<kernelVars, reader, memory, live, lost>>
  BY <1>2, <1>3, <1>5 DEF Format, GoHeap
<1>7. Tiles(NewPage) /\ Tiles(page) /\ IsPage(page) /\ OneMore(NewPage, page, 0, s) /\ UsedOn(P, n, NewPage) = {}
  <2>1. Tiles(NewPage) /\ Room(NewPage, 0, s) /\ InUse(NewPage) = {} /\ s \in Nat
    BY <1>3, <1>5, NewPageTiles, PageNumbers
  <2>2. OneMore(NewPage, page, 0, s)
    BY <1>5, <2>1, SplitTiles
  <2>. QED  BY <2>1, <2>2 DEF OneMore, Tiles, UsedOn
<1>8. IsRequest(r) /\ r.op # "finish"
  BY <1>2, <1>7, RequestTypes, PageNumbers
<1>9. heap'.at = "formatted" /\ heap'.pid = P /\ heap'.size = s /\ heap'.page = n /\ heap' \in HeapStates
  BY <1>2, <1>3, <1>4, <1>5, <1>6 DEF HeapStates
<1>10. reply'.buffer = page /\ IsReply(reply)'
  BY <1>4, <1>6, <1>7 DEF TypeOK, IsReply
<1>. HIDE DEF r
<1>11. TalkFits' /\ IsWire(wire)' /\ AskedIn(wire)' = {r} /\ \A q : Leaving(q)' <=> Leaving(q)
  BY <1>2, <1>6, <1>8, <1>9, HeapAsks DEF kernelVars
<1>12. \A q, m : Untouched(q, m)
  BY <1>6, AllUntouched
<1>13. HeapFitsOn(n)'
  <2>1. Asks("store", n, 0, reply.buffer)'
    BY <1>9, <1>10, <1>11 DEF Asks, r
  <2>2. Wants(n)' /\ Written(n)'
    BY <1>2, <1>3, <1>5, <1>9 DEF Wants, Written
  <2>3. There(n)' /\ Page(n)' = Bare
    BY <1>3, <1>6, <1>9 DEF There, Page
  <2>4. Held(heap.pid, n, reply.buffer, Taking(n, HeaderSize))'
    <3>. DEFINE x == Extent(Address(P, n, 0 + HeaderSize), s)
    <3>1. UsedOn(P, n, page) = {x}
      BY <1>7, OneMoreUsed
    <3>2. x.pid = P /\ x.page = n /\ x = Extent(Address(P, n, HeaderSize), s)
      BY PageNumbers DEF Extent, Address
    <3>3. x \notin DOMAIN live
      BY <1>3, <3>2 DEF LiveOn
    <3>4. LiveOn(P, n)' = {}
      BY <1>3, <1>12 DEF Untouched
    <3>5. Taking(n, HeaderSize)' = x
      BY <1>9, <3>2 DEF Taking
    <3>. QED  BY <1>6, <1>9, <1>10, <3>1, <3>3, <3>4, <3>5 DEF Held
  <2>5. FormattedFits(n)'
    BY <1>7, <1>10, <2>1, <2>2, <2>3, <2>4 DEF FormattedFits
  <2>6. \A m \in HeapPages \ {n} : Fine(heap.pid, m)'
    BY <1>2, <1>9, <1>12, UntouchedFine
  <2>. QED  BY <1>9, <2>5, <2>6 DEF HeapFitsOn, HeapPages
<1>14. HeapFits'
  BY <1>13 DEF HeapFits, HeapPages
<1>15. ListFits(P)'
  BY <1>2, <1>4, <1>6, <1>9 DEF ListFits, GrantedFits, Kept, kernelVars
<1>16. OthersFit' /\ ListsFit'
  <2>1. OnlyFor(P)
    BY <1>2, <1>6, <1>9, <1>11, <1>12 DEF OnlyFor, kernelVars
  <2>. QED  BY <1>2, <1>9, <1>15, <2>1, OthersGoOn, PageNumbers DEF IInv
<1>17. TypeOK'
  BY <1>2, <1>4, <1>6, <1>9, <1>10, <1>11 DEF TypeOK, kernelVars
<1>18. LiveFits'
  BY <1>6 DEF IInv, LiveFits
<1>. QED  BY <1>11, <1>14, <1>16, <1>17, <1>18 DEF IInv

LEMMA FormattedKeeps ==
    ASSUME IInv, Formatted
    PROVE  IInv'
<1>1. /\ HeapAt("formatted") /\ heap.at = "formatted" /\ heap' = IdleHeap
      /\ UNCHANGED <<heapPages, running, reader, wire, reply, memory, lost>>
      /\ Reserve([reply.offsetAbs EXCEPT !.offset = @ + HeaderSize])
  BY DEF Formatted, HeapAt, kernelVars
<1>2. PICK P \in Pid, n \in HeapPages :
              /\ P = heap.pid /\ P \in running /\ ~Leaving(P) /\ HeapFitsOn(n) /\ ListFits(P)
              /\ \A m \in HeapPages \ {n} : Fine(P, m)
              /\ reader = IdleReader /\ AskedIn(wire) = {} /\ answered /\ answered' = FALSE /\ GrantedFits(P)
  BY <1>1, HeapOn
<1>3. /\ heap.page = n /\ heap.size \in 1 .. MaxAlloc /\ n \in DOMAIN memory[P] /\ Tiles(memory[P][n])
      /\ memory[P][n] = reply.buffer /\ reply.offsetAbs = Address(P, n, 0)
      /\ Held(P, n, memory[P][n], Taking(n, HeaderSize))
  BY <1>1, <1>2 DEF HeapFitsOn, FormattedFits, Wants, Written, There, Page
<1>4. DOMAIN memory[P] = Kept(P) /\ TypeOK /\ heapPages \in [Pid -> Seq(Listed)]
  BY <1>1, <1>2 DEF GrantedFits, IInv, TypeOK
<1>5. PICK r : r = Taking(n, HeaderSize)
  OBVIOUS
<1>6. live' = live (+) SetToBag({r})
  <2>1. [reply.offsetAbs EXCEPT !.offset = @ + HeaderSize] = Address(P, n, HeaderSize)
    BY <1>3, PageNumbers DEF Address
  <2>. QED  BY <1>1, <1>2, <1>5, <2>1 DEF Reserve, Taking
<1>7. r.pid = P /\ r.page = n /\ r \in Extents /\ r \notin DOMAIN live /\ UsedOn(P, n, memory[P][n]) = LiveOn(P, n) \cup {r}
  <2>1. r = [pid |-> P, page |-> n, offset |-> HeaderSize, size |-> heap.size]
    BY <1>2, <1>5 DEF Taking, Extent, Address
  <2>2. heap.size \in 0 .. PageSize /\ n \in Pages
    <3>1. MaxAlloc \in Nat /\ MaxAlloc <= PageSize
      BY HeapConstants DEF MaxAlloc
    <3>. QED  BY <1>3, <3>1, PageNumbers
  <2>. QED  BY <1>3, <1>5, <2>1, <2>2, PageNumbers DEF Extents, Held
<1>8. /\ IsABag(live)' /\ (DOMAIN live \subseteq Extents)' /\ LiveFits' /\ LiveOn(P, n)' = LiveOn(P, n) \cup {r}
      /\ \A q, m : q # P \/ m # n => Untouched(q, m)
  <2>1. IsABag(live) /\ LiveFits /\ DOMAIN live \subseteq Extents /\ r.page \in HeapPages /\ memory' = memory
    BY <1>1, <1>4, <1>7 DEF IInv, TypeOK
  <2>2. /\ IsABag(live)' /\ (DOMAIN live \subseteq Extents)' /\ LiveFits' /\ LiveOn(r.pid, r.page)' = LiveOn(r.pid, r.page) \cup {r}
        /\ \A q, m : q # r.pid \/ m # r.page => Untouched(q, m)
    BY <1>6, <1>7, <2>1, ReserveTouches
  <2>. QED  BY <1>7, <2>2
<1>9. AllFine(P)'
  <2>1. Fine(P, n)'
    BY <1>1, <1>3, <1>7, <1>8 DEF Fine
  <2>2. \A m \in HeapPages \ {n} : Fine(P, m)'
    BY <1>2, <1>8, UntouchedFine
  <2>. QED  BY <2>1, <2>2 DEF AllFine, HeapPages
<1>10. /\ (heapPages \in [Pid -> Seq(Listed)])' /\ \A q \in Pid \ {P} : heapPages'[q] = heapPages[q]
       /\ \A i \in 1 .. Len(heapPages'[P]) : heapPages'[P][i].page \in HeapPages
       /\ Increasing(heapPages'[P]) /\ Kept(P)' = Kept(P)
  BY <1>1, <1>2, <1>4 DEF ListFits, Kept
<1>11. DOMAIN memory[P] = Kept(P)' /\ \A q \in Pid \ {P} : \A m : Untouched(q, m)
  BY <1>4, <1>8, <1>10
<1>. QED  BY <1>1, <1>2, <1>8, <1>9, <1>10, <1>11, HeapFinishes
-----------------------------------------------------------------------------
(* free_memory *)

LEMMA FreeKeeps ==
    ASSUME IInv, NobodyOverlaps, NEW e \in DOMAIN live, Free(e)
    PROVE  IInv'
<1>1. PICK P, n : P = e.pid /\ n = e.page
  OBVIOUS
<1>. DEFINE r == Request("pageOf", P, n, e.offset, Bare)
<1>2. /\ heap = IdleHeap /\ MayStart(P) /\ Send(r)
      /\ heap' = [IdleHeap EXCEPT !.at = "page", !.pid = P, !.offset = e.offset - HeaderSize]
      /\ live' = live (-) SetToBag({e})
      /\ UNCHANGED <<kernelVars, reader, reply, answered, memory, lost>>
  BY <1>1 DEF Free
<1>3. /\ reader = IdleReader /\ AskedIn(wire) = {} /\ answered = FALSE /\ P \in running /\ P \in Pid
      /\ heap.pid = NoPid /\ ~Leaving(P) /\ AllFine(P) /\ ListFits(P) /\ DOMAIN memory[P] = Kept(P)
  BY <1>2, IdleTurn
<1>4. TypeOK /\ LiveFits /\ IsABag(live) /\ DOMAIN live \subseteq Extents
  BY DEF IInv, TypeOK
<1>5. /\ n \in HeapPages /\ n \in DOMAIN memory[P] /\ Tiles(memory[P][n])
      /\ LiveOn(P, n) = UsedOn(P, n, memory[P][n]) /\ e \in LiveOn(P, n)
  <2>1. n \in HeapPages /\ e \in LiveOn(P, n)
    BY <1>1, <1>4 DEF LiveFits, LiveOn
  <2>. QED  BY <1>3, <2>1 DEF AllFine, Fine
<1>6. PICK o \in InUse(memory[P][n]) : e = Extent(Address(P, n, o + HeaderSize), memory[P][n][o].size)
  BY <1>5 DEF UsedOn
<1>7. /\ e.offset = o + HeaderSize /\ e.offset - HeaderSize = o /\ o \in 0 .. PageSize /\ e.offset \in 0 .. PageSize
  <2>1. o \in 0 .. PageSize - 1
    BY <1>5, <1>6, AfterTypes DEF InUse
  <2>2. e.offset = o + HeaderSize
    BY <1>6 DEF Extent, Address
  <2>3. e.offset \in 0 .. PageSize
    BY <1>4 DEF Extents
  <2>. QED  BY <2>1, <2>2, <2>3, PageNumbers
<1>8. IsRequest(r) /\ r.op # "finish"
  BY <1>3, <1>5, <1>7, RequestTypes, BareIsPage, PageNumbers
<1>9. heap'.at = "page" /\ heap'.pid = P /\ heap'.offset = o /\ heap' \in HeapStates
  BY <1>2, <1>3, <1>7, PageNumbers DEF HeapStates, IdleHeap
<1>. HIDE DEF r
<1>10. TalkFits' /\ IsWire(wire)' /\ AskedIn(wire)' = {r} /\ \A q : Leaving(q)' <=> Leaving(q)
  BY <1>2, <1>3, <1>8, <1>9, HeapAsks DEF kernelVars
<1>11. /\ IsABag(live)' /\ (DOMAIN live \subseteq Extents)' /\ LiveFits' /\ DOMAIN live' = DOMAIN live \ {e}
       /\ LiveOn(P, n)' = LiveOn(P, n) \ {e} /\ \A q, m : q # P \/ m # n => Untouched(q, m)
  BY <1>1, <1>2, <1>4, FreeTouches
<1>12. HeapFitsOn(n)'
  <2>1. Asks("pageOf", n, heap.offset + HeaderSize, Bare)'
    BY <1>7, <1>9, <1>10 DEF Asks, r
  <2>2. Freeing(n)'
    <3>1. There(n)' /\ Page(n)' = memory[P][n]
      BY <1>2, <1>5, <1>9 DEF There, Page
    <3>2. UsedOn(P, n, memory[P][n]) = LiveOn(P, n)' \cup {e} /\ e \notin DOMAIN live'
      BY <1>5, <1>11
    <3>. QED  BY <1>5, <1>6, <1>9, <3>1, <3>2 DEF Freeing, Held
  <2>3. PageFits(n)'
    BY <1>2, <1>3, <2>1, <2>2 DEF PageFits
  <2>4. \A m \in HeapPages \ {n} : Fine(heap.pid, m)'
    BY <1>3, <1>9, <1>11, UntouchedFine DEF AllFine
  <2>. QED  BY <1>9, <2>3, <2>4 DEF HeapFitsOn, HeapPages
<1>13. HeapFits'
  BY <1>5, <1>12 DEF HeapFits, HeapPages
<1>14. ListFits(P)'
  BY <1>2, <1>3, <1>9 DEF ListFits, GrantedFits, Kept, kernelVars
<1>15. OthersFit' /\ ListsFit'
  <2>1. OnlyFor(P)
    BY <1>2, <1>3, <1>9, <1>10, <1>11 DEF OnlyFor, kernelVars
  <2>. QED  BY <1>3, <1>9, <1>14, <2>1, OthersGoOn, PageNumbers DEF IInv
<1>16. TypeOK'
  BY <1>2, <1>3, <1>4, <1>9, <1>10, <1>11 DEF TypeOK, kernelVars
<1>. QED  BY <1>10, <1>11, <1>13, <1>15, <1>16 DEF IInv

LEMMA PageFoundKeeps ==
    ASSUME IInv, PageFound
    PROVE  IInv'
<1>1. HeapAt("page") /\ heap.at = "page" /\ UNCHANGED <<kernelVars, reader, reply, memory, live, lost>>
  BY DEF PageFound, HeapAt
<1>2. PICK P \in Pid, n \in HeapPages :
              /\ P = heap.pid /\ P \in running /\ ~Leaving(P) /\ HeapFitsOn(n) /\ ListFits(P)
              /\ \A m \in HeapPages \ {n} : Fine(P, m)
              /\ reader = IdleReader /\ AskedIn(wire) = {} /\ answered /\ answered' = FALSE /\ GrantedFits(P)
  BY <1>1, HeapOn
<1>3. Freeing(n) /\ reply.page = n
  BY <1>1, <1>2 DEF HeapFitsOn, PageFits
<1>4. DOMAIN memory[P] = Kept(P) /\ TypeOK /\ heap \in HeapStates
  BY <1>1, <1>2 DEF GrantedFits, IInv, TypeOK
<1>. DEFINE r == Request("read", P, n, 0, Bare)
<1>5. Send(r) /\ heap' = [heap EXCEPT !.at = "release"]
  BY <1>2, <1>3 DEF PageFound, GoHeap
<1>6. IsRequest(r) /\ r.op # "finish"
  BY <1>2, RequestTypes, BareIsPage, PageNumbers
<1>7. heap'.at = "release" /\ heap'.pid = P /\ heap'.offset = heap.offset /\ heap' \in HeapStates
  BY <1>2, <1>4, <1>5 DEF HeapStates
<1>. HIDE DEF r
<1>8. TalkFits' /\ IsWire(wire)' /\ AskedIn(wire)' = {r} /\ \A q : Leaving(q)' <=> Leaving(q)
  BY <1>1, <1>2, <1>5, <1>6, <1>7, HeapAsks DEF kernelVars
<1>9. \A q, m : Untouched(q, m)
  BY <1>1, AllUntouched
<1>10. HeapFitsOn(n)'
  <2>1. Asks("read", n, 0, Bare)'
    BY <1>7, <1>8 DEF Asks, r
  <2>2. Freeing(n)'
    BY <1>1, <1>2, <1>3, <1>7, <1>9 DEF Freeing, There, Page, Held, Untouched
  <2>3. ReleaseFits(n)'
    BY <1>1, <1>2, <1>3, <2>1, <2>2 DEF ReleaseFits, Found
  <2>4. \A m \in HeapPages \ {n} : Fine(heap.pid, m)'
    BY <1>2, <1>7, <1>9, UntouchedFine
  <2>. QED  BY <1>7, <2>3, <2>4 DEF HeapFitsOn, HeapPages
<1>11. HeapFits'
  BY <1>10 DEF HeapFits, HeapPages
<1>12. ListFits(P)'
  BY <1>1, <1>2, <1>4, <1>7 DEF ListFits, GrantedFits, Kept, kernelVars
<1>13. OthersFit' /\ ListsFit'
  <2>1. OnlyFor(P)
    BY <1>1, <1>2, <1>7, <1>8, <1>9 DEF OnlyFor, kernelVars
  <2>. QED  BY <1>2, <1>7, <1>12, <2>1, OthersGoOn, PageNumbers DEF IInv
<1>14. TypeOK'
  BY <1>1, <1>2, <1>4, <1>7, <1>8 DEF TypeOK, kernelVars
<1>15. LiveFits'
  BY <1>1 DEF IInv, LiveFits
<1>. QED  BY <1>8, <1>11, <1>13, <1>14, <1>15 DEF IInv

LEMMA ReleaseKeeps ==
    ASSUME IInv, Release
    PROVE  IInv'
<1>1. HeapAt("release") /\ heap.at = "release" /\ UNCHANGED <<running, reader, memory, live, lost>>
  BY DEF Release, HeapAt
<1>2. PICK P \in Pid, n \in HeapPages :
              /\ P = heap.pid /\ P \in running /\ ~Leaving(P) /\ HeapFitsOn(n) /\ ListFits(P)
              /\ \A m \in HeapPages \ {n} : Fine(P, m)
              /\ reader = IdleReader /\ AskedIn(wire) = {} /\ answered /\ answered' = FALSE /\ GrantedFits(P)
  BY <1>1, HeapOn
<1>3. PICK o, b : o = heap.offset /\ b = memory[P][n]
  OBVIOUS
<1>4. /\ reply.page = n /\ reply.buffer = b /\ n \in DOMAIN memory[P] /\ Tiles(b) /\ o \in InUse(b)
      /\ Held(P, n, b, Extent(Address(P, n, o + HeaderSize), b[o].size))
  BY <1>1, <1>2, <1>3 DEF HeapFitsOn, ReleaseFits, Freeing, Found, There, Page
<1>5. DOMAIN memory[P] = Kept(P) /\ TypeOK /\ heap \in HeapStates /\ heapPages \in [Pid -> Seq(Listed)]
  BY <1>1, <1>2 DEF GrantedFits, IInv, TypeOK
<1>6. PICK page, op, at :
         /\ page = FreeBlock(b, o)
         /\ op = IF WholePage(page) THEN "free" ELSE "store"
         /\ at = IF WholePage(page) THEN "freed" ELSE "released"
  OBVIOUS
<1>7. PICK blocks : blocks = IF WholePage(page) THEN Bare ELSE page
  OBVIOUS
<1>. DEFINE r == Request(op, P, n, 0, blocks)
<1>8. /\ reply' = [reply EXCEPT !.buffer = page] /\ Send(r) /\ heap' = [heap EXCEPT !.at = at]
      /\ IF WholePage(page) THEN heapPages' = heapPages ELSE heapPages' = Occupied(P, n, -b[o].size, FALSE)
  <2>1. CASE WholePage(page)
    BY <1>2, <1>3, <1>4, <1>6, <1>7, <2>1 DEF Release, GoHeap
  <2>2. CASE ~WholePage(page)
    BY <1>2, <1>3, <1>4, <1>6, <1>7, <2>2 DEF Release, GoHeap, Given
  <2>. QED  BY <2>1, <2>2
<1>9. /\ Tiles(page) /\ IsPage(page) /\ LiveOn(P, n) = UsedOn(P, n, page)
  <2>. DEFINE x == Extent(Address(P, n, o + HeaderSize), b[o].size)
  <2>1. Tiles(page) /\ OneMore(page, b, o, b[o].size)
    BY <1>4, <1>6, FreeBlockTiles
  <2>2. UsedOn(P, n, b) = UsedOn(P, n, page) \cup {x} /\ x \notin UsedOn(P, n, page)
    BY <2>1, OneMoreUsed
  <2>3. x \notin DOMAIN live /\ UsedOn(P, n, b) = LiveOn(P, n) \cup {x}
    BY <1>4 DEF Held
  <2>4. x \notin LiveOn(P, n)
    BY <2>3 DEF LiveOn
  <2>. HIDE DEF x
  <2>. QED  BY <2>1, <2>2, <2>3, <2>4 DEF Tiles
<1>10. IsRequest(r) /\ r.op # "finish"
  <2>1. op \in {"add", "read", "store", "pageOf", "free", "finish"} /\ op # "finish" /\ IsPage(blocks)
    BY <1>6, <1>7, <1>9, BareIsPage
  <2>. QED  BY <1>2, <2>1, RequestTypes, PageNumbers
<1>11. heap'.at = at /\ at # "idle" /\ heap'.pid = P /\ heap' \in HeapStates
  BY <1>2, <1>5, <1>6, <1>8 DEF HeapStates
<1>12. reply'.buffer = page /\ reply'.page = n /\ IsReply(reply)'
  BY <1>4, <1>5, <1>8, <1>9 DEF TypeOK, IsReply
<1>13. /\ (heapPages \in [Pid -> Seq(Listed)])' /\ \A q \in Pid \ {P} : heapPages'[q] = heapPages[q]
       /\ \A i \in 1 .. Len(heapPages'[P]) : heapPages'[P][i].page \in HeapPages
       /\ Increasing(heapPages'[P]) /\ Kept(P)' = Kept(P)
  <2>1. CASE WholePage(page)
    BY <1>2, <1>5, <1>8, <2>1 DEF ListFits, Kept
  <2>2. CASE ~WholePage(page)
    <3>1. -b[o].size \in Int
      <4>1. b[o].size \in 0 .. PageSize
        BY <1>4, AfterTypes DEF InUse
      <4>. QED  BY <4>1, PageNumbers
    <3>2. heapPages' = Occupied(P, n, -b[o].size, FALSE) /\ n \in Kept(P) /\ FALSE \in BOOLEAN
      BY <1>4, <1>5, <1>8, <2>2
    <3>. QED  BY <1>2, <1>5, <3>1, <3>2, OccupiedFits
  <2>. QED  BY <2>1, <2>2
<1>. HIDE DEF r
<1>14. TalkFits' /\ IsWire(wire)' /\ AskedIn(wire)' = {r} /\ \A q : Leaving(q)' <=> Leaving(q)
  <2>1. \A p \in Pid : Leaving(p) => heapPages'[p] = heapPages[p]
    BY <1>2, <1>13
  <2>. QED  BY <1>1, <1>2, <1>8, <1>10, <1>11, <2>1, HeapAsks
<1>15. \A q, m : Untouched(q, m)
  BY <1>1, AllUntouched
<1>16. HeapFitsOn(n)'
  <2>1. /\ There(n)' /\ Page(n)' = b /\ LiveOn(heap.pid, n)' = UsedOn(P, n, page) /\ ~answered'
    BY <1>1, <1>2, <1>3, <1>4, <1>9, <1>11, <1>15 DEF There, Page, Untouched
  <2>2. CASE WholePage(page)
    <3>1. Asks("free", n, 0, Bare)'
      BY <1>6, <1>7, <1>11, <1>14, <2>2 DEF Asks, r
    <3>2. UsedOn(P, n, page) = {}
      BY <1>9, <2>2, WholePageIsFree
    <3>3. FreedFits(n)'
      BY <1>4, <1>12, <2>1, <3>1, <3>2 DEF FreedFits
    <3>4. \A m \in HeapPages \ {n} : Fine(heap.pid, m)'
      BY <1>2, <1>11, <1>15, UntouchedFine
    <3>. QED  BY <1>6, <1>11, <2>2, <3>3, <3>4 DEF HeapFitsOn, HeapPages
  <2>3. CASE ~WholePage(page)
    <3>1. Asks("store", n, 0, reply.buffer)'
      BY <1>6, <1>7, <1>11, <1>12, <1>14, <2>3 DEF Asks, r
    <3>2. Found(n)'
      BY <1>2 DEF Found
    <3>3. ReleasedFits(n)'
      BY <1>4, <1>9, <1>11, <1>12, <2>1, <3>1, <3>2 DEF ReleasedFits
    <3>4. \A m \in HeapPages \ {n} : Fine(heap.pid, m)'
      BY <1>2, <1>11, <1>15, UntouchedFine
    <3>. QED  BY <1>6, <1>11, <2>3, <3>3, <3>4 DEF HeapFitsOn, HeapPages
  <2>. QED  BY <2>2, <2>3
<1>17. HeapFits'
  BY <1>16 DEF HeapFits, HeapPages
<1>18. ListFits(P)'
  <2>1. GrantedFits(P)'
    <3>1. at \in {"freed", "released"} /\ DOMAIN memory'[P] = Kept(P)' /\ DOMAIN memory'[P] \cup {reply'.page} = Kept(P)'
      BY <1>1, <1>4, <1>5, <1>6, <1>12, <1>13
    <3>. QED  BY <1>11, <3>1 DEF GrantedFits
  <2>. QED  BY <1>1, <1>2, <1>13, <2>1 DEF ListFits, HeapPages
<1>19. OthersFit' /\ ListsFit'
  <2>1. OnlyFor(P)
    BY <1>1, <1>2, <1>11, <1>13, <1>14, <1>15 DEF OnlyFor
  <2>. QED  BY <1>2, <1>11, <1>18, <2>1, OthersGoOn, PageNumbers DEF IInv
<1>20. TypeOK'
  BY <1>1, <1>2, <1>5, <1>11, <1>12, <1>13, <1>14 DEF TypeOK
<1>21. LiveFits'
  BY <1>1 DEF IInv, LiveFits
<1>. QED  BY <1>14, <1>17, <1>19, <1>20, <1>21 DEF IInv

LEMMA PageFreedKeeps ==
    ASSUME IInv, PageFreed
    PROVE  IInv'
<1>1. /\ HeapAt("freed") /\ heap.at = "freed" /\ heap' = IdleHeap
      /\ heapPages' = Occupied(heap.pid, reply.page, 1, TRUE)
      /\ UNCHANGED <<running, reader, wire, reply, memory, live, lost>>
  BY DEF PageFreed, HeapAt
<1>2. PICK P \in Pid, n \in HeapPages :
              /\ P = heap.pid /\ P \in running /\ ~Leaving(P) /\ HeapFitsOn(n) /\ ListFits(P)
              /\ \A m \in HeapPages \ {n} : Fine(P, m)
              /\ reader = IdleReader /\ AskedIn(wire) = {} /\ answered /\ answered' = FALSE /\ GrantedFits(P)
  BY <1>1, HeapOn
<1>3. reply.page = n /\ LiveOn(P, n) = {} /\ n \notin DOMAIN memory[P]
  BY <1>1, <1>2 DEF HeapFitsOn, FreedFits, There
<1>4. DOMAIN memory[P] \cup {n} = Kept(P) /\ TypeOK /\ heapPages \in [Pid -> Seq(Listed)]
  BY <1>1, <1>2, <1>3 DEF GrantedFits, IInv, TypeOK
<1>5. \A q, m : Untouched(q, m)
  BY <1>1, AllUntouched
<1>6. AllFine(P)'
  <2>1. Fine(P, n)'
    BY <1>1, <1>3, <1>5 DEF Fine, Untouched
  <2>2. \A m \in HeapPages \ {n} : Fine(P, m)'
    BY <1>2, <1>5, UntouchedFine
  <2>. QED  BY <2>1, <2>2 DEF AllFine, HeapPages
<1>7. /\ (heapPages \in [Pid -> Seq(Listed)])' /\ \A q \in Pid \ {P} : heapPages'[q] = heapPages[q]
      /\ \A i \in 1 .. Len(heapPages'[P]) : heapPages'[P][i].page \in HeapPages
      /\ Increasing(heapPages'[P]) /\ Kept(P)' = Kept(P) \ {n}
  <2>1. heapPages' = Occupied(P, n, 1, TRUE) /\ 1 \in Int /\ TRUE \in BOOLEAN
    BY <1>1, <1>2, <1>3
  <2>. QED  BY <1>2, <1>4, <2>1, OccupiedFits
<1>8. DOMAIN memory[P] = Kept(P)' /\ \A q \in Pid \ {P} : \A m : Untouched(q, m)
  BY <1>3, <1>4, <1>5, <1>7
<1>9. IsABag(live)' /\ (DOMAIN live \subseteq Extents)' /\ LiveFits'
  BY <1>1, <1>4 DEF TypeOK, IInv, LiveFits
<1>. QED  BY <1>1, <1>2, <1>6, <1>7, <1>8, <1>9, HeapFinishes

LEMMA ReleasedKeeps ==
    ASSUME IInv, Released
    PROVE  IInv'
<1>1. /\ HeapAt("released") /\ heap.at = "released" /\ heap' = IdleHeap
      /\ UNCHANGED <<heapPages, running, reader, wire, reply, memory, live, lost>>
  BY DEF Released, HeapAt, kernelVars
<1>2. PICK P \in Pid, n \in HeapPages :
              /\ P = heap.pid /\ P \in running /\ ~Leaving(P) /\ HeapFitsOn(n) /\ ListFits(P)
              /\ \A m \in HeapPages \ {n} : Fine(P, m)
              /\ reader = IdleReader /\ AskedIn(wire) = {} /\ answered /\ answered' = FALSE /\ GrantedFits(P)
  BY <1>1, HeapOn
<1>3. /\ n \in DOMAIN memory[P] /\ Tiles(memory[P][n]) /\ memory[P][n] = reply.buffer
      /\ LiveOn(P, n) = UsedOn(P, n, memory[P][n])
  BY <1>1, <1>2 DEF HeapFitsOn, ReleasedFits, Found, There, Page
<1>4. DOMAIN memory[P] = Kept(P) /\ TypeOK /\ heapPages \in [Pid -> Seq(Listed)]
  BY <1>1, <1>2 DEF GrantedFits, IInv, TypeOK
<1>5. \A q, m : Untouched(q, m)
  BY <1>1, AllUntouched
<1>6. AllFine(P)'
  <2>1. Fine(P, n)
    BY <1>3 DEF Fine
  <2>2. \A m \in HeapPages : Fine(P, m)'
    BY <1>2, <1>5, <2>1, UntouchedFine
  <2>. QED  BY <2>2 DEF AllFine, HeapPages
<1>7. /\ (heapPages \in [Pid -> Seq(Listed)])' /\ \A q \in Pid \ {P} : heapPages'[q] = heapPages[q]
      /\ \A i \in 1 .. Len(heapPages'[P]) : heapPages'[P][i].page \in HeapPages
      /\ Increasing(heapPages'[P]) /\ Kept(P)' = Kept(P)
  BY <1>1, <1>2, <1>4 DEF ListFits, Kept
<1>8. DOMAIN memory[P] = Kept(P)' /\ \A q \in Pid \ {P} : \A m : Untouched(q, m)
  BY <1>4, <1>5, <1>7
<1>9. IsABag(live)' /\ (DOMAIN live \subseteq Extents)' /\ LiveFits'
  BY <1>1, <1>4 DEF TypeOK, IInv, LiveFits
<1>. QED  BY <1>1, <1>2, <1>6, <1>7, <1>8, <1>9, HeapFinishes
-----------------------------------------------------------------------------
(* cpu_read_file, and the end of a program. *)

LEMMA NothingMoves ==
    ASSUME IInv, UNCHANGED <<heapPages, heap, memory, live>>, heap = IdleHeap,
           \A q \in Pid : Leaving(q)' <=> Leaving(q)
    PROVE  HeapFits' /\ OthersFit' /\ ListsFit' /\ LiveFits'
<1>1. \A q, m : Untouched(q, m)
  BY AllUntouched
<1>2. HeapFits' /\ LiveFits'
  BY DEF IInv, HeapFits, LiveFits
<1>3. ASSUME NEW q \in Pid
      PROVE  OtherFits(q)' /\ ListFits(q)'
  <2>1. OtherFits(q) /\ ListFits(q)
    BY DEF IInv, OthersFit, ListsFit
  <2>2. OtherFits(q)'
    BY <1>1, <2>1, UntouchedFine DEF OtherFits, HeapPages
  <2>3. GrantedFits(q) <=> GrantedFits(q)'
    BY IdleHeapTypes DEF GrantedFits, Kept
  <2>. QED  BY <2>1, <2>2, <2>3 DEF ListFits
<1>. QED  BY <1>2, <1>3 DEF OthersFit, ListsFit

LEMMA ReaderTypes ==
    ASSUME NEW at \in {"page", "stored"}, NEW p \in Pid
    PROVE  /\ [at |-> at, pid |-> p] \in ReaderStates /\ [at |-> at, pid |-> p] # IdleReader
           /\ IsRequest(Request("pageOf", p, StackPage, Variable, Bare))
           /\ IsRequest(Request("store", p, StackPage, Variable, Bare))
<1>1. Variable \in 0 .. PageSize
  BY HeapConstants
<1>2. StackPage \in Pages \cup {0}
  BY PageNumbers
<1>3. [at |-> at, pid |-> p] \in ReaderStates /\ [at |-> at, pid |-> p] # IdleReader
  BY DEF ReaderStates, IdleReader
<1>. QED  BY <1>1, <1>2, <1>3, RequestTypes, BareIsPage

LEMMA ReadFileKeeps ==
    ASSUME IInv, NobodyOverlaps, NEW p \in Pid, ReadFile(p)
    PROVE  IInv'
<1>. DEFINE r == Request("pageOf", p, StackPage, Variable, Bare)
<1>1. /\ reader = IdleReader /\ p \in running /\ heap = IdleHeap /\ wire = <<>> /\ Send(r)
      /\ reader' = [at |-> "page", pid |-> p]
      /\ UNCHANGED <<kernelVars, heap, reply, answered, memory, live, lost>>
  BY DEF ReadFile, NobodyOverlaps
<1>2. TypeOK /\ AskedIn(wire) = {} /\ answered = FALSE /\ ~lost
  BY <1>1 DEF IInv, TypeOK, TalkFits, OneRequest, Waits, AskedIn, Asking
<1>3. IsRequest(r) /\ r.op # "finish" /\ reader' \in ReaderStates /\ reader' # IdleReader /\ reader'.at = "page" /\ reader'.pid = p
  BY <1>1, ReaderTypes DEF Request
<1>4. /\ IsWire(wire') /\ Once(wire') /\ AskedIn(wire') = {r}
      /\ \A q : LeavingIn(wire', q) <=> LeavingIn(wire, q)
  <2>1. IsWire(wire) /\ wire' = Append(wire, r)
    BY <1>1, <1>2 DEF TypeOK, Send
  <2>. QED  BY <1>2, <1>3, <2>1, SentRequest
<1>5. \A q : Leaving(q)' <=> Leaving(q)
  BY <1>4 DEF Leaving
<1>. HIDE DEF r
<1>6. OneRequest'
  BY <1>1, <1>2, <1>3, <1>4 DEF OneRequest, Waits, IdleReader
<1>7. RunningFits'
  BY <1>1, <1>3, <1>5 DEF IInv, TalkFits, RunningFits, kernelVars
<1>8. ReaderFits'
  BY <1>1, <1>2, <1>3, <1>4 DEF ReaderFits, r
<1>9. HeapFits' /\ OthersFit' /\ ListsFit' /\ LiveFits'
  BY <1>1, <1>5, NothingMoves DEF kernelVars
<1>10. TypeOK'
  BY <1>1, <1>2, <1>3, <1>4 DEF TypeOK, kernelVars
<1>. QED  BY <1>6, <1>7, <1>8, <1>9, <1>10 DEF IInv, TalkFits

LEMMA ReaderOn ==
    ASSUME IInv, ReaderAt(reader.at), reader.at # "idle"
    PROVE  /\ heap = IdleHeap /\ AskedIn(wire) = {} /\ answered /\ answered' = FALSE /\ reader # IdleReader
           /\ reader.pid \in running /\ reader.pid \in Pid /\ IsWire(wire) /\ Once(wire) /\ ~lost
<1>1. answered /\ answered' = FALSE /\ reader # IdleReader
  BY DEF ReaderAt, Answered, IdleReader
<1>2. heap = IdleHeap /\ AskedIn(wire) = {} /\ Once(wire) /\ ~lost
  BY <1>1 DEF IInv, TalkFits, OneRequest
<1>3. reader.pid \in running
  BY <1>1 DEF IInv, TalkFits, RunningFits
<1>. QED  BY <1>1, <1>2, <1>3 DEF IInv, TypeOK

LEMMA StoreReadKeeps ==
    ASSUME IInv, StoreRead
    PROVE  IInv'
<1>1. ReaderAt("page") /\ reader.at = "page" /\ UNCHANGED <<kernelVars, heap, reply, memory, live, lost>>
  BY DEF StoreRead, ReaderAt
<1>2. /\ heap = IdleHeap /\ AskedIn(wire) = {} /\ answered /\ answered' = FALSE /\ reader # IdleReader
      /\ reader.pid \in running /\ reader.pid \in Pid /\ IsWire(wire) /\ Once(wire) /\ ~lost
  BY <1>1, ReaderOn
<1>3. PICK p \in Pid : p = reader.pid
  BY <1>2
<1>. DEFINE r == Request("store", p, StackPage, Variable, Bare)
<1>4. Send(r) /\ reader' = [reader EXCEPT !.at = "stored"] /\ TypeOK /\ reader \in ReaderStates
  <2>1. reply.page = StackPage
    BY <1>1, <1>2 DEF IInv, TalkFits, ReaderFits
  <2>. QED  BY <1>3, <2>1 DEF StoreRead, GoReader, IInv, TypeOK
<1>5. IsRequest(r) /\ r.op # "finish" /\ reader' \in ReaderStates /\ reader' # IdleReader /\ reader'.at = "stored" /\ reader'.pid = p
  <2>1. reader'.at = "stored" /\ reader'.pid = p /\ reader' \in ReaderStates
    BY <1>3, <1>4 DEF ReaderStates
  <2>. QED  BY <2>1, ReaderTypes DEF Request, IdleReader
<1>6. /\ IsWire(wire') /\ Once(wire') /\ AskedIn(wire') = {r}
      /\ \A q : LeavingIn(wire', q) <=> LeavingIn(wire, q)
  <2>1. wire' = Append(wire, r)
    BY <1>4 DEF Send
  <2>. QED  BY <1>2, <1>5, <2>1, SentRequest
<1>7. \A q : Leaving(q)' <=> Leaving(q)
  BY <1>6 DEF Leaving
<1>. HIDE DEF r
<1>8. OneRequest'
  BY <1>1, <1>2, <1>5, <1>6 DEF OneRequest, Waits, IdleReader
<1>9. RunningFits'
  BY <1>1, <1>2, <1>3, <1>5, <1>7 DEF IInv, TalkFits, RunningFits, kernelVars
<1>10. ReaderFits'
  BY <1>5, <1>6 DEF ReaderFits, r
<1>11. HeapFits' /\ OthersFit' /\ ListsFit' /\ LiveFits'
  BY <1>1, <1>2, <1>7, NothingMoves DEF kernelVars
<1>12. TypeOK'
  BY <1>1, <1>2, <1>4, <1>5, <1>6 DEF TypeOK, kernelVars
<1>. QED  BY <1>8, <1>9, <1>10, <1>11, <1>12 DEF IInv, TalkFits

LEMMA FileReadKeeps ==
    ASSUME IInv, FileRead
    PROVE  IInv'
<1>1. /\ ReaderAt("stored") /\ reader.at = "stored" /\ reader' = IdleReader
      /\ UNCHANGED <<kernelVars, heap, wire, reply, memory, live, lost>>
  BY DEF FileRead, ReaderAt
<1>2. /\ heap = IdleHeap /\ AskedIn(wire) = {} /\ answered /\ answered' = FALSE
      /\ IsWire(wire) /\ Once(wire) /\ ~lost
  BY <1>1, ReaderOn
<1>3. \A q : Leaving(q)' <=> Leaving(q)
  BY <1>1 DEF Leaving
<1>4. OneRequest' /\ ReaderFits'
  BY <1>1, <1>2 DEF OneRequest, Waits, ReaderFits, IdleReader
<1>5. RunningFits'
  BY <1>1, <1>2, <1>3 DEF IInv, TalkFits, RunningFits, kernelVars
<1>6. HeapFits' /\ OthersFit' /\ ListsFit' /\ LiveFits'
  BY <1>1, <1>2, <1>3, NothingMoves DEF kernelVars
<1>7. TypeOK'
  BY <1>1, <1>2, IdleHeapTypes DEF IInv, TypeOK, kernelVars
<1>. QED  BY <1>4, <1>5, <1>6, <1>7 DEF IInv, TalkFits

\* What is done for another program leaves the heap's page as it is.
LEMMA HeapStays ==
    ASSUME NEW n, HeapFitsOn(n), AskedIn(wire') = AskedIn(wire), UNCHANGED <<heap, reply, answered>>,
           memory'[heap.pid] = memory[heap.pid], heapPages'[heap.pid] = heapPages[heap.pid],
           \A m : LiveOn(heap.pid, m)' = LiveOn(heap.pid, m), DOMAIN live' \subseteq DOMAIN live
    PROVE  HeapFitsOn(n)'
<1>1. \A m : Fine(heap.pid, m) <=> Fine(heap.pid, m)'
  BY DEF Fine
<1>2. There(n)' = There(n) /\ Page(n)' = Page(n)
  BY DEF There, Page
<1>3. \A b, r : Held(heap.pid, n, b, r) => Held(heap.pid, n, b, r)'
  BY DEF Held
<1>4. Wants(n) <=> Wants(n)'
  BY DEF Wants
<1>5. (Written(n) <=> Written(n)') /\ (Found(n) <=> Found(n)')
  BY <1>2 DEF Written, Found
<1>6. \A op, o, b : Asks(op, n, o, b) <=> Asks(op, n, o, b)'
  BY DEF Asks
<1>7. NextPage(heap.pid)' = NextPage(heap.pid)
  BY DEF NextPage
<1>8. \A o : Taking(n, o)' = Taking(n, o)
  BY DEF Taking
<1>9. FitFits(n) => FitFits(n)'
  BY <1>1, <1>2, <1>4, <1>5, <1>6, <1>7 DEF FitFits
<1>10. FittedFits(n) => FittedFits(n)'
  BY <1>2, <1>3, <1>4, <1>5, <1>6, <1>8 DEF FittedFits
<1>11. AddFits(n) => AddFits(n)'
  BY <1>2, <1>4, <1>6, <1>7 DEF AddFits
<1>12. FormatFits(n) => FormatFits(n)'
  BY <1>2, <1>4, <1>6 DEF FormatFits
<1>13. FormattedFits(n) => FormattedFits(n)'
  BY <1>2, <1>3, <1>4, <1>5, <1>6, <1>8 DEF FormattedFits
<1>14. Freeing(n) => Freeing(n)'
  BY <1>2, <1>3 DEF Freeing
<1>15. PageFits(n) => PageFits(n)'
  BY <1>6, <1>14 DEF PageFits
<1>16. ReleaseFits(n) => ReleaseFits(n)'
  BY <1>5, <1>6, <1>14 DEF ReleaseFits
<1>17. FreedFits(n) => FreedFits(n)'
  BY <1>2, <1>6 DEF FreedFits
<1>18. ReleasedFits(n) => ReleasedFits(n)'
  BY <1>2, <1>5, <1>6 DEF ReleasedFits
<1>19. (\A m \in HeapPages \ {n} : Fine(heap.pid, m)) => (\A m \in HeapPages \ {n} : Fine(heap.pid, m))'
  BY <1>1 DEF HeapPages
<1>. QED
  BY <1>9, <1>10, <1>11, <1>12, <1>13, <1>15, <1>16, <1>17, <1>18, <1>19 DEF HeapFitsOn

LEMMA FinishKeeps ==
    ASSUME IInv, NEW p \in Pid, Finish(p)
    PROVE  IInv'
<1>. DEFINE r == Request("finish", p, 0, 0, Bare)
<1>1. /\ heap.pid # p /\ reader.pid # p /\ ~lost
      /\ heapPages' = [heapPages EXCEPT ![p] = <<>>] /\ running' = running \ {p} /\ Send(r)
      /\ live' = [x \in {s \in DOMAIN live : s.pid # p} |-> live[x]]
      /\ UNCHANGED <<heap, reader, reply, answered, memory, lost>>
  BY DEF Finish, threadVars
<1>2. TypeOK /\ OneRequest /\ RunningFits /\ ReaderFits /\ OthersFit /\ ListsFit /\ LiveFits /\ HeapFits
  BY DEF IInv, TalkFits
<1>3. IsRequest(r) /\ r.op = "finish" /\ r.pid = p
  BY RequestTypes, BareIsPage, PageNumbers DEF Request
<1>4. /\ IsWire(wire') /\ Once(wire') /\ AskedIn(wire') = AskedIn(wire)
      /\ \A q : LeavingIn(wire', q) <=> LeavingIn(wire, q) \/ q = p
  <2>1. IsWire(wire) /\ wire' = Append(wire, r) /\ Once(wire)
    BY <1>1, <1>2 DEF TypeOK, OneRequest, Send
  <2>. HIDE DEF r
  <2>. QED  BY <1>3, <2>1, SentRequest
<1>5. \A q : Leaving(q)' <=> Leaving(q) \/ q = p
  BY <1>4 DEF Leaving
<1>. HIDE DEF r
<1>6. /\ heapPages \in [Pid -> Seq(Listed)] /\ (heapPages \in [Pid -> Seq(Listed)])' /\ heapPages'[p] = <<>>
      /\ \A q \in Pid \ {p} : heapPages'[q] = heapPages[q]
  BY <1>1, <1>2 DEF TypeOK
<1>7. OneRequest'
  BY <1>1, <1>2, <1>4 DEF OneRequest, Waits
<1>8. RunningFits'
  BY <1>1, <1>2, <1>5, <1>6 DEF RunningFits
<1>9. ReaderFits'
  BY <1>1, <1>2, <1>4 DEF ReaderFits
<1>10. /\ DOMAIN live' = {s \in DOMAIN live : s.pid # p} /\ \A x \in DOMAIN live' : live'[x] = live[x]
       /\ IsABag(live)' /\ LiveFits' /\ (DOMAIN live \subseteq Extents)'
  <2>1. DOMAIN live' = {s \in DOMAIN live : s.pid # p} /\ \A x \in DOMAIN live' : live'[x] = live[x]
    BY <1>1
  <2>2. IsABag(live)'
    BY <1>1, <1>2, <2>1 DEF TypeOK, IsABag
  <2>3. LiveFits'
    BY <1>2, <2>1 DEF LiveFits, HeapPages
  <2>. QED  BY <1>2, <2>1, <2>2, <2>3 DEF TypeOK, Extents
<1>11. (\A m : LiveOn(p, m)' = {}) /\ \A q, m : q # p => LiveOn(q, m)' = LiveOn(q, m)
  BY <1>10 DEF LiveOn
<1>12. HeapFits'
  <2>1. ASSUME heap # IdleHeap PROVE HeapFits'
    <3>1. PICK n \in HeapPages : HeapFitsOn(n)
      BY <1>2, <2>1 DEF HeapFits
    <3>2. heap.pid \in Pid
      BY <1>2, <2>1 DEF RunningFits, TypeOK
    <3>3. HeapFitsOn(n)'
      <4>1. /\ AskedIn(wire') = AskedIn(wire) /\ UNCHANGED <<heap, reply, answered>> /\ memory'[heap.pid] = memory[heap.pid]
            /\ heapPages'[heap.pid] = heapPages[heap.pid] /\ (\A m : LiveOn(heap.pid, m)' = LiveOn(heap.pid, m))
            /\ DOMAIN live' \subseteq DOMAIN live
        BY <1>1, <1>4, <1>6, <1>10, <1>11, <3>2
      <4>. QED  BY <3>1, <4>1, HeapStays
    <3>. QED  BY <3>3 DEF HeapFits, HeapPages
  <2>2. ASSUME heap = IdleHeap PROVE HeapFits'
    BY <1>1, <2>2 DEF HeapFits
  <2>. QED  BY <2>1, <2>2
<1>13. ASSUME NEW q \in Pid
       PROVE  OtherFits(q)' /\ ListFits(q)'
  <2>1. OtherFits(q) /\ ListFits(q)
    BY <1>2 DEF OthersFit, ListsFit
  <2>2. CASE q = p
    <3>1. ASSUME NEW n \in HeapPages PROVE LeftFine(q, n)'
      <4>1. n \in DOMAIN memory[q] => Tiles(memory[q][n])
        BY <1>1, <2>1, <2>2 DEF OtherFits, LeftFine, Fine
      <4>. QED  BY <1>1, <1>11, <2>2, <4>1 DEF LeftFine
    <3>2. OtherFits(q)'
      BY <1>5, <2>2, <3>1 DEF OtherFits, HeapPages
    <3>3. ListFits(q)'
      BY <1>1, <1>5, <1>6, <2>1, <2>2 DEF ListFits, Increasing, HeapPages
    <3>. QED  BY <3>2, <3>3
  <2>3. CASE q # p
    <3>1. \A m : Untouched(q, m)
      BY <1>1, <1>11, <2>3 DEF Untouched
    <3>2. OtherFits(q)'
      BY <1>1, <1>5, <2>1, <2>3, <3>1, UntouchedFine DEF OtherFits, HeapPages
    <3>3. heapPages'[q] = heapPages[q] /\ (Leaving(q)' <=> Leaving(q))
      BY <1>5, <1>6, <2>3
    <3>4. ListFits(q)'
      <4>1. GrantedFits(q) <=> GrantedFits(q)'
        BY <1>1, <3>3 DEF GrantedFits, Kept
      <4>. QED  BY <1>1, <2>1, <3>3, <4>1 DEF ListFits, HeapPages
    <3>. QED  BY <3>2, <3>4
  <2>. QED  BY <2>2, <2>3
<1>14. TypeOK'
  BY <1>1, <1>2, <1>4, <1>6, <1>10 DEF TypeOK
<1>. QED  BY <1>7, <1>8, <1>9, <1>10, <1>12, <1>13, <1>14 DEF IInv, TalkFits, OthersFit, ListsFit
-----------------------------------------------------------------------------
(* The memory serves a request. *)

\* The request at the head of the wire, which is served.
Serves(r) ==
    /\ wire # <<>> /\ r = Head(wire) /\ wire' = Tail(wire) /\ answered' = (answered \/ HasAnswer(r))
    /\ UNCHANGED <<kernelVars, threadVars, live>>

LEMMA FinishServed ==
    ASSUME IInv, NEW r, Serves(r), FinishProgram(r)
    PROVE  IInv'
<1>1. /\ TypeOK /\ OneRequest /\ RunningFits /\ ReaderFits /\ HeapFits /\ OthersFit /\ ListsFit /\ LiveFits
      /\ DOMAIN memory = Pid
  BY DEF IInv, TalkFits, TypeOK
<1>2. /\ r.op = "finish" /\ memory' = [memory EXCEPT ![r.pid] = Bare]
      /\ UNCHANGED <<heapPages, running, heap, reader, reply, answered, live, lost>>
  BY <1>1 DEF FinishProgram, Serves, HasAnswer, kernelVars, threadVars, TypeOK
<1>3. /\ IsWire(wire') /\ Once(wire') /\ AskedIn(wire') = AskedIn(wire) /\ IsRequest(r) /\ Leaving(r.pid)
      /\ \A q : Leaving(q)' => Leaving(q)
      /\ \A q : q # r.pid => (Leaving(q)' <=> Leaving(q))
  <2>1. IsWire(wire) /\ wire # <<>> /\ Once(wire) /\ r = Head(wire) /\ wire' = Tail(wire)
    BY <1>1 DEF TypeOK, OneRequest, Serves
  <2>. QED  BY <1>2, <2>1, ServedRequest DEF Leaving
<1>4. PICK p \in Pid : p = r.pid
  BY <1>3 DEF IsRequest
<1>5. memory'[p] = Bare /\ DOMAIN memory' = Pid /\ \A q \in Pid \ {p} : memory'[q] = memory[q]
  BY <1>1, <1>2, <1>4
<1>6. DOMAIN Bare = {}
  BY DEF Bare
<1>7. p \notin running /\ heapPages[p] = <<>> /\ heap.pid # p
  BY <1>1, <1>3, <1>4, PageNumbers, IdleHeapTypes DEF RunningFits
<1>8. OneRequest' /\ RunningFits' /\ ReaderFits' /\ LiveFits'
  <2>1. OneRequest'
    BY <1>1, <1>2, <1>3 DEF OneRequest, Waits
  <2>2. RunningFits'
    BY <1>1, <1>2, <1>3 DEF RunningFits
  <2>3. ReaderFits' /\ LiveFits'
    BY <1>1, <1>2, <1>3 DEF ReaderFits, LiveFits
  <2>. QED  BY <2>1, <2>2, <2>3
<1>9. \A q, m : LiveOn(q, m)' = LiveOn(q, m)
  BY <1>2 DEF LiveOn
<1>10. HeapFits'
  <2>1. ASSUME heap # IdleHeap PROVE HeapFits'
    <3>1. PICK n \in HeapPages : HeapFitsOn(n)
      BY <1>1, <2>1 DEF HeapFits
    <3>2. heap.pid \in Pid
      BY <1>1, <2>1 DEF RunningFits, TypeOK
    <3>3. /\ AskedIn(wire') = AskedIn(wire) /\ UNCHANGED <<heap, reply, answered>> /\ memory'[heap.pid] = memory[heap.pid]
          /\ heapPages'[heap.pid] = heapPages[heap.pid] /\ (\A m : LiveOn(heap.pid, m)' = LiveOn(heap.pid, m))
          /\ DOMAIN live' \subseteq DOMAIN live
      BY <1>2, <1>3, <1>5, <1>7, <1>9, <3>2
    <3>4. HeapFitsOn(n)'
      BY <3>1, <3>3, HeapStays
    <3>. QED  BY <3>4 DEF HeapFits, HeapPages
  <2>2. ASSUME heap = IdleHeap PROVE HeapFits'
    BY <1>2, <2>2 DEF HeapFits
  <2>. QED  BY <2>1, <2>2
<1>11. ASSUME NEW q \in Pid
       PROVE  OtherFits(q)' /\ ListFits(q)'
  <2>1. OtherFits(q) /\ ListFits(q)
    BY <1>1 DEF OthersFit, ListsFit
  <2>2. CASE q = p
    <3>1. ASSUME NEW n \in HeapPages PROVE LeftFine(q, n)' /\ Fine(q, n)'
      <4>1. LiveOn(q, n)' = {}
        BY <1>3, <1>4, <1>9, <2>1, <2>2 DEF OtherFits, LeftFine
      <4>. QED  BY <1>5, <1>6, <2>2, <4>1 DEF LeftFine, Fine
    <3>2. OtherFits(q)'
      BY <3>1 DEF OtherFits, HeapPages
    <3>3. Kept(q)' = {}
      BY <1>2, <1>7, <2>2 DEF Kept, KeptIn, Range
    <3>4. GrantedFits(q)'
      BY <1>2, <1>5, <1>6, <1>7, <2>2, <3>3 DEF GrantedFits
    <3>5. ListFits(q)'
      BY <1>2, <1>5, <1>6, <1>7, <2>2, <3>4 DEF ListFits, Increasing
    <3>. QED  BY <3>2, <3>5
  <2>3. CASE q # p
    <3>1. memory'[q] = memory[q] /\ (Leaving(q)' <=> Leaving(q)) /\ heapPages' = heapPages /\ heap' = heap /\ reply' = reply
      BY <1>2, <1>3, <1>4, <1>5, <2>3
    <3>2. \A m : Untouched(q, m)
      BY <1>9, <3>1 DEF Untouched
    <3>3. OtherFits(q)'
      BY <2>1, <3>1, <3>2, UntouchedFine DEF OtherFits, HeapPages
    <3>4. GrantedFits(q) <=> GrantedFits(q)'
      BY <3>1 DEF GrantedFits, Kept
    <3>5. ListFits(q)'
      BY <2>1, <3>1, <3>4 DEF ListFits, HeapPages
    <3>. QED  BY <3>3, <3>5
  <2>. QED  BY <2>2, <2>3
<1>12. TypeOK'
  <2>1. \A q \in Pid : ArePages(memory'[q])
    BY <1>1, <1>5, <1>6 DEF TypeOK, ArePages
  <2>. QED  BY <1>1, <1>2, <1>3, <1>5, <2>1 DEF TypeOK
<1>. QED  BY <1>8, <1>10, <1>11, <1>12 DEF IInv, TalkFits, OthersFit, ListsFit

\* A request that is waited for.
LEMMA AnswerTalks ==
    ASSUME IInv, NEW r, Serves(r), r.op # "finish"
    PROVE  /\ IsWire(wire)' /\ Once(wire') /\ IsRequest(r) /\ AskedIn(wire) = {r} /\ AskedIn(wire)' = {}
           /\ \A q : Leaving(q)' <=> Leaving(q)
           /\ ~answered /\ answered' = TRUE /\ Waits
           /\ UNCHANGED <<heapPages, running, heap, reader, live>>
           /\ ~lost' => OneRequest' /\ RunningFits'
           /\ LiveFits'
<1>1. TypeOK /\ OneRequest /\ RunningFits /\ LiveFits
  BY DEF IInv, TalkFits
<1>2. UNCHANGED <<heapPages, running, heap, reader, live>>
  BY DEF Serves, kernelVars, threadVars
<1>3. /\ IsWire(wire') /\ Once(wire') /\ AskedIn(wire) = {r} /\ AskedIn(wire') = {} /\ IsRequest(r)
      /\ \A q : Leaving(q)' <=> Leaving(q)
  <2>1. IsWire(wire) /\ wire # <<>> /\ Once(wire) /\ r = Head(wire) /\ wire' = Tail(wire)
    BY <1>1 DEF TypeOK, OneRequest, Serves
  <2>. QED  BY <2>1, ServedRequest DEF Leaving
<1>4. Waits /\ ~answered
  BY <1>1, <1>3 DEF OneRequest
<1>5. answered' = TRUE
  BY DEF Serves, HasAnswer
<1>6. ~lost' => OneRequest'
  BY <1>1, <1>2, <1>3, <1>4, <1>5 DEF OneRequest, Waits
<1>7. RunningFits'
  BY <1>1, <1>2, <1>3 DEF RunningFits
<1>8. LiveFits'
  BY <1>1, <1>2 DEF LiveFits
<1>. QED  BY <1>2, <1>3, <1>4, <1>5, <1>6, <1>7, <1>8

LEMMA ReplyTypes ==
    ASSUME IsReply(reply), NEW ok \in BOOLEAN, NEW b, IsPage(b), NEW n \in Pages \cup {0}, NEW a \in Addresses
    PROVE  /\ IsReply([reply EXCEPT !.ok = ok]) /\ [reply EXCEPT !.ok = ok].ok = ok
           /\ [reply EXCEPT !.ok = ok].page = reply.page /\ [reply EXCEPT !.ok = ok].buffer = reply.buffer
           /\ IsReply([reply EXCEPT !.buffer = b]) /\ [reply EXCEPT !.buffer = b].buffer = b
           /\ [reply EXCEPT !.buffer = b].page = reply.page
           /\ IsReply([reply EXCEPT !.page = n]) /\ [reply EXCEPT !.page = n].page = n
           /\ [reply EXCEPT !.page = n].buffer = reply.buffer
           /\ IsReply([reply EXCEPT !.ok = ok, !.offsetAbs = a]) /\ [reply EXCEPT !.ok = ok, !.offsetAbs = a].offsetAbs = a
           /\ [reply EXCEPT !.ok = ok, !.offsetAbs = a].page = reply.page
           /\ [reply EXCEPT !.ok = ok, !.offsetAbs = a].buffer = reply.buffer
BY DEF IsReply

\* What a served request changes is the page of the heap that it is about.
LEMMA HeapServed ==
    ASSUME IInv, NEW r, Serves(r), r.op # "finish", NEW P \in Pid, P = heap.pid, P \in running,
           NEW n \in HeapPages, \A m \in HeapPages \ {n} : Fine(P, m), HeapFitsOn(n) => HeapFitsOn(n)',
           HeapFitsOn(n), lost' = FALSE, reader = IdleReader, IsReply(reply'),
           DOMAIN memory' = Pid, \A q \in Pid \ {P} : memory'[q] = memory[q],
           ArePages(memory'[P]), DOMAIN memory'[P] \subseteq HeapPages, GrantedFits(P)'
    PROVE  IInv'
<1>1. /\ IsWire(wire)' /\ (\A q : Leaving(q)' <=> Leaving(q)) /\ answered' = TRUE
      /\ UNCHANGED <<heapPages, running, heap, reader, live>> /\ OneRequest' /\ RunningFits' /\ LiveFits'
  BY AnswerTalks
<1>2. TypeOK /\ OthersFit /\ ListsFit /\ RunningFits /\ \A p \in Pid : ArePages(memory[p])
  BY DEF IInv, TalkFits, TypeOK
<1>3. ~Leaving(P)
  BY <1>2 DEF RunningFits
<1>4. \A q \in Pid \ {P} : \A m : Untouched(q, m)
  BY <1>1 DEF Untouched, LiveOn
<1>5. HeapFits'
  BY DEF HeapFits, HeapPages
<1>6. ListFits(P)'
  <2>1. ListFits(P)
    BY <1>2 DEF ListsFit
  <2>. QED  BY <1>1, <2>1 DEF ListFits, HeapPages
<1>7. OthersFit' /\ ListsFit'
  <2>1. OnlyFor(P)
    BY <1>1, <1>4 DEF OnlyFor
  <2>2. heap'.pid = P
    BY <1>1
  <2>. QED  BY <1>2, <1>3, <1>6, <2>1, <2>2, OthersGoOn, PageNumbers
<1>8. ReaderFits'
  BY <1>1 DEF ReaderFits, IdleReader
<1>9. TypeOK'
  <2>1. \A q \in Pid : ArePages(memory'[q])
    BY <1>2
  <2>. QED  BY <1>1, <1>2, <2>1 DEF TypeOK
<1>. QED  BY <1>1, <1>5, <1>7, <1>8, <1>9 DEF IInv, TalkFits

\* The page that is read, or looked for, stays as it is.
LEMMA ReadServed ==
    ASSUME IInv, NEW r, Serves(r), ReadBytes(r) \/ GetPageFromPointer(r), NEW P \in Pid, P = heap.pid, P \in running,
           NEW n \in HeapPages, \A m \in HeapPages \ {n} : Fine(P, m), HeapFitsOn(n), ListFits(P), ~Leaving(P),
           reader = IdleReader, heap.at \in {"fit", "format", "page", "release"}, AskedIn(wire) = {r}
    PROVE  IInv'
<1>1. r.op # "finish" /\ UNCHANGED <<memory, lost>>
  BY DEF ReadBytes, GetPageFromPointer
<1>2. /\ AskedIn(wire)' = {} /\ IsRequest(r) /\ ~answered /\ answered' = TRUE
      /\ UNCHANGED <<heapPages, running, heap, reader, live>>
  BY <1>1, AnswerTalks
<1>3. /\ DOMAIN memory = Pid /\ IsReply(reply) /\ ArePages(memory[P]) /\ lost = FALSE
      /\ heapPages \in [Pid -> Seq(Listed)] /\ heap \in HeapStates
  BY DEF IInv, TypeOK, TalkFits, OneRequest
<1>4. \A q, m : Untouched(q, m)
  BY <1>1, <1>2, AllUntouched
<1>5. n \in DOMAIN memory[P]
  BY DEF HeapFitsOn, FitFits, FormatFits, PageFits, ReleaseFits, Freeing, There
<1>6. IsPage(memory[P][n])
  BY <1>3, <1>5 DEF ArePages
<1>7. /\ IsReply(reply')
      /\ heap.at \in {"fit", "format", "release"} => reply' = [reply EXCEPT !.buffer = memory[P][n]]
      /\ heap.at = "page" => reply' = [reply EXCEPT !.page = n]
  <2>1. CASE heap.at = "page"
    <3>1. r = Request("pageOf", P, n, heap.offset + HeaderSize, Bare)
      BY <2>1 DEF HeapFitsOn, PageFits, Asks
    <3>2. reply' = [reply EXCEPT !.page = n]
      BY <3>1 DEF Request, ReadBytes, GetPageFromPointer
    <3>. QED  BY <1>3, <2>1, <3>2, ReplyTypes, PageNumbers DEF IsReply
  <2>2. CASE heap.at \in {"fit", "format", "release"}
    <3>1. r = Request("read", P, n, 0, Bare)
      BY <2>2 DEF HeapFitsOn, FitFits, FormatFits, ReleaseFits, Asks
    <3>2. reply' = [reply EXCEPT !.buffer = memory[P][n]]
      BY <1>5, <3>1 DEF Request, ReadBytes, GetPageFromPointer
    <3>3. IsReply(reply')
      BY <1>3, <1>6, <3>2 DEF IsReply
    <3>. QED  BY <2>2, <3>2, <3>3
  <2>. QED  BY <2>1, <2>2
<1>8. \A m \in HeapPages \ {n} : Fine(P, m)'
  BY <1>4, UntouchedFine
<1>9. There(n)' /\ Page(n)' = Page(n) /\ Page(n) = memory[P][n]
  BY <1>1, <1>2, <1>5 DEF There, Page
<1>10. HeapFitsOn(n)'
  <2>1. CASE heap.at = "fit"
    <3>1. reply'.buffer = memory[P][n]
      BY <1>3, <1>7, <2>1 DEF IsReply
    <3>2. FitFits(n)
      BY <2>1 DEF HeapFitsOn
    <3>3. Fine(heap.pid, n)'
      BY <1>2, <1>4, <3>2, UntouchedFine DEF FitFits
    <3>4. FitFits(n)'
      BY <1>2, <1>9, <3>1, <3>2, <3>3 DEF FitFits, Asks, Wants, Found, NextPage
    <3>. QED  BY <1>2, <1>8, <2>1, <3>4 DEF HeapFitsOn, HeapPages
  <2>2. CASE heap.at = "format"
    <3>1. FormatFits(n)
      BY <2>2 DEF HeapFitsOn
    <3>2. FormatFits(n)'
      BY <1>2, <1>4, <1>9, <3>1 DEF FormatFits, Asks, Wants, Untouched
    <3>. QED  BY <1>2, <1>8, <2>2, <3>2 DEF HeapFitsOn, HeapPages
  <2>3. CASE heap.at = "page"
    <3>1. reply'.page = n
      BY <1>3, <1>7, <2>3 DEF IsReply
    <3>2. PageFits(n)
      BY <2>3 DEF HeapFitsOn
    <3>3. Freeing(n)'
      BY <1>2, <1>9, <3>2 DEF PageFits, Freeing, Held, LiveOn
    <3>4. PageFits(n)'
      BY <1>2, <3>1, <3>3 DEF PageFits, Asks
    <3>. QED  BY <1>2, <1>8, <2>3, <3>4 DEF HeapFitsOn, HeapPages
  <2>4. CASE heap.at = "release"
    <3>1. reply'.buffer = memory[P][n] /\ reply'.page = reply.page
      BY <1>3, <1>7, <2>4 DEF IsReply
    <3>2. ReleaseFits(n)
      BY <2>4 DEF HeapFitsOn
    <3>3. Freeing(n)'
      BY <1>2, <1>9, <3>2 DEF ReleaseFits, Freeing, Held, LiveOn
    <3>4. ReleaseFits(n)'
      BY <1>2, <1>9, <3>1, <3>2, <3>3 DEF ReleaseFits, Asks, Found
    <3>. QED  BY <1>2, <1>8, <2>4, <3>4 DEF HeapFitsOn, HeapPages
  <2>. QED  BY <2>1, <2>2, <2>3, <2>4
<1>11. GrantedFits(P)'
  <2>1. DOMAIN memory[P] = Kept(P)
    BY DEF ListFits, GrantedFits
  <2>. QED  BY <1>1, <1>2, <2>1 DEF GrantedFits, Kept
<1>12. DOMAIN memory' = Pid /\ (\A q \in Pid \ {P} : memory'[q] = memory[q]) /\ ArePages(memory'[P]) /\ DOMAIN memory'[P] \subseteq HeapPages
  BY <1>1, <1>3 DEF ListFits
<1>13. lost' = FALSE
  BY <1>1, <1>3
<1>. QED  BY <1>1, <1>7, <1>10, <1>11, <1>12, <1>13, HeapServed

\* The page that is stored is the one in the buffer.
LEMMA StoreServed ==
    ASSUME IInv, NEW r, Serves(r), StoreBytes(r), NEW P \in Pid, P = heap.pid, P \in running,
           NEW n \in HeapPages, \A m \in HeapPages \ {n} : Fine(P, m), HeapFitsOn(n), ListFits(P), ~Leaving(P),
           reader = IdleReader, heap.at \in {"fitted", "formatted", "released"}, AskedIn(wire) = {r}
    PROVE  IInv'
<1>1. r.op # "finish"
  BY DEF StoreBytes
<1>2. /\ AskedIn(wire)' = {} /\ IsRequest(r) /\ ~answered /\ answered' = TRUE
      /\ UNCHANGED <<heapPages, running, heap, reader, live>>
  BY <1>1, AnswerTalks
<1>3. /\ DOMAIN memory = Pid /\ IsReply(reply) /\ ArePages(memory[P]) /\ lost = FALSE
      /\ heapPages \in [Pid -> Seq(Listed)] /\ heap \in HeapStates
  BY DEF IInv, TypeOK, TalkFits, OneRequest
<1>4. PICK b : b = reply.buffer
  OBVIOUS
<1>5. n \in DOMAIN memory[P] /\ Tiles(b) /\ b # Bare /\ r = Request("store", P, n, 0, b)
  <2>1. n \in DOMAIN memory[P] /\ Tiles(b) /\ r = Request("store", P, n, 0, b)
    BY <1>4 DEF HeapFitsOn, FittedFits, FormattedFits, ReleasedFits, There, Asks
  <2>. QED  BY <2>1, BareIsPage
<1>6. Store(P, n, b) /\ reply' = [reply EXCEPT !.ok = TRUE, !.offsetAbs = Address(P, n, 0)] /\ lost' = FALSE
  <2>1. r.pid = P /\ r.page = n /\ r.offset = 0 /\ r.blocks = b
    BY <1>5 DEF Request
  <2>. QED  BY <1>5, <2>1 DEF StoreBytes
<1>7. IsReply(reply') /\ reply'.offsetAbs = Address(P, n, 0) /\ reply'.page = reply.page /\ reply'.buffer = b
  <2>1. Address(P, n, 0) \in Addresses
    BY PageNumbers DEF Address, Addresses
  <2>2. IsPage(b)
    BY <1>5 DEF Tiles
  <2>. QED  BY <1>3, <1>4, <1>6, <2>1, <2>2, ReplyTypes, PageNumbers
<1>8. /\ DOMAIN memory' = Pid /\ DOMAIN memory'[P] = DOMAIN memory[P] \cup {n} /\ memory'[P][n] = b
      /\ \A q \in Pid \ {P} : memory'[q] = memory[q] /\ \A m : Untouched(q, m)
      /\ \A m : m # n => Untouched(P, m)
      /\ \A q, m : LiveOn(q, m)' = LiveOn(q, m)
  BY <1>2, <1>3, <1>6, StoreTouches
<1>9. \A m \in HeapPages \ {n} : Fine(P, m)'
  BY <1>8, UntouchedFine
<1>10. There(n)' /\ Page(n)' = b /\ Written(n)'
  BY <1>2, <1>7, <1>8 DEF There, Page, Written
<1>11. HeapFitsOn(n)'
  <2>1. CASE heap.at = "fitted"
    <3>1. FittedFits(n)
      BY <2>1 DEF HeapFitsOn
    <3>2. Held(heap.pid, n, reply.buffer, Taking(n, heap.offset))'
      BY <1>2, <1>4, <1>7, <1>8, <3>1 DEF FittedFits, Held, Taking
    <3>3. FittedFits(n)'
      BY <1>2, <1>5, <1>7, <1>10, <3>1, <3>2 DEF FittedFits, Asks, Wants
    <3>. QED  BY <1>2, <1>9, <2>1, <3>3 DEF HeapFitsOn, HeapPages
  <2>2. CASE heap.at = "formatted"
    <3>1. FormattedFits(n)
      BY <2>2 DEF HeapFitsOn
    <3>2. Held(heap.pid, n, reply.buffer, Taking(n, HeaderSize))'
      BY <1>2, <1>4, <1>7, <1>8, <3>1 DEF FormattedFits, Held, Taking
    <3>3. FormattedFits(n)'
      BY <1>2, <1>5, <1>7, <1>10, <3>1, <3>2 DEF FormattedFits, Asks, Wants
    <3>. QED  BY <1>2, <1>9, <2>2, <3>3 DEF HeapFitsOn, HeapPages
  <2>3. CASE heap.at = "released"
    <3>1. ReleasedFits(n)
      BY <2>3 DEF HeapFitsOn
    <3>2. LiveOn(heap.pid, n)' = UsedOn(heap.pid, n, reply.buffer)'
      BY <1>2, <1>4, <1>7, <1>8, <3>1 DEF ReleasedFits
    <3>3. ReleasedFits(n)'
      BY <1>2, <1>5, <1>7, <1>10, <3>1, <3>2 DEF ReleasedFits, Asks, Found
    <3>. QED  BY <1>2, <1>9, <2>3, <3>3 DEF HeapFitsOn, HeapPages
  <2>. QED  BY <2>1, <2>2, <2>3
<1>12. DOMAIN memory'[P] = DOMAIN memory[P]
  BY <1>5, <1>8
<1>13. GrantedFits(P)'
  <2>1. DOMAIN memory[P] = Kept(P)
    BY DEF ListFits, GrantedFits
  <2>. QED  BY <1>2, <1>12, <2>1 DEF GrantedFits, Kept
<1>14. ArePages(memory'[P]) /\ DOMAIN memory'[P] \subseteq HeapPages
  <2>1. ASSUME NEW m \in DOMAIN memory[P] PROVE IsPage(memory'[P][m])
    BY <1>3, <1>5, <1>8 DEF ArePages, Untouched, Tiles
  <2>. QED  BY <1>3, <1>12, <2>1 DEF ArePages, ListFits
<1>15. lost' = FALSE /\ \A q \in Pid \ {P} : memory'[q] = memory[q]
  BY <1>6, <1>8
<1>. QED  BY <1>1, <1>7, <1>8, <1>11, <1>13, <1>14, <1>15, HeapServed

\* The page that is asked for is granted, or not.
LEMMA AddServed ==
    ASSUME IInv, NEW r, Serves(r), AddPages(r), NEW P \in Pid, P = heap.pid, P \in running,
           NEW n \in HeapPages, \A m \in HeapPages \ {n} : Fine(P, m), HeapFitsOn(n), ListFits(P), ~Leaving(P),
           reader = IdleReader, heap.at = "add", AskedIn(wire) = {r}
    PROVE  IInv'
<1>1. r.op # "finish"
  BY DEF AddPages
<1>2. /\ AskedIn(wire)' = {} /\ IsRequest(r) /\ ~answered /\ answered' = TRUE
      /\ UNCHANGED <<heapPages, running, heap, reader, live>>
  BY <1>1, AnswerTalks
<1>3. DOMAIN memory = Pid /\ IsReply(reply) /\ ArePages(memory[P]) /\ lost = FALSE
  BY DEF IInv, TypeOK, TalkFits, OneRequest
<1>4. AddFits(n) /\ n \notin DOMAIN memory[P] /\ r = Request("add", P, n, 0, Bare)
  BY <1>2 DEF HeapFitsOn, AddFits, There, Asks
<1>5. PICK ok \in BOOLEAN : ok <=> Cardinality(Granted) < FreeFrames
  OBVIOUS
<1>6. reply' = [reply EXCEPT !.ok = ok] /\ lost' = FALSE
  BY <1>3, <1>5 DEF AddPages
<1>7. IsReply(reply') /\ reply'.ok = ok
  BY <1>3, <1>6 DEF IsReply
<1>8. /\ DOMAIN memory' = Pid /\ DOMAIN memory'[P] = IF ok THEN DOMAIN memory[P] \cup {n} ELSE DOMAIN memory[P]
      /\ n \in DOMAIN memory'[P] => memory'[P][n] = Bare
      /\ \A q \in Pid \ {P} : memory'[q] = memory[q]
      /\ \A m : m # n => Untouched(P, m)
      /\ \A q, m : LiveOn(q, m)' = LiveOn(q, m)
  <2>1. CASE ok
    <3>1. Store(P, n, Bare)
      BY <1>4, <1>5, <2>1 DEF AddPages, Request
    <3>. QED  BY <1>2, <1>3, <2>1, <3>1, StoreTouches
  <2>2. CASE ~ok
    <3>1. memory' = memory
      BY <1>5, <2>2 DEF AddPages
    <3>2. (\A q, m : LiveOn(q, m)' = LiveOn(q, m)) /\ \A m : Untouched(P, m)
      BY <1>2, <3>1 DEF LiveOn, Untouched
    <3>. QED  BY <1>3, <1>4, <2>2, <3>1, <3>2
  <2>. QED  BY <2>1, <2>2
<1>9. \A m \in HeapPages \ {n} : Fine(P, m)'
  BY <1>8, UntouchedFine
<1>10. HeapFitsOn(n)'
  <2>1. (There(n)' <=> reply'.ok) /\ (There(n)' => Page(n)' = Bare)
    BY <1>2, <1>4, <1>7, <1>8 DEF There, Page
  <2>2. AddFits(n)'
    BY <1>2, <1>4, <1>8, <2>1 DEF AddFits, Asks, Wants, NextPage
  <2>. QED  BY <1>2, <1>9, <2>2 DEF HeapFitsOn, HeapPages
<1>11. GrantedFits(P)'
  <2>1. DOMAIN memory[P] \ {n} = Kept(P) /\ heap.page = n
    BY <1>4 DEF ListFits, GrantedFits, AddFits, Wants
  <2>2. DOMAIN memory'[P] \ {n} = Kept(P)'
    BY <1>2, <1>8, <2>1 DEF Kept
  <2>. QED  BY <1>2, <2>1, <2>2 DEF GrantedFits
<1>12. ArePages(memory'[P]) /\ DOMAIN memory'[P] \subseteq HeapPages
  <2>1. ASSUME NEW m \in DOMAIN memory'[P] PROVE IsPage(memory'[P][m]) /\ m \in HeapPages
    <3>1. CASE m = n
      BY <1>8, <3>1, BareIsPage
    <3>2. CASE m # n
      BY <1>3, <1>8, <3>2 DEF ArePages, Untouched, ListFits
    <3>. QED  BY <3>1, <3>2
  <2>. QED  BY <2>1, PageNumbers DEF ArePages
<1>. QED  BY <1>1, <1>6, <1>7, <1>8, <1>10, <1>11, <1>12, HeapServed

\* The page that is given back is taken.
LEMMA FreeServed ==
    ASSUME IInv, NEW r, Serves(r), FreePage(r), NEW P \in Pid, P = heap.pid, P \in running,
           NEW n \in HeapPages, \A m \in HeapPages \ {n} : Fine(P, m), HeapFitsOn(n), ListFits(P), ~Leaving(P),
           reader = IdleReader, heap.at = "freed", AskedIn(wire) = {r}
    PROVE  IInv'
<1>1. r.op # "finish"
  BY DEF FreePage
<1>2. /\ AskedIn(wire)' = {} /\ IsRequest(r) /\ ~answered /\ answered' = TRUE
      /\ UNCHANGED <<heapPages, running, heap, reader, live>>
  BY <1>1, AnswerTalks
<1>3. DOMAIN memory = Pid /\ IsReply(reply) /\ ArePages(memory[P])
  BY DEF IInv, TypeOK
<1>4. FreedFits(n) /\ n \in DOMAIN memory[P] /\ r = Request("free", P, n, 0, Bare)
  BY <1>2 DEF HeapFitsOn, FreedFits, There, Asks
<1>5. Take(P, n) /\ reply' = [reply EXCEPT !.ok = TRUE] /\ lost' = FALSE
  BY <1>4 DEF FreePage, Request
<1>6. IsReply(reply') /\ reply'.page = reply.page
  BY <1>3, <1>5 DEF IsReply
<1>7. /\ DOMAIN memory' = Pid /\ DOMAIN memory'[P] = DOMAIN memory[P] \ {n}
      /\ \A m \in DOMAIN memory'[P] : memory'[P][m] = memory[P][m]
      /\ \A q \in Pid \ {P} : memory'[q] = memory[q]
      /\ \A m : m # n => Untouched(P, m)
      /\ \A q, m : LiveOn(q, m)' = LiveOn(q, m)
  BY <1>2, <1>3, <1>5, TakeTouches
<1>8. \A m \in HeapPages \ {n} : Fine(P, m)'
  BY <1>7, UntouchedFine
<1>9. HeapFitsOn(n)'
  <2>1. ~There(n)'
    BY <1>2, <1>7 DEF There
  <2>2. FreedFits(n)'
    BY <1>2, <1>4, <1>6, <1>7, <2>1 DEF FreedFits, Asks
  <2>. QED  BY <1>2, <1>8, <2>2 DEF HeapFitsOn, HeapPages
<1>10. GrantedFits(P)'
  <2>1. DOMAIN memory[P] \cup {n} = Kept(P) /\ reply.page = n
    BY <1>4 DEF ListFits, GrantedFits, FreedFits
  <2>2. DOMAIN memory'[P] \cup {n} = Kept(P)'
    BY <1>2, <1>7, <2>1 DEF Kept
  <2>. QED  BY <1>2, <1>6, <2>1, <2>2 DEF GrantedFits
<1>11. ArePages(memory'[P]) /\ DOMAIN memory'[P] \subseteq HeapPages
  BY <1>3, <1>7 DEF ArePages, ListFits
<1>. QED  BY <1>1, <1>5, <1>6, <1>7, <1>9, <1>10, <1>11, HeapServed

\* cpu_read_file's requests: its stack page is found, and takes the bytes.
LEMMA ReaderServed ==
    ASSUME IInv, NEW r, Serves(r), r.op # "finish", heap = IdleHeap,
           AddPages(r) \/ ReadBytes(r) \/ StoreBytes(r) \/ GetPageFromPointer(r) \/ FreePage(r)
    PROVE  IInv'
<1>1. /\ IsWire(wire)' /\ AskedIn(wire) = {r} /\ AskedIn(wire)' = {} /\ IsRequest(r) /\ Waits
      /\ \A q : Leaving(q)' <=> Leaving(q)
      /\ answered' = TRUE /\ UNCHANGED <<heapPages, running, heap, reader, live>>
      /\ ~lost' => OneRequest' /\ RunningFits'
  BY AnswerTalks
<1>2. TypeOK /\ ReaderFits /\ OneRequest /\ IsReply(reply) /\ lost = FALSE
  BY DEF IInv, TalkFits, OneRequest, TypeOK
<1>3. reader.at \in {"page", "stored"}
  <2>1. reader \in ReaderStates /\ reader # IdleReader
    BY <1>1, <1>2 DEF Waits, TypeOK
  <2>. QED  BY <1>2, <2>1 DEF OneRequest, ReaderStates
<1>4. UNCHANGED <<memory, lost>> /\ IsReply(reply') /\ (reader.at = "page" => reply'.page = StackPage)
  <2>1. CASE reader.at = "page"
    <3>1. r = Request("pageOf", reader.pid, StackPage, Variable, Bare)
      BY <1>1, <1>2, <2>1 DEF ReaderFits
    <3>2. GetPageFromPointer(r) /\ r.page = StackPage
      BY <3>1 DEF Request, AddPages, ReadBytes, StoreBytes, FreePage
    <3>3. UNCHANGED <<memory, lost>> /\ reply' = [reply EXCEPT !.page = StackPage]
      BY <3>2 DEF GetPageFromPointer
    <3>. QED  BY <1>2, <3>3, PageNumbers DEF IsReply
  <2>2. CASE reader.at = "stored"
    <3>1. r = Request("store", reader.pid, StackPage, Variable, Bare)
      BY <1>1, <1>2, <2>2 DEF ReaderFits
    <3>2. r.op = "store" /\ r.page = StackPage /\ r.pid = reader.pid /\ r.offset = Variable /\ r.blocks = Bare
      BY <3>1 DEF Request
    <3>3. /\ UNCHANGED <<memory, lost>>
          /\ reply' = [reply EXCEPT !.ok = TRUE, !.offsetAbs = Address(reader.pid, StackPage, Variable)]
      BY <1>2, <3>2 DEF GetPageFromPointer, AddPages, ReadBytes, StoreBytes, FreePage
    <3>4. Address(reader.pid, StackPage, Variable) \in Addresses
      <4>1. reader.pid \in Pid
        BY <1>1, <3>2 DEF IsRequest
      <4>2. Variable \in 0 .. 2 * PageSize
        BY HeapConstants
      <4>3. StackPage \in Pages \cup {0}
        BY PageNumbers
      <4>. QED  BY <4>1, <4>2, <4>3 DEF Address, Addresses
    <3>5. IsReply(reply')
      BY <1>2, <3>3, <3>4 DEF IsReply
    <3>. QED  BY <2>2, <3>3, <3>5
  <2>. QED  BY <1>3, <2>1, <2>2
<1>5. OneRequest' /\ RunningFits'
  BY <1>1, <1>2, <1>4
<1>6. ReaderFits'
  BY <1>1, <1>4 DEF ReaderFits
<1>7. HeapFits' /\ OthersFit' /\ ListsFit' /\ LiveFits'
  BY <1>1, <1>4, NothingMoves
<1>8. TypeOK'
  BY <1>1, <1>2, <1>4 DEF TypeOK
<1>. QED  BY <1>5, <1>6, <1>7, <1>8 DEF IInv, TalkFits

LEMMA ServeKeeps ==
    ASSUME IInv, Serve
    PROVE  IInv'
<1>1. PICK r : r = Head(wire)
  OBVIOUS
<1>2. /\ Serves(r)
      /\ AddPages(r) \/ ReadBytes(r) \/ StoreBytes(r) \/ GetPageFromPointer(r) \/ FreePage(r) \/ FinishProgram(r)
  BY <1>1 DEF Serve, Serves
<1>3. CASE FinishProgram(r)
  BY <1>2, <1>3, FinishServed
<1>4. CASE ~FinishProgram(r) /\ heap = IdleHeap
  <2>1. r.op # "finish"
    BY <1>2, <1>4 DEF AddPages, ReadBytes, StoreBytes, GetPageFromPointer, FreePage
  <2>. QED  BY <1>2, <1>4, <2>1, ReaderServed
<1>5. CASE ~FinishProgram(r) /\ heap # IdleHeap
  <2>1. r.op # "finish"
    BY <1>2, <1>5 DEF AddPages, ReadBytes, StoreBytes, GetPageFromPointer, FreePage
  <2>2. AskedIn(wire) = {r} /\ ~answered
    BY <1>2, <2>1, AnswerTalks
  <2>3. PICK P \in Pid, n \in HeapPages :
            /\ P = heap.pid /\ P \in running /\ ~Leaving(P) /\ HeapFitsOn(n) /\ ListFits(P)
            /\ \A m \in HeapPages \ {n} : Fine(P, m)
            /\ reader = IdleReader
    <3>1. heap.pid \in running /\ heap.pid \in Pid /\ ~Leaving(heap.pid) /\ ListFits(heap.pid) /\ reader = IdleReader
      BY <1>5 DEF IInv, TypeOK, TalkFits, RunningFits, OneRequest, ListsFit
    <3>2. PICK n \in HeapPages : HeapFitsOn(n)
      BY <1>5 DEF IInv, HeapFits
    <3>. QED  BY <3>1, <3>2 DEF HeapFitsOn
  <2>4. /\ heap.at \in {"fit", "fitted", "add", "format", "formatted", "page", "release", "freed", "released"}
        /\ heap.at = "idle" => heap = IdleHeap
    BY <1>5 DEF IInv, TypeOK, HeapStates, TalkFits, OneRequest
  <2>5. CASE heap.at \in {"fit", "format", "page", "release"}
    <3>1. r.op \in {"read", "pageOf"}
      BY <2>2, <2>3, <2>5 DEF HeapFitsOn, FitFits, FormatFits, PageFits, ReleaseFits, Asks, Request
    <3>2. ReadBytes(r) \/ GetPageFromPointer(r)
      BY <1>2, <1>5, <3>1 DEF AddPages, StoreBytes, FreePage
    <3>. QED  BY <1>2, <2>2, <2>3, <2>5, <3>2, ReadServed
  <2>6. CASE heap.at \in {"fitted", "formatted", "released"}
    <3>1. r.op = "store"
      BY <2>2, <2>3, <2>6 DEF HeapFitsOn, FittedFits, FormattedFits, ReleasedFits, Asks, Request
    <3>2. StoreBytes(r)
      BY <1>2, <1>5, <3>1 DEF AddPages, ReadBytes, GetPageFromPointer, FreePage
    <3>. QED  BY <1>2, <2>2, <2>3, <2>6, <3>2, StoreServed
  <2>7. CASE heap.at = "add"
    <3>1. r.op = "add"
      BY <2>2, <2>3, <2>7 DEF HeapFitsOn, AddFits, Asks, Request
    <3>2. AddPages(r)
      BY <1>2, <1>5, <3>1 DEF ReadBytes, StoreBytes, GetPageFromPointer, FreePage
    <3>. QED  BY <1>2, <2>2, <2>3, <2>7, <3>2, AddServed
  <2>8. CASE heap.at = "freed"
    <3>1. r.op = "free"
      BY <2>2, <2>3, <2>8 DEF HeapFitsOn, FreedFits, Asks, Request
    <3>2. FreePage(r)
      BY <1>2, <1>5, <3>1 DEF AddPages, ReadBytes, StoreBytes, GetPageFromPointer
    <3>. QED  BY <1>2, <2>2, <2>3, <2>8, <3>2, FreeServed
  <2>. QED  BY <2>4, <2>5, <2>6, <2>7, <2>8
<1>. QED  BY <1>3, <1>4, <1>5
-----------------------------------------------------------------------------
(* The invariant holds initially, and every step keeps it. *)

LEMMA InitFits == Init => IInv
<1>. SUFFICES ASSUME Init PROVE IInv
  OBVIOUS
<1>1. DOMAIN Bare = {} /\ wire = <<>> /\ answered = FALSE /\ lost = FALSE /\ heap = IdleHeap /\ reader = IdleReader
  BY DEF Init, Bare
<1>2. Asking(wire) = {} /\ AskedIn(wire) = {} /\ \A p : ~Leaving(p)
  BY <1>1 DEF Asking, AskedIn, Leaving, LeavingIn
<1>3. OneRequest /\ RunningFits /\ ReaderFits /\ HeapFits
  BY <1>1, <1>2 DEF OneRequest, RunningFits, ReaderFits, HeapFits, Once, Waits, IdleReader
<1>4. DOMAIN live = {} /\ LiveFits
  BY DEF Init, EmptyBag, SetToBag, LiveFits
<1>5. ASSUME NEW p \in Pid PROVE OtherFits(p) /\ ListFits(p)
  <2>1. memory[p] = Bare /\ heapPages[p] = <<>> /\ \A n : LiveOn(p, n) = {}
    BY <1>4 DEF Init, LiveOn
  <2>2. OtherFits(p)
    BY <1>1, <1>2, <2>1 DEF OtherFits, Fine
  <2>3. Kept(p) = {}
    BY <2>1 DEF Kept, KeptIn, Range
  <2>4. ListFits(p)
    BY <1>1, <2>1, <2>3, IdleHeapTypes DEF ListFits, GrantedFits, Increasing
  <2>. QED  BY <2>2, <2>4
<1>6. TypeOK
  <2>1. heapPages \in [Pid -> Seq(Listed)] /\ running \subseteq Pid
    BY DEF Init
  <2>2. IsWire(wire)
    BY <1>1 DEF IsWire, ToSet
  <2>3. IsReply(reply)
    <3>1. Address(NoPid, 0, 0) \in Addresses
      BY PageNumbers DEF Address, Addresses
    <3>. QED  BY <3>1, BareIsPage DEF Init, IsReply
  <2>4. DOMAIN memory = Pid /\ \A p \in Pid : ArePages(memory[p])
    BY <1>1 DEF Init, ArePages
  <2>5. IsABag(live)
    BY <1>4 DEF Init, EmptyBag, SetToBag, IsABag
  <2>. QED  BY <1>1, <1>4, <2>1, <2>2, <2>3, <2>4, <2>5, IdleHeapTypes DEF TypeOK
<1>. QED  BY <1>3, <1>4, <1>5, <1>6 DEF IInv, TalkFits, OthersFit, ListsFit

LEMMA StutterKeeps ==
    ASSUME IInv, UNCHANGED vars
    PROVE  IInv'
<1>1. /\ UNCHANGED <<heapPages, running, heap, reader, wire, reply, answered, memory, live, lost>>
      /\ \A q \in Pid : Leaving(q)' <=> Leaving(q)
  BY DEF vars, kernelVars, threadVars, memoryVars, Leaving
<1>2. TypeOK' /\ OneRequest' /\ RunningFits' /\ ReaderFits' /\ LiveFits'
  BY <1>1 DEF IInv, TypeOK, TalkFits, OneRequest, RunningFits, ReaderFits, LiveFits, Waits
<1>3. \A q, m : Untouched(q, m)
  BY <1>1, AllUntouched
<1>4. HeapFits'
  <2>1. ASSUME heap # IdleHeap PROVE HeapFits'
    <3>1. PICK n \in HeapPages : HeapFitsOn(n)
      BY <2>1 DEF IInv, HeapFits
    <3>2. /\ AskedIn(wire') = AskedIn(wire) /\ UNCHANGED <<heap, reply, answered>> /\ memory'[heap.pid] = memory[heap.pid]
          /\ heapPages'[heap.pid] = heapPages[heap.pid] /\ (\A m : LiveOn(heap.pid, m)' = LiveOn(heap.pid, m))
          /\ DOMAIN live' \subseteq DOMAIN live
      BY <1>1, <1>3 DEF Untouched
    <3>3. HeapFitsOn(n)'
      BY <3>1, <3>2, HeapStays
    <3>. QED  BY <3>3 DEF HeapFits, HeapPages
  <2>. QED  BY <1>1, <2>1 DEF HeapFits
<1>5. ASSUME NEW q \in Pid
      PROVE  OtherFits(q)' /\ ListFits(q)'
  <2>1. OtherFits(q) /\ ListFits(q)
    BY DEF IInv, OthersFit, ListsFit
  <2>2. OtherFits(q)'
    BY <1>1, <1>3, <2>1, UntouchedFine DEF OtherFits, HeapPages
  <2>3. GrantedFits(q) <=> GrantedFits(q)'
    BY <1>1 DEF GrantedFits, Kept
  <2>. QED  BY <1>1, <2>1, <2>2, <2>3 DEF ListFits, HeapPages
<1>. QED  BY <1>2, <1>4, <1>5 DEF IInv, TalkFits, OthersFit, ListsFit

LEMMA NextKeeps ==
    ASSUME NobodyOverlaps, IInv, [Next]_vars
    PROVE  IInv'
<1>1. CASE Serve
  BY <1>1, ServeKeeps
<1>2. CASE HeapThread
  <2>1. CASE Fit
    BY <2>1, FitKeeps
  <2>2. CASE Fitted
    BY <2>2, FittedKeeps
  <2>3. CASE Add
    BY <2>3, AddKeeps
  <2>4. CASE Format
    BY <2>4, FormatKeeps
  <2>5. CASE Formatted
    BY <2>5, FormattedKeeps
  <2>6. CASE PageFound
    BY <2>6, PageFoundKeeps
  <2>7. CASE Release
    BY <2>7, ReleaseKeeps
  <2>8. CASE PageFreed
    BY <2>8, PageFreedKeeps
  <2>9. CASE Released
    BY <2>9, ReleasedKeeps
  <2>. QED  BY <1>2, <2>1, <2>2, <2>3, <2>4, <2>5, <2>6, <2>7, <2>8, <2>9 DEF HeapThread
<1>3. CASE ReaderThread
  BY <1>3, StoreReadKeeps, FileReadKeeps DEF ReaderThread
<1>4. ASSUME NEW p \in Pid, NEW n \in Sizes, Malloc(p, n) \/ MallocTooMuch(p, n)
      PROVE  IInv'
  BY <1>4, MallocKeeps, MallocTooMuchKeeps
<1>5. ASSUME NEW p \in Pid, ReadFile(p) \/ Finish(p)
      PROVE  IInv'
  BY <1>5, ReadFileKeeps, FinishKeeps
<1>6. ASSUME NEW r \in DOMAIN live, Free(r)
      PROVE  IInv'
  BY <1>6, FreeKeeps
<1>7. CASE UNCHANGED vars
  BY <1>7, StutterKeeps
<1>. QED  BY <1>1, <1>2, <1>3, <1>4, <1>5, <1>6, <1>7 DEF Next

THEOREM InvariantHolds ==
    ASSUME NobodyOverlaps
    PROVE  Spec => []IInv
<1>1. Init => IInv
  BY InitFits
<1>2. IInv /\ [Next]_vars => IInv'
  BY NextKeeps
<1>. QED  BY <1>1, <1>2, PTL DEF Spec
-----------------------------------------------------------------------------
(* What the invariant says of the pages, of what programs hold, and of the lists. *)

LEMMA EveryPageTiles ==
    ASSUME IInv, NEW p \in Pid, NEW n \in DOMAIN memory[p]
    PROVE  memory[p][n] = Bare \/ Tiles(memory[p][n])
<1>1. OtherFits(p) /\ n \in HeapPages
  BY DEF IInv, OthersFit, ListsFit, ListFits
<1>2. CASE Leaving(p)
  BY <1>1, <1>2 DEF OtherFits, LeftFine
<1>3. CASE ~Leaving(p) /\ p # heap.pid
  BY <1>1, <1>3 DEF OtherFits, Fine
<1>4. CASE p = heap.pid
  <2>1. heap # IdleHeap
    BY <1>4, PageNumbers, IdleHeapTypes
  <2>2. PICK m \in HeapPages : HeapFitsOn(m)
    BY <2>1 DEF IInv, HeapFits
  <2>3. CASE n # m
    BY <1>1, <1>4, <2>2, <2>3 DEF HeapFitsOn, Fine
  <2>4. CASE n = m
    <3>1. heap.at \in {"fit", "fitted", "add", "format", "formatted", "page", "release", "freed", "released"}
      BY <2>1 DEF IInv, TypeOK, HeapStates, TalkFits, OneRequest
    <3>2. There(m) /\ Page(m) = memory[p][n]
      BY <1>4, <2>4 DEF There, Page
    <3>3. CASE heap.at \in {"fit", "fitted", "page", "release", "freed", "released"}
      BY <1>4, <2>2, <2>4, <3>2, <3>3
         DEF HeapFitsOn, FitFits, Fine, FittedFits, PageFits, ReleaseFits, Freeing, FreedFits, ReleasedFits
    <3>4. CASE heap.at \in {"add", "format", "formatted"}
      BY <2>2, <3>2, <3>4 DEF HeapFitsOn, AddFits, FormatFits, FormattedFits, Written
    <3>. QED  BY <3>1, <3>3, <3>4
  <2>. QED  BY <2>3, <2>4
<1>. QED  BY <1>2, <1>3, <1>4

LEMMA TilesAreWalked == IInv => BlocksTileThePage
<1>. SUFFICES ASSUME IInv, NEW p \in Pid, NEW n \in DOMAIN memory[p], memory[p][n] # Bare
              PROVE  LET b == memory[p][n]
                     IN  /\ 0 \in DOMAIN b
                         /\ \A o \in DOMAIN b : After(b, o) \in DOMAIN b \cup {PageSize}
                         /\ Walked(b) = DOMAIN b
  BY DEF BlocksTileThePage
<1>. DEFINE b == memory[p][n]
<1>1. Tiles(b)
  BY EveryPageTiles
<1>. HIDE DEF b
<1>2. Walked(b) = DOMAIN b
  BY <1>1, WalkVisitsAll
<1>. QED  BY <1>1, <1>2 DEF Tiles, b

LEMMA NobodyIsLeaving ==
    ASSUME IInv, Settled, NEW p \in Pid
    PROVE  ~Leaving(p) /\ heap.pid # p /\ ListFits(p) /\ DOMAIN memory[p] = Kept(p) /\ \A n \in HeapPages : Fine(p, n)
<1>1. ~Leaving(p) /\ heap.pid # p
  BY PageNumbers, IdleHeapTypes DEF Settled, Leaving, LeavingIn
<1>2. ListFits(p) /\ OtherFits(p)
  BY DEF IInv, ListsFit, OthersFit
<1>. QED  BY <1>1, <1>2 DEF ListFits, GrantedFits, OtherFits

LEMMA HeldIsUsed == IInv => AllocationsAreKept
<1>. SUFFICES ASSUME IInv, Settled PROVE live = SetToBag(Used)
  BY DEF AllocationsAreKept
<1>1. IsABag(live) /\ DOMAIN live \subseteq Extents /\ \A r \in DOMAIN live : live[r] = 1 /\ r.page \in HeapPages
  BY DEF IInv, TypeOK, LiveFits
<1>2. ASSUME NEW p \in Pid, NEW n \in DOMAIN memory[p]
      PROVE  n \in HeapPages /\ UsedOn(p, n, memory[p][n]) = LiveOn(p, n)
  BY NobodyIsLeaving DEF ListFits, Fine
<1>3. ASSUME NEW r \in DOMAIN live PROVE r \in Used
  <2>1. PICK p, n : p = r.pid /\ n = r.page
    OBVIOUS
  <2>2. p \in Pid /\ n \in HeapPages /\ r \in LiveOn(p, n)
    BY <1>1, <2>1 DEF Extents, LiveOn
  <2>3. n \in DOMAIN memory[p]
    BY <2>2, NobodyIsLeaving DEF Fine
  <2>4. <<p, n>> \in Granted
    BY <2>2, <2>3 DEF Granted
  <2>5. r \in UsedOn(p, n, memory[p][n])
    BY <1>2, <2>2, <2>3
  <2>. QED  BY <2>4, <2>5 DEF Used
<1>4. ASSUME NEW r \in Used PROVE r \in DOMAIN live
  <2>1. PICK g \in Granted : r \in UsedOn(g[1], g[2], memory[g[1]][g[2]])
    BY DEF Used
  <2>2. PICK p \in Pid : \E n \in DOMAIN memory[p] : g = <<p, n>>
    BY DEF Granted
  <2>3. PICK n \in DOMAIN memory[p] : g = <<p, n>>
    BY <2>2
  <2>4. r \in LiveOn(p, n)
    BY <1>2, <2>1, <2>3
  <2>. QED  BY <2>4 DEF LiveOn
<1>5. DOMAIN live = Used
  BY <1>3, <1>4
<1>6. live = [r \in DOMAIN live |-> 1]
  BY <1>1 DEF IsABag
<1>. QED  BY <1>5, <1>6 DEF SetToBag

LEMMA ListedIsGranted == IInv => PagesAreGranted
<1>. SUFFICES ASSUME IInv, Settled, NEW p \in Pid
              PROVE  /\ {h.page : h \in {h \in HeapPagesOf(p) : ~h.wasFreed}} = DOMAIN memory[p]
                     /\ \A i, j \in DOMAIN heapPages[p] : i < j => heapPages[p][i].page < heapPages[p][j].page
  BY DEF PagesAreGranted
<1>1. ListFits(p) /\ DOMAIN memory[p] = Kept(p)
  BY NobodyIsLeaving
<1>2. heapPages[p] \in Seq(Listed)
  BY DEF IInv, TypeOK
<1>3. {h.page : h \in {h \in HeapPagesOf(p) : ~h.wasFreed}} = Kept(p)
  BY DEF HeapPagesOf, Kept, KeptIn
<1>. QED  BY <1>1, <1>2, <1>3 DEF ListFits, Increasing

\* Every variable keeps its type: in particular what it_fits_malloc and free_heap write are
\* headers inside the page, with sizes that are not negative.
THEOREM TypesAreKept ==
    ASSUME NobodyOverlaps
    PROVE  Spec => []TypeOK
<1>1. IInv => TypeOK
  BY DEF IInv
<1>. QED  BY <1>1, InvariantHolds, PTL

\* it_fits_malloc and free_heap: from header to header the loops visit every header of a
\* page and end at its end, whatever was reserved and freed.
THEOREM PagesStayTiled ==
    ASSUME NobodyOverlaps
    PROVE  Spec => []BlocksTileThePage
BY TilesAreWalked, InvariantHolds, PTL

\* malloc_memory and free_memory: the blocks in use are those that the programs hold, each
\* once, with the size that was asked for and at the address that was answered.
THEOREM NobodyLosesABlock ==
    ASSUME NobodyOverlaps
    PROVE  Spec => []AllocationsAreKept
BY HeldIsUsed, InvariantHolds, PTL

\* add_heap_page and occupy_space: the pages that the kernel takes a program to have are
\* those that the memory granted, in order and each listed once.
THEOREM ListsAreTrue ==
    ASSUME NobodyOverlaps
    PROVE  Spec => []PagesAreGranted
BY ListedIsGranted, InvariantHolds, PTL
-----------------------------------------------------------------------------
(* The free bytes of a page. *)

FreeIn(b, o) == IF b[o].isFree THEN b[o].size ELSE 0

\* f adds up the free bytes of the blocks of b.
Adds(f, b) ==
    /\ f[{}] = 0
    /\ \A s \in SUBSET DOMAIN b : f[s] \in Nat /\ \A o \in s : f[s] = FreeIn(b, o) + f[s \ {o}]

LEMMA BlocksAreFinite ==
    ASSUME NEW b, IsPage(b)
    PROVE  IsFiniteSet(DOMAIN b) /\ \A o \in DOMAIN b : o \in Nat /\ FreeIn(b, o) \in Nat
<1>1. PageSize \in Nat
  BY HeapConstants
<1>2. DOMAIN b \subseteq 0 .. PageSize - 1 /\ \A o \in DOMAIN b : b[o] \in Headers
  BY DEF IsPage
<1>3. IsFiniteSet(DOMAIN b)
  <2>1. IsFiniteSet(0 .. PageSize - 1)
    <3>1. 0 \in Int /\ PageSize - 1 \in Int
      BY <1>1
    <3>. QED  BY <3>1, FS_Interval
  <2>. QED  BY <1>2, <2>1, FS_Subset
<1>4. \A o \in DOMAIN b : FreeIn(b, o) \in Nat
  BY <1>1, <1>2 DEF FreeIn, Headers
<1>. QED  BY <1>1, <1>2, <1>3, <1>4

LEMMA FreeBytesAdds ==
    ASSUME NEW b, IsPage(b)
    PROVE  \E f : Adds(f, b) /\ FreeBytes(b) = f[DOMAIN b]
<1>. DEFINE S == DOMAIN b
            w == [o \in S |-> FreeIn(b, o)]
            IsIt(f) == f = [s \in SUBSET S |->
                              IF s = {} THEN 0
                              ELSE (IF b[CHOOSE x \in s : TRUE].isFree THEN b[CHOOSE x \in s : TRUE].size ELSE 0)
                                   + f[s \ {CHOOSE x \in s : TRUE}]]
            total == CHOOSE f : IsIt(f)
<1>1. FreeBytes(b) = total[S]
  BY DEF FreeBytes, MapThenSumSet, MapThenFoldSet
<1>2. IsFiniteSet(S) /\ w \in [S -> Nat]
  BY BlocksAreFinite
<1>3. ASSUME NEW s \in SUBSET S, s # {}, NEW f
      PROVE  w[Picked(s)] + f[s \ {Picked(s)}]
              = (IF b[CHOOSE x \in s : TRUE].isFree THEN b[CHOOSE x \in s : TRUE].size ELSE 0)
                 + f[s \ {CHOOSE x \in s : TRUE}]
  <2>1. Picked(s) \in S
    BY <1>3, PickedIsIn
  <2>2. w[Picked(s)] = IF b[Picked(s)].isFree THEN b[Picked(s)].size ELSE 0
    BY <2>1 DEF FreeIn
  <2>. HIDE DEF w
  <2>. QED  BY <2>2 DEF Picked
<1>4. ASSUME NEW f PROVE IsIt(f) <=> IsSum(f, S, w)
  <2>. DEFINE A == [s \in SUBSET S |->
                      IF s = {} THEN 0
                      ELSE (IF b[CHOOSE x \in s : TRUE].isFree THEN b[CHOOSE x \in s : TRUE].size ELSE 0)
                           + f[s \ {CHOOSE x \in s : TRUE}]]
              B == [s \in SUBSET S |-> IF s = {} THEN 0 ELSE w[Picked(s)] + f[s \ {Picked(s)}]]
  <2>. HIDE DEF w, S
  <2>1. A = B
    BY <1>3
  <2>2. IsIt(f) <=> f = A
    OBVIOUS
  <2>3. IsSum(f, S, w) <=> f = B
    BY DEF IsSum
  <2>. HIDE DEF IsIt, A, B
  <2>. QED  BY <2>1, <2>2, <2>3
<1>5. IsIt(total)
  <2>1. PICK f : IsSum(f, S, w)
    <3>. HIDE DEF w, S
    <3>. QED  BY <1>2, SumExists
  <2>. HIDE DEF IsIt
  <2>. QED  BY <1>4, <2>1
<1>6. IsSum(total, S, w)
  <2>. HIDE DEF IsIt, total
  <2>. QED  BY <1>4, <1>5
<1>7. \A s \in SUBSET S : total[s] \in Nat /\ \A o \in s : total[s] = w[o] + total[s \ {o}]
  <2>. HIDE DEF total, w, S
  <2>. QED  BY <1>2, <1>6, SumWithout
<1>8. total[{}] = 0
  <2>. HIDE DEF total
  <2>. QED  BY <1>5
<1>. HIDE DEF total
<1>. QED  BY <1>1, <1>7, <1>8 DEF Adds

\* Blocks that two pages share add up to the same.
LEMMA SharedBlocks ==
    ASSUME NEW b, IsPage(b), NEW c, NEW f, Adds(f, b), NEW g, Adds(g, c),
           NEW T, T \subseteq DOMAIN b, T \subseteq DOMAIN c, \A o \in T : c[o] = b[o]
    PROVE  g[T] = f[T]
<1>. DEFINE N == Cardinality(T)
            Bad == {n \in 0 .. N : \E s \in SUBSET T : Cardinality(s) = n /\ g[s] # f[s]}
<1>0. IsFiniteSet(T)
  BY BlocksAreFinite, FS_Subset
<1>1. N \in Nat /\ \A s \in SUBSET T : IsFiniteSet(s) /\ Cardinality(s) \in 0 .. N
  BY <1>0, FS_CardinalityType, FS_Subset
<1>2. Bad = {}
  <2>1. SUFFICES ASSUME Bad # {} PROVE FALSE
    OBVIOUS
  <2>2. PICK m \in Bad : \A k \in Bad : m <= k
    <3>1. Bad \subseteq Nat
      BY <1>1
    <3>. HIDE DEF Bad
    <3>. QED  BY <2>1, <3>1, LeastMember
  <2>3. PICK s \in SUBSET T : Cardinality(s) = m /\ g[s] # f[s]
    BY <2>2
  <2>4. s # {}
    BY <2>3 DEF Adds
  <2>5. PICK o \in s : TRUE
    BY <2>4
  <2>6. f[s] = FreeIn(b, o) + f[s \ {o}] /\ g[s] = FreeIn(c, o) + g[s \ {o}] /\ FreeIn(b, o) = FreeIn(c, o)
    BY DEF Adds, FreeIn
  <2>7. s \ {o} \in SUBSET T /\ Cardinality(s \ {o}) = m - 1 /\ m \in 1 .. N
    <3>1. Cardinality(s) \in Nat \ {0} /\ Cardinality(s \ {o}) = Cardinality(s) - 1 /\ s \ {o} \in SUBSET T
      BY <1>0, Smaller
    <3>. QED  BY <1>1, <2>2, <2>3, <3>1
  <2>8. g[s \ {o}] # f[s \ {o}]
    BY <2>3, <2>6
  <2>9. m - 1 \in Bad /\ ~(m <= m - 1)
    BY <1>1, <2>7, <2>8
  <2>. HIDE DEF Bad
  <2>. QED  BY <2>2, <2>9
<1>3. N \in 0 .. N /\ T \in SUBSET T
  BY <1>1
<1>. QED  BY <1>2, <1>3

\* it_fits_malloc: what is reserved, and a header, come off the free bytes of the page.
LEMMA SplitBytes ==
    ASSUME NEW b, Tiles(b), NEW o, NEW n \in Nat, Room(b, o, n)
    PROVE  FreeBytes(b) \in Nat /\ FreeBytes(Split(b, o, n)) \in Nat
           /\ FreeBytes(b) <= FreeBytes(Split(b, o, n)) + n + HeaderSize
<1>. DEFINE c == Split(b, o, n)
            rest == b[o].size - n
            x == o + HeaderSize + n
            T == DOMAIN b \ {o}
<1>0. HeaderSize \in Nat \ {0} /\ IsPage(b) /\ IsPage(c)
  <2>1. Tiles(c)
    BY SplitTiles DEF OneMore
  <2>. HIDE DEF c
  <2>. QED  BY <2>1, HeapConstants DEF Tiles
<1>1. o \in DOMAIN b /\ b[o].isFree /\ o \in Nat /\ b[o].size \in Nat /\ After(b, o) = o + HeaderSize + b[o].size
  <2>1. o \in DOMAIN b /\ b[o].isFree
    BY DEF Room
  <2>. QED  BY <2>1, AfterTypes
<1>2. rest = 0 \/ rest >= HeaderSize
  BY <1>0, <1>1 DEF Room
<1>3. o < x /\ (x \notin T \/ rest = 0)
  <2>1. o < x
    BY <1>0, <1>1
  <2>2. rest > 0 => x < After(b, o)
    BY <1>0, <1>1
  <2>3. ASSUME rest > 0 PROVE x \notin DOMAIN b
    <3>1. \A q \in DOMAIN b : o < q => After(b, o) <= q
      BY <1>1, AfterTypes
    <3>2. ASSUME x \in DOMAIN b PROVE FALSE
      <4>1. After(b, o) <= x /\ x < After(b, o) /\ x \in Nat /\ After(b, o) \in Nat
        BY <1>0, <1>1, <2>1, <2>2, <2>3, <3>1, <3>2
      <4>. HIDE DEF x
      <4>. QED  BY <4>1
    <3>. QED  BY <3>2
  <2>4. rest > 0 \/ rest = 0
    BY <1>0, <1>1, <1>2
  <2>. HIDE DEF x, rest
  <2>. QED  BY <2>1, <2>3, <2>4
<1>4. /\ DOMAIN c = DOMAIN b \cup (IF rest > 0 THEN {x} ELSE {})
      /\ FreeIn(c, o) = 0
      /\ rest > 0 => FreeIn(c, x) = rest - HeaderSize
      /\ \A q \in T : c[q] = b[q]
  <2>1. DOMAIN c = DOMAIN b \cup (IF rest > 0 THEN {x} ELSE {})
    BY DEF Split
  <2>2. ~c[o].isFree
    BY SplitTiles DEF OneMore, InUse
  <2>3. rest > 0 => c[x] = Header(TRUE, rest - HeaderSize)
    <3>1. ASSUME rest > 0 PROVE x \in DOMAIN c /\ x # o
      BY <1>0, <1>1, <2>1, <3>1
    <3>. QED  BY <3>1 DEF Split
  <2>4. \A q \in T : c[q] = b[q]
    <3>1. ASSUME NEW q \in T PROVE c[q] = b[q]
      <4>1. q \in DOMAIN b /\ q # o /\ ~(q = x /\ rest > 0)
        BY <1>3
      <4>. HIDE DEF x, rest
      <4>. QED  BY <4>1 DEF Split, x, rest
    <3>. QED  BY <3>1
  <2>. HIDE DEF c, rest, x
  <2>. QED  BY <2>1, <2>2, <2>3, <2>4 DEF FreeIn, Header
<1>. HIDE DEF c
<1>5. PICK f : Adds(f, b) /\ FreeBytes(b) = f[DOMAIN b]
  BY <1>0, FreeBytesAdds
<1>6. PICK g : Adds(g, c) /\ FreeBytes(c) = g[DOMAIN c]
  BY <1>0, FreeBytesAdds
<1>7. f[DOMAIN b] = b[o].size + f[T] /\ f[T] \in Nat /\ f[DOMAIN b] \in Nat
  BY <1>1, <1>5 DEF Adds, FreeIn
<1>8. g[T] = f[T]
  <2>1. T \subseteq DOMAIN b /\ T \subseteq DOMAIN c /\ \A q \in T : c[q] = b[q]
    BY <1>4
  <2>. HIDE DEF T
  <2>. QED  BY <1>0, <1>5, <1>6, <2>1, SharedBlocks
<1>9. g[DOMAIN b] = g[T] /\ g[DOMAIN c] \in Nat
  <2>1. g[DOMAIN b] = FreeIn(c, o) + g[T] /\ g[T] \in Nat
    BY <1>1, <1>4, <1>6 DEF Adds
  <2>2. g[DOMAIN c] \in Nat
    BY <1>6 DEF Adds
  <2>. QED  BY <1>4, <2>1, <2>2
<1>10. CASE rest = 0
  <2>1. DOMAIN c = DOMAIN b
    BY <1>0, <1>4, <1>10
  <2>. QED  BY <1>0, <1>1, <1>5, <1>6, <1>7, <1>8, <1>9, <1>10, <2>1 DEF c
<1>11. CASE rest # 0
  <2>1. DOMAIN c = DOMAIN b \cup {x} /\ x \notin DOMAIN b /\ FreeIn(c, x) = rest - HeaderSize
    <3>1. rest > 0
      BY <1>0, <1>1, <1>2, <1>11
    <3>2. x # o /\ x \notin T
      BY <1>0, <1>1, <1>3, <1>11
    <3>. QED  BY <1>4, <3>1, <3>2
  <2>2. g[DOMAIN c] = FreeIn(c, x) + g[DOMAIN b]
    <3>1. DOMAIN c \ {x} = DOMAIN b
      BY <2>1
    <3>. QED  BY <1>6, <2>1, <3>1 DEF Adds
  <2>3. g[DOMAIN c] = (rest - HeaderSize) + f[T]
    BY <1>8, <1>9, <2>1, <2>2
  <2>4. FreeBytes(b) <= FreeBytes(c) + n + HeaderSize
    BY <1>0, <1>1, <1>5, <1>6, <1>7, <2>3
  <2>. QED  BY <1>5, <1>6, <1>7, <1>9, <2>4 DEF c
<1>. QED  BY <1>10, <1>11

LEMMA NewPageBytes ==
    ASSUME NEW n \in 1 .. MaxAlloc
    PROVE  FreeBytes(Split(NewPage, 0, n)) \in Nat /\ MaxAlloc - n <= FreeBytes(Split(NewPage, 0, n))
<1>0. PageSize \in Nat /\ HeaderSize \in Nat \ {0} /\ MaxAlloc \in Nat /\ n \in Nat
  BY HeapConstants, PageNumbers
<1>1. Tiles(NewPage) /\ Room(NewPage, 0, n)
  BY NewPageTiles
<1>2. DOMAIN NewPage = {0} /\ FreeIn(NewPage, 0) = PageSize - HeaderSize
  BY DEF NewPage, FreeIn, Header
<1>3. PICK f : Adds(f, NewPage) /\ FreeBytes(NewPage) = f[DOMAIN NewPage]
  BY <1>1, FreeBytesAdds DEF Tiles
<1>4. FreeBytes(NewPage) = PageSize - HeaderSize
  <2>1. f[{0}] = FreeIn(NewPage, 0) + f[{}] /\ f[{}] = 0
    <3>1. {0} \ {0} = {}
      OBVIOUS
    <3>. QED  BY <1>2, <1>3, <3>1 DEF Adds
  <2>. QED  BY <1>0, <1>2, <1>3, <2>1
<1>. DEFINE c == Split(NewPage, 0, n)
<1>5. FreeBytes(c) \in Nat /\ FreeBytes(NewPage) <= FreeBytes(c) + n + HeaderSize
  BY <1>0, <1>1, SplitBytes
<1>. HIDE DEF c
<1>6. MaxAlloc - n <= FreeBytes(c)
  BY <1>0, <1>4, <1>5 DEF MaxAlloc
<1>. QED  BY <1>5, <1>6 DEF c

\* The blocks of a page from one on.
From(b, o) == {q \in DOMAIN b : o <= q}

LEMMA BytesFrom ==
    ASSUME NEW b, Tiles(b), NEW f, Adds(f, b), NEW o \in DOMAIN b
    PROVE  /\ f[From(b, o)] = FreeIn(b, o) + f[From(b, After(b, o))]
           /\ f[From(b, After(b, o))] \in Nat /\ f[From(b, o)] \in Nat /\ FreeIn(b, o) \in Nat
<1>1. /\ o < After(b, o) /\ After(b, o) \in Nat /\ o \in Nat
      /\ \A q \in DOMAIN b : q \in Nat /\ (o < q => After(b, o) <= q)
  BY AfterTypes, BlocksAreFinite, HeapConstants DEF Tiles
<1>2. o \in From(b, o) /\ From(b, o) \ {o} = From(b, After(b, o))
  BY <1>1 DEF From
<1>3. From(b, o) \in SUBSET DOMAIN b /\ From(b, After(b, o)) \in SUBSET DOMAIN b
  BY DEF From
<1>4. FreeIn(b, o) \in Nat
  BY BlocksAreFinite DEF Tiles
<1>. QED  BY <1>2, <1>3, <1>4 DEF Adds

\* A block of a page that was joined is one of the page, or two free ones and a header.
LEMMA JoinedBlocks ==
    ASSUME NEW b, Tiles(b), NEW o \in DOMAIN Joined(b)
    PROVE  /\ o \in DOMAIN b
           /\ \/ FreeIn(Joined(b), o) = FreeIn(b, o) /\ After(Joined(b), o) = After(b, o)
              \/ /\ After(b, o) \in DOMAIN b
                 /\ FreeIn(Joined(b), o) = FreeIn(b, o) + HeaderSize + FreeIn(b, After(b, o))
                 /\ After(Joined(b), o) = After(b, After(b, o))
<1>. DEFINE c == Joined(b)
            H == Absorbing(b)
            E == DOMAIN b \ {After(b, h) : h \in H}
            v(q) == IF q \in H THEN Header(TRUE, b[q].size + HeaderSize + b[After(b, q)].size) ELSE b[q]
<1>1. c = [q \in E |-> v(q)]
  BY DEF Joined
<1>2. o \in E /\ c[o] = v(o)
  <2>. HIDE DEF c, E, v
  <2>1. DOMAIN c = E
    BY <1>1
  <2>. QED  BY <1>1, <2>1 DEF c
<1>3. CASE o \in H
  <2>. DEFINE a == After(b, o)
  <2>1. o \in DOMAIN b /\ a \in DOMAIN b /\ b[o].isFree /\ b[a].isFree
    BY <1>3, AbsorbingPairs DEF Pairs
  <2>2. c[o].isFree /\ c[o].size = b[o].size + HeaderSize + b[a].size
    <3>. HIDE DEF c
    <3>. QED  BY <1>2, <1>3 DEF Header
  <2>3. /\ o \in Nat /\ HeaderSize \in Nat /\ b[o].size \in Nat /\ b[a].size \in Nat
        /\ a = o + HeaderSize + b[o].size /\ After(b, a) = a + HeaderSize + b[a].size
    BY <2>1, AfterTypes, HeapConstants
  <2>4. After(c, o) = o + HeaderSize + (b[o].size + HeaderSize + b[a].size)
    <3>. HIDE DEF c, a
    <3>. QED  BY <2>2 DEF After
  <2>5. FreeIn(c, o) = FreeIn(b, o) + HeaderSize + FreeIn(b, a)
    <3>. HIDE DEF c, a
    <3>. QED  BY <2>1, <2>2 DEF FreeIn
  <2>. HIDE DEF a, c
  <2>6. After(c, o) = After(b, a)
    <3>. DEFINE s == b[o].size
                t == b[a].size
    <3>1. /\ o \in Nat /\ HeaderSize \in Nat /\ s \in Nat /\ t \in Nat /\ a = o + HeaderSize + s
          /\ After(b, a) = a + HeaderSize + t /\ After(c, o) = o + HeaderSize + (s + HeaderSize + t)
      BY <2>3, <2>4
    <3>. HIDE DEF s, t
    <3>. QED  BY <3>1
  <2>. QED  BY <2>1, <2>5, <2>6 DEF a, c
<1>4. CASE o \notin H
  <2>1. c[o] = b[o] /\ o \in DOMAIN b
    <3>. HIDE DEF c
    <3>. QED  BY <1>2, <1>4
  <2>. HIDE DEF c
  <2>2. FreeIn(c, o) = FreeIn(b, o) /\ After(c, o) = After(b, o)
    BY <2>1 DEF FreeIn, After
  <2>. QED  BY <2>1, <2>2 DEF c
<1>. QED  BY <1>3, <1>4

\* Joining takes no free bytes away.
LEMMA JoinedBytes ==
    ASSUME NEW b, Tiles(b)
    PROVE  FreeBytes(b) \in Nat /\ FreeBytes(Joined(b)) \in Nat /\ FreeBytes(b) <= FreeBytes(Joined(b))
<1>1. PICK c : c = Joined(b)
  OBVIOUS
<1>2. Tiles(c) /\ IsPage(b) /\ IsPage(c)
  BY <1>1, JoinedTiles DEF Tiles
<1>3. PICK f : Adds(f, b) /\ FreeBytes(b) = f[DOMAIN b]
  BY <1>2, FreeBytesAdds
<1>4. PICK g : Adds(g, c) /\ FreeBytes(c) = g[DOMAIN c]
  BY <1>2, FreeBytesAdds
<1>. DEFINE D == DOMAIN c \cup {PageSize}
            Ends == {PageSize}
            next == [o \in D |-> After(c, o)]
            S == {o \in D : f[From(b, o)] <= g[From(c, o)]}
<1>0. PageSize \in Nat /\ HeaderSize \in Nat /\ D \subseteq 0 .. PageSize /\ PageSize \notin DOMAIN c
      /\ DOMAIN b \subseteq 0 .. PageSize - 1
  BY <1>2, HeapConstants DEF IsPage
<1>5. Climbs(PageSize, D, Ends, next)
  <2>1. \A o \in D \ Ends : next[o] \in D /\ next[o] > o
    BY <1>0, <1>2, AfterTypes
  <2>. HIDE DEF next, D, Ends
  <2>. QED  BY <1>0, <2>1 DEF Climbs
<1>6. D \subseteq S
  <2>1. \A o \in D : o \in Ends => o \in S
    <3>1. From(b, PageSize) = {} /\ From(c, PageSize) = {}
      BY <1>0 DEF From
    <3>2. f[From(b, PageSize)] <= g[From(c, PageSize)]
      BY <1>3, <1>4, <3>1 DEF Adds
    <3>. QED  BY <3>2
  <2>2. ASSUME NEW o \in D \ Ends, next[o] \in S
        PROVE  o \in S
    <3>. DEFINE z == After(c, o)
    <3>1. o \in DOMAIN c /\ f[From(b, z)] <= g[From(c, z)]
      BY <2>2
    <3>. HIDE DEF z, S
    <3>2. /\ g[From(c, o)] = FreeIn(c, o) + g[From(c, z)]
          /\ g[From(c, z)] \in Nat /\ FreeIn(c, o) \in Nat
      BY <1>2, <1>4, <3>1, BytesFrom DEF z
    <3>3. /\ o \in DOMAIN b
          /\ \/ FreeIn(c, o) = FreeIn(b, o) /\ z = After(b, o)
             \/ /\ After(b, o) \in DOMAIN b
                /\ FreeIn(c, o) = FreeIn(b, o) + HeaderSize + FreeIn(b, After(b, o))
                /\ z = After(b, After(b, o))
      BY <1>1, <3>1, JoinedBlocks DEF z
    <3>4. /\ f[From(b, o)] = FreeIn(b, o) + f[From(b, After(b, o))]
          /\ f[From(b, After(b, o))] \in Nat /\ FreeIn(b, o) \in Nat
      BY <1>3, <3>3, BytesFrom
    <3>5. f[From(b, o)] <= g[From(c, o)]
      <4>1. CASE FreeIn(c, o) = FreeIn(b, o) /\ z = After(b, o)
        BY <3>1, <3>2, <3>4, <4>1
      <4>2. CASE /\ After(b, o) \in DOMAIN b
                 /\ FreeIn(c, o) = FreeIn(b, o) + HeaderSize + FreeIn(b, After(b, o))
                 /\ z = After(b, After(b, o))
        <5>1. /\ f[From(b, After(b, o))] = FreeIn(b, After(b, o)) + f[From(b, z)]
              /\ f[From(b, z)] \in Nat /\ FreeIn(b, After(b, o)) \in Nat
          BY <1>3, <4>2, BytesFrom
        <5>. QED  BY <1>0, <3>1, <3>2, <3>4, <4>2, <5>1
      <4>. QED  BY <3>3, <4>1, <4>2
    <3>. QED  BY <3>5 DEF S
  <2>. HIDE DEF next, D, Ends, S
  <2>. QED  BY <1>5, <2>1, <2>2, WalkInduction
<1>7. 0 \in D /\ From(b, 0) = DOMAIN b /\ From(c, 0) = DOMAIN c
  <2>1. /\ \A q \in DOMAIN b : q >= 0
        /\ \A q \in DOMAIN c : q >= 0
    BY <1>0, <1>2 DEF Tiles
  <2>2. From(b, 0) = DOMAIN b
    BY <2>1 DEF From
  <2>3. From(c, 0) = DOMAIN c
    BY <2>1 DEF From
  <2>4. 0 \in DOMAIN b /\ 0 \in DOMAIN c
    BY <1>0, <1>2 DEF Tiles
  <2>. QED  BY <2>2, <2>3, <2>4
<1>8. f[DOMAIN b] <= g[DOMAIN c]
  BY <1>6, <1>7
<1>9. f[DOMAIN b] \in Nat /\ g[DOMAIN c] \in Nat
  BY <1>3, <1>4 DEF Adds
<1>. QED  BY <1>1, <1>3, <1>4, <1>8, <1>9

\* free_heap: the bytes of the block that is freed become free.
LEMMA FreeBlockBytes ==
    ASSUME NEW b, Tiles(b), NEW o \in InUse(b)
    PROVE  /\ FreeBytes(b) \in Nat /\ FreeBytes(FreeBlock(b, o)) \in Nat /\ b[o].size \in Nat
           /\ FreeBytes(b) + b[o].size <= FreeBytes(FreeBlock(b, o))
<1>1. o \in DOMAIN b /\ ~b[o].isFree /\ b[o] \in Headers /\ b[o].size \in Nat
  BY AfterTypes, HeapConstants DEF InUse
<1>2. PICK d : d = [b EXCEPT ![o].isFree = TRUE]
  OBVIOUS
<1>3. DOMAIN d = DOMAIN b /\ (\A q \in DOMAIN b : q # o => d[q] = b[q]) /\ d[o] = [b[o] EXCEPT !.isFree = TRUE]
  BY <1>1, <1>2
<1>4. d[o].isFree /\ d[o].size = b[o].size /\ d[o] \in Headers
  BY <1>1, <1>3 DEF Headers
<1>5. Tiles(d)
  <2>1. \A q \in DOMAIN b : After(d, q) = After(b, q) /\ d[q] \in Headers
    BY <1>3, <1>4, AfterTypes DEF After
  <2>2. d = [q \in DOMAIN b |-> d[q]]
    BY <1>2
  <2>3. IsPage(d)
    BY <1>3, <2>1, <2>2 DEF Tiles, IsPage
  <2>. QED  BY <1>3, <2>1, <2>3 DEF Tiles
<1>6. PICK f : Adds(f, b) /\ FreeBytes(b) = f[DOMAIN b]
  BY FreeBytesAdds DEF Tiles
<1>7. PICK g : Adds(g, d) /\ FreeBytes(d) = g[DOMAIN d]
  BY <1>5, FreeBytesAdds DEF Tiles
<1>. DEFINE T == DOMAIN b \ {o}
<1>8. f[DOMAIN b] = 0 + f[T] /\ f[T] \in Nat
  BY <1>1, <1>6 DEF Adds, FreeIn
<1>9. g[DOMAIN b] = b[o].size + g[T] /\ g[T] \in Nat
  BY <1>1, <1>3, <1>4, <1>7 DEF Adds, FreeIn
<1>10. g[T] = f[T]
  <2>1. T \subseteq DOMAIN b /\ T \subseteq DOMAIN d /\ \A q \in T : d[q] = b[q]
    BY <1>3
  <2>. HIDE DEF T
  <2>. QED  BY <1>6, <1>7, <2>1, SharedBlocks DEF Tiles
<1>11. FreeBytes(d) \in Nat /\ FreeBytes(b) \in Nat /\ FreeBytes(d) = FreeBytes(b) + b[o].size
  <2>. HIDE DEF T
  <2>. QED  BY <1>1, <1>3, <1>6, <1>7, <1>8, <1>9, <1>10
<1>12. FreeBlock(b, o) = Joined(d)
  BY <1>2 DEF FreeBlock
<1>. QED  BY <1>1, <1>5, <1>11, <1>12, JoinedBytes
-----------------------------------------------------------------------------
(* The free bytes that stand behind an entry of the list. *)

\* A page that the heap has changed and not yet stored, or not yet entered in the list.
Changing(p, n) ==
    /\ p = heap.pid
    /\ \/ heap.at \in {"fitted", "format", "formatted"} /\ heap.page = n
       \/ heap.at \in {"freed", "released"} /\ reply.page = n

\* The page has k free bytes, or will have them when the heap is done with it.
Backed(p, n, k) ==
    IF Changing(p, n)
    THEN /\ heap.at = "fitted" => k <= FreeBytes(reply.buffer) + Taken
         /\ heap.at = "format" => k <= MaxAlloc - heap.size
         /\ heap.at \in {"formatted", "released"} => k <= FreeBytes(reply.buffer)
    ELSE k <= FreeBytes(memory[p][n])

ListBacked(p) ==
    \A i \in 1 .. Len(heapPages[p]) :
        ~heapPages[p][i].wasFreed => Backed(p, heapPages[p][i].page, heapPages[p][i].freeSize)

BytesFit == \A p \in Pid : ListBacked(p)
BytesInv == IInv /\ BytesFit

\* A step leaves behind an entry what was there, but for some bytes.
Gives(p, n, space) == \A k \in Int : Backed(p, n, k) => Backed(p, n, k - space)'
Keeps(p, n) == \A k \in Int : Backed(p, n, k) => Backed(p, n, k)'

Writing == {"fitted", "format", "formatted", "freed", "released"}
Plain(p) == p # heap.pid \/ heap.at \notin Writing

LEMMA PlainKeeps ==
    ASSUME NEW p, NEW n, Plain(p), Plain(p)', memory'[p][n] = memory[p][n]
    PROVE  Keeps(p, n)
<1>1. ~Changing(p, n) /\ ~Changing(p, n)'
  BY DEF Plain, Writing, Changing
<1>. QED  BY <1>1 DEF Keeps, Backed

LEMMA SameKeeps ==
    ASSUME NEW p, NEW n, UNCHANGED <<heap, reply>>, Changing(p, n) \/ memory'[p][n] = memory[p][n]
    PROVE  Keeps(p, n)
BY DEF Keeps, Backed, Changing, Taken

\* The list of the program stays.
LEMMA ListStays ==
    ASSUME IInv, NEW p \in Pid, ListBacked(p), heapPages'[p] = heapPages[p], \A n \in Kept(p) : Keeps(p, n)
    PROVE  ListBacked(p)'
<1>1. heapPages[p] \in Seq(Listed)
  BY DEF IInv, TypeOK
<1>2. ASSUME NEW i \in 1 .. Len(heapPages[p]), ~heapPages[p][i].wasFreed
      PROVE  Backed(p, heapPages[p][i].page, heapPages[p][i].freeSize)'
  <2>1. PICK n, k : n = heapPages[p][i].page /\ k = heapPages[p][i].freeSize
    OBVIOUS
  <2>2. heapPages[p][i] \in Listed
    BY <1>1
  <2>3. k \in Int /\ Backed(p, n, k)
    BY <1>2, <2>1, <2>2 DEF Listed, ListBacked
  <2>4. n \in Kept(p)
    BY <1>1, <1>2, <2>1, KeptByIndex DEF Kept
  <2>5. Backed(p, n, k)'
    BY <2>3, <2>4 DEF Keeps
  <2>6. heapPages'[p][i].page = n /\ heapPages'[p][i].freeSize = k
    BY <2>1
  <2>. QED  BY <2>1, <2>5, <2>6
<1>. QED  BY <1>2 DEF ListBacked

\* occupy_space
LEMMA MarkedIsBacked ==
    ASSUME IInv, NEW p \in Pid, ListBacked(p), NEW n, NEW space \in Int, NEW freed \in BOOLEAN,
           heapPages' = Occupied(p, n, space, freed), freed \/ (n \in Kept(p) /\ Gives(p, n, space)),
           \A m : m # n => Keeps(p, m)
    PROVE  ListBacked(p)'
<1>0. PICK s, t : s = heapPages[p] /\ t = Marked(s, n, space, freed)
  OBVIOUS
<1>1. s \in Seq(Listed) /\ heapPages \in [Pid -> Seq(Listed)] /\ Increasing(s)
  BY <1>0 DEF IInv, TypeOK, ListsFit, ListFits
<1>2. heapPages'[p] = t
  BY <1>0, <1>1 DEF Occupied, Marked
<1>3. Len(t) = Len(s) /\ \A i \in 1 .. Len(s) : t[i].page = s[i].page
  BY <1>0, <1>1, MarkedKeeps
<1>4. \A i \in 1 .. Len(s) : s[i] \in Listed /\ t[i] = IF s[i].page = n THEN Spent(s[i], space, freed) ELSE s[i]
  BY <1>0, <1>1 DEF Marked
<1>5. ASSUME NEW i \in 1 .. Len(s), ~t[i].wasFreed
      PROVE  Backed(p, t[i].page, t[i].freeSize)'
  <2>1. PICK h : h = s[i]
    OBVIOUS
  <2>2. h \in Listed /\ h.freeSize \in Int
    BY <1>4, <2>1 DEF Listed
  <2>3. ~h.wasFreed => Backed(p, h.page, h.freeSize)
    BY <1>0, <2>1 DEF ListBacked
  <2>4. CASE h.page # n
    <3>1. t[i] = h
      BY <1>4, <2>1, <2>4
    <3>2. Keeps(p, h.page)
      BY <2>4
    <3>3. Backed(p, h.page, h.freeSize)
      BY <1>5, <2>3, <3>1
    <3>4. Backed(p, h.page, h.freeSize)'
      BY <2>2, <3>2, <3>3 DEF Keeps
    <3>5. t[i].page = h.page /\ t[i].freeSize = h.freeSize
      BY <3>1
    <3>. QED  BY <3>4, <3>5
  <2>5. CASE h.page = n
    <3>1. t[i] = [h EXCEPT !.freeSize = h.freeSize - space, !.wasFreed = freed]
      BY <1>4, <2>1, <2>5 DEF Spent
    <3>2. t[i].freeSize = h.freeSize - space /\ t[i].wasFreed = freed /\ t[i].page = n
      BY <2>2, <2>5, <3>1 DEF Listed
    <3>3. n \in Kept(p) /\ Gives(p, n, space)
      BY <1>5, <3>2
    <3>4. ~h.wasFreed
      <4>1. PICK k \in 1 .. Len(s) : s[k].page = n /\ ~s[k].wasFreed
        BY <1>0, <1>1, <3>3, KeptByIndex DEF Kept
      <4>2. Len(s) \in Nat /\ (i < k \/ k < i \/ i = k)
        BY <1>1
      <4>3. \A j \in 1 .. Len(s) : s[j].page \in HeapPages
        BY <1>0 DEF IInv, ListsFit, ListFits
      <4>4. s[i].page = n /\ s[k].page = n /\ n \in Nat
        BY <2>1, <2>5, <4>1, <4>3, PageNumbers
      <4>5. ~(i < k) /\ ~(k < i)
        BY <1>1, <4>4 DEF Increasing
      <4>. QED  BY <2>1, <4>1, <4>2, <4>5
    <3>5. Backed(p, n, h.freeSize)
      BY <2>3, <2>5, <3>4
    <3>6. Backed(p, n, h.freeSize - space)'
      BY <2>2, <3>3, <3>5 DEF Gives
    <3>. QED  BY <3>2, <3>6
  <2>. QED  BY <2>4, <2>5
<1>. QED  BY <1>2, <1>3, <1>5 DEF ListBacked
-----------------------------------------------------------------------------
(* The steps of the heap. *)

LEMMA OthersStay ==
    ASSUME IInv, BytesFit, NEW P, heap.pid \in {P, NoPid}, heap'.pid \in {P, NoPid}, memory' = memory,
           \A q \in Pid \ {P} : heapPages'[q] = heapPages[q], P \in Pid => ListBacked(P)'
    PROVE  BytesFit'
<1>1. ASSUME NEW q \in Pid, q # P
      PROVE  ListBacked(q)'
  <2>1. Plain(q) /\ Plain(q)' /\ heapPages'[q] = heapPages[q]
    BY <1>1, PageNumbers DEF Plain
  <2>2. \A n : Keeps(q, n)
    BY <2>1, PlainKeeps
  <2>. QED  BY <2>1, <2>2, ListStays DEF BytesFit
<1>. QED  BY <1>1 DEF BytesFit

\* Nothing has been changed yet, or everything is stored.
LEMMA PlainTurn ==
    ASSUME IInv, BytesFit, NEW P, heap.pid \in {P, NoPid}, heap'.pid \in {P, NoPid},
           UNCHANGED <<memory, heapPages>>, heap.at \notin Writing, heap'.at \notin Writing
    PROVE  BytesFit'
<1>1. Plain(P) /\ Plain(P)'
  BY DEF Plain, Writing
<1>2. P \in Pid => ListBacked(P)'
  BY <1>1, PlainKeeps, ListStays DEF BytesFit
<1>. QED  BY <1>2, OthersStay

LEMMA TryFromBytes ==
    ASSUME IInv, BytesFit, NEW p, NEW n, NEW i, TryFrom(p, n, i), heap.pid \in {p, NoPid}, heap.at \notin Writing,
           UNCHANGED <<memory, heapPages>>
    PROVE  BytesFit'
<1>1. heap'.pid = p /\ heap'.at \notin Writing
  BY DEF TryFrom, IdleHeap, Writing
<1>. QED  BY <1>1, PlainTurn

LEMMA RefuseBytes ==
    ASSUME IInv, BytesFit, NEW p, Refuse(p), heap.pid \in {p, NoPid}, heap.at \notin Writing
    PROVE  BytesFit'
<1>1. heap'.pid = NoPid /\ heap'.at \notin Writing /\ UNCHANGED <<memory, heapPages>>
  BY IdleHeapTypes DEF Refuse, Writing
<1>. QED  BY <1>1, PlainTurn

LEMMA StartBytes ==
    ASSUME IInv, BytesFit, NEW p \in Pid, NEW n \in Sizes, Malloc(p, n) \/ MallocTooMuch(p, n)
    PROVE  BytesFit'
<1>1. heap.pid = NoPid /\ heap.at \notin Writing
  BY IdleHeapTypes DEF Malloc, MallocTooMuch, Writing
<1>2. CASE Malloc(p, n)
  BY <1>1, <1>2, TryFromBytes DEF Malloc, kernelVars
<1>3. CASE MallocTooMuch(p, n)
  BY <1>1, <1>3, RefuseBytes DEF MallocTooMuch
<1>. QED  BY <1>2, <1>3

LEMMA FreeBytesStart ==
    ASSUME IInv, BytesFit, NEW r \in DOMAIN live, Free(r)
    PROVE  BytesFit'
<1>1. heap.pid = NoPid /\ heap.at \notin Writing /\ UNCHANGED <<memory, heapPages>>
  BY IdleHeapTypes DEF Free, Writing, kernelVars
<1>2. heap'.pid = r.pid /\ heap'.at \notin Writing
  BY DEF Free, Writing, IdleHeap
<1>. QED  BY <1>1, <1>2, PlainTurn

LEMMA PageFoundBytes ==
    ASSUME IInv, BytesFit, PageFound
    PROVE  BytesFit'
<1>1. heap.at = "page" /\ heap' = [heap EXCEPT !.at = "release"] /\ UNCHANGED <<memory, heapPages>>
  BY DEF PageFound, HeapAt, GoHeap, kernelVars
<1>2. PICK P : P = heap.pid
  OBVIOUS
<1>3. heap'.pid = P /\ heap'.at = "release"
  <2>1. heap \in HeapStates
    BY DEF IInv, TypeOK
  <2>. QED  BY <1>1, <1>2, <2>1 DEF HeapStates
<1>4. heap.at \notin Writing /\ heap'.at \notin Writing
  BY <1>1, <1>3 DEF Writing
<1>. QED  BY <1>1, <1>2, <1>3, <1>4, PlainTurn

LEMMA FitBytes ==
    ASSUME IInv, BytesFit, Fit
    PROVE  BytesFit'
<1>1. HeapAt("fit") /\ heap.at = "fit" /\ UNCHANGED <<heapPages, memory>>
  BY DEF Fit, HeapAt, kernelVars
<1>2. PICK P \in Pid, n \in HeapPages :
              /\ P = heap.pid /\ P \in running /\ ~Leaving(P) /\ HeapFitsOn(n) /\ ListFits(P)
              /\ \A m \in HeapPages \ {n} : Fine(P, m)
              /\ reader = IdleReader /\ AskedIn(wire) = {} /\ answered /\ answered' = FALSE /\ GrantedFits(P)
  BY <1>1, HeapOn
<1>3. heap.page = n /\ heap.size \in 1 .. MaxAlloc /\ reply.buffer = memory[P][n] /\ Tiles(memory[P][n]) /\ heap \in HeapStates
  BY <1>1, <1>2 DEF HeapFitsOn, FitFits, Wants, Found, There, Page, Fine, IInv, TypeOK
<1>4. heap.at \notin Writing
  BY <1>1 DEF Writing
<1>5. CASE Fitting(reply.buffer, heap.size) = {}
  <2>1. TryFrom(P, heap.size, heap.from + 1)
    BY <1>2, <1>5 DEF Fit
  <2>. QED  BY <1>1, <1>2, <1>4, <2>1, TryFromBytes
<1>6. CASE Fitting(reply.buffer, heap.size) # {}
  <2>1. PICK b, o, s, page : /\ b = memory[P][n] /\ o = Min(Fitting(b, s)) /\ s = heap.size /\ page = Split(b, o, s)
    OBVIOUS
  <2>2. /\ reply' = [reply EXCEPT !.buffer = page] /\ heap' = [heap EXCEPT !.at = "fitted", !.offset = o + HeaderSize]
    BY <1>3, <1>6, <2>1 DEF Fit
  <2>3. heap'.at = "fitted" /\ heap'.pid = P /\ heap'.size = s /\ heap'.page = n
    BY <1>2, <1>3, <2>1, <2>2 DEF HeapStates
  <2>4. reply'.buffer = page
    BY <2>2 DEF IInv, TypeOK, IsReply
  <2>5. /\ FreeBytes(b) \in Nat /\ FreeBytes(page) \in Nat /\ FreeBytes(b) <= FreeBytes(page) + s + HeaderSize
        /\ s \in Nat /\ HeaderSize \in Nat
    <3>1. s \in Nat
      BY <1>3, <2>1, PageNumbers
    <3>2. Room(b, o, s)
      BY <1>3, <1>6, <2>1, FittingHasRoom
    <3>. QED  BY <1>3, <2>1, <3>1, <3>2, SplitBytes, PageNumbers
  <2>6. Keeps(P, n)
    <3>1. ~Changing(P, n) /\ Changing(P, n)' /\ Taken' = s + HeaderSize
      BY <1>1, <1>2, <2>3 DEF Changing, Taken
    <3>2. ASSUME NEW k \in Int, Backed(P, n, k)
          PROVE  Backed(P, n, k)'
      <4>1. k <= FreeBytes(b)
        BY <2>1, <3>1, <3>2 DEF Backed
      <4>2. PICK x, y : x = FreeBytes(b) /\ y = FreeBytes(page)
        OBVIOUS
      <4>3. k <= y + (s + HeaderSize)
        BY <2>5, <4>1, <4>2
      <4>. QED  BY <2>3, <2>4, <3>1, <4>2, <4>3 DEF Backed
    <3>. QED  BY <3>2 DEF Keeps
  <2>7. ASSUME NEW m, m # n
        PROVE  Keeps(P, m)
    <3>1. ~Changing(P, m) /\ ~Changing(P, m)'
      BY <1>1, <2>3, <2>7 DEF Changing
    <3>. QED  BY <1>1, <3>1 DEF Keeps, Backed
  <2>8. ListBacked(P)'
    BY <1>1, <2>6, <2>7, ListStays DEF BytesFit
  <2>. QED  BY <1>1, <1>2, <2>3, <2>8, OthersStay
<1>. QED  BY <1>5, <1>6

LEMMA FittedBytes ==
    ASSUME IInv, BytesFit, Fitted
    PROVE  BytesFit'
<1>1. /\ HeapAt("fitted") /\ heap.at = "fitted" /\ memory' = memory /\ heap' = IdleHeap
      /\ heapPages' = Occupied(heap.pid, heap.page, Taken, FALSE)
  BY DEF Fitted, HeapAt
<1>2. PICK P \in Pid, n \in HeapPages :
              /\ P = heap.pid /\ P \in running /\ ~Leaving(P) /\ HeapFitsOn(n) /\ ListFits(P)
              /\ \A m \in HeapPages \ {n} : Fine(P, m)
              /\ reader = IdleReader /\ AskedIn(wire) = {} /\ answered /\ answered' = FALSE /\ GrantedFits(P)
  BY <1>1, HeapOn
<1>3. PICK space, b : space = Taken /\ b = memory[P][n]
  OBVIOUS
<1>4. heap.page = n /\ heap.size \in 1 .. MaxAlloc /\ n \in DOMAIN memory[P] /\ Tiles(b) /\ reply.buffer = b
  BY <1>1, <1>2, <1>3 DEF HeapFitsOn, FittedFits, Wants, Written, There, Page
<1>5. space \in Int /\ n \in Kept(P) /\ heapPages \in [Pid -> Seq(Listed)]
  BY <1>1, <1>2, <1>3, <1>4, PageNumbers DEF GrantedFits, Taken, IInv, TypeOK
<1>6. heap'.pid = NoPid /\ \A m : ~Changing(P, m)'
  BY <1>1, PageNumbers, IdleHeapTypes DEF Changing
<1>7. Gives(P, n, space)
  <2>1. Changing(P, n)
    BY <1>1, <1>2, <1>4 DEF Changing
  <2>2. PICK y : y = FreeBytes(b)
    OBVIOUS
  <2>3. y \in Nat
    BY <1>4, <2>2, JoinedBytes
  <2>4. ASSUME NEW k \in Int, Backed(P, n, k)
        PROVE  Backed(P, n, k - space)'
    <3>1. k <= y + space
      BY <1>1, <1>3, <1>4, <2>1, <2>2, <2>4 DEF Backed
    <3>2. k - space <= y
      BY <1>5, <2>3, <3>1
    <3>. QED  BY <1>1, <1>3, <1>6, <2>2, <3>2 DEF Backed
  <2>. QED  BY <2>4 DEF Gives
<1>8. ASSUME NEW m, m # n
      PROVE  Keeps(P, m)
  <2>1. ~Changing(P, m)
    BY <1>1, <1>4, <1>8 DEF Changing
  <2>. QED  BY <1>1, <1>6, <2>1 DEF Keeps, Backed
<1>9. heapPages' = Occupied(P, n, space, FALSE) /\ FALSE \in BOOLEAN
  BY <1>1, <1>2, <1>3, <1>4
<1>10. ListBacked(P)'
  BY <1>5, <1>7, <1>8, <1>9, MarkedIsBacked DEF BytesFit
<1>11. \A q \in Pid \ {P} : heapPages'[q] = heapPages[q]
  BY <1>2, <1>5, <1>9, OccupiedFits
<1>12. heap.pid \in {P, NoPid} /\ heap'.pid \in {P, NoPid} /\ memory' = memory
  BY <1>1, <1>2, <1>6
<1>. QED  BY <1>10, <1>11, <1>12, OthersStay

LEMMA AddBytes ==
    ASSUME IInv, BytesFit, Add
    PROVE  BytesFit'
<1>1. HeapAt("add") /\ heap.at = "add" /\ memory' = memory
  BY DEF Add, HeapAt, Refuse
<1>2. PICK P \in Pid, n \in HeapPages :
              /\ P = heap.pid /\ P \in running /\ ~Leaving(P) /\ HeapFitsOn(n) /\ ListFits(P)
              /\ \A m \in HeapPages \ {n} : Fine(P, m)
              /\ reader = IdleReader /\ AskedIn(wire) = {} /\ answered /\ answered' = FALSE /\ GrantedFits(P)
  BY <1>1, HeapOn
<1>3. heap.page = n /\ heap.size \in 1 .. MaxAlloc /\ n = NextPage(P) /\ heap \in HeapStates /\ heapPages \in [Pid -> Seq(Listed)]
  BY <1>1, <1>2 DEF HeapFitsOn, AddFits, Wants, IInv, TypeOK
<1>4. heap.at \notin Writing
  BY <1>1 DEF Writing
<1>5. CASE ~reply.ok
  <2>1. Refuse(P)
    BY <1>2, <1>5 DEF Add
  <2>. QED  BY <1>2, <1>4, <2>1, RefuseBytes
<1>6. CASE reply.ok
  <2>1. PICK h, s : h = [page |-> n, freeSize |-> MaxAlloc - heap.size, wasFreed |-> FALSE] /\ s = heapPages[P]
    OBVIOUS
  <2>2. heapPages' = [heapPages EXCEPT ![P] = Append(@, h)] /\ heap' = [heap EXCEPT !.at = "format"]
    BY <1>2, <1>3, <1>6, <2>1 DEF Add, GoHeap
  <2>3. heap'.at = "format" /\ heap'.pid = P /\ heap'.page = n /\ heap'.size = heap.size
    BY <1>2, <1>3, <2>2 DEF HeapStates
  <2>4. h \in Listed /\ s \in Seq(Listed) /\ Len(s) \in Nat
    <3>1. MaxAlloc - heap.size \in Int /\ n \in Pages
      BY <1>3, PageNumbers
    <3>2. h \in Listed
      BY <2>1, <3>1 DEF Listed
    <3>. QED  BY <1>3, <2>1, <3>2
  <2>5. /\ heapPages'[P] = Append(s, h) /\ Len(heapPages'[P]) = Len(s) + 1
        /\ \A i \in 1 .. Len(s) : heapPages'[P][i] = s[i]
        /\ heapPages'[P][Len(s) + 1] = h
    <3>1. heapPages'[P] = Append(s, h)
      BY <1>3, <2>1, <2>2
    <3>. QED  BY <2>4, <3>1
  <2>6. \A q \in Pid \ {P} : heapPages'[q] = heapPages[q]
    BY <1>3, <2>2
  <2>7. ASSUME NEW m, m # n
        PROVE  Keeps(P, m)
    <3>1. ~Changing(P, m) /\ ~Changing(P, m)'
      BY <1>1, <2>3, <2>7 DEF Changing
    <3>. QED  BY <1>1, <3>1 DEF Keeps, Backed
  <2>8. ASSUME NEW i \in 1 .. Len(s), ~heapPages'[P][i].wasFreed
        PROVE  Backed(P, heapPages[P][i].page, heapPages[P][i].freeSize)'
    <3>1. PICK x, m, k : x = s[i] /\ m = x.page /\ k = x.freeSize
      OBVIOUS
    <3>2. x \in Listed /\ heapPages'[P][i] = x
      BY <2>4, <2>5, <3>1
    <3>3. m < n /\ m \in HeapPages
      BY <1>2, <1>3, <2>1, <3>1, NextPageIsNew DEF ListFits
    <3>4. Backed(P, m, k) /\ k \in Int
      BY <2>1, <2>8, <3>1, <3>2 DEF BytesFit, ListBacked, Listed
    <3>5. m # n
      BY <3>3, PageNumbers
    <3>6. Backed(P, m, k)'
      BY <2>7, <3>4, <3>5 DEF Keeps
    <3>. QED  BY <3>1, <3>2, <3>6
  <2>9. Backed(P, n, MaxAlloc - heap.size)'
    <3>1. Changing(P, n)'
      BY <2>3 DEF Changing
    <3>2. MaxAlloc - heap.size <= MaxAlloc - heap.size
      BY <1>3, PageNumbers
    <3>. QED  BY <2>3, <3>1, <3>2 DEF Backed
  <2>10. ASSUME NEW i \in 1 .. Len(s) + 1, ~heapPages'[P][i].wasFreed
         PROVE  Backed(P, heapPages[P][i].page, heapPages[P][i].freeSize)'
    <3>1. CASE i \in 1 .. Len(s)
      BY <2>8, <2>10, <3>1
    <3>2. CASE i = Len(s) + 1
      <4>1. heapPages'[P][i].page = n /\ heapPages'[P][i].freeSize = MaxAlloc - heap'.size
        BY <2>1, <2>3, <2>5, <3>2
      <4>. QED  BY <2>9, <4>1
    <3>. QED  BY <2>4, <3>1, <3>2
  <2>11. ListBacked(P)'
    BY <2>5, <2>10 DEF ListBacked
  <2>12. heap.pid \in {P, NoPid} /\ heap'.pid \in {P, NoPid}
    BY <1>2, <2>3
  <2>. QED  BY <1>1, <2>6, <2>11, <2>12, OthersStay
<1>. QED  BY <1>5, <1>6

LEMMA FormatBytes ==
    ASSUME IInv, BytesFit, Format
    PROVE  BytesFit'
<1>1. HeapAt("format") /\ heap.at = "format" /\ memory' = memory /\ heapPages' = heapPages
  BY DEF Format, HeapAt, kernelVars
<1>2. PICK P \in Pid, n \in HeapPages :
              /\ P = heap.pid /\ P \in running /\ ~Leaving(P) /\ HeapFitsOn(n) /\ ListFits(P)
              /\ \A m \in HeapPages \ {n} : Fine(P, m)
              /\ reader = IdleReader /\ AskedIn(wire) = {} /\ answered /\ answered' = FALSE /\ GrantedFits(P)
  BY <1>1, HeapOn
<1>3. PICK s, page : s = heap.size /\ page = Split(NewPage, 0, s)
  OBVIOUS
<1>4. heap.page = n /\ s \in 1 .. MaxAlloc /\ heap \in HeapStates
  BY <1>1, <1>2, <1>3 DEF HeapFitsOn, FormatFits, Wants, IInv, TypeOK
<1>5. reply' = [reply EXCEPT !.buffer = page] /\ heap' = [heap EXCEPT !.at = "formatted"]
  BY <1>3 DEF Format, GoHeap
<1>6. heap'.at = "formatted" /\ heap'.pid = P /\ heap'.page = n /\ reply'.buffer = page
  BY <1>2, <1>4, <1>5 DEF HeapStates, IInv, TypeOK, IsReply
<1>7. Keeps(P, n)
  <2>1. Changing(P, n) /\ Changing(P, n)'
    BY <1>1, <1>2, <1>4, <1>6 DEF Changing
  <2>2. PICK y : y = FreeBytes(page)
    OBVIOUS
  <2>3. y \in Nat /\ MaxAlloc - s <= y /\ MaxAlloc \in Nat /\ s \in Nat
    BY <1>3, <1>4, <2>2, NewPageBytes, PageNumbers
  <2>4. ASSUME NEW k \in Int, Backed(P, n, k)
        PROVE  Backed(P, n, k)'
    <3>1. k <= MaxAlloc - s
      BY <1>1, <1>3, <2>1, <2>4 DEF Backed
    <3>2. k <= y
      BY <2>3, <3>1
    <3>. QED  BY <1>6, <2>1, <2>2, <3>2 DEF Backed
  <2>. QED  BY <2>4 DEF Keeps
<1>8. ASSUME NEW m, m # n
      PROVE  Keeps(P, m)
  <2>1. ~Changing(P, m) /\ ~Changing(P, m)'
    BY <1>1, <1>4, <1>6, <1>8 DEF Changing
  <2>. QED  BY <1>1, <2>1 DEF Keeps, Backed
<1>9. ListBacked(P)'
  BY <1>1, <1>7, <1>8, ListStays DEF BytesFit
<1>10. heap.pid \in {P, NoPid} /\ heap'.pid \in {P, NoPid}
  BY <1>2, <1>6
<1>. QED  BY <1>1, <1>9, <1>10, OthersStay

\* What was changed is stored.
LEMMA StoredBytes ==
    ASSUME IInv, BytesFit, heap.at \in {"formatted", "released"}, HeapAt(heap.at), heap' = IdleHeap,
           UNCHANGED <<heapPages, memory>>
    PROVE  BytesFit'
<1>1. heap.at # "idle"
  OBVIOUS
<1>2. PICK P \in Pid, n \in HeapPages :
              /\ P = heap.pid /\ P \in running /\ ~Leaving(P) /\ HeapFitsOn(n) /\ ListFits(P)
              /\ \A m \in HeapPages \ {n} : Fine(P, m)
              /\ reader = IdleReader /\ AskedIn(wire) = {} /\ answered /\ answered' = FALSE /\ GrantedFits(P)
  BY <1>1, HeapOn
<1>3. reply.buffer = memory[P][n] /\ Changing(P, n) /\ \A m : m # n => ~Changing(P, m)
  <2>1. CASE heap.at = "formatted"
    BY <1>2, <2>1 DEF HeapFitsOn, FormattedFits, Written, Wants, Page, Changing
  <2>2. CASE heap.at = "released"
    BY <1>2, <2>2 DEF HeapFitsOn, ReleasedFits, Found, Page, Changing
  <2>. QED  BY <2>1, <2>2
<1>4. heap'.pid = NoPid /\ \A m : ~Changing(P, m)'
  BY PageNumbers, IdleHeapTypes DEF Changing
<1>5. \A m : Keeps(P, m)
  BY <1>3, <1>4 DEF Keeps, Backed
<1>6. ListBacked(P)'
  BY <1>5, ListStays DEF BytesFit
<1>7. heap.pid \in {P, NoPid} /\ heap'.pid \in {P, NoPid}
  BY <1>2, <1>4
<1>. QED  BY <1>6, <1>7, OthersStay

LEMMA FormattedBytes ==
    ASSUME IInv, BytesFit, Formatted \/ Released
    PROVE  BytesFit'
<1>1. /\ heap.at \in {"formatted", "released"} /\ HeapAt(heap.at) /\ heap' = IdleHeap
      /\ UNCHANGED <<heapPages, memory>>
  BY DEF Formatted, Released, HeapAt, kernelVars
<1>. QED  BY <1>1, StoredBytes

LEMMA ReleaseBytes ==
    ASSUME IInv, BytesFit, Release
    PROVE  BytesFit'
<1>1. HeapAt("release") /\ heap.at = "release" /\ memory' = memory
  BY DEF Release, HeapAt
<1>2. PICK P \in Pid, n \in HeapPages :
              /\ P = heap.pid /\ P \in running /\ ~Leaving(P) /\ HeapFitsOn(n) /\ ListFits(P)
              /\ \A m \in HeapPages \ {n} : Fine(P, m)
              /\ reader = IdleReader /\ AskedIn(wire) = {} /\ answered /\ answered' = FALSE /\ GrantedFits(P)
  BY <1>1, HeapOn
<1>3. PICK o, b, page, freed : o = heap.offset /\ b = memory[P][n] /\ page = FreeBlock(b, o) /\ freed = b[o].size
  OBVIOUS
<1>4. /\ reply.page = n /\ reply.buffer = b /\ n \in DOMAIN memory[P] /\ Tiles(b) /\ o \in InUse(b)
      /\ heap \in HeapStates /\ heapPages \in [Pid -> Seq(Listed)]
  BY <1>1, <1>2, <1>3 DEF HeapFitsOn, ReleaseFits, Freeing, Found, There, Page, IInv, TypeOK
<1>5. n \in Kept(P)
  BY <1>1, <1>2, <1>4 DEF GrantedFits
<1>6. reply' = [reply EXCEPT !.buffer = page] /\ reply'.buffer = page /\ reply'.page = n
  <2>1. reply' = [reply EXCEPT !.buffer = page]
    BY <1>3, <1>4 DEF Release
  <2>. QED  BY <1>4, <2>1 DEF IInv, TypeOK, IsReply
<1>7. \A m : ~Changing(P, m)
  BY <1>1 DEF Changing
<1>8. CASE WholePage(page)
  <2>1. heap' = [heap EXCEPT !.at = "freed"] /\ heapPages' = heapPages
    BY <1>3, <1>4, <1>8 DEF Release, GoHeap
  <2>2. heap'.at = "freed" /\ heap'.pid = P
    BY <1>2, <1>4, <2>1 DEF HeapStates
  <2>3. Keeps(P, n)
    BY <1>6, <2>2 DEF Keeps, Backed, Changing
  <2>4. \A m : m # n => Keeps(P, m)
    BY <1>1, <1>6, <1>7, <2>2 DEF Keeps, Backed, Changing
  <2>5. ListBacked(P)'
    BY <2>1, <2>3, <2>4, ListStays DEF BytesFit
  <2>6. heap.pid \in {P, NoPid} /\ heap'.pid \in {P, NoPid} /\ \A q \in Pid \ {P} : heapPages'[q] = heapPages[q]
    BY <1>2, <2>1, <2>2
  <2>. QED  BY <1>1, <2>5, <2>6, OthersStay
<1>9. CASE ~WholePage(page)
  <2>1. heap' = [heap EXCEPT !.at = "released"] /\ heapPages' = Occupied(P, n, -freed, FALSE)
    BY <1>2, <1>3, <1>4, <1>9 DEF Release, GoHeap, Given
  <2>2. heap'.at = "released" /\ heap'.pid = P
    BY <1>2, <1>4, <2>1 DEF HeapStates
  <2>3. PICK x, y : x = FreeBytes(b) /\ y = FreeBytes(page)
    OBVIOUS
  <2>4. x \in Nat /\ y \in Nat /\ freed \in Nat /\ x + freed <= y
    BY <1>3, <1>4, <2>3, FreeBlockBytes
  <2>5. -freed \in Int /\ FALSE \in BOOLEAN
    BY <2>4
  <2>6. Gives(P, n, -freed)
    <3>1. Changing(P, n)'
      BY <1>6, <2>2 DEF Changing
    <3>2. ASSUME NEW k \in Int, Backed(P, n, k)
          PROVE  Backed(P, n, k - (-freed))'
      <4>1. k <= x
        BY <1>3, <1>7, <2>3, <3>2 DEF Backed
      <4>2. k - (-freed) <= y
        BY <2>4, <4>1
      <4>. QED  BY <1>6, <2>2, <2>3, <3>1, <4>2 DEF Backed
    <3>. QED  BY <3>2 DEF Gives
  <2>7. \A m : m # n => Keeps(P, m)
    BY <1>1, <1>6, <1>7, <2>2 DEF Keeps, Backed, Changing
  <2>8. ListBacked(P)'
    BY <1>5, <2>1, <2>5, <2>6, <2>7, MarkedIsBacked DEF BytesFit
  <2>9. \A q \in Pid \ {P} : heapPages'[q] = heapPages[q]
    BY <1>2, <1>4, <2>1, <2>5, OccupiedFits
  <2>10. heap.pid \in {P, NoPid} /\ heap'.pid \in {P, NoPid}
    BY <1>2, <2>2
  <2>. QED  BY <1>1, <2>8, <2>9, <2>10, OthersStay
<1>. QED  BY <1>8, <1>9

LEMMA PageFreedBytes ==
    ASSUME IInv, BytesFit, PageFreed
    PROVE  BytesFit'
<1>1. /\ HeapAt("freed") /\ heap.at = "freed" /\ heap' = IdleHeap /\ memory' = memory
      /\ heapPages' = Occupied(heap.pid, reply.page, 1, TRUE)
  BY DEF PageFreed, HeapAt
<1>2. PICK P \in Pid, n \in HeapPages :
              /\ P = heap.pid /\ P \in running /\ ~Leaving(P) /\ HeapFitsOn(n) /\ ListFits(P)
              /\ \A m \in HeapPages \ {n} : Fine(P, m)
              /\ reader = IdleReader /\ AskedIn(wire) = {} /\ answered /\ answered' = FALSE /\ GrantedFits(P)
  BY <1>1, HeapOn
<1>3. reply.page = n /\ heapPages \in [Pid -> Seq(Listed)]
  BY <1>1, <1>2 DEF HeapFitsOn, FreedFits, IInv, TypeOK
<1>4. heap'.pid = NoPid /\ \A m : ~Changing(P, m)'
  BY <1>1, PageNumbers, IdleHeapTypes DEF Changing
<1>5. \A m : m # n => Keeps(P, m)
  BY <1>1, <1>3, <1>4 DEF Keeps, Backed, Changing
<1>6. heapPages' = Occupied(P, n, 1, TRUE) /\ 1 \in Int /\ TRUE \in BOOLEAN
  BY <1>1, <1>2, <1>3
<1>7. ListBacked(P)'
  BY <1>5, <1>6, MarkedIsBacked DEF BytesFit
<1>8. \A q \in Pid \ {P} : heapPages'[q] = heapPages[q]
  BY <1>2, <1>3, <1>6, OccupiedFits
<1>9. heap.pid \in {P, NoPid} /\ heap'.pid \in {P, NoPid} /\ memory' = memory
  BY <1>1, <1>2, <1>4
<1>. QED  BY <1>7, <1>8, <1>9, OthersStay
-----------------------------------------------------------------------------
(* The other steps. *)

LEMMA ReaderBytes ==
    ASSUME IInv, BytesFit, UNCHANGED <<heapPages, heap, reply, memory>>
    PROVE  BytesFit'
<1>1. \A p, n : Keeps(p, n)
  BY SameKeeps
<1>. QED  BY <1>1, ListStays DEF BytesFit

LEMMA FinishBytes ==
    ASSUME IInv, BytesFit, NEW p \in Pid, Finish(p)
    PROVE  BytesFit'
<1>1. /\ UNCHANGED <<heap, reply, memory>> /\ heapPages' = [heapPages EXCEPT ![p] = <<>>]
      /\ heapPages \in [Pid -> Seq(Listed)]
  BY DEF Finish, threadVars, IInv, TypeOK
<1>2. heapPages'[p] = <<>> /\ \A q \in Pid \ {p} : heapPages'[q] = heapPages[q]
  BY <1>1
<1>3. ListBacked(p)'
  BY <1>2 DEF ListBacked
<1>4. ASSUME NEW q \in Pid, q # p
      PROVE  ListBacked(q)'
  <2>1. \A n : Keeps(q, n)
    BY <1>1, SameKeeps
  <2>. QED  BY <1>2, <1>4, <2>1, ListStays DEF BytesFit
<1>. QED  BY <1>3, <1>4 DEF BytesFit

LEMMA FinishServedBytes ==
    ASSUME IInv, BytesFit, NEW r, Serves(r), FinishProgram(r)
    PROVE  BytesFit'
<1>1. /\ r.op = "finish" /\ memory' = [memory EXCEPT ![r.pid] = Bare] /\ UNCHANGED <<heapPages, heap, reply>>
      /\ DOMAIN memory = Pid
  BY DEF FinishProgram, Serves, kernelVars, threadVars, IInv, TypeOK
<1>2. Leaving(r.pid) /\ IsRequest(r)
  <2>1. IsWire(wire) /\ wire # <<>> /\ Once(wire) /\ r = Head(wire) /\ wire' = Tail(wire)
    BY DEF IInv, TypeOK, TalkFits, OneRequest, Serves
  <2>. QED  BY <1>1, <2>1, ServedRequest DEF Leaving
<1>3. PICK p \in Pid : p = r.pid
  BY <1>2 DEF IsRequest
<1>4. heapPages[p] = <<>>
  BY <1>2, <1>3 DEF IInv, TalkFits, RunningFits
<1>5. ListBacked(p)'
  BY <1>1, <1>4 DEF ListBacked
<1>6. ASSUME NEW q \in Pid, q # p
      PROVE  ListBacked(q)'
  <2>1. memory'[q] = memory[q]
    BY <1>1, <1>3, <1>6
  <2>2. \A n : Keeps(q, n)
    BY <1>1, <2>1, SameKeeps
  <2>. QED  BY <1>1, <2>2, ListStays DEF BytesFit
<1>. QED  BY <1>5, <1>6 DEF BytesFit

\* The reader of a file has no business with the pages of the heap.
LEMMA ReaderServedBytes ==
    ASSUME IInv, BytesFit, NEW r, Serves(r), r.op # "finish", heap = IdleHeap,
           AddPages(r) \/ ReadBytes(r) \/ StoreBytes(r) \/ GetPageFromPointer(r) \/ FreePage(r)
    PROVE  BytesFit'
<1>1. AskedIn(wire) = {r} /\ Waits /\ UNCHANGED <<heapPages, heap>>
  BY AnswerTalks
<1>2. TypeOK /\ ReaderFits /\ OneRequest
  BY DEF IInv, TalkFits
<1>3. reader.at \in {"page", "stored"}
  <2>1. reader \in ReaderStates /\ reader # IdleReader
    BY <1>1, <1>2 DEF Waits, TypeOK
  <2>. QED  BY <1>2, <2>1 DEF OneRequest, ReaderStates
<1>4. memory' = memory
  <2>1. CASE reader.at = "page"
    <3>1. r.op = "pageOf"
      BY <1>1, <1>2, <2>1 DEF ReaderFits, Request
    <3>. QED  BY <3>1 DEF GetPageFromPointer, AddPages, ReadBytes, StoreBytes, FreePage
  <2>2. CASE reader.at = "stored"
    <3>1. r.op = "store" /\ r.blocks = Bare
      BY <1>1, <1>2, <2>2 DEF ReaderFits, Request
    <3>. QED  BY <3>1 DEF GetPageFromPointer, AddPages, ReadBytes, StoreBytes, FreePage
  <2>. QED  BY <1>3, <2>1, <2>2
<1>5. heap.pid = NoPid /\ heap.at \notin Writing /\ heap'.pid = NoPid /\ heap'.at \notin Writing
  BY <1>1, IdleHeapTypes DEF Writing
<1>. QED  BY <1>1, <1>4, <1>5, PlainTurn

\* The heap's request changes its page only.
LEMMA HeapServedBytes ==
    ASSUME IInv, BytesFit, NEW P \in Pid, P = heap.pid, NEW n, UNCHANGED <<heap, heapPages>>,
           \A q \in Pid \ {P} : memory'[q] = memory[q],
           \A m \in Kept(P) : Keeps(P, m)
    PROVE  BytesFit'
<1>1. ListBacked(P)'
  BY ListStays DEF BytesFit
<1>2. ASSUME NEW q \in Pid, q # P
      PROVE  ListBacked(q)'
  <2>1. Plain(q) /\ Plain(q)' /\ memory'[q] = memory[q]
    BY <1>2 DEF Plain
  <2>2. \A m : Keeps(q, m)
    BY <2>1, PlainKeeps
  <2>. QED  BY <1>2, <2>2, ListStays DEF BytesFit
<1>. QED  BY <1>1, <1>2 DEF BytesFit

LEMMA ServeBytes ==
    ASSUME IInv, BytesFit, Serve
    PROVE  BytesFit'
<1>1. PICK r : r = Head(wire)
  OBVIOUS
<1>2. /\ Serves(r)
      /\ AddPages(r) \/ ReadBytes(r) \/ StoreBytes(r) \/ GetPageFromPointer(r) \/ FreePage(r) \/ FinishProgram(r)
  BY <1>1 DEF Serve, Serves
<1>3. CASE FinishProgram(r)
  BY <1>2, <1>3, FinishServedBytes
<1>4. CASE ~FinishProgram(r) /\ heap = IdleHeap
  <2>1. r.op # "finish"
    BY <1>2, <1>4 DEF AddPages, ReadBytes, StoreBytes, GetPageFromPointer, FreePage
  <2>. QED  BY <1>2, <1>4, <2>1, ReaderServedBytes
<1>5. CASE ~FinishProgram(r) /\ heap # IdleHeap
  <2>1. r.op # "finish"
    BY <1>2, <1>5 DEF AddPages, ReadBytes, StoreBytes, GetPageFromPointer, FreePage
  <2>2. AskedIn(wire) = {r} /\ ~answered /\ UNCHANGED <<heapPages, heap, live>> /\ DOMAIN memory = Pid
    BY <1>2, <2>1, AnswerTalks DEF IInv, TypeOK
  <2>3. PICK P \in Pid, n \in HeapPages : P = heap.pid /\ HeapFitsOn(n) /\ ListFits(P) /\ ~Leaving(P)
    <3>1. heap.pid \in Pid /\ ListFits(heap.pid) /\ ~Leaving(heap.pid)
      BY <1>5 DEF IInv, TypeOK, TalkFits, RunningFits, ListsFit
    <3>2. PICK n \in HeapPages : HeapFitsOn(n)
      BY <1>5 DEF IInv, HeapFits
    <3>. QED  BY <3>1, <3>2
  <2>4. /\ heap.at \in {"fit", "fitted", "add", "format", "formatted", "page", "release", "freed", "released"}
        /\ heap.at = "idle" => heap = IdleHeap
    BY <1>5 DEF IInv, TypeOK, HeapStates, TalkFits, OneRequest
  <2>5. CASE heap.at \in {"fit", "format", "page", "release"}
    <3>1. r.op \in {"read", "pageOf"}
      BY <2>2, <2>3, <2>5 DEF HeapFitsOn, FitFits, FormatFits, PageFits, ReleaseFits, Asks, Request
    <3>2. memory' = memory
      BY <1>2, <1>5, <3>1 DEF AddPages, StoreBytes, FreePage, ReadBytes, GetPageFromPointer
    <3>3. \A m : Keeps(P, m)
      BY <2>2, <2>5, <3>2 DEF Keeps, Backed, Changing
    <3>. QED  BY <2>2, <2>3, <3>2, <3>3, HeapServedBytes
  <2>6. CASE heap.at \in {"fitted", "formatted", "released"}
    <3>1. r = Request("store", P, n, 0, reply.buffer) /\ Tiles(reply.buffer) /\ n \in DOMAIN memory[P] /\ Changing(P, n)
      <4>1. CASE heap.at = "fitted"
        BY <2>2, <2>3, <4>1 DEF HeapFitsOn, FittedFits, Asks, There, Wants, Changing
      <4>2. CASE heap.at = "formatted"
        BY <2>2, <2>3, <4>2 DEF HeapFitsOn, FormattedFits, Asks, There, Wants, Changing
      <4>3. CASE heap.at = "released"
        BY <2>2, <2>3, <4>3 DEF HeapFitsOn, ReleasedFits, Asks, There, Changing
      <4>. QED  BY <2>6, <4>1, <4>2, <4>3
    <3>2. r.op = "store" /\ r.pid = P /\ r.page = n /\ r.offset = 0 /\ r.blocks # Bare
      BY <3>1, BareIsPage DEF Request
    <3>3. StoreBytes(r)
      BY <1>2, <1>5, <3>2 DEF AddPages, ReadBytes, GetPageFromPointer, FreePage
    <3>4. Store(P, n, r.blocks) /\ reply' = [reply EXCEPT !.ok = TRUE, !.offsetAbs = Address(P, n, 0)]
      BY <3>1, <3>2, <3>3 DEF StoreBytes
    <3>5. \A q \in Pid \ {P} : memory'[q] = memory[q]
      BY <2>2, <3>4, StoreTouches
    <3>6. reply'.buffer = reply.buffer /\ reply'.page = reply.page
      BY <3>4 DEF IInv, TypeOK, IsReply
    <3>7. Keeps(P, n)
      BY <2>2, <3>1, <3>6 DEF Keeps, Backed, Changing, Taken
    <3>8. ASSUME NEW m \in Kept(P), m # n PROVE Keeps(P, m)
      <4>1. DOMAIN memory[P] = Kept(P)
        BY <2>3, <2>6 DEF ListFits, GrantedFits
      <4>2. memory'[P][m] = memory[P][m]
        BY <2>2, <3>4, <3>8, <4>1, StoreTouches DEF Untouched
      <4>. QED  BY <2>2, <3>6, <4>2 DEF Keeps, Backed, Changing, Taken
    <3>. QED  BY <2>2, <2>3, <3>5, <3>7, <3>8, HeapServedBytes
  <2>7. CASE heap.at = "add"
    <3>1. r = Request("add", P, n, 0, Bare) /\ heap.page = n
      BY <2>2, <2>3, <2>7 DEF HeapFitsOn, AddFits, Asks, Wants
    <3>2. r.op = "add" /\ r.pid = P /\ r.page = n
      BY <3>1 DEF Request
    <3>3. Store(P, n, Bare) \/ memory' = memory
      BY <1>2, <1>5, <3>2 DEF AddPages, ReadBytes, StoreBytes, GetPageFromPointer, FreePage
    <3>4. \A q \in Pid \ {P} : memory'[q] = memory[q]
      BY <2>2, <3>3, StoreTouches
    <3>5. ASSUME NEW m \in Kept(P) PROVE Keeps(P, m)
      <4>1. DOMAIN memory[P] \ {n} = Kept(P)
        BY <2>3, <2>7, <3>1 DEF ListFits, GrantedFits
      <4>2. memory'[P][m] = memory[P][m]
        BY <2>2, <3>3, <3>5, <4>1, StoreTouches DEF Untouched
      <4>. QED  BY <2>2, <2>7, <4>2, PlainKeeps DEF Plain, Writing
    <3>. QED  BY <2>2, <2>3, <3>4, <3>5, HeapServedBytes
  <2>8. CASE heap.at = "freed"
    <3>1. r = Request("free", P, n, 0, Bare) /\ reply.page = n
      BY <2>2, <2>3, <2>8 DEF HeapFitsOn, FreedFits, Asks
    <3>2. r.op = "free" /\ r.pid = P /\ r.page = n
      BY <3>1 DEF Request
    <3>3. Take(P, n) /\ reply' = [reply EXCEPT !.ok = TRUE]
      BY <1>2, <1>5, <3>2 DEF AddPages, ReadBytes, StoreBytes, GetPageFromPointer, FreePage
    <3>4. reply'.page = reply.page
      BY <3>3 DEF IInv, TypeOK, IsReply
    <3>5. \A q \in Pid \ {P} : memory'[q] = memory[q]
      BY <2>2, <3>3, TakeTouches
    <3>6. Keeps(P, n)
      BY <2>2, <2>3, <2>8, <3>1, <3>4 DEF Keeps, Backed, Changing
    <3>7. ASSUME NEW m \in Kept(P), m # n PROVE Keeps(P, m)
      <4>1. DOMAIN memory[P] \cup {n} = Kept(P)
        BY <2>3, <2>8, <3>1 DEF ListFits, GrantedFits
      <4>2. memory'[P][m] = memory[P][m]
        BY <2>2, <3>3, <3>7, <4>1, TakeTouches DEF Untouched
      <4>. QED  BY <2>2, <2>8, <3>1, <3>4, <3>7, <4>2 DEF Keeps, Backed, Changing
    <3>. QED  BY <2>2, <2>3, <3>5, <3>6, <3>7, HeapServedBytes
  <2>. QED  BY <2>4, <2>5, <2>6, <2>7, <2>8
<1>. QED  BY <1>3, <1>4, <1>5

LEMMA InitBytes == Init => BytesFit
BY DEF Init, BytesFit, ListBacked

LEMMA NextBytes ==
    ASSUME IInv, BytesFit, [Next]_vars
    PROVE  BytesFit'
<1>1. CASE Serve
  BY <1>1, ServeBytes
<1>2. CASE HeapThread
  <2>1. CASE Fit
    BY <2>1, FitBytes
  <2>2. CASE Fitted
    BY <2>2, FittedBytes
  <2>3. CASE Add
    BY <2>3, AddBytes
  <2>4. CASE Format
    BY <2>4, FormatBytes
  <2>5. CASE Formatted \/ Released
    BY <2>5, FormattedBytes
  <2>6. CASE PageFound
    BY <2>6, PageFoundBytes
  <2>7. CASE Release
    BY <2>7, ReleaseBytes
  <2>8. CASE PageFreed
    BY <2>8, PageFreedBytes
  <2>. QED  BY <1>2, <2>1, <2>2, <2>3, <2>4, <2>5, <2>6, <2>7, <2>8 DEF HeapThread
<1>3. CASE ReaderThread
  <2>1. UNCHANGED <<heapPages, heap, reply, memory>>
    BY <1>3 DEF ReaderThread, StoreRead, FileRead, kernelVars
  <2>. QED  BY <2>1, ReaderBytes
<1>4. ASSUME NEW p \in Pid, NEW n \in Sizes, Malloc(p, n) \/ MallocTooMuch(p, n)
      PROVE  BytesFit'
  BY <1>4, StartBytes
<1>5. ASSUME NEW p \in Pid, ReadFile(p)
      PROVE  BytesFit'
  <2>1. UNCHANGED <<heapPages, heap, reply, memory>>
    BY <1>5 DEF ReadFile, kernelVars
  <2>. QED  BY <2>1, ReaderBytes
<1>6. ASSUME NEW p \in Pid, Finish(p)
      PROVE  BytesFit'
  BY <1>6, FinishBytes
<1>7. ASSUME NEW r \in DOMAIN live, Free(r)
      PROVE  BytesFit'
  BY <1>7, FreeBytesStart
<1>8. CASE UNCHANGED vars
  <2>1. UNCHANGED <<heapPages, heap, reply, memory>>
    BY <1>8 DEF vars, kernelVars, threadVars, memoryVars
  <2>. QED  BY <2>1, ReaderBytes
<1>. QED  BY <1>1, <1>2, <1>3, <1>4, <1>5, <1>6, <1>7, <1>8 DEF Next

LEMMA BackedIsThere == BytesInv => FreeSizeIsThere
<1>. SUFFICES ASSUME BytesInv, Settled, NEW p \in Pid, NEW h \in HeapPagesOf(p), ~h.wasFreed
              PROVE  h.freeSize <= FreeBytes(memory[p][h.page])
  BY DEF FreeSizeIsThere
<1>1. heapPages[p] \in Seq(Listed) /\ ListBacked(p)
  BY DEF BytesInv, IInv, TypeOK, BytesFit
<1>2. PICK i \in 1 .. Len(heapPages[p]) : heapPages[p][i] = h
  BY <1>1 DEF HeapPagesOf, Range
<1>3. Backed(p, h.page, h.freeSize)
  BY <1>1, <1>2 DEF ListBacked
<1>4. heap.pid = NoPid
  BY IdleHeapTypes DEF Settled
<1>. QED  BY <1>3, <1>4, PageNumbers DEF Backed, Changing

\* occupy_space and the headers of the page, which are changed apart and with different
\* sums: free_size never promises bytes that the blocks of the page do not have.
THEOREM FreeSizesAreThere ==
    ASSUME NobodyOverlaps
    PROVE  Spec => []FreeSizeIsThere
<1>1. Init => BytesInv
  BY InitFits, InitBytes DEF BytesInv
<1>2. BytesInv /\ [Next]_vars => BytesInv'
  BY NextKeeps, NextBytes DEF BytesInv
<1>. QED  BY <1>1, <1>2, BackedIsThere, PTL DEF Spec
=============================================================================
