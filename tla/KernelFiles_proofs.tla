--------------------------- MODULE KernelFiles_proofs ---------------------------
(* Proofs about KernelFiles: the two tables of files agree, for any number of   *)
(* programs, files and descriptors, while no program writes the table of a      *)
(* process where it no longer is.                                               *)
EXTENDS KernelFiles, SequenceLemmas

-----------------------------------------------------------------------------
(* What the invariant speaks of. *)

\* The points at which a program has fs_request_mutex, those of an opening, and those
\* at which an entry of the global table is held for a descriptor that is not there.
Requests == {"validate", "create", "table", "global", "append", "close", "delete", "transfer"}
Opening == {"validate", "validated", "create", "table", "global", "append"}
Moving == {"append", "close", "decrement"}

Points == Requests \cup {"run", "validated", "ending", "closing", "decrement", "finished"}
CallTypes == [at : Points, path : Path \cup {NoPath}, flags : Flags \cup {{}}, valid : BOOLEAN, pos : Nat,
              gfd : Int, fd : Nat, size : Nat]

\* A list of files: the default ones, and those that were opened.
Files == OpenFiles \cup {Defaults[1], Defaults[2], Defaults[3]}
IsTable(files) ==
    /\ files \in Seq(Files)
    /\ Len(files) \in 3 .. 3 + MaxOpen
    /\ \A j \in 1 .. 3 : files[j] = Defaults[j]
    /\ \A j \in 4 .. Len(files) : files[j] \in OpenFiles
Tables == [pid : Pid, files : {files \in Seq(Files) : IsTable(files)}]
-----------------------------------------------------------------------------
(* The table of a process. *)

PosOf(t, p) == SelectInSeq(t, LAMBDA e : e.pid = p)
FilesIn(t, p) == IF PosOf(t, p) = 0 THEN <<>> ELSE t[PosOf(t, p)].files
OneEach(t) == \A i, j \in DOMAIN t : t[i].pid = t[j].pid => i = j

\* The position of a table is that of one with the pid, if there is any.
LEMMA PosIs ==
    ASSUME NEW t, Len(t) \in Nat, NEW p
    PROVE  \/ PosOf(t, p) = 0 /\ \A i \in 1 .. Len(t) : t[i].pid # p
           \/ PosOf(t, p) \in 1 .. Len(t) /\ t[PosOf(t, p)].pid = p
<1>. DEFINE I == {i \in 1 .. Len(t) : t[i].pid = p}
<1>1. PosOf(t, p) = IF I # {} THEN Min(I) ELSE 0
  BY DEF PosOf, SelectInSeq
<1>2. CASE I = {}
  BY <1>1, <1>2
<1>3. CASE I # {}
  <2>1. I \subseteq Nat
    OBVIOUS
  <2>2. Min(I) \in I
    BY <1>3, <2>1, MinIsMember
  <2>. QED  BY <1>1, <1>3, <2>2
<1>. QED  BY <1>2, <1>3

\* The only table of a process is the one that is found.
LEMMA TableIs ==
    ASSUME NEW t, Len(t) \in Nat, DOMAIN t = 1 .. Len(t), OneEach(t), NEW i \in 1 .. Len(t)
    PROVE  PosOf(t, t[i].pid) = i /\ FilesIn(t, t[i].pid) = t[i].files
<1>. DEFINE n == PosOf(t, t[i].pid)
<1>1. n \in 1 .. Len(t) /\ t[n].pid = t[i].pid
  BY PosIs
<1>2. n = i
  BY <1>1 DEF OneEach
<1>. QED  BY <1>1, <1>2 DEF FilesIn

\* Who has no table has no file.
LEMMA NoTable ==
    ASSUME NEW t, Len(t) \in Nat, NEW p, \A i \in 1 .. Len(t) : t[i].pid # p
    PROVE  PosOf(t, p) = 0 /\ FilesIn(t, p) = <<>>
<1>1. PosOf(t, p) = 0
  BY PosIs
<1>. QED  BY <1>1 DEF FilesIn

\* open_file_in_process_table adds a table at the end,
LEMMA TableAdded ==
    ASSUME NEW t \in Seq(Tables), OneEach(t), NEW p \in Pid, PosOf(t, p) = 0, NEW files, IsTable(files)
    PROVE  LET u == Append(t, [pid |-> p, files |-> files])
           IN  /\ u \in Seq(Tables) /\ OneEach(u) /\ Len(u) = Len(t) + 1
               /\ PosOf(u, p) = Len(t) + 1 /\ FilesIn(u, p) = files
               /\ \A q : q # p => PosOf(u, q) = PosOf(t, q) /\ FilesIn(u, q) = FilesIn(t, q)
<1>. DEFINE e == [pid |-> p, files |-> files]
            u == Append(t, e)
            n == Len(t)
<1>1. e \in Tables /\ e.pid = p /\ e.files = files
  BY DEF Tables, IsTable
<1>. HIDE DEF e
<1>2. /\ u \in Seq(Tables) /\ n \in Nat /\ Len(u) = n + 1 /\ u[n + 1] = e
      /\ \A i \in 1 .. n : u[i] = t[i]
      /\ DOMAIN t = 1 .. n /\ DOMAIN u = 1 .. n + 1
  BY <1>1, AppendProperties, LenProperties
<1>. HIDE DEF u, n
<1>3. \A i \in 1 .. n : t[i].pid # p
  BY PosIs, <1>2 DEF n
<1>4. OneEach(u)
  <2>1. ASSUME NEW i \in 1 .. n + 1, NEW j \in 1 .. n + 1, u[i].pid = u[j].pid PROVE i = j
    <3>1. CASE i \in 1 .. n /\ j \in 1 .. n
      BY <1>2, <2>1, <3>1 DEF OneEach
    <3>2. CASE i = n + 1 /\ j \in 1 .. n
      BY <1>1, <1>2, <1>3, <2>1, <3>2
    <3>3. CASE i \in 1 .. n /\ j = n + 1
      BY <1>1, <1>2, <1>3, <2>1, <3>3
    <3>. QED  BY <1>2, <3>1, <3>2, <3>3
  <2>. QED  BY <1>2, <2>1 DEF OneEach
<1>5. PosOf(u, p) = n + 1 /\ FilesIn(u, p) = files
  <2>1. n + 1 \in 1 .. Len(u) /\ u[n + 1].pid = p /\ Len(u) \in Nat
    BY <1>1, <1>2
  <2>. QED  BY <1>1, <1>2, <1>4, <2>1, TableIs
<1>6. ASSUME NEW q, q # p
      PROVE  PosOf(u, q) = PosOf(t, q) /\ FilesIn(u, q) = FilesIn(t, q)
  <2>1. CASE \E i \in 1 .. n : t[i].pid = q
    <3>1. PICK i \in 1 .. n : t[i].pid = q
      BY <2>1
    <3>2. i \in 1 .. Len(t) /\ i \in 1 .. Len(u) /\ u[i] = t[i] /\ Len(u) \in Nat /\ Len(t) \in Nat
      BY <1>2 DEF n
    <3>3. PosOf(u, q) = i /\ FilesIn(u, q) = u[i].files
      BY <1>2, <1>4, <3>1, <3>2, TableIs
    <3>4. PosOf(t, q) = i /\ FilesIn(t, q) = t[i].files
      BY <1>2, <3>1, <3>2, TableIs DEF n
    <3>. QED  BY <3>2, <3>3, <3>4
  <2>2. CASE \A i \in 1 .. n : t[i].pid # q
    <3>1. \A i \in 1 .. n + 1 : u[i].pid # q
      BY <1>1, <1>2, <1>6, <2>2
    <3>2. PosOf(u, q) = 0 /\ FilesIn(u, q) = <<>>
      BY <1>2, <3>1, NoTable
    <3>3. PosOf(t, q) = 0 /\ FilesIn(t, q) = <<>>
      BY <1>2, <2>2, NoTable DEF n
    <3>. QED  BY <3>2, <3>3
  <2>. QED  BY <2>1, <2>2
<1>. QED  BY <1>2, <1>4, <1>5, <1>6 DEF u, n, e

WithFiles(t, p, files) == [t EXCEPT ![PosOf(t, p)].files = files]

\* writes one where it is,
LEMMA TableReplaced ==
    ASSUME NEW t \in Seq(Tables), OneEach(t), NEW p \in Pid, PosOf(t, p) # 0, NEW files, IsTable(files)
    PROVE  LET u == WithFiles(t, p, files)
           IN  /\ u \in Seq(Tables) /\ OneEach(u) /\ Len(u) = Len(t)
               /\ FilesIn(u, p) = files /\ \A q : PosOf(u, q) = PosOf(t, q)
               /\ \A q : q # p => FilesIn(u, q) = FilesIn(t, q)
<1>. DEFINE k == PosOf(t, p)
            u == [t EXCEPT ![k].files = files]
            n == Len(t)
<1>1. n \in Nat /\ DOMAIN t = 1 .. n /\ \A i \in 1 .. n : t[i] \in Tables
  BY LenProperties, ElementOfSeq
<1>2. k \in 1 .. n /\ t[k].pid = p
  BY <1>1, PosIs
<1>. HIDE DEF k
<1>3. /\ DOMAIN u = 1 .. n
      /\ \A i \in 1 .. n : u[i].pid = t[i].pid /\ (i # k => u[i] = t[i]) /\ u[i] \in Tables
      /\ u[k].files = files
  BY <1>1, <1>2 DEF Tables, IsTable
<1>4. u \in Seq(Tables) /\ Len(u) = n
  <2>1. u = [i \in 1 .. n |-> u[i]]
    BY <1>1
  <2>. HIDE DEF u
  <2>2. u \in [1 .. n -> Tables]
    BY <1>3, <2>1
  <2>. QED  BY <1>1, <2>2, SeqDef, LenProperties
<1>. HIDE DEF u, n
<1>5. OneEach(u)
  BY <1>1, <1>3 DEF OneEach
<1>6. ASSUME NEW q
      PROVE  PosOf(u, q) = PosOf(t, q) /\ FilesIn(u, q) = IF q = p THEN files ELSE FilesIn(t, q)
  <2>1. CASE \E i \in 1 .. n : t[i].pid = q
    <3>1. PICK i \in 1 .. n : t[i].pid = q
      BY <2>1
    <3>2. i \in 1 .. Len(t) /\ i \in 1 .. Len(u) /\ u[i].pid = q /\ Len(u) \in Nat /\ Len(t) \in Nat
      BY <1>1, <1>3, <1>4, <3>1 DEF n
    <3>3. PosOf(u, q) = i /\ FilesIn(u, q) = u[i].files
      BY <1>3, <1>4, <1>5, <3>2, TableIs
    <3>4. PosOf(t, q) = i /\ FilesIn(t, q) = t[i].files
      BY <1>1, <3>1, <3>2, TableIs DEF n
    <3>5. i = k <=> q = p
      BY <1>1, <1>2, <3>1 DEF OneEach
    <3>. QED  BY <1>3, <3>3, <3>4, <3>5
  <2>2. CASE \A i \in 1 .. n : t[i].pid # q
    <3>1. \A i \in 1 .. n : u[i].pid # q
      BY <1>3, <2>2
    <3>2. PosOf(u, q) = 0 /\ FilesIn(u, q) = <<>>
      BY <1>1, <1>4, <3>1, NoTable
    <3>3. PosOf(t, q) = 0 /\ FilesIn(t, q) = <<>>
      BY <1>1, <2>2, NoTable DEF n
    <3>4. q # p
      BY <1>2, <2>2
    <3>. QED  BY <3>2, <3>3, <3>4
  <2>. QED  BY <2>1, <2>2
<1>0. WithFiles(t, p, files) = u
  BY DEF WithFiles, u, k
<1>. QED  BY <1>0, <1>4, <1>5, <1>6 DEF u, n, k

\* and remove_open_file_by_fd_and_pid takes one out when nothing is open in it.
LEMMA TableRemoved ==
    ASSUME NEW t \in Seq(Tables), OneEach(t), NEW p \in Pid, PosOf(t, p) # 0
    PROVE  LET u == RemoveAt(t, PosOf(t, p))
           IN  /\ u \in Seq(Tables) /\ OneEach(u) /\ Len(u) = Len(t) - 1
               /\ PosOf(u, p) = 0 /\ FilesIn(u, p) = <<>>
               /\ \A q : q # p => /\ FilesIn(u, q) = FilesIn(t, q)
                                  /\ PosOf(u, q) = IF PosOf(t, q) > PosOf(t, p) THEN PosOf(t, q) - 1
                                                                                ELSE PosOf(t, q)
<1>. DEFINE k == PosOf(t, p)
            u == RemoveAt(t, k)
            n == Len(t)
            to(i) == IF i > k THEN i - 1 ELSE i
<1>1. n \in Nat /\ DOMAIN t = 1 .. n
  BY LenProperties
<1>2. k \in 1 .. n /\ t[k].pid = p
  BY <1>1, PosIs
<1>. HIDE DEF k
<1>3. /\ u \in Seq(Tables) /\ Len(u) = n - 1
      /\ \A i \in 1 .. k - 1 : u[i] = t[i]
      /\ \A i \in k .. n - 1 : u[i] = t[i + 1]
      /\ DOMAIN u = 1 .. n - 1
  <2>1. u \in Seq(Tables) /\ Len(u) = n - 1
        /\ (\A i \in 1 .. k - 1 : u[i] = t[i]) /\ \A i \in k .. n - 1 : u[i] = t[i + 1]
    BY <1>2, RemoveAtProperties
  <2>. HIDE DEF u, n
  <2>. QED  BY <2>1, LenProperties
<1>. HIDE DEF u, n
<1>4. \A i \in 1 .. n : i # k => to(i) \in 1 .. n - 1 /\ u[to(i)] = t[i]
  <2>1. ASSUME NEW i \in 1 .. n, i > k PROVE i - 1 \in k .. n - 1 /\ u[i - 1] = t[i]
    <3>1. i - 1 \in k .. n - 1 /\ (i - 1) + 1 = i
      BY <1>1, <1>2, <2>1
    <3>2. u[i - 1] = t[(i - 1) + 1]
      BY <1>3, <3>1
    <3>. QED  BY <3>1, <3>2
  <2>2. ASSUME NEW i \in 1 .. n, i < k PROVE i \in 1 .. k - 1 /\ i \in 1 .. n - 1 /\ u[i] = t[i]
    BY <1>1, <1>2, <1>3, <2>2
  <2>3. ASSUME NEW i \in 1 .. n, i # k PROVE i > k \/ i < k
    BY <1>1, <1>2, <2>3
  <2>. QED  BY <1>1, <1>2, <2>1, <2>2, <2>3
<1>5. ASSUME NEW m \in 1 .. n - 1
      PROVE  \E i \in 1 .. n : i # k /\ to(i) = m /\ u[m] = t[i]
  <2>1. CASE m < k
    <3>1. m \in 1 .. n /\ m # k /\ to(m) = m
      BY <1>1, <1>2, <2>1
    <3>. QED  BY <1>4, <3>1
  <2>2. CASE m >= k
    <3>1. m + 1 \in 1 .. n /\ m + 1 # k /\ to(m + 1) = m
      BY <1>1, <1>2, <2>2
    <3>2. u[to(m + 1)] = t[m + 1]
      BY <1>4, <3>1
    <3>. QED  BY <3>1, <3>2
  <2>. QED  BY <1>1, <1>2, <2>1, <2>2
<1>6. OneEach(u)
  <2>1. ASSUME NEW a \in 1 .. n - 1, NEW b \in 1 .. n - 1, u[a].pid = u[b].pid PROVE a = b
    <3>1. PICK i \in 1 .. n : to(i) = a /\ u[a] = t[i]
      BY <1>5
    <3>2. PICK j \in 1 .. n : to(j) = b /\ u[b] = t[j]
      BY <1>5
    <3>3. i = j
      BY <1>1, <2>1, <3>1, <3>2 DEF OneEach
    <3>. QED  BY <3>1, <3>2, <3>3
  <2>. QED  BY <1>3, <2>1 DEF OneEach
<1>7. \A m \in 1 .. n - 1 : u[m].pid # p
  <2>1. ASSUME NEW m \in 1 .. n - 1 PROVE u[m].pid # p
    <3>1. PICK i \in 1 .. n : i # k /\ u[m] = t[i]
      BY <1>5
    <3>. QED  BY <1>1, <1>2, <3>1 DEF OneEach
  <2>. QED  BY <2>1
<1>8. Len(u) \in Nat /\ PosOf(u, p) = 0 /\ FilesIn(u, p) = <<>>
  <2>1. Len(u) \in Nat
    BY <1>3, LenProperties
  <2>. QED  BY <1>3, <1>7, <2>1, NoTable
<1>9. ASSUME NEW q, q # p
      PROVE  FilesIn(u, q) = FilesIn(t, q) /\ PosOf(u, q) = to(PosOf(t, q))
  <2>1. CASE \E i \in 1 .. n : t[i].pid = q
    <3>1. PICK i \in 1 .. n : t[i].pid = q
      BY <2>1
    <3>2. i # k
      BY <1>2, <1>9, <3>1
    <3>3. to(i) \in 1 .. Len(u) /\ u[to(i)] = t[i] /\ Len(t) \in Nat /\ i \in 1 .. Len(t)
      BY <1>1, <1>3, <1>4, <3>2 DEF n
    <3>. HIDE DEF to
    <3>4. PosOf(u, q) = to(i) /\ FilesIn(u, q) = t[i].files
      BY <1>3, <1>6, <1>8, <3>1, <3>3, TableIs
    <3>5. PosOf(t, q) = i /\ FilesIn(t, q) = t[i].files
      BY <1>1, <3>1, <3>3, TableIs DEF n
    <3>. QED  BY <3>4, <3>5
  <2>2. CASE \A i \in 1 .. n : t[i].pid # q
    <3>1. \A m \in 1 .. n - 1 : u[m].pid # q
      BY <1>5, <2>2
    <3>2. PosOf(u, q) = 0 /\ FilesIn(u, q) = <<>>
      BY <1>3, <1>8, <3>1, NoTable
    <3>3. PosOf(t, q) = 0 /\ FilesIn(t, q) = <<>>
      BY <1>1, <2>2, NoTable DEF n
    <3>4. to(0) = 0
      BY <1>2
    <3>. QED  BY <3>2, <3>3, <3>4
  <2>. QED  BY <2>1, <2>2
<1>. QED  BY <1>3, <1>6, <1>8, <1>9 DEF u, n, k
-----------------------------------------------------------------------------
(* How many descriptors have a number. *)

Slots == Pid \X (4 .. 3 + MaxOpen)
OpenOf(F, g) == {q \in Slots : q[2] <= Len(F[q[1]]) /\ F[q[1]][q[2]].gfd = g}
HeldOf(C, g) == {p \in Pid : C[p].at \in Moving /\ C[p].gfd = g}

\* All that is counted is finite.
LEMMA SlotsAreFinite ==
    /\ MaxOpen \in Nat
    /\ IsFiniteSet(Pid) /\ IsFiniteSet(Slots)
    /\ \A F, g : IsFiniteSet(OpenOf(F, g)) /\ Cardinality(OpenOf(F, g)) \in Nat
    /\ \A C, g : IsFiniteSet(HeldOf(C, g)) /\ Cardinality(HeldOf(C, g)) \in Nat
<1>1. MaxOpen \in Nat /\ IsFiniteSet(Pid)
  BY FilesConstants
<1>2. IsFiniteSet(4 .. 3 + MaxOpen)
  <2>1. 4 \in Int /\ 3 + MaxOpen \in Int
    BY <1>1
  <2>. QED  BY <2>1, FS_Interval
<1>3. IsFiniteSet(Slots)
  BY <1>1, <1>2, FS_Product DEF Slots
<1>4. ASSUME NEW F, NEW g
      PROVE  IsFiniteSet(OpenOf(F, g)) /\ Cardinality(OpenOf(F, g)) \in Nat
  <2>1. OpenOf(F, g) \in SUBSET Slots
    BY DEF OpenOf
  <2>. QED  BY <1>3, <2>1, FS_Subset, FS_CardinalityType
<1>5. ASSUME NEW C, NEW g
      PROVE  IsFiniteSet(HeldOf(C, g)) /\ Cardinality(HeldOf(C, g)) \in Nat
  <2>1. HeldOf(C, g) \in SUBSET Pid
    BY DEF HeldOf
  <2>. QED  BY <1>1, <2>1, FS_Subset, FS_CardinalityType
<1>. QED  BY <1>1, <1>3, <1>4, <1>5

One(g, h) == IF g = h THEN 1 ELSE 0

\* The files of p in G are those in F, and one more.
OneMore(F, G, p, n) ==
    /\ Len(F[p]) = n /\ Len(G[p]) = n + 1 /\ \A j \in 1 .. n : G[p][j] = F[p][j]
    /\ \A q \in Pid : q # p => G[q] = F[q]

\* A descriptor at the end of a table is one more with its number.
LEMMA OpenOneMore ==
    ASSUME NEW F, NEW G, NEW p \in Pid, NEW n \in 3 .. 2 + MaxOpen, OneMore(F, G, p, n), NEW g
    PROVE  Cardinality(OpenOf(G, g)) = Cardinality(OpenOf(F, g)) + One(G[p][n + 1].gfd, g)
<1>. USE DEF OneMore
<1>. DEFINE x == <<p, n + 1>>
<1>1. MaxOpen \in Nat /\ n \in Nat /\ x \in Slots /\ x[1] = p /\ x[2] = n + 1
  BY SlotsAreFinite DEF Slots
<1>2. x \notin OpenOf(F, g) /\ (x \in OpenOf(G, g) <=> G[p][n + 1].gfd = g)
  BY <1>1 DEF OpenOf
<1>3. ASSUME NEW q \in Slots, q # x
      PROVE  q \in OpenOf(G, g) <=> q \in OpenOf(F, g)
  <2>1. q[1] \in Pid /\ q[2] \in 4 .. 3 + MaxOpen /\ q = <<q[1], q[2]>>
    BY DEF Slots
  <2>2. CASE q[1] # p
    BY <2>1, <2>2 DEF OpenOf
  <2>3. CASE q[1] = p
    <3>1. q[2] # n + 1
      BY <1>3, <2>1, <2>3
    <3>2. q[2] <= n <=> q[2] <= n + 1
      BY <1>1, <2>1, <3>1
    <3>3. q[2] <= n => q[2] \in 1 .. n
      BY <1>1, <2>1
    <3>. QED  BY <2>3, <3>2, <3>3 DEF OpenOf
  <2>. QED  BY <2>2, <2>3
<1>4. CASE G[p][n + 1].gfd = g
  <2>1. OpenOf(G, g) = OpenOf(F, g) \cup {x}
    <3>1. OpenOf(G, g) \subseteq Slots /\ OpenOf(F, g) \subseteq Slots
      BY DEF OpenOf
    <3>. HIDE DEF x
    <3>. QED  BY <1>1, <1>2, <1>3, <1>4, <3>1
  <2>. HIDE DEF x
  <2>2. Cardinality(OpenOf(F, g) \cup {x}) = Cardinality(OpenOf(F, g)) + 1
    BY <1>2, SlotsAreFinite, FS_AddElement
  <2>. QED  BY <1>4, <2>1, <2>2 DEF One
<1>5. CASE G[p][n + 1].gfd # g
  <2>1. OpenOf(G, g) = OpenOf(F, g)
    <3>0. x \notin OpenOf(G, g)
      BY <1>2, <1>5
    <3>1. OpenOf(G, g) \subseteq Slots /\ OpenOf(F, g) \subseteq Slots
      BY DEF OpenOf
    <3>2. ASSUME NEW q \in Slots PROVE q \in OpenOf(G, g) <=> q \in OpenOf(F, g)
      <4>. HIDE DEF x
      <4>. QED  BY <1>2, <1>3, <3>0
    <3>. QED  BY <3>1, <3>2
  <2>2. Cardinality(OpenOf(F, g)) \in Nat
    BY SlotsAreFinite
  <2>3. One(G[p][n + 1].gfd, g) = 0
    BY <1>5 DEF One
  <2>. QED  BY <2>1, <2>2, <2>3
<1>. QED  BY <1>4, <1>5

\* The files of p in G are those in F without the k-th, as far as they were opened.
OneLess(F, G, p, n, k) ==
    /\ Len(F[p]) = n /\ Len(G[p]) \in Nat
    /\ \A j \in 4 .. 3 + MaxOpen : j <= Len(G[p]) <=> j <= n - 1
    /\ \A j \in 4 .. n - 1 : G[p][j] = F[p][IF j < k THEN j ELSE j + 1]
    /\ \A q \in Pid : q # p => G[q] = F[q]

\* One that is taken out is one less, wherever those behind it go.
LEMMA OpenOneLess ==
    ASSUME NEW F, NEW G, NEW p \in Pid, NEW n \in 4 .. 3 + MaxOpen, NEW k \in 4 .. n,
           OneLess(F, G, p, n, k), NEW g
    PROVE  Cardinality(OpenOf(F, g)) = Cardinality(OpenOf(G, g)) + One(F[p][k].gfd, g)
<1>. USE DEF OneLess
<1>. DEFINE x == <<p, k>>
            A == OpenOf(G, g)
            B == OpenOf(F, g) \ {x}
            to(q) == IF q[1] = p /\ q[2] >= k THEN <<p, q[2] + 1>> ELSE q
            h == [q \in A |-> to(q)]
<1>1. /\ MaxOpen \in Nat /\ n \in Nat /\ k \in Nat /\ x \in Slots /\ x[1] = p /\ x[2] = k
      /\ \A q \in Slots : q[1] \in Pid /\ q[2] \in 4 .. 3 + MaxOpen /\ q = <<q[1], q[2]>>
  BY SlotsAreFinite DEF Slots
<1>2. /\ \A q \in Slots : q \in A <=> q[2] <= Len(G[q[1]]) /\ G[q[1]][q[2]].gfd = g
      /\ \A q \in Slots : q \in B <=> q # x /\ q[2] <= Len(F[q[1]]) /\ F[q[1]][q[2]].gfd = g
      /\ A \subseteq Slots /\ B \subseteq Slots
  BY DEF OpenOf
<1>. HIDE DEF A, B
<1>3. ASSUME NEW q \in A
      PROVE  to(q) \in B
  <2>1. q \in Slots /\ q[1] \in Pid /\ q[2] \in 4 .. 3 + MaxOpen /\ q = <<q[1], q[2]>>
        /\ q[2] <= Len(G[q[1]]) /\ G[q[1]][q[2]].gfd = g
    BY <1>1, <1>2
  <2>2. CASE q[1] # p
    <3>1. to(q) = q /\ q # x
      BY <1>1, <2>2
    <3>2. G[q[1]] = F[q[1]]
      BY <2>1, <2>2
    <3>. QED  BY <1>2, <2>1, <3>1, <3>2
  <2>3. CASE q[1] = p /\ q[2] < k
    <3>1. q[2] <= n - 1 /\ q[2] \in 4 .. n - 1
      BY <2>1, <2>3
    <3>2. G[p][q[2]] = F[p][q[2]]
      BY <2>3, <3>1
    <3>3. to(q) = q /\ q # x /\ q[2] <= n
      BY <1>1, <2>1, <2>3, <3>1
    <3>. QED  BY <1>2, <2>1, <2>3, <3>2, <3>3
  <2>4. CASE q[1] = p /\ q[2] >= k
    <3>1. q[2] <= n - 1 /\ q[2] \in 4 .. n - 1
      BY <1>1, <2>1, <2>4
    <3>2. G[p][q[2]] = F[p][q[2] + 1]
      BY <1>1, <2>1, <2>4, <3>1
    <3>. DEFINE r == <<p, q[2] + 1>>
    <3>3. to(q) = r /\ r[1] = p /\ r[2] = q[2] + 1 /\ r \in Slots /\ r # x
      BY <1>1, <2>1, <2>4, <3>1 DEF Slots
    <3>. HIDE DEF r, to
    <3>4. r[2] <= Len(F[r[1]]) /\ F[r[1]][r[2]].gfd = g
      BY <1>1, <2>1, <2>4, <3>1, <3>2, <3>3
    <3>. QED  BY <1>2, <3>3, <3>4
  <2>. QED  BY <1>1, <2>1, <2>2, <2>3, <2>4
<1>4. ASSUME NEW q \in A, NEW r \in A, to(q) = to(r)
      PROVE  q = r
  <2>1. /\ q[1] \in Pid /\ q[2] \in 4 .. 3 + MaxOpen /\ q = <<q[1], q[2]>>
        /\ r[1] \in Pid /\ r[2] \in 4 .. 3 + MaxOpen /\ r = <<r[1], r[2]>>
    BY <1>1, <1>2
  <2>2. to(q)[1] = q[1] /\ to(r)[1] = r[1]
    BY <2>1
  <2>3. to(q)[2] = (IF q[1] = p /\ q[2] >= k THEN q[2] + 1 ELSE q[2])
        /\ to(r)[2] = (IF r[1] = p /\ r[2] >= k THEN r[2] + 1 ELSE r[2])
    BY <2>1
  <2>. HIDE DEF to
  <2>4. q[1] = r[1] /\ q[2] = r[2]
    BY <1>1, <1>4, <2>1, <2>2, <2>3
  <2>. QED  BY <2>1, <2>4
<1>5. ASSUME NEW r \in B
      PROVE  \E q \in A : to(q) = r
  <2>1. r \in Slots /\ r[1] \in Pid /\ r[2] \in 4 .. 3 + MaxOpen /\ r = <<r[1], r[2]>>
        /\ r[2] <= Len(F[r[1]]) /\ F[r[1]][r[2]].gfd = g /\ r # x
    BY <1>1, <1>2
  <2>2. CASE r[1] # p
    <3>1. to(r) = r /\ G[r[1]] = F[r[1]]
      BY <2>1, <2>2
    <3>2. r \in A
      BY <1>2, <2>1, <3>1
    <3>. QED  BY <3>1, <3>2
  <2>3. CASE r[1] = p /\ r[2] < k
    <3>1. r[2] \in 4 .. n - 1 /\ r[2] <= n - 1
      BY <1>1, <2>1, <2>3
    <3>2. G[p][r[2]] = F[p][r[2]] /\ r[2] <= Len(G[p])
      BY <2>1, <2>3, <3>1
    <3>3. to(r) = r
      BY <1>1, <2>1, <2>3
    <3>4. r \in A
      BY <1>2, <2>1, <2>3, <3>2
    <3>. QED  BY <3>3, <3>4
  <2>4. CASE r[1] = p /\ r[2] > k
    <3>. DEFINE q == <<p, r[2] - 1>>
    <3>1. r[2] - 1 \in 4 .. n - 1 /\ r[2] - 1 <= n - 1 /\ ~(r[2] - 1 < k) /\ (r[2] - 1) + 1 = r[2]
          /\ r[2] - 1 \in 4 .. 3 + MaxOpen
      BY <1>1, <2>1, <2>4
    <3>2. G[p][r[2] - 1] = F[p][r[2]] /\ r[2] - 1 <= Len(G[p])
      BY <3>1
    <3>3. q[1] = p /\ q[2] = r[2] - 1 /\ q \in Slots
      BY <3>1 DEF Slots
    <3>4. q \in A
      <4>. HIDE DEF q
      <4>. QED  BY <1>2, <2>1, <2>4, <3>2, <3>3
    <3>5. to(q) = r
      BY <2>1, <2>4, <3>1
    <3>. QED  BY <3>4, <3>5
  <2>5. ~(r[1] = p /\ r[2] = k)
    BY <2>1
  <2>. QED  BY <1>1, <2>1, <2>2, <2>3, <2>4, <2>5
<1>. HIDE DEF to
<1>6. Cardinality(B) = Cardinality(A)
  <2>1. h \in Bijection(A, B)
    <3>1. h \in [A -> B] /\ (\A q, r \in A : h[q] = h[r] => q = r) /\ \A r \in B : \E q \in A : h[q] = r
      BY <1>3, <1>4, <1>5
    <3>. HIDE DEF h
    <3>. QED  BY <3>1 DEF Bijection, Injection, Surjection, IsInjective
  <2>2. ExistsBijection(A, B)
    BY <2>1 DEF ExistsBijection
  <2>3. IsFiniteSet(A)
    BY SlotsAreFinite DEF A
  <2>. HIDE DEF h
  <2>. QED  BY <2>2, <2>3, FS_Bijection
<1>7. Cardinality(OpenOf(F, g)) = Cardinality(B) + One(F[p][k].gfd, g)
  <2>1. /\ Cardinality(OpenOf(F, g)) \in Nat
        /\ Cardinality(B) = IF x \in OpenOf(F, g) THEN Cardinality(OpenOf(F, g)) - 1 ELSE Cardinality(OpenOf(F, g))
    BY SlotsAreFinite, FS_RemoveElement DEF B
  <2>2. x \in OpenOf(F, g) <=> F[p][k].gfd = g
    BY <1>1 DEF OpenOf
  <2>. HIDE DEF x
  <2>. QED  BY <2>1, <2>2 DEF One
<1>. QED  BY <1>6, <1>7 DEF A

\* The number of a call under way counts once.
LEMMA HeldStep ==
    ASSUME NEW C, NEW D, NEW p \in Pid, \A q \in Pid : q # p => D[q] = C[q], NEW g
    PROVE  Cardinality(HeldOf(D, g)) + (IF C[p].at \in Moving THEN One(C[p].gfd, g) ELSE 0)
            = Cardinality(HeldOf(C, g)) + (IF D[p].at \in Moving THEN One(D[p].gfd, g) ELSE 0)
<1>. DEFINE rest == HeldOf(C, g) \ {p}
<1>1. rest = HeldOf(D, g) \ {p}
  BY DEF HeldOf
<1>2. ASSUME NEW E
      PROVE  Cardinality(HeldOf(E, g)) = Cardinality(HeldOf(E, g) \ {p})
                                          + IF E[p].at \in Moving THEN One(E[p].gfd, g) ELSE 0
  <2>1. p \in HeldOf(E, g) <=> E[p].at \in Moving /\ E[p].gfd = g
    BY DEF HeldOf
  <2>2. /\ Cardinality(HeldOf(E, g)) \in Nat
        /\ Cardinality(HeldOf(E, g) \ {p}) = IF p \in HeldOf(E, g) THEN Cardinality(HeldOf(E, g)) - 1
                                                                   ELSE Cardinality(HeldOf(E, g))
    BY SlotsAreFinite, FS_RemoveElement
  <2>. QED  BY <2>1, <2>2 DEF One
<1>3. IsFiniteSet(rest) /\ Cardinality(rest) \in Nat
  BY SlotsAreFinite, FS_RemoveElement, FS_CardinalityType
<1>. DEFINE c == IF C[p].at \in Moving THEN One(C[p].gfd, g) ELSE 0
            d == IF D[p].at \in Moving THEN One(D[p].gfd, g) ELSE 0
<1>4. c \in Nat /\ d \in Nat
  BY DEF One
<1>5. Cardinality(HeldOf(C, g)) = Cardinality(rest) + c /\ Cardinality(HeldOf(D, g)) = Cardinality(rest) + d
  BY <1>1, <1>2
<1>. HIDE DEF c, d, rest
<1>6. Cardinality(HeldOf(D, g)) + c = Cardinality(HeldOf(C, g)) + d
  BY <1>3, <1>4, <1>5
<1>. QED  BY <1>6 DEF c, d
-----------------------------------------------------------------------------
(* How many openings the entries with a number count. *)

IndicesOf(t, g) == {i \in DOMAIN t : t[i].gfd = g}
OpensOf(t, g) == [i \in IndicesOf(t, g) |-> t[i].open]
OpenSum(t, g) == MapThenFoldSet(+, 0, LAMBDA i : t[i].open, LAMBDA S : CHOOSE i \in S : TRUE,
                                {i \in DOMAIN t : t[i].gfd = g})

\* A sequence of entries, by its numbers.
LEMMA EntriesAreFinite ==
    ASSUME NEW t \in Seq(Entries), NEW g
    PROVE  /\ IsFiniteSet(IndicesOf(t, g)) /\ OpensOf(t, g) \in [IndicesOf(t, g) -> Nat]
           /\ Len(t) \in Nat /\ DOMAIN t = 1 .. Len(t) /\ \A i \in 1 .. Len(t) : t[i] \in Entries
           /\ \A i \in IndicesOf(t, g) : OpensOf(t, g)[i] = t[i].open /\ t[i].open \in Nat \ {0}
<1>1. Len(t) \in Nat /\ DOMAIN t = 1 .. Len(t) /\ \A i \in 1 .. Len(t) : t[i] \in Entries
  BY LenProperties, ElementOfSeq
<1>2. IsFiniteSet(1 .. Len(t))
  BY <1>1, FS_Interval
<1>3. IndicesOf(t, g) \in SUBSET (1 .. Len(t))
  BY <1>1 DEF IndicesOf
<1>4. IsFiniteSet(IndicesOf(t, g))
  BY <1>2, <1>3, FS_Subset
<1>5. \A i \in 1 .. Len(t) : t[i].open \in Nat \ {0}
  BY <1>1 DEF Entries
<1>. QED  BY <1>1, <1>3, <1>4, <1>5 DEF OpensOf

\* The fold of the model is the sum of the counts.
LEMMA OpenSumIs ==
    ASSUME NEW t \in Seq(Entries), NEW g
    PROVE  \E f : Totals(f, IndicesOf(t, g), OpensOf(t, g)) /\ OpenSum(t, g) = f[IndicesOf(t, g)]
<1>. DEFINE S == IndicesOf(t, g)
            w == OpensOf(t, g)
            IsIt(f) == f = [s \in SUBSET S |->
                              IF s = {} THEN 0 ELSE t[CHOOSE i \in s : TRUE].open + f[s \ {CHOOSE i \in s : TRUE}]]
            total == CHOOSE f : IsIt(f)
<1>1. OpenSum(t, g) = total[S]
  BY DEF OpenSum, MapThenFoldSet, IndicesOf
<1>2. IsFiniteSet(S) /\ w \in [S -> Nat]
  BY EntriesAreFinite
<1>3. ASSUME NEW s \in SUBSET S, s # {}, NEW f
      PROVE  w[Picked(s)] + f[s \ {Picked(s)}]
              = t[CHOOSE i \in s : TRUE].open + f[s \ {CHOOSE i \in s : TRUE}]
  <2>1. Picked(s) \in S
    BY <1>3, PickedIsIn
  <2>2. w[Picked(s)] = t[Picked(s)].open
    BY <2>1 DEF OpensOf
  <2>. HIDE DEF w
  <2>. QED  BY <2>2 DEF Picked
<1>4. ASSUME NEW f PROVE IsIt(f) <=> IsSum(f, S, w)
  <2>. DEFINE A == [s \in SUBSET S |->
                      IF s = {} THEN 0 ELSE t[CHOOSE i \in s : TRUE].open + f[s \ {CHOOSE i \in s : TRUE}]]
              B == [s \in SUBSET S |-> IF s = {} THEN 0 ELSE w[Picked(s)] + f[s \ {Picked(s)}]]
  <2>. HIDE DEF w, S
  <2>1. A = B
    BY <1>3
  <2>2. IsIt(f) <=> f = A
    OBVIOUS
  <2>3. IsSum(f, S, w) <=> f = B
    BY DEF IsSum
  <2>. HIDE DEF IsIt, A, B
  <2>. QED  BY <2>1, <2>2, <2>3
<1>5. IsIt(total)
  <2>1. PICK f : IsSum(f, S, w)
    <3>. HIDE DEF w, S
    <3>. QED  BY <1>2, SumExists
  <2>. HIDE DEF IsIt
  <2>. QED  BY <1>4, <2>1
<1>6. IsSum(total, S, w)
  <2>. HIDE DEF IsIt, total
  <2>. QED  BY <1>4, <1>5
<1>. HIDE DEF total, S, w
<1>. QED  BY <1>1, <1>2, <1>6 DEF Totals, S, w

\* The numbers i of one table and the numbers h[i] of another count the same.
Matches(t, A, u, B, h) == Renames(h, A, B) /\ \A i \in A : u[h[i]].open = t[i].open

\* Two tables with the same entries at other places count the same.
LEMMA SameOpens ==
    ASSUME NEW t \in Seq(Entries), NEW u \in Seq(Entries), NEW g,
           NEW h, Matches(t, IndicesOf(t, g), u, IndicesOf(u, g), h)
    PROVE  OpenSum(u, g) = OpenSum(t, g)
<1>. DEFINE S == IndicesOf(t, g)
            T == IndicesOf(u, g)
            v == OpensOf(t, g)
            w == OpensOf(u, g)
<1>1. PICK f : Totals(f, S, v) /\ OpenSum(t, g) = f[S]
  BY OpenSumIs
<1>2. PICK k : Totals(k, T, w) /\ OpenSum(u, g) = k[T]
  BY OpenSumIs
<1>3. Renames(h, S, T) /\ \A i \in S : w[h[i]] = v[i]
  BY DEF OpensOf, Matches, Renames
<1>4. S \in SUBSET S /\ T \in SUBSET T
  OBVIOUS
<1>. HIDE DEF S, T, v, w
<1>. QED  BY <1>1, <1>2, <1>3, <1>4, SumMoves

\* Of two tables that have the same entries but for one each, the sums differ by
\* what the two count.
LEMMA OpensBut ==
    ASSUME NEW t \in Seq(Entries), NEW u \in Seq(Entries), NEW g,
           NEW a \in IndicesOf(t, g), NEW b \in IndicesOf(u, g),
           NEW h, Matches(t, IndicesOf(t, g) \ {a}, u, IndicesOf(u, g) \ {b}, h)
    PROVE  OpenSum(u, g) + t[a].open = OpenSum(t, g) + u[b].open
<1>. DEFINE S == IndicesOf(t, g)
            T == IndicesOf(u, g)
            v == OpensOf(t, g)
            w == OpensOf(u, g)
            A == S \ {a}
            B == T \ {b}
<1>1. PICK f : Totals(f, S, v) /\ OpenSum(t, g) = f[S]
  BY OpenSumIs
<1>2. PICK k : Totals(k, T, w) /\ OpenSum(u, g) = k[T]
  BY OpenSumIs
<1>3. v[a] = t[a].open /\ w[b] = u[b].open
  BY EntriesAreFinite
<1>4. Renames(h, A, B) /\ \A i \in A : w[h[i]] = v[i]
  BY DEF OpensOf, Matches, Renames
<1>5. S \in SUBSET S /\ T \in SUBSET T /\ A \in SUBSET S /\ B \in SUBSET T /\ a \in S /\ b \in T
  OBVIOUS
<1>. HIDE DEF S, T, v, w
<1>6. f[S] = v[a] + f[A] /\ f[A] \in Nat /\ v[a] \in Nat
  BY <1>1, <1>5, TotalWithout DEF A
<1>7. k[T] = w[b] + k[B] /\ k[B] \in Nat /\ w[b] \in Nat
  BY <1>2, <1>5, TotalWithout DEF B
<1>. HIDE DEF A, B
<1>8. k[B] = f[A]
  BY <1>1, <1>2, <1>4, <1>5, SumMoves
<1>. QED  BY <1>1, <1>2, <1>3, <1>6, <1>7, <1>8

\* An entry that only one of the two tables has makes the difference.
LEMMA OpensWithout ==
    ASSUME NEW t \in Seq(Entries), NEW u \in Seq(Entries), NEW g, NEW a \in IndicesOf(t, g),
           NEW h, Matches(u, IndicesOf(u, g), t, IndicesOf(t, g) \ {a}, h)
    PROVE  OpenSum(t, g) = OpenSum(u, g) + t[a].open
<1>. DEFINE S == IndicesOf(u, g)
            T == IndicesOf(t, g)
            v == OpensOf(u, g)
            w == OpensOf(t, g)
            B == T \ {a}
<1>1. PICK f : Totals(f, S, v) /\ OpenSum(u, g) = f[S]
  BY OpenSumIs
<1>2. PICK k : Totals(k, T, w) /\ OpenSum(t, g) = k[T]
  BY OpenSumIs
<1>3. w[a] = t[a].open
  BY EntriesAreFinite
<1>4. Renames(h, S, B) /\ \A i \in S : w[h[i]] = v[i]
  BY DEF OpensOf, Matches, Renames
<1>5. S \in SUBSET S /\ T \in SUBSET T /\ B \in SUBSET T /\ a \in T
  OBVIOUS
<1>. HIDE DEF S, T, v, w
<1>6. k[T] = w[a] + k[B] /\ k[B] \in Nat /\ w[a] \in Nat
  BY <1>2, <1>5, TotalWithout DEF B
<1>. HIDE DEF B
<1>7. k[B] = f[S]
  BY <1>1, <1>2, <1>4, <1>5, SumMoves
<1>. QED  BY <1>1, <1>2, <1>3, <1>6, <1>7

\* Whoever counts is there.
LEMMA SumIsOfEntries ==
    ASSUME NEW t \in Seq(Entries), NEW g
    PROVE  OpenSum(t, g) \in Nat /\ (IndicesOf(t, g) = {} => OpenSum(t, g) = 0)
<1>1. PICK f : Totals(f, IndicesOf(t, g), OpensOf(t, g)) /\ OpenSum(t, g) = f[IndicesOf(t, g)]
  BY OpenSumIs
<1>. DEFINE S == IndicesOf(t, g)
            w == OpensOf(t, g)
<1>2. S \in SUBSET S
  OBVIOUS
<1>. HIDE DEF S, w
<1>3. \A s \in SUBSET S : f[s] \in Nat
  BY <1>1, TotalsAdd DEF S, w
<1>4. f[{}] = 0
  BY <1>1, TotalsAdd DEF S, w
<1>. QED  BY <1>1, <1>2, <1>3, <1>4 DEF S, w
-----------------------------------------------------------------------------
(* What add_file_in_global_table and close_file do to the counts. *)

\* The position of an entry is that of one with the number, if there is any.
LEMMA GlobalPosIs ==
    ASSUME globalTable \in Seq(Entries), NEW g
    PROVE  \/ GlobalPos(g) = 0 /\ IndicesOf(globalTable, g) = {}
           \/ GlobalPos(g) \in 1 .. Len(globalTable) /\ GlobalPos(g) \in IndicesOf(globalTable, g)
<1>. DEFINE I == {i \in 1 .. Len(globalTable) : globalTable[i].gfd = g}
<1>1. GlobalPos(g) = IF I # {} THEN Min(I) ELSE 0
  BY DEF GlobalPos, SelectInSeq
<1>2. I = IndicesOf(globalTable, g)
  BY EntriesAreFinite DEF IndicesOf
<1>3. I \subseteq Nat /\ I \subseteq 1 .. Len(globalTable)
  OBVIOUS
<1>. HIDE DEF I
<1>4. I # {} => Min(I) \in I
  BY <1>3, MinIsMember
<1>. QED  BY <1>1, <1>2, <1>3, <1>4

\* Entries whose counts are the same match one by one.
LEMMA InPlace ==
    ASSUME NEW t, NEW u, NEW A, \A i \in A : u[i].open = t[i].open
    PROVE  Matches(t, A, u, A, [i \in A |-> i])
BY DEF Matches, Renames

\* One count is written where it is.
LEMMA CountWritten ==
    ASSUME NEW t \in Seq(Entries), NEW k \in 1 .. Len(t), NEW n \in Nat \ {0}
    PROVE  LET u == [t EXCEPT ![k].open = n]
           IN  /\ u \in Seq(Entries)
               /\ OpenSum(u, t[k].gfd) + t[k].open = OpenSum(t, t[k].gfd) + n
               /\ \A g : g # t[k].gfd => OpenSum(u, g) = OpenSum(t, g)
<1>. DEFINE u == [t EXCEPT ![k].open = n]
<1>1. Len(t) \in Nat /\ DOMAIN t = 1 .. Len(t) /\ \A i \in 1 .. Len(t) : t[i] \in Entries
  BY EntriesAreFinite
<1>2. /\ DOMAIN u = 1 .. Len(t)
      /\ \A i \in 1 .. Len(t) : u[i] \in Entries /\ u[i].gfd = t[i].gfd /\ (i # k => u[i] = t[i])
      /\ u[k].open = n
  BY <1>1 DEF Entries
<1>3. u \in Seq(Entries)
  <2>1. u = [i \in 1 .. Len(t) |-> u[i]]
    BY <1>1
  <2>. HIDE DEF u
  <2>2. u \in [1 .. Len(t) -> Entries]
    BY <1>2, <2>1
  <2>. QED  BY <1>1, <2>2, SeqDef
<1>. HIDE DEF u
<1>4. \A g : IndicesOf(u, g) = IndicesOf(t, g)
  BY <1>1, <1>2 DEF IndicesOf
<1>5. ASSUME NEW g, g # t[k].gfd
      PROVE  OpenSum(u, g) = OpenSum(t, g)
  <2>. DEFINE A == IndicesOf(t, g)
  <2>1. \A i \in A : u[i].open = t[i].open
    BY <1>1, <1>2, <1>5 DEF IndicesOf
  <2>2. Matches(t, A, u, A, [i \in A |-> i])
    BY <2>1, InPlace
  <2>. QED  BY <1>3, <1>4, <2>2, SameOpens
<1>6. OpenSum(u, t[k].gfd) + t[k].open = OpenSum(t, t[k].gfd) + n
  <2>. DEFINE A == IndicesOf(t, t[k].gfd) \ {k}
  <2>1. \A i \in A : u[i].open = t[i].open
    BY <1>1, <1>2 DEF IndicesOf
  <2>2. Matches(t, A, u, A, [i \in A |-> i])
    BY <2>1, InPlace
  <2>3. k \in IndicesOf(t, t[k].gfd)
    BY <1>1 DEF IndicesOf
  <2>. QED  BY <1>2, <1>3, <1>4, <2>2, <2>3, OpensBut
<1>. QED  BY <1>3, <1>5, <1>6 DEF u

\* An opening counts once more under the number it is given.
LEMMA AddedCounts ==
    ASSUME globalTable \in Seq(Entries), NEW path \in Path
    PROVE  /\ Added(path).gfd \in Nat /\ Added(path).table \in Seq(Entries)
           /\ \A g : OpenSum(Added(path).table, g) = OpenSum(globalTable, g) + One(Added(path).gfd, g)
<1>. DEFINE t == globalTable
            n == Len(t)
            I == {i \in 1 .. n : t[i].path = path}
            pos == SelectInSeq(t, LAMBDA f : f.path = path)
<1>1. n \in Nat /\ DOMAIN t = 1 .. n /\ \A i \in 1 .. n : t[i] \in Entries
  BY EntriesAreFinite
<1>2. pos = 0 \/ pos \in 1 .. n
  <2>1. pos = IF I # {} THEN Min(I) ELSE 0
    BY DEF SelectInSeq
  <2>2. I \subseteq Nat /\ I \subseteq 1 .. n
    OBVIOUS
  <2>. HIDE DEF I, n, t, pos
  <2>3. I # {} => Min(I) \in I
    BY <2>2, MinIsMember
  <2>. QED  BY <2>1, <2>2, <2>3
<1>3. CASE pos = 0
  <2>. DEFINE e == [path |-> path, open |-> 1, gfd |-> n]
              u == Append(t, e)
  <2>1. Added(path) = [gfd |-> n, table |-> u]
    BY <1>3 DEF Added
  <2>2. e \in Entries /\ e.open = 1 /\ e.gfd = n
    BY <1>1 DEF Entries
  <2>. HIDE DEF e
  <2>3. u \in Seq(Entries) /\ Len(u) = n + 1 /\ u[n + 1] = e /\ (\A i \in 1 .. n : u[i] = t[i])
        /\ DOMAIN u = 1 .. n + 1
    BY <1>1, <2>2, AppendProperties, LenProperties
  <2>. HIDE DEF u, n, pos, t
  <2>4. \A g : IndicesOf(u, g) \ {n + 1} = IndicesOf(t, g)
    BY <1>1, <2>3 DEF IndicesOf
  <2>5. ASSUME NEW g, g # n PROVE OpenSum(u, g) = OpenSum(t, g)
    <3>. DEFINE A == IndicesOf(t, g)
    <3>1. IndicesOf(u, g) = A
      BY <1>1, <2>2, <2>3, <2>4, <2>5 DEF IndicesOf
    <3>2. \A i \in A : u[i].open = t[i].open
      BY <1>1, <2>3 DEF IndicesOf
    <3>3. Matches(t, A, u, A, [i \in A |-> i])
      BY <3>2, InPlace
    <3>. QED  BY <2>3, <3>1, <3>3, SameOpens DEF t
  <2>6. OpenSum(u, n) = OpenSum(t, n) + 1
    <3>. DEFINE A == IndicesOf(t, n)
    <3>1. n + 1 \in IndicesOf(u, n)
      BY <1>1, <2>2, <2>3 DEF IndicesOf
    <3>2. \A i \in A : u[i].open = t[i].open
      BY <1>1, <2>3 DEF IndicesOf
    <3>3. Matches(t, A, u, A, [i \in A |-> i])
      BY <3>2, InPlace
    <3>4. Matches(t, A, u, IndicesOf(u, n) \ {n + 1}, [i \in A |-> i])
      BY <2>4, <3>3
    <3>5. OpenSum(u, n) = OpenSum(t, n) + u[n + 1].open
      BY <2>3, <3>1, <3>4, OpensWithout DEF t
    <3>. QED  BY <2>2, <2>3, <3>5
  <2>7. \A g : OpenSum(t, g) \in Nat
    BY SumIsOfEntries DEF t
  <2>. QED  BY <1>1, <2>1, <2>3, <2>5, <2>6, <2>7 DEF One, t
<1>4. CASE pos \in 1 .. n
  <2>. DEFINE gfd == t[pos].gfd
              k == GlobalPos(gfd)
              m == t[k].open + 1
              u == [t EXCEPT ![k].open = m]
  <2>1. Added(path) = [gfd |-> gfd, table |-> u]
    BY <1>1, <1>4 DEF Added
  <2>2. gfd \in Nat
    BY <1>1, <1>4 DEF Entries
  <2>3. k \in 1 .. n /\ t[k].gfd = gfd
    <3>1. pos \in IndicesOf(t, gfd)
      BY <1>1, <1>4 DEF IndicesOf
    <3>. QED  BY <3>1, GlobalPosIs DEF IndicesOf
  <2>. HIDE DEF gfd, k, pos
  <2>4. m \in Nat \ {0} /\ t[k].open \in Nat
    BY <1>1, <2>3 DEF Entries
  <2>5. u \in Seq(Entries) /\ OpenSum(u, gfd) + t[k].open = OpenSum(t, gfd) + m
        /\ \A g : g # gfd => OpenSum(u, g) = OpenSum(t, g)
    <3>1. t \in Seq(Entries)
      OBVIOUS
    <3>. HIDE DEF m, t
    <3>2. u \in Seq(Entries) /\ OpenSum(u, t[k].gfd) + t[k].open = OpenSum(t, t[k].gfd) + m
          /\ \A g : g # t[k].gfd => OpenSum(u, g) = OpenSum(t, g)
      BY <1>1, <2>3, <2>4, <3>1, CountWritten DEF n
    <3>. HIDE DEF u
    <3>. QED  BY <2>3, <3>2
  <2>6. \A g : OpenSum(t, g) \in Nat /\ OpenSum(u, g) \in Nat
    BY <2>5, SumIsOfEntries
  <2>7. OpenSum(u, gfd) = OpenSum(t, gfd) + 1
    <3>. HIDE DEF u
    <3>. QED  BY <2>4, <2>5, <2>6
  <2>. HIDE DEF u, t
  <2>. QED  BY <2>1, <2>2, <2>5, <2>6, <2>7 DEF One, t
<1>. QED  BY <1>2, <1>3, <1>4

\* The entry behind the one that goes are one place further on.
Behind(k, A) == [i \in A |-> IF i < k THEN i ELSE i + 1]

\* A closing counts once less under its number, if somebody counts there.
LEMMA DecrementedCounts ==
    ASSUME globalTable \in Seq(Entries), NEW gfd \in Nat, OpenSum(globalTable, gfd) # 0
    PROVE  /\ GlobalPos(gfd) # 0 /\ Decremented(gfd) \in Seq(Entries)
           /\ \A g : OpenSum(globalTable, g) = OpenSum(Decremented(gfd), g) + One(gfd, g)
<1>. DEFINE t == globalTable
            n == Len(t)
            k == GlobalPos(gfd)
            u == Decremented(gfd)
<1>1. n \in Nat /\ DOMAIN t = 1 .. n /\ \A i \in 1 .. n : t[i] \in Entries
  BY EntriesAreFinite
<1>2. k \in 1 .. n /\ t[k].gfd = gfd /\ k \in IndicesOf(t, gfd)
  <2>1. IndicesOf(t, gfd) # {}
    BY SumIsOfEntries
  <2>. QED  BY <2>1, GlobalPosIs DEF IndicesOf
<1>3. k # 0 /\ t[k].open \in Nat \ {0}
  BY <1>1, <1>2 DEF Entries
<1>4. (\A g : OpenSum(t, g) \in Nat) /\ t \in Seq(Entries)
  BY SumIsOfEntries
<1>5. CASE t[k].open = 1
  <2>1. u = RemoveAt(t, k)
    BY <1>3, <1>5 DEF Decremented
  <2>2. /\ u \in Seq(Entries) /\ Len(u) = n - 1
        /\ \A i \in 1 .. k - 1 : u[i] = t[i]
        /\ \A i \in k .. n - 1 : u[i] = t[i + 1]
        /\ DOMAIN u = 1 .. n - 1
    <3>1. LET v == RemoveAt(t, k)
          IN  v \in Seq(Entries) /\ Len(v) = n - 1 /\ (\A i \in 1 .. k - 1 : v[i] = t[i])
              /\ \A i \in k .. n - 1 : v[i] = t[i + 1]
      <4>. HIDE DEF k
      <4>. QED  BY <1>2, RemoveAtProperties
    <3>. HIDE DEF u, k, n, t
    <3>. QED  BY <2>1, <3>1, LenProperties
  <2>. HIDE DEF u, k, n, t
  <2>3. ASSUME NEW g
        PROVE  Matches(u, IndicesOf(u, g), t, IndicesOf(t, g) \ {k}, Behind(k, IndicesOf(u, g)))
    <3>. DEFINE A == IndicesOf(u, g)
                B == IndicesOf(t, g) \ {k}
                h == Behind(k, A)
    <3>1. ASSUME NEW i \in A
          PROVE  h[i] \in B /\ t[h[i]] = u[i] /\ h[i] = IF i < k THEN i ELSE i + 1
      <4>1. i \in 1 .. n - 1 /\ u[i].gfd = g /\ h[i] = IF i < k THEN i ELSE i + 1
        BY <2>2 DEF IndicesOf, Behind
      <4>2. CASE i < k
        <5>1. i \in 1 .. k - 1 /\ i \in 1 .. n /\ i # k
          BY <1>1, <1>2, <4>1, <4>2
        <5>2. u[i] = t[i]
          BY <2>2, <5>1
        <5>. QED  BY <1>1, <4>1, <4>2, <5>1, <5>2 DEF IndicesOf
      <4>3. CASE i >= k
        <5>1. i \in k .. n - 1 /\ i + 1 \in 1 .. n /\ i + 1 # k /\ ~(i < k)
          BY <1>1, <1>2, <4>1, <4>3
        <5>2. u[i] = t[i + 1]
          BY <2>2, <5>1
        <5>. QED  BY <1>1, <4>1, <5>1, <5>2 DEF IndicesOf
      <4>. QED  BY <1>2, <4>1, <4>2, <4>3
    <3>2. ASSUME NEW i \in A, NEW j \in A, h[i] = h[j]
          PROVE  i = j
      <4>1. i \in 1 .. n - 1 /\ j \in 1 .. n - 1
        BY <2>2 DEF IndicesOf
      <4>2. (IF i < k THEN i ELSE i + 1) = (IF j < k THEN j ELSE j + 1)
        BY <3>1, <3>2
      <4>. QED  BY <1>1, <1>2, <4>1, <4>2
    <3>3. ASSUME NEW m \in B
          PROVE  \E i \in A : h[i] = m
      <4>1. m \in 1 .. n /\ m # k /\ t[m].gfd = g
        BY <1>1 DEF IndicesOf
      <4>2. CASE m < k
        <5>1. m \in 1 .. k - 1 /\ m \in 1 .. n - 1
          BY <1>1, <1>2, <4>1, <4>2
        <5>2. m \in A
          BY <2>2, <4>1, <5>1 DEF IndicesOf
        <5>. QED  BY <3>1, <4>2, <5>2
      <4>3. CASE m > k
        <5>1. m - 1 \in k .. n - 1 /\ m - 1 \in 1 .. n - 1 /\ (m - 1) + 1 = m /\ ~(m - 1 < k)
          BY <1>1, <1>2, <4>1, <4>3
        <5>2. u[m - 1] = t[m]
          BY <2>2, <5>1
        <5>3. m - 1 \in A
          BY <2>2, <4>1, <5>1, <5>2 DEF IndicesOf
        <5>. QED  BY <3>1, <5>1, <5>3
      <4>. QED  BY <1>2, <4>1, <4>2, <4>3
    <3>4. h \in [A -> B]
      BY <3>1 DEF Behind
    <3>. HIDE DEF h, A, B
    <3>5. Renames(h, A, B) /\ \A i \in A : t[h[i]].open = u[i].open
      BY <3>1, <3>2, <3>3, <3>4 DEF Renames
    <3>. QED  BY <3>5 DEF Matches, h, A, B
  <2>4. OpenSum(t, gfd) = OpenSum(u, gfd) + 1
    <3>. DEFINE h == Behind(k, IndicesOf(u, gfd))
    <3>0. Matches(u, IndicesOf(u, gfd), t, IndicesOf(t, gfd) \ {k}, h)
      BY <2>3
    <3>. HIDE DEF h
    <3>1. OpenSum(t, gfd) = OpenSum(u, gfd) + t[k].open
      BY <1>2, <1>4, <2>2, <3>0, OpensWithout
    <3>. QED  BY <1>5, <3>1
  <2>5. ASSUME NEW g, g # gfd PROVE OpenSum(t, g) = OpenSum(u, g)
    <3>1. IndicesOf(t, g) \ {k} = IndicesOf(t, g)
      BY <1>2, <2>5 DEF IndicesOf
    <3>2. Matches(u, IndicesOf(u, g), t, IndicesOf(t, g), Behind(k, IndicesOf(u, g)))
      BY <2>3, <3>1
    <3>. QED  BY <1>4, <2>2, <3>2, SameOpens
  <2>6. \A g : OpenSum(u, g) \in Nat
    BY <2>2, SumIsOfEntries
  <2>. QED  BY <1>3, <1>4, <2>2, <2>4, <2>5, <2>6 DEF One, t, u, k
<1>6. CASE t[k].open # 1
  <2>. DEFINE m == t[k].open - 1
  <2>1. u = [t EXCEPT ![k].open = m]
    BY <1>3, <1>6 DEF Decremented
  <2>2. m \in Nat \ {0} /\ m = t[k].open - 1
    BY <1>3, <1>6
  <2>. HIDE DEF m, k, u, t
  <2>3. u \in Seq(Entries) /\ OpenSum(u, gfd) + t[k].open = OpenSum(t, gfd) + m
        /\ \A g : g # gfd => OpenSum(u, g) = OpenSum(t, g)
    <3>. DEFINE v == [t EXCEPT ![k].open = m]
    <3>0. t \in Seq(Entries) /\ k \in 1 .. Len(t) /\ m \in Nat \ {0}
      BY <1>2, <1>4, <2>2 DEF n
    <3>1. v \in Seq(Entries) /\ OpenSum(v, t[k].gfd) + t[k].open = OpenSum(t, t[k].gfd) + m
          /\ \A g : g # t[k].gfd => OpenSum(v, g) = OpenSum(t, g)
      BY ONLY <3>0, CountWritten
    <3>2. u = v
      BY <2>1
    <3>. HIDE DEF v
    <3>. QED  BY <1>2, <3>1, <3>2
  <2>4. \A g : OpenSum(u, g) \in Nat
    BY <2>3, SumIsOfEntries
  <2>5. OpenSum(t, gfd) = OpenSum(u, gfd) + 1
    <3>1. OpenSum(u, gfd) + t[k].open = OpenSum(t, gfd) + m
      BY <2>3
    <3>2. OpenSum(u, gfd) \in Nat /\ OpenSum(t, gfd) \in Nat /\ t[k].open \in Nat
      BY <1>3, <1>4, <2>4
    <3>3. PICK a \in Nat, b \in Nat, o \in Nat : a = OpenSum(u, gfd) /\ b = OpenSum(t, gfd) /\ o = t[k].open
      BY <3>2
    <3>4. a + o = b + (o - 1)
      BY <2>2, <3>1, <3>3
    <3>5. b = a + 1
      BY <3>4
    <3>. QED  BY <3>3, <3>5
  <2>. QED  BY <1>3, <1>4, <2>3, <2>4, <2>5 DEF One, u, k, t
<1>. QED  BY <1>5, <1>6
-----------------------------------------------------------------------------
(* The invariant. *)

\* Each program has one table at most, and only while it has a file open or opens one.
HasReason(p) == TablePos(p) # 0 => Len(FilesOf(p)) > 3 \/ call[p].at \in {"global", "append"}

TablesFit ==
    /\ globalTable \in Seq(Entries)
    /\ processTable \in Seq(Tables) /\ OneEach(processTable)
    /\ exists \subseteq Path
    /\ \A p \in Pid : HasReason(p)

\* What a call carries fits the point where it is.
CallFits(p) ==
    /\ mutex = p <=> call[p].at \in Requests
    /\ call[p].at \in Opening =>
          call[p].path \in Path /\ call[p].flags \in Flags /\ Len(FilesOf(p)) < 3 + MaxOpen
    /\ call[p].at \in {"global", "append"} => TablePos(p) # 0
    /\ call[p].at \in Moving => call[p].gfd \in Nat

CallsFit == call \in [Pid -> CallTypes] /\ \A p \in Pid : CallFits(p)

\* CountsAgree, of every number.
AllFiles == [p \in Pid |-> FilesOf(p)]
Counted(g) == Cardinality(OpenOf(AllFiles, g)) + Cardinality(HeldOf(call, g))
CountsHold == \A g : OpenSum(globalTable, g) = Counted(g)

IInv == TablesFit /\ CallsFit /\ CountsHold

\* A step of p: the others' calls and files stay, and its own files if its call does.
StepOf(p) ==
    /\ \A q \in Pid : q # p => call'[q] = call[q] /\ FilesOf(q)' = FilesOf(q)
    /\ FilesOf(p)' = FilesOf(p) \/ call'[p] # call[p]

\* fs_request_mutex is taken, given back, or left to who has it.
MutexFits(p, c) ==
    \/ mutex' = mutex /\ (c.at \in Requests <=> call[p].at \in Requests)
    \/ mutex = Nobody /\ mutex' = p /\ c.at \in Requests
    \/ mutex' = Nobody /\ call[p].at \in Requests /\ c.at \notin Requests

\* TablePos and FilesOf read the table,
LEMMA InTable ==
    ASSUME NEW p
    PROVE  TablePos(p) = PosOf(processTable, p) /\ FilesOf(p) = FilesIn(processTable, p)
BY DEF TablePos, FilesOf, PosOf, FilesIn

\* and the next ones the next table.
LEMMA InTableNext ==
    ASSUME NEW p
    PROVE  TablePos(p)' = PosOf(processTable', p) /\ FilesOf(p)' = FilesIn(processTable', p)
BY DEF TablePos, FilesOf, PosOf, FilesIn, SelectInSeq

\* What a program has open is a table, or nothing.
LEMMA FilesFit ==
    ASSUME TablesFit, NEW p \in Pid
    PROVE  /\ TablePos(p) = 0 => FilesOf(p) = <<>>
           /\ TablePos(p) # 0 => /\ IsTable(FilesOf(p)) /\ TablePos(p) \in 1 .. Len(processTable)
                                 /\ processTable[TablePos(p)] = [pid |-> p, files |-> FilesOf(p)]
<1>1. CASE TablePos(p) = 0
  BY <1>1 DEF FilesOf
<1>2. CASE TablePos(p) # 0
  <2>1. Len(processTable) \in Nat /\ \A i \in 1 .. Len(processTable) : processTable[i] \in Tables
    BY LenProperties, ElementOfSeq DEF TablesFit
  <2>2. TablePos(p) \in 1 .. Len(processTable) /\ processTable[TablePos(p)].pid = p
    BY <1>2, <2>1, PosIs, InTable
  <2>3. processTable[TablePos(p)] \in Tables /\ FilesOf(p) = processTable[TablePos(p)].files
    BY <1>2, <2>1, <2>2 DEF FilesOf
  <2>. QED  BY <1>2, <2>2, <2>3 DEF Tables
<1>. QED  BY <1>1, <1>2

\* The other calls fit as before.
LEMMA OthersFit ==
    ASSUME CallsFit, NEW p \in Pid, NEW c \in CallTypes, call' = [call EXCEPT ![p] = c], MutexFits(p, c),
           \A q \in Pid : q # p => FilesOf(q)' = FilesOf(q) /\ (TablePos(q)' = 0 <=> TablePos(q) = 0),
           c.at \in Opening => c.path \in Path /\ c.flags \in Flags /\ Len(FilesOf(p)') < 3 + MaxOpen,
           c.at \in {"global", "append"} => TablePos(p)' # 0,
           c.at \in Moving => c.gfd \in Nat
    PROVE  CallsFit' /\ call'[p] = c /\ \A q \in Pid : q # p => call'[q] = call[q]
<1>1. call' \in [Pid -> CallTypes] /\ call'[p] = c /\ \A q \in Pid : q # p => call'[q] = call[q]
  BY DEF CallsFit
<1>2. ASSUME NEW q \in Pid
      PROVE  mutex' = q <=> call'[q].at \in Requests
  <2>1. Nobody \notin Pid
    BY FilesConstants
  <2>2. mutex = p <=> call[p].at \in Requests
    BY DEF CallsFit, CallFits
  <2>3. mutex = q <=> call[q].at \in Requests
    BY DEF CallsFit, CallFits
  <2>. QED  BY <1>1, <2>1, <2>2, <2>3 DEF MutexFits
<1>3. ASSUME NEW q \in Pid, q # p
      PROVE  CallFits(q)'
  BY <1>1, <1>2, <1>3 DEF CallsFit, CallFits
<1>4. CallFits(p)'
  BY <1>1, <1>2 DEF CallFits
<1>. QED  BY <1>1, <1>3, <1>4 DEF CallsFit

\* The steps of a request that change neither table.
LEMMA QuietStep ==
    ASSUME IInv, NEW p \in Pid, NEW c \in CallTypes, call' = [call EXCEPT ![p] = c], MutexFits(p, c),
           UNCHANGED <<globalTable, processTable>>, exists' \subseteq Path,
           call[p].at \notin Moving \cup {"global"}, c.at \notin Moving,
           c.at \in Opening => c.path \in Path /\ c.flags \in Flags /\ Len(FilesOf(p)) < 3 + MaxOpen,
           c.at = "global" => TablePos(p) # 0
    PROVE  IInv' /\ StepOf(p)
<1>1. \A q : FilesOf(q)' = FilesOf(q) /\ TablePos(q)' = TablePos(q)
  BY InTable, InTableNext
<1>2. CallsFit' /\ call'[p] = c /\ \A q \in Pid : q # p => call'[q] = call[q]
  BY <1>1, OthersFit DEF IInv, Moving
<1>3. TablesFit'
  <2>1. ASSUME NEW q \in Pid PROVE HasReason(q)'
    <3>1. HasReason(q)
      BY DEF IInv, TablesFit
    <3>. QED  BY <1>1, <1>2, <3>1 DEF HasReason, Moving
  <2>. QED  BY <2>1 DEF IInv, TablesFit
<1>4. CountsHold'
  <2>1. AllFiles' = AllFiles
    BY <1>1 DEF AllFiles
  <2>2. ASSUME NEW g PROVE HeldOf(call', g) = HeldOf(call, g)
    BY <1>2 DEF HeldOf
  <2>3. \A g : Counted(g)' = Counted(g)
    BY <2>1, <2>2 DEF Counted
  <2>. QED  BY <2>3 DEF CountsHold, IInv
<1>. QED  BY <1>1, <1>2, <1>3, <1>4 DEF IInv, StepOf

\* A descriptor that is open is behind the default ones, and its number counts.
LEMMA OpenIs ==
    ASSUME TablesFit, NEW p \in Pid, NEW fd, IsOpen(p, fd)
    PROVE  /\ TablePos(p) # 0 /\ IsTable(FilesOf(p))
           /\ FilePos(p, fd) \in 4 .. Len(FilesOf(p)) /\ OpenFile(p, fd) = FilesOf(p)[FilePos(p, fd)]
           /\ OpenFile(p, fd) \in OpenFiles /\ OpenFile(p, fd).gfd \in Nat
<1>. DEFINE s == FilesOf(p)
            I == {i \in 1 .. Len(s) : s[i].fd = fd}
            k == FilePos(p, fd)
<1>1. k = IF I # {} THEN Min(I) ELSE 0
  BY DEF FilePos, SelectInSeq
<1>2. k # 0 /\ fd \notin Default
  BY DEF IsOpen
<1>3. I \subseteq Nat
  OBVIOUS
<1>4. k \in I
  <2>. HIDE DEF k, I
  <2>. QED  BY <1>1, <1>2, <1>3, MinIsMember
<1>5. TablePos(p) # 0 /\ IsTable(s)
  <2>1. TablePos(p) # 0
    <3>1. ASSUME s = <<>> PROVE FALSE
      BY <1>4, <3>1
    <3>. QED  BY <3>1, FilesFit
  <2>. QED  BY <2>1, FilesFit
<1>6. k \in 4 .. Len(s)
  <2>1. \A j \in 1 .. 3 : s[j].fd = j - 1
    BY <1>5 DEF IsTable, Defaults, NewFile
  <2>2. Len(s) \in Nat /\ k \in 1 .. Len(s) /\ s[k].fd = fd
    BY <1>4, <1>5 DEF IsTable
  <2>3. ASSUME k \in 1 .. 3 PROVE FALSE
    BY <1>2, <2>1, <2>2, <2>3 DEF Default
  <2>. HIDE DEF k, s
  <2>. QED  BY <2>2, <2>3
<1>7. s[k] \in OpenFiles
  <2>. HIDE DEF k, s
  <2>. QED  BY <1>5, <1>6 DEF IsTable
<1>. QED  BY <1>5, <1>6, <1>7 DEF OpenFile, OpenFiles

\* The number of an open descriptor is that of an entry of the global table.
LEMMA OpenPathIs ==
    ASSUME IInv, NEW p \in Pid, NEW fd, IsOpen(p, fd)
    PROVE  PathByGfd(OpenFile(p, fd).gfd) \in Path
<1>. DEFINE g == OpenFile(p, fd).gfd
            k == FilePos(p, fd)
            x == <<p, k>>
<1>1. k \in 4 .. Len(FilesOf(p)) /\ Len(FilesOf(p)) \in 3 .. 3 + MaxOpen /\ g = FilesOf(p)[k].gfd
      /\ MaxOpen \in Nat
  BY OpenIs, SlotsAreFinite DEF IInv, IsTable
<1>. HIDE DEF g, k
<1>2. x \in OpenOf(AllFiles, g)
  <2>1. x \in Slots /\ x[1] = p /\ x[2] = k
    BY <1>1 DEF Slots
  <2>2. AllFiles[p] = FilesOf(p) /\ k <= Len(FilesOf(p))
    BY <1>1 DEF AllFiles
  <2>. QED  BY <1>1, <2>1, <2>2 DEF OpenOf
<1>3. OpenSum(globalTable, g) # 0
  <2>1. Cardinality(OpenOf(AllFiles, g)) \in Nat /\ Cardinality(OpenOf(AllFiles, g)) # 0
    BY <1>2, SlotsAreFinite, FS_EmptySet
  <2>2. Cardinality(HeldOf(call, g)) \in Nat
    BY SlotsAreFinite
  <2>. QED  BY <2>1, <2>2 DEF IInv, CountsHold, Counted
<1>4. globalTable \in Seq(Entries)
  BY DEF IInv, TablesFit
<1>5. GlobalPos(g) \in 1 .. Len(globalTable)
  BY <1>3, <1>4, SumIsOfEntries, GlobalPosIs
<1>6. globalTable[GlobalPos(g)] \in Entries
  BY <1>4, <1>5, ElementOfSeq
<1>. QED  BY <1>6 DEF PathByGfd, Entries, g
-----------------------------------------------------------------------------
(* The requests, where they change no table. *)

\* Where a request begins anew.
LEMMA RunningFits ==
    /\ Running \in CallTypes /\ Running.at = "run"
    /\ \A at \in {"ending", "transfer", "finished"} :
          [Running EXCEPT !.at = at] \in CallTypes /\ [Running EXCEPT !.at = at].at = at
<1>1. Running \in CallTypes /\ Running.at = "run"
  <2>1. "run" \in Points /\ -1 \in Int
    BY DEF Points
  <2>. QED  BY <2>1 DEF Running, CallTypes
<1>2. ASSUME NEW r \in CallTypes, NEW at \in {"ending", "transfer", "finished"}
      PROVE  [r EXCEPT !.at = at] \in CallTypes /\ [r EXCEPT !.at = at].at = at
  <2>1. at \in Points
    BY DEF Points, Requests
  <2>. QED  BY <2>1 DEF CallTypes
<1>. QED  BY <1>1, <1>2

\* Given back by who had it, or not had.
LEMMA GivesUp ==
    ASSUME IInv, NEW p \in Pid, UNCHANGED <<globalTable, processTable>>, exists' \subseteq Path,
           Run(p) \/ Refuse(p),
           \/ call[p].at \in {"validate", "create", "delete", "transfer"} /\ Unlock(p)
           \/ call[p].at = "run" /\ UNCHANGED mutex
    PROVE  IInv' /\ StepOf(p)
<1>1. PICK c \in CallTypes : c.at \in {"run", "ending"} /\ call' = [call EXCEPT ![p] = c]
  BY RunningFits DEF Run, Refuse, Go
<1>2. MutexFits(p, c)
  BY <1>1 DEF MutexFits, Unlock, Requests
<1>3. c.at \notin Opening /\ c.at \notin Moving /\ call[p].at \notin Moving \cup {"global"}
  BY <1>1 DEF Opening, Moving
<1>4. c.at # "global"
  BY <1>1
<1>. QED  BY <1>1, <1>2, <1>3, <1>4, QuietStep

\* A request that goes on, with or without fs_request_mutex.
LEMMA GoesOn ==
    ASSUME IInv, NEW p \in Pid, UNCHANGED <<globalTable, processTable>>, exists' \subseteq Path,
           NEW c \in CallTypes, call' = [call EXCEPT ![p] = c], MutexFits(p, c),
           call[p].at \notin Moving \cup {"global"}, c.at \notin Moving \cup Opening
    PROVE  IInv' /\ StepOf(p)
<1>1. c.at # "global" /\ c.at \notin Moving /\ c.at \notin Opening
  BY DEF Opening
<1>. QED  BY <1>1, QuietStep

\* The parts of an opening before the tables.
LEMMA OpeningKeeps ==
    ASSUME IInv, NEW p \in Pid,
           \/ \E path \in Path, flags \in Flags : ValidateFile(p, path, flags)
           \/ FileValidated(p) \/ OpenRequest(p) \/ FileCreated(p) \/ NotCreated(p)
    PROVE  IInv' /\ StepOf(p)
<1>0. /\ call[p] \in CallTypes /\ CallFits(p) /\ exists \subseteq Path /\ call \in [Pid -> CallTypes]
      /\ FilesOf(p) = <<>> \/ Len(FilesOf(p)) \in Nat
  BY FilesFit DEF IInv, CallsFit, TablesFit, IsTable
<1>1. ASSUME NEW path \in Path, NEW flags \in Flags, ValidateFile(p, path, flags)
      PROVE  IInv' /\ StepOf(p)
  <2>. DEFINE c == [Running EXCEPT !.at = "validate", !.path = path, !.flags = flags]
  <2>1. c \in CallTypes /\ c.at = "validate" /\ c.path = path /\ c.flags = flags
    <3>1. PICK r \in CallTypes : r = Running
      BY RunningFits
    <3>. QED  BY <3>1 DEF CallTypes, Points, Requests
  <2>2. /\ call' = [call EXCEPT ![p] = c] /\ mutex = Nobody /\ mutex' = p /\ call[p].at = "run"
        /\ UNCHANGED <<globalTable, processTable>> /\ exists' \subseteq Path /\ Len(FilesOf(p)) < 3 + MaxOpen
    BY <1>0, <1>1 DEF ValidateFile, Go, Lock, At
  <2>. HIDE DEF c
  <2>3. MutexFits(p, c) /\ call[p].at \notin Moving \cup {"global"} /\ c.at \notin Moving /\ c.at # "global"
    BY <2>1, <2>2 DEF MutexFits, Requests, Moving
  <2>. QED  BY <2>1, <2>2, <2>3, QuietStep
<1>2. ASSUME FileValidated(p)
      PROVE  IInv' /\ StepOf(p)
  <2>. DEFINE valid == call[p].path \in exists
              c == [call[p] EXCEPT !.at = "validated", !.valid = valid]
  <2>1. /\ Unlock(p) /\ call[p].at = "validate" /\ UNCHANGED <<globalTable, processTable>> /\ exists' \subseteq Path
        /\ call' = [call EXCEPT ![p] = c] \/ Refuse(p)
    BY <1>0, <1>2 DEF FileValidated, Go, At
  <2>2. CASE Refuse(p)
    BY <2>1, <2>2, GivesUp
  <2>3. CASE call' = [call EXCEPT ![p] = c]
    <3>1. c \in CallTypes /\ c.at = "validated" /\ c.path = call[p].path /\ c.flags = call[p].flags
      <4>1. PICK r \in CallTypes : r = call[p]
        BY <1>0
      <4>0. valid \in BOOLEAN
        OBVIOUS
      <4>2. PICK v \in BOOLEAN : v = valid
        BY <4>0
      <4>3. LET d == [r EXCEPT !.at = "validated", !.valid = v]
            IN  d \in CallTypes /\ d.at = "validated" /\ d.path = r.path /\ d.flags = r.flags
        BY DEF CallTypes, Points
      <4>. QED  BY <4>1, <4>2, <4>3
    <3>. HIDE DEF c
    <3>2. MutexFits(p, c) /\ call[p].at \notin Moving \cup {"global"} /\ c.at \notin Moving /\ c.at # "global"
      BY <2>1, <3>1 DEF MutexFits, Requests, Moving, Unlock
    <3>3. c.path \in Path /\ c.flags \in Flags /\ Len(FilesOf(p)) < 3 + MaxOpen
      BY <1>0, <2>1, <3>1 DEF CallFits, Opening
    <3>. QED  BY <2>1, <2>3, <3>1, <3>2, <3>3, QuietStep
  <2>. QED  BY <2>1, <2>2, <2>3
<1>3. ASSUME NEW at \in {"table", "create"}, call' = [call EXCEPT ![p] = [call[p] EXCEPT !.at = at]],
             UNCHANGED <<globalTable, processTable>>, exists' \subseteq Path,
             \/ call[p].at = "validated" /\ Lock(p)
             \/ call[p].at = "create" /\ UNCHANGED mutex
      PROVE  IInv' /\ StepOf(p)
  <2>. DEFINE c == [call[p] EXCEPT !.at = at]
  <2>1. c \in CallTypes /\ c.at = at /\ c.path = call[p].path /\ c.flags = call[p].flags
    BY <1>0 DEF CallTypes, Points, Requests
  <2>. HIDE DEF c
  <2>2. MutexFits(p, c) /\ call[p].at \notin Moving \cup {"global"} /\ c.at \notin Moving /\ c.at # "global"
    BY <1>3, <2>1 DEF MutexFits, Requests, Moving, Lock
  <2>3. c.path \in Path /\ c.flags \in Flags /\ Len(FilesOf(p)) < 3 + MaxOpen
    BY <1>0, <1>3, <2>1 DEF CallFits, Opening
  <2>. QED  BY <1>3, <2>1, <2>2, <2>3, QuietStep DEF c
<1>4. ASSUME OpenRequest(p)
      PROVE  IInv' /\ StepOf(p)
  <2>. DEFINE at == IF call[p].valid THEN "table" ELSE "create"
  <2>1. at \in {"table", "create"} /\ call' = [call EXCEPT ![p] = [call[p] EXCEPT !.at = at]]
        /\ UNCHANGED <<globalTable, processTable>> /\ exists' \subseteq Path
        /\ call[p].at = "validated" /\ Lock(p)
    BY <1>0, <1>4 DEF OpenRequest, Go, At
  <2>. HIDE DEF at
  <2>. QED  BY <1>3, <2>1
<1>5. ASSUME FileCreated(p)
      PROVE  IInv' /\ StepOf(p)
  <2>1. "table" \in {"table", "create"} /\ call' = [call EXCEPT ![p] = [call[p] EXCEPT !.at = "table"]]
        /\ UNCHANGED <<globalTable, processTable>> /\ exists' \subseteq Path
        /\ call[p].at = "create" /\ UNCHANGED mutex
    BY <1>0, <1>5 DEF FileCreated, Go, At, CallFits, Opening
  <2>. QED  BY <1>3, <2>1
<1>6. ASSUME NotCreated(p)
      PROVE  IInv' /\ StepOf(p)
  <2>1. Refuse(p) /\ Unlock(p) /\ call[p].at = "create" /\ UNCHANGED <<globalTable, processTable>>
        /\ exists' \subseteq Path
    BY <1>0, <1>6 DEF NotCreated, At
  <2>. QED  BY <2>1, GivesUp
<1>. QED  BY <1>1, <1>2, <1>4, <1>5, <1>6

\* The requests on open files.
LEMMA RequestsKeep ==
    ASSUME IInv, NEW p \in Pid,
           \/ FileDeleted(p) \/ Transferred(p)
           \/ \E fd \in Descriptor :
                 DeleteFile(p, fd) \/ SeekFile(p, fd) \/ WriteFile(p, fd) \/ ReadFile(p, fd)
    PROVE  IInv' /\ StepOf(p)
<1>0. /\ call[p] \in CallTypes /\ CallFits(p) /\ exists \subseteq Path
  BY DEF IInv, CallsFit, TablesFit
<1>1. CASE FileDeleted(p)
  <2>1. (Run(p) \/ Refuse(p)) /\ call[p].at = "delete" /\ Unlock(p) /\ UNCHANGED <<globalTable, processTable>>
        /\ exists' \subseteq Path
    BY <1>0, <1>1 DEF FileDeleted, At
  <2>. QED  BY <2>1, GivesUp
<1>2. CASE Transferred(p)
  <2>1. (Run(p) \/ Refuse(p)) /\ call[p].at = "transfer" /\ Unlock(p) /\ UNCHANGED <<globalTable, processTable>>
        /\ exists' \subseteq Path
    BY <1>0, <1>2 DEF Transferred, At
  <2>. QED  BY <2>1, GivesUp
<1>3. ASSUME NEW c \in CallTypes, c.at \in {"delete", "transfer"}, call[p].at = "run", Lock(p), Go(p, c),
             UNCHANGED <<globalTable, processTable, exists>>
      PROVE  IInv' /\ StepOf(p)
  <2>1. MutexFits(p, c) /\ call[p].at \notin Moving \cup {"global"} /\ c.at \notin Moving \cup Opening
    BY <1>3 DEF MutexFits, Lock, Requests, Moving, Opening
  <2>2. call' = [call EXCEPT ![p] = c] /\ exists' \subseteq Path
    BY <1>0, <1>3 DEF Go
  <2>. QED  BY <1>3, <2>1, <2>2, GoesOn
<1>4. ASSUME call[p].at = "run", Refuse(p), UNCHANGED <<globalTable, processTable, mutex, exists>>
      PROVE  IInv' /\ StepOf(p)
  <2>1. exists' \subseteq Path
    BY <1>0, <1>4
  <2>. QED  BY <1>4, <2>1, GivesUp
<1>5. ASSUME NEW fd \in Descriptor, DeleteFile(p, fd)
      PROVE  IInv' /\ StepOf(p)
  <2>. DEFINE gfd == OpenFile(p, fd).gfd
              c == [Running EXCEPT !.at = "delete", !.path = PathByGfd(gfd)]
  <2>1. /\ call[p].at = "run" /\ IsOpen(p, fd) /\ UNCHANGED <<globalTable, processTable, exists>>
        /\ (Lock(p) /\ Go(p, c)) \/ (Refuse(p) /\ UNCHANGED mutex)
    BY <1>5 DEF DeleteFile, At
  <2>2. CASE Refuse(p) /\ UNCHANGED mutex
    BY <1>4, <2>1, <2>2
  <2>3. CASE Lock(p) /\ Go(p, c)
    <3>1. PathByGfd(gfd) \in Path
      BY <1>5, <2>1, OpenPathIs
    <3>2. c \in CallTypes /\ c.at = "delete"
      <4>1. PICK path \in Path : path = PathByGfd(gfd)
        BY <3>1
      <4>2. PICK r \in CallTypes : r = Running
        BY RunningFits
      <4>3. [r EXCEPT !.at = "delete", !.path = path] \in CallTypes
        BY DEF CallTypes, Points, Requests
      <4>. QED  BY <4>1, <4>2, <4>3
    <3>. HIDE DEF c
    <3>. QED  BY <1>3, <2>1, <2>3, <3>2
  <2>. QED  BY <2>1, <2>2, <2>3
<1>6. ASSUME NEW fd \in Descriptor, SeekFile(p, fd)
      PROVE  IInv' /\ StepOf(p)
  BY <1>4, <1>6 DEF SeekFile, At
<1>. DEFINE d == [Running EXCEPT !.at = "transfer"]
<1>7. d \in CallTypes /\ d.at = "transfer"
  BY RunningFits
<1>8. ASSUME NEW fd \in Descriptor, WriteFile(p, fd)
      PROVE  IInv' /\ StepOf(p)
  <2>1. /\ call[p].at = "run" /\ UNCHANGED <<globalTable, processTable, exists>>
        /\ (Lock(p) /\ Go(p, d)) \/ (Refuse(p) /\ UNCHANGED mutex)
    BY <1>8 DEF WriteFile, At
  <2>. HIDE DEF d
  <2>. QED  BY <1>3, <1>4, <1>7, <2>1
<1>9. ASSUME NEW fd \in Descriptor, ReadFile(p, fd)
      PROVE  IInv' /\ StepOf(p)
  <2>1. call[p].at = "run" /\ UNCHANGED <<globalTable, processTable, exists>> /\ Lock(p) /\ Go(p, d)
    BY <1>9 DEF ReadFile, At
  <2>. HIDE DEF d
  <2>. QED  BY <1>3, <1>7, <2>1
<1>. QED  BY <1>1, <1>2, <1>5, <1>6, <1>8, <1>9
-----------------------------------------------------------------------------
(* The requests and the ends of programs, where they change a table. *)

\* An opening that is counted is counted for a descriptor, there or on its way.
Moved(c, g) == IF c.at \in Moving THEN One(c.gfd, g) ELSE 0
Balanced(p, c) ==
    \A g : OpenSum(globalTable', g) + Cardinality(OpenOf(AllFiles, g)) + Moved(call[p], g)
            = OpenSum(globalTable, g) + Cardinality(OpenOf(AllFiles', g)) + Moved(c, g)

\* The tables of the others stay, wherever they are.
OthersStay(p) ==
    /\ processTable' \in Seq(Tables) /\ OneEach(processTable')
    /\ \A q \in Pid : q # p => /\ FilesIn(processTable', q) = FilesIn(processTable, q)
                               /\ PosOf(processTable', q) = 0 <=> PosOf(processTable, q) = 0

\* The table of p and its call go together.
OwnFits(p, c) ==
    /\ PosOf(processTable', p) # 0 => Len(FilesIn(processTable', p)) > 3 \/ c.at \in {"global", "append"}
    /\ c.at \in {"global", "append"} => PosOf(processTable', p) # 0
    /\ c.at \in Opening =>
          c.path \in Path /\ c.flags \in Flags /\ Len(FilesIn(processTable', p)) < 3 + MaxOpen
    /\ c.at \in Moving => c.gfd \in Nat
    /\ c # call[p]

\* The steps that change a table.
LEMMA TableStep ==
    ASSUME IInv, NEW p \in Pid, NEW c \in CallTypes, call' = [call EXCEPT ![p] = c], MutexFits(p, c),
           globalTable' \in Seq(Entries), exists' \subseteq Path,
           OthersStay(p), OwnFits(p, c), Balanced(p, c)
    PROVE  IInv' /\ StepOf(p)
<1>1. \A q \in Pid : q # p => FilesOf(q)' = FilesOf(q) /\ (TablePos(q)' = 0 <=> TablePos(q) = 0)
  BY InTable, InTableNext DEF OthersStay
<1>2. FilesOf(p)' = FilesIn(processTable', p) /\ TablePos(p)' = PosOf(processTable', p)
  BY InTableNext
<1>3. CallsFit' /\ call'[p] = c /\ \A q \in Pid : q # p => call'[q] = call[q]
  <2>1. /\ c.at \in Opening => c.path \in Path /\ c.flags \in Flags /\ Len(FilesOf(p)') < 3 + MaxOpen
        /\ c.at \in {"global", "append"} => TablePos(p)' # 0
        /\ c.at \in Moving => c.gfd \in Nat
    BY <1>2 DEF OwnFits
  <2>. QED  BY <1>1, <2>1, OthersFit DEF IInv
<1>4. TablesFit'
  <2>1. ASSUME NEW q \in Pid PROVE HasReason(q)'
    <3>1. HasReason(q)
      BY DEF IInv, TablesFit
    <3>. QED  BY <1>1, <1>2, <1>3, <3>1 DEF HasReason, OwnFits
  <2>. QED  BY <2>1 DEF TablesFit, OthersStay
<1>5. CountsHold'
  <2>1. ASSUME NEW g PROVE OpenSum(globalTable', g) = Counted(g)'
    <3>1. Cardinality(HeldOf(call', g)) + Moved(call[p], g) = Cardinality(HeldOf(call, g)) + Moved(c, g)
      <4>1. \A q \in Pid : q # p => call'[q] = call[q]
        BY <1>3
      <4>2. Cardinality(HeldOf(call', g)) + (IF call[p].at \in Moving THEN One(call[p].gfd, g) ELSE 0)
              = Cardinality(HeldOf(call, g)) + (IF call'[p].at \in Moving THEN One(call'[p].gfd, g) ELSE 0)
        BY ONLY <4>1, p \in Pid, HeldStep
      <4>. QED  BY <1>3, <4>2 DEF Moved
    <3>2. Moved(call[p], g) \in Nat /\ Moved(c, g) \in Nat
      BY DEF Moved, One
    <3>3. /\ Cardinality(HeldOf(call', g)) \in Nat /\ Cardinality(HeldOf(call, g)) \in Nat
          /\ Cardinality(OpenOf(AllFiles', g)) \in Nat /\ Cardinality(OpenOf(AllFiles, g)) \in Nat
      BY SlotsAreFinite
    <3>4. OpenSum(globalTable', g) \in Nat /\ OpenSum(globalTable, g) \in Nat
      BY SumIsOfEntries DEF IInv, TablesFit
    <3>5. OpenSum(globalTable, g) = Cardinality(OpenOf(AllFiles, g)) + Cardinality(HeldOf(call, g))
      BY DEF IInv, CountsHold, Counted
    <3>6. OpenSum(globalTable', g) + Cardinality(OpenOf(AllFiles, g)) + Moved(call[p], g)
            = OpenSum(globalTable, g) + Cardinality(OpenOf(AllFiles', g)) + Moved(c, g)
      BY DEF Balanced
    <3>7. OpenSum(globalTable', g) = Cardinality(OpenOf(AllFiles', g)) + Cardinality(HeldOf(call', g))
      BY ONLY <3>1, <3>2, <3>3, <3>4, <3>5, <3>6
    <3>. QED  BY <3>7 DEF Counted
  <2>. QED  BY <2>1 DEF CountsHold
<1>. QED  BY <1>1, <1>3, <1>4, <1>5 DEF IInv, StepOf, OwnFits

\* The default descriptors alone are a table.
LEMMA DefaultsAreTable == IsTable(Defaults) /\ Len(Defaults) = 3
<1>1. Defaults \in [1 .. 3 -> Files] /\ MaxOpen \in Nat
  BY FilesConstants DEF Defaults, Files
<1>2. Defaults \in Seq(Files) /\ Len(Defaults) = 3
  <2>1. PICK n \in Nat : n = 3
    OBVIOUS
  <2>2. PICK d \in [1 .. n -> Files] : d = Defaults
    BY <1>1, <2>1
  <2>3. d \in Seq(Files) /\ Len(d) = n
    OBVIOUS
  <2>. QED  BY <2>1, <2>2, <2>3
<1>. QED  BY <1>1, <1>2 DEF IsTable

\* Nothing opened is nothing counted.
LEMMA SameFiles ==
    ASSUME NEW F, NEW G, NEW g, \A q \in Pid : G[q] = F[q] \/ (Len(F[q]) \in 0 .. 3 /\ Len(G[q]) \in 0 .. 3)
    PROVE  OpenOf(G, g) = OpenOf(F, g)
<1>1. ASSUME NEW q \in Slots
      PROVE  q \in OpenOf(G, g) <=> q \in OpenOf(F, g)
  <2>1. q[1] \in Pid /\ q[2] \in 4 .. 3 + MaxOpen /\ MaxOpen \in Nat
    BY SlotsAreFinite DEF Slots
  <2>. QED  BY <2>1 DEF OpenOf
<1>. QED  BY <1>1 DEF OpenOf

\* What a program asked to open is unchanged where its call goes on.
LEMMA CallOf ==
    ASSUME IInv, NEW p \in Pid
    PROVE  /\ call[p] \in CallTypes /\ CallFits(p) /\ exists \subseteq Path /\ call \in [Pid -> CallTypes]
           /\ FilesOf(p) = <<>> \/ Len(FilesOf(p)) \in 3 .. 3 + MaxOpen
           /\ globalTable \in Seq(Entries) /\ processTable \in Seq(Tables) /\ OneEach(processTable)
           /\ TablePos(p) = PosOf(processTable, p) /\ FilesOf(p) = FilesIn(processTable, p)
           /\ MaxOpen \in Nat \ {0}
BY FilesFit, InTable, FilesConstants DEF IInv, CallsFit, TablesFit, IsTable

\* open_file_in_process_table keeps the invariant.
LEMMA FindTableKeeps ==
    ASSUME IInv, NEW p \in Pid, FindTable(p)
    PROVE  IInv' /\ StepOf(p)
<1>1. /\ call[p].at = "table" /\ UNCHANGED <<globalTable, mutex, exists>>
      /\ call[p] \in CallTypes /\ exists' \subseteq Path /\ call[p].path \in Path /\ call[p].flags \in Flags
      /\ Len(FilesOf(p)) < 3 + MaxOpen
  BY CallOf DEF FindTable, At, CallFits, Opening
<1>2. ASSUME NEW n \in Nat
      PROVE  LET c == [call[p] EXCEPT !.at = "global", !.pos = n]
             IN  /\ c \in CallTypes /\ c.at = "global" /\ c.path = call[p].path /\ c.flags = call[p].flags
                 /\ MutexFits(p, c)
  <2>1. PICK r \in CallTypes : r = call[p]
    BY <1>1
  <2>2. LET c == [r EXCEPT !.at = "global", !.pos = n]
        IN  c \in CallTypes /\ c.at = "global" /\ c.path = r.path /\ c.flags = r.flags
    BY DEF CallTypes, Points, Requests
  <2>. QED  BY <1>1, <2>1, <2>2 DEF MutexFits, Requests
<1>3. CASE TablePos(p) = 0
  <2>. DEFINE n == Len(processTable) + 1
              c == [call[p] EXCEPT !.at = "global", !.pos = n]
  <2>1. call' = [call EXCEPT ![p] = c] /\ processTable' = Append(processTable, [pid |-> p, files |-> Defaults])
    BY <1>3 DEF FindTable, Go
  <2>2. n \in Nat
    BY CallOf, LenProperties
  <2>. HIDE DEF n
  <2>3. c \in CallTypes /\ c.at = "global" /\ c.path = call[p].path /\ c.flags = call[p].flags /\ MutexFits(p, c)
    BY <1>2, <2>2
  <2>. HIDE DEF c
  <2>4. /\ processTable' \in Seq(Tables) /\ OneEach(processTable')
        /\ PosOf(processTable', p) = Len(processTable) + 1 /\ FilesIn(processTable', p) = Defaults
        /\ \A q : q # p => /\ PosOf(processTable', q) = PosOf(processTable, q)
                           /\ FilesIn(processTable', q) = FilesIn(processTable, q)
    BY <1>3, <2>1, CallOf, DefaultsAreTable, TableAdded
  <2>5. OthersStay(p)
    BY <2>4 DEF OthersStay
  <2>6. OwnFits(p, c)
    <3>1. Len(processTable) + 1 # 0 /\ 3 < 3 + MaxOpen
      BY CallOf, LenProperties
    <3>. QED  BY <1>1, <2>3, <2>4, <3>1, DefaultsAreTable DEF OwnFits, Moving
  <2>7. Balanced(p, c)
    <3>1. \A q \in Pid : \/ AllFiles'[q] = AllFiles[q]
                         \/ Len(AllFiles[q]) \in 0 .. 3 /\ Len(AllFiles'[q]) \in 0 .. 3
      <4>1. FilesOf(p) = <<>> /\ FilesOf(p)' = Defaults
        BY <1>3, <2>4, InTableNext DEF FilesOf
      <4>2. \A q \in Pid : q # p => FilesOf(q)' = FilesOf(q)
        BY <2>4, InTable, InTableNext
      <4>. QED  BY <4>1, <4>2, DefaultsAreTable DEF AllFiles
    <3>2. \A g : OpenOf(AllFiles', g) = OpenOf(AllFiles, g)
      BY <3>1, SameFiles
    <3>3. \A g : Moved(call[p], g) = 0 /\ Moved(c, g) = 0
      BY <1>1, <2>3 DEF Moved, Moving
    <3>. QED  BY <1>1, <3>2, <3>3 DEF Balanced
  <2>8. globalTable' \in Seq(Entries)
    BY <1>1, CallOf
  <2>. QED  BY <1>1, <2>1, <2>3, <2>5, <2>6, <2>7, <2>8, TableStep
<1>4. CASE TablePos(p) # 0
  <2>. DEFINE c == [call[p] EXCEPT !.at = "global", !.pos = TablePos(p)]
  <2>1. call' = [call EXCEPT ![p] = c] /\ UNCHANGED processTable
    BY <1>4 DEF FindTable, Go
  <2>2. TablePos(p) \in Nat
    <3>1. TablePos(p) \in 1 .. Len(processTable)
      BY <1>4, FilesFit DEF IInv
    <3>. QED  BY <3>1
  <2>3. c \in CallTypes /\ c.at = "global" /\ c.path = call[p].path /\ c.flags = call[p].flags /\ MutexFits(p, c)
    BY <1>2, <2>2
  <2>. HIDE DEF c
  <2>4. call[p].at \notin Moving \cup {"global"} /\ c.at \notin Moving
    BY <1>1, <2>3 DEF Moving
  <2>. QED  BY <1>1, <1>4, <2>1, <2>3, <2>4, QuietStep
<1>. QED  BY <1>3, <1>4

\* A file that is opened goes behind those that are.
LEMMA FileAdded ==
    ASSUME NEW s, IsTable(s), Len(s) < 3 + MaxOpen, NEW f \in OpenFiles
    PROVE  /\ IsTable(Append(s, f)) /\ Len(Append(s, f)) = Len(s) + 1
           /\ \A j \in 1 .. Len(s) : Append(s, f)[j] = s[j]
           /\ Append(s, f)[Len(s) + 1] = f
<1>. DEFINE u == Append(s, f)
            n == Len(s)
<1>1. MaxOpen \in Nat /\ s \in Seq(Files) /\ f \in Files /\ n \in Nat
  BY FilesConstants DEF IsTable, Files
<1>2. /\ u \in Seq(Files) /\ Len(u) = n + 1 /\ u[n + 1] = f
      /\ \A j \in 1 .. n : u[j] = s[j]
  BY <1>1, AppendProperties
<1>. HIDE DEF u
<1>3. n \in 3 .. 3 + MaxOpen /\ (\A j \in 1 .. 3 : s[j] = Defaults[j]) /\ \A j \in 4 .. n : s[j] \in OpenFiles
  BY DEF IsTable
<1>4. \A j \in 1 .. 3 : u[j] = Defaults[j]
  BY <1>1, <1>2, <1>3
<1>5. \A j \in 4 .. n + 1 : u[j] \in OpenFiles
  BY <1>1, <1>2, <1>3
<1>6. n + 1 \in 3 .. 3 + MaxOpen
  BY <1>1, <1>3
<1>7. IsTable(u)
  BY <1>2, <1>4, <1>5, <1>6 DEF IsTable
<1>. QED  BY <1>2, <1>7 DEF u

\* add_file_in_global_table keeps the invariant,
LEMMA AddFileKeeps ==
    ASSUME IInv, NEW p \in Pid, AddFileInGlobalTable(p)
    PROVE  IInv' /\ StepOf(p)
<1>. DEFINE path == call[p].path
            c == [call[p] EXCEPT !.at = "append", !.gfd = Added(path).gfd]
<1>1. /\ call[p].at = "global" /\ UNCHANGED <<processTable, mutex, exists>>
      /\ call[p] \in CallTypes /\ exists' \subseteq Path /\ path \in Path /\ call[p].flags \in Flags
      /\ Len(FilesOf(p)) < 3 + MaxOpen /\ TablePos(p) # 0
      /\ globalTable' = Added(path).table /\ call' = [call EXCEPT ![p] = c]
  BY CallOf DEF AddFileInGlobalTable, At, CallFits, Opening, Go
<1>2. globalTable \in Seq(Entries)
  BY CallOf
<1>3. /\ Added(path).gfd \in Nat /\ globalTable' \in Seq(Entries)
      /\ \A g : OpenSum(globalTable', g) = OpenSum(globalTable, g) + One(Added(path).gfd, g)
  BY <1>1, <1>2, AddedCounts
<1>4. c \in CallTypes /\ c.at = "append" /\ c.path = path /\ c.flags = call[p].flags /\ c.gfd = Added(path).gfd
  <2>1. PICK r \in CallTypes : r = call[p]
    BY <1>1
  <2>2. PICK n \in Int : n = Added(path).gfd
    BY <1>3
  <2>3. LET d == [r EXCEPT !.at = "append", !.gfd = n]
        IN  d \in CallTypes /\ d.at = "append" /\ d.path = r.path /\ d.flags = r.flags /\ d.gfd = n
    BY DEF CallTypes, Points, Requests
  <2>. QED  BY <2>1, <2>2, <2>3
<1>. HIDE DEF c, path
<1>5. MutexFits(p, c)
  BY <1>1, <1>4 DEF MutexFits, Requests
<1>6. OthersStay(p)
  BY <1>1, CallOf DEF OthersStay
<1>7. OwnFits(p, c)
  <2>1. PosOf(processTable', p) # 0 /\ Len(FilesIn(processTable', p)) < 3 + MaxOpen
    BY <1>1, CallOf
  <2>. QED  BY <1>1, <1>3, <1>4, <2>1 DEF OwnFits
<1>8. Balanced(p, c)
  <2>1. AllFiles' = AllFiles
    BY <1>1, InTable, InTableNext DEF AllFiles
  <2>2. ASSUME NEW g
        PROVE  OpenSum(globalTable', g) + Cardinality(OpenOf(AllFiles, g)) + Moved(call[p], g)
                = OpenSum(globalTable, g) + Cardinality(OpenOf(AllFiles', g)) + Moved(c, g)
    <3>1. Moved(call[p], g) = 0 /\ Moved(c, g) = One(Added(path).gfd, g)
      BY <1>1, <1>4 DEF Moved, Moving
    <3>2. OpenSum(globalTable, g) \in Nat /\ Cardinality(OpenOf(AllFiles, g)) \in Nat
          /\ One(Added(path).gfd, g) \in Nat
      BY <1>2, SumIsOfEntries, SlotsAreFinite DEF One
    <3>3. OpenSum(globalTable', g) = OpenSum(globalTable, g) + One(Added(path).gfd, g)
      BY <1>3
    <3>. QED  BY <2>1, <3>1, <3>2, <3>3
  <2>. QED  BY <2>2 DEF Balanced
<1>. QED  BY <1>1, <1>3, <1>4, <1>5, <1>6, <1>7, <1>8, TableStep

\* list_replace of a table by itself, or where there is none, changes nothing.
LEMMA ReplacedBySame ==
    ASSUME NEW t \in Seq(Tables), NEW k \in Nat, NEW e, k \in 1 .. Len(t) => t[k] = e
    PROVE  Replaced(t, k, e) = t
<1>1. Len(t) \in Nat /\ DOMAIN t = 1 .. Len(t) /\ t \in [1 .. Len(t) -> Tables]
  BY LenProperties
<1>. QED  BY <1>1 DEF Replaced

\* and the descriptor takes over its count when it is there.
LEMMA FileOpenedKeeps ==
    ASSUME IInv, PositionStays, NEW p \in Pid, FileOpened(p)
    PROVE  IInv' /\ StepOf(p)
<1>. DEFINE s == FilesOf(p)
            f == NewFile(Len(s), call[p].gfd, call[p].flags, call[p].path)
            files == Append(s, f)
            t == processTable
            u == WithFiles(t, p, files)
<1>1. /\ call[p].at = "append" /\ Run(p) /\ Unlock(p) /\ UNCHANGED <<globalTable, exists>>
      /\ call[p] \in CallTypes /\ exists' \subseteq Path /\ call[p].path \in Path /\ call[p].flags \in Flags
      /\ call[p].gfd \in Nat /\ Len(s) < 3 + MaxOpen /\ TablePos(p) # 0
      /\ processTable' = Replaced([t EXCEPT ![TablePos(p)].files = files], call[p].pos, [pid |-> p, files |-> files])
  BY CallOf DEF FileOpened, At, CallFits, Opening, Moving
<1>2. /\ t \in Seq(Tables) /\ OneEach(t) /\ TablePos(p) = PosOf(t, p) /\ MaxOpen \in Nat
      /\ globalTable \in Seq(Entries) /\ PosOf(t, p) # 0
  BY <1>1, CallOf
<1>3. IsTable(s) /\ PosOf(t, p) \in 1 .. Len(t) /\ t[PosOf(t, p)].pid = p
  <2>1. /\ IsTable(FilesOf(p)) /\ TablePos(p) \in 1 .. Len(processTable)
        /\ processTable[TablePos(p)] = [pid |-> p, files |-> FilesOf(p)]
    BY <1>1, FilesFit DEF IInv
  <2>. QED  BY <1>2, <2>1
<1>4. f \in OpenFiles /\ f.gfd = call[p].gfd
  <2>1. Len(s) \in Descriptor
    BY <1>1, <1>2, <1>3 DEF IsTable, Descriptor
  <2>. HIDE DEF s
  <2>. QED  BY <1>1, <2>1 DEF NewFile, OpenFiles
<1>. HIDE DEF f, s
<1>5. /\ IsTable(files) /\ Len(files) = Len(s) + 1 /\ files[Len(s) + 1] = f
      /\ \A j \in 1 .. Len(s) : files[j] = s[j]
  BY <1>1, <1>3, <1>4, FileAdded
<1>. HIDE DEF files
<1>6. /\ u \in Seq(Tables) /\ OneEach(u) /\ Len(u) = Len(t)
      /\ FilesIn(u, p) = files /\ \A q : PosOf(u, q) = PosOf(t, q)
      /\ \A q : q # p => FilesIn(u, q) = FilesIn(t, q)
  <2>1. t \in Seq(Tables) /\ OneEach(t) /\ PosOf(t, p) # 0 /\ IsTable(files) /\ p \in Pid
    BY <1>2, <1>5
  <2>. HIDE DEF t
  <2>. QED  BY ONLY <2>1, TableReplaced
<1>7. processTable' = u
  <2>1. u[PosOf(t, p)] = [pid |-> p, files |-> files]
    <3>1. t[PosOf(t, p)] \in Tables
      BY <1>2, <1>3, ElementOfSeq
    <3>2. u[PosOf(t, p)] = [t[PosOf(t, p)] EXCEPT !.files = files]
      BY <1>2, <1>3, LenProperties DEF WithFiles
    <3>. QED  BY <1>3, <3>1, <3>2 DEF Tables
  <2>2. call[p].pos \in Nat /\ (call[p].pos = PosOf(t, p) \/ call[p].pos > Len(t))
    BY <1>1, <1>2 DEF PositionStays, CallTypes
  <2>3. call[p].pos \in 1 .. Len(u) => u[call[p].pos] = [pid |-> p, files |-> files]
    BY <1>2, <1>6, <2>1, <2>2, LenProperties
  <2>4. processTable' = Replaced(u, call[p].pos, [pid |-> p, files |-> files])
    BY <1>1, <1>2 DEF WithFiles
  <2>. HIDE DEF u
  <2>. QED  BY <1>6, <2>2, <2>3, <2>4, ReplacedBySame
<1>. HIDE DEF u, t
<1>8. PICK c \in CallTypes : c.at = "run" /\ call' = [call EXCEPT ![p] = c]
  BY <1>1, RunningFits DEF Run, Go
<1>9. MutexFits(p, c)
  BY <1>1, <1>8 DEF MutexFits, Unlock, Requests
<1>10. OthersStay(p)
  BY <1>6, <1>7 DEF OthersStay, t
<1>11. OwnFits(p, c)
  <2>1. Len(files) > 3
    BY <1>3, <1>5 DEF IsTable
  <2>. QED  BY <1>1, <1>6, <1>7, <1>8, <2>1 DEF OwnFits, Opening, Moving
<1>12. Balanced(p, c)
  <2>. DEFINE n == Len(s)
  <2>1. FilesOf(p)' = files /\ \A q \in Pid : q # p => FilesOf(q)' = FilesOf(q)
    BY <1>6, <1>7, InTable, InTableNext DEF t
  <2>2. AllFiles'[p] = files /\ AllFiles[p] = s /\ \A q \in Pid : q # p => AllFiles'[q] = AllFiles[q]
    BY <2>1 DEF AllFiles, s
  <2>3. n \in 3 .. 2 + MaxOpen /\ Len(files) = n + 1 /\ files[n + 1].gfd = call[p].gfd
    BY <1>1, <1>2, <1>3, <1>4, <1>5 DEF IsTable
  <2>4. \A j \in 1 .. n : files[j] = s[j]
    BY <1>5
  <2>. HIDE DEF n
  <2>5. ASSUME NEW g
        PROVE  OpenSum(globalTable', g) + Cardinality(OpenOf(AllFiles, g)) + Moved(call[p], g)
                = OpenSum(globalTable, g) + Cardinality(OpenOf(AllFiles', g)) + Moved(c, g)
    <3>0. PICK F, G : F = AllFiles /\ G = AllFiles'
      OBVIOUS
    <3>1. p \in Pid /\ n \in 3 .. 2 + MaxOpen /\ OneMore(F, G, p, n)
      BY <2>2, <2>3, <2>4, <3>0 DEF n, OneMore
    <3>2. Cardinality(OpenOf(G, g)) = Cardinality(OpenOf(F, g)) + One(G[p][n + 1].gfd, g)
      BY ONLY <3>1, OpenOneMore
    <3>3. Moved(call[p], g) = One(call[p].gfd, g) /\ Moved(c, g) = 0
      BY <1>1, <1>8 DEF Moved, Moving
    <3>4. OpenSum(globalTable, g) \in Nat /\ Cardinality(OpenOf(AllFiles, g)) \in Nat
          /\ One(call[p].gfd, g) \in Nat
      BY <1>2, SumIsOfEntries, SlotsAreFinite DEF One
    <3>. QED  BY <1>1, <2>2, <2>3, <3>0, <3>2, <3>3, <3>4
  <2>. QED  BY <2>5 DEF Balanced
<1>13. globalTable' \in Seq(Entries)
  BY <1>1, <1>2
<1>. QED  BY <1>1, <1>8, <1>9, <1>10, <1>11, <1>12, <1>13, TableStep

\* A file that is closed leaves the others in their order.
LEMMA FileRemoved ==
    ASSUME NEW s, IsTable(s), NEW k \in 4 .. Len(s)
    PROVE  LET u == RemoveAt(s, k)
           IN  /\ Len(u) = Len(s) - 1 /\ Len(s) \in 4 .. 3 + MaxOpen
               /\ Len(s) # 4 => IsTable(u)
               /\ \A j \in 4 .. Len(s) - 1 : u[j] = s[IF j < k THEN j ELSE j + 1]
<1>. DEFINE u == RemoveAt(s, k)
            n == Len(s)
<1>1. /\ MaxOpen \in Nat /\ s \in Seq(Files) /\ n \in 3 .. 3 + MaxOpen /\ (\A j \in 1 .. 3 : s[j] = Defaults[j])
      /\ \A j \in 4 .. n : s[j] \in OpenFiles
  BY FilesConstants DEF IsTable
<1>2. n \in Nat /\ n \in 4 .. 3 + MaxOpen /\ k \in 1 .. n /\ k \in Nat
  BY <1>1
<1>3. /\ u \in Seq(Files) /\ Len(u) = n - 1
      /\ \A j \in 1 .. k - 1 : u[j] = s[j]
      /\ \A j \in k .. n - 1 : u[j] = s[j + 1]
  BY <1>1, <1>2, RemoveAtProperties
<1>. HIDE DEF u
<1>4. \A j \in 4 .. n - 1 : u[j] = s[IF j < k THEN j ELSE j + 1]
  BY <1>2, <1>3
<1>5. \A j \in 1 .. 3 : u[j] = Defaults[j]
  BY <1>1, <1>2, <1>3
<1>6. \A j \in 4 .. n - 1 : u[j] \in OpenFiles
  BY <1>1, <1>2, <1>4
<1>7. ASSUME n # 4 PROVE IsTable(u)
  <2>1. n - 1 \in 3 .. 3 + MaxOpen
    BY <1>1, <1>2
  <2>. QED  BY <1>3, <1>5, <1>6, <2>1 DEF IsTable
<1>. QED  BY <1>2, <1>3, <1>4, <1>7 DEF u

\* remove_open_file_by_fd_and_pid takes one descriptor out, and the table with the last.
LEMMA WithoutFileIs ==
    ASSUME IInv, NEW p \in Pid, NEW fd, IsOpen(p, fd), processTable' = WithoutFile(p, fd)
    PROVE  /\ OthersStay(p) /\ OpenFile(p, fd).gfd \in Nat
           /\ PosOf(processTable', p) # 0 => Len(FilesIn(processTable', p)) > 3
           /\ \A g : Cardinality(OpenOf(AllFiles, g))
                      = Cardinality(OpenOf(AllFiles', g)) + One(OpenFile(p, fd).gfd, g)
<1>. DEFINE s == FilesOf(p)
            t == processTable
            n == Len(s)
            k == FilePos(p, fd)
            files == RemoveAt(s, k)
            u == WithFiles(t, p, files)
            v == RemoveAt(t, PosOf(t, p))
<1>1. /\ TablePos(p) # 0 /\ IsTable(s) /\ k \in 4 .. n /\ OpenFile(p, fd) = s[k] /\ OpenFile(p, fd).gfd \in Nat
  BY OpenIs DEF IInv
<1>2. t \in Seq(Tables) /\ OneEach(t) /\ TablePos(p) = PosOf(t, p) /\ PosOf(t, p) # 0 /\ p \in Pid
      /\ s = FilesIn(t, p)
  BY <1>1, CallOf
<1>3. processTable' = IF Len(files) = 3 THEN v ELSE u
  BY <1>2 DEF WithoutFile, WithFiles
<1>. HIDE DEF s, k
<1>4. /\ Len(files) = n - 1 /\ n \in 4 .. 3 + MaxOpen /\ (n # 4 => IsTable(files))
      /\ \A j \in 4 .. n - 1 : files[j] = s[IF j < k THEN j ELSE j + 1]
  BY <1>1, FileRemoved
<1>. HIDE DEF files, n
<1>5. MaxOpen \in Nat
  BY SlotsAreFinite
<1>6. /\ OthersStay(p) /\ (PosOf(processTable', p) # 0 => Len(FilesIn(processTable', p)) > 3)
      /\ Len(FilesIn(processTable', p)) \in Nat
      /\ \A j \in 4 .. 3 + MaxOpen : j <= Len(FilesIn(processTable', p)) <=> j <= n - 1
      /\ \A j \in 4 .. n - 1 : FilesIn(processTable', p)[j] = files[j]
  <2>1. CASE n = 4
    <3>1. processTable' = v
      BY <1>3, <1>4, <2>1
    <3>2. /\ v \in Seq(Tables) /\ OneEach(v) /\ PosOf(v, p) = 0 /\ FilesIn(v, p) = <<>>
          /\ \A q : q # p => /\ FilesIn(v, q) = FilesIn(t, q)
                             /\ PosOf(v, q) = IF PosOf(t, q) > PosOf(t, p) THEN PosOf(t, q) - 1 ELSE PosOf(t, q)
      <4>. HIDE DEF t
      <4>. QED  BY ONLY <1>2, TableRemoved
    <3>3. \A q : PosOf(t, q) = 0 \/ PosOf(t, q) \in 1 .. Len(t)
      BY <1>2, PosIs, LenProperties
    <3>4. \A q : q # p => (PosOf(v, q) = 0 <=> PosOf(t, q) = 0)
      <4>1. Len(t) \in Nat /\ PosOf(t, p) \in Nat /\ PosOf(t, p) > 0
        BY <1>2, <3>3, LenProperties
      <4>2. ASSUME NEW q, q # p
            PROVE  PosOf(v, q) = 0 <=> PosOf(t, q) = 0
        <5>1. PosOf(v, q) = IF PosOf(t, q) > PosOf(t, p) THEN PosOf(t, q) - 1 ELSE PosOf(t, q)
          BY <3>2, <4>2
        <5>2. PosOf(t, q) \in Nat
          BY <3>3, <4>1
        <5>. QED  BY <4>1, <5>1, <5>2
      <4>. QED  BY <4>2
    <3>. HIDE DEF v
    <3>5. OthersStay(p)
      BY <3>1, <3>2, <3>4 DEF OthersStay
    <3>. QED  BY <1>5, <2>1, <3>1, <3>2, <3>5
  <2>2. CASE n # 4
    <3>1. processTable' = u
      BY <1>3, <1>4, <2>2
    <3>2. PosOf(t, p) # 0 /\ IsTable(files) /\ t \in Seq(Tables) /\ OneEach(t) /\ p \in Pid
      BY <1>2, <1>4, <2>2
    <3>3. /\ u \in Seq(Tables) /\ OneEach(u) /\ FilesIn(u, p) = files /\ \A q : PosOf(u, q) = PosOf(t, q)
          /\ \A q : q # p => FilesIn(u, q) = FilesIn(t, q)
      <4>. HIDE DEF t
      <4>. QED  BY ONLY <3>2, TableReplaced
    <3>. HIDE DEF u
    <3>4. OthersStay(p)
      BY <3>1, <3>3 DEF OthersStay
    <3>5. Len(files) > 3 /\ Len(files) \in Nat
      BY <1>4, <1>5, <2>2
    <3>. QED  BY <1>4, <3>1, <3>3, <3>4, <3>5
  <2>. QED  BY <2>1, <2>2
<1>7. ASSUME NEW g
      PROVE  Cardinality(OpenOf(AllFiles, g)) = Cardinality(OpenOf(AllFiles', g)) + One(OpenFile(p, fd).gfd, g)
  <2>0. PICK F, G : F = AllFiles /\ G = AllFiles'
    OBVIOUS
  <2>1. FilesOf(p)' = FilesIn(processTable', p) /\ \A q \in Pid : q # p => FilesOf(q)' = FilesOf(q)
    BY <1>6, InTable, InTableNext DEF OthersStay
  <2>2. F[p] = s /\ G[p] = FilesIn(processTable', p) /\ \A q \in Pid : q # p => G[q] = F[q]
    BY <2>0, <2>1 DEF AllFiles, s
  <2>3. OneLess(F, G, p, n, k)
    <3>1. Len(F[p]) = n /\ Len(G[p]) \in Nat
      BY <1>6, <2>2 DEF n
    <3>2. \A j \in 4 .. n - 1 : G[p][j] = F[p][IF j < k THEN j ELSE j + 1]
      BY <1>4, <1>6, <2>2
    <3>3. \A j \in 4 .. 3 + MaxOpen : j <= Len(G[p]) <=> j <= n - 1
      BY <1>6, <2>2
    <3>. QED  BY <2>2, <3>1, <3>2, <3>3 DEF OneLess
  <2>4. p \in Pid /\ n \in 4 .. 3 + MaxOpen /\ k \in 4 .. n /\ OneLess(F, G, p, n, k)
    BY <1>1, <1>4, <2>3 DEF n
  <2>5. Cardinality(OpenOf(F, g)) = Cardinality(OpenOf(G, g)) + One(F[p][k].gfd, g)
    BY ONLY <2>4, OpenOneLess
  <2>. QED  BY <1>1, <2>0, <2>2, <2>5
<1>. QED  BY <1>1, <1>6, <1>7

\* A descriptor that goes leaves its count to the call that took it out.
LEMMA DescriptorGoes ==
    ASSUME IInv, NEW p \in Pid, NEW fd, IsOpen(p, fd), processTable' = WithoutFile(p, fd),
           UNCHANGED <<globalTable, exists>>,
           NEW c \in CallTypes, c.at \in {"close", "decrement"}, c.gfd = OpenFile(p, fd).gfd,
           call' = [call EXCEPT ![p] = c], MutexFits(p, c), call[p].at \in {"run", "closing"}
    PROVE  IInv' /\ StepOf(p)
<1>. DEFINE gfd == OpenFile(p, fd).gfd
<1>1. /\ OthersStay(p) /\ gfd \in Nat
      /\ PosOf(processTable', p) # 0 => Len(FilesIn(processTable', p)) > 3
      /\ \A g : Cardinality(OpenOf(AllFiles, g)) = Cardinality(OpenOf(AllFiles', g)) + One(gfd, g)
  BY WithoutFileIs
<1>. HIDE DEF gfd
<1>2. c.gfd = gfd
  BY DEF gfd
<1>3. OwnFits(p, c)
  BY <1>1, <1>2 DEF OwnFits, Opening
<1>4. Balanced(p, c)
  <2>1. ASSUME NEW g
        PROVE  OpenSum(globalTable', g) + Cardinality(OpenOf(AllFiles, g)) + Moved(call[p], g)
                = OpenSum(globalTable, g) + Cardinality(OpenOf(AllFiles', g)) + Moved(c, g)
    <3>1. Moved(call[p], g) = 0 /\ Moved(c, g) = One(gfd, g)
      BY <1>2 DEF Moved, Moving
    <3>2. OpenSum(globalTable, g) \in Nat /\ Cardinality(OpenOf(AllFiles', g)) \in Nat /\ One(gfd, g) \in Nat
      BY CallOf, SumIsOfEntries, SlotsAreFinite DEF One
    <3>3. Cardinality(OpenOf(AllFiles, g)) = Cardinality(OpenOf(AllFiles', g)) + One(gfd, g)
      BY <1>1
    <3>. QED  BY <3>1, <3>2, <3>3
  <2>. QED  BY <2>1 DEF Balanced
<1>5. globalTable' \in Seq(Entries) /\ exists' \subseteq Path
  BY CallOf
<1>. QED  BY <1>1, <1>3, <1>4, <1>5, TableStep

\* close_file takes the count off, and finds an entry to take it off.
LEMMA CountGoes ==
    ASSUME IInv, NEW p \in Pid, call[p].at \in {"close", "decrement"},
           globalTable' = Decremented(call[p].gfd), UNCHANGED <<processTable, exists>>,
           NEW c \in CallTypes, c.at \in {"run", "ending", "closing"},
           call' = [call EXCEPT ![p] = c], MutexFits(p, c)
    PROVE  IInv' /\ StepOf(p)
<1>. DEFINE gfd == call[p].gfd
<1>1. gfd \in Nat /\ globalTable \in Seq(Entries)
  BY CallOf DEF CallFits, Moving
<1>2. OpenSum(globalTable, gfd) # 0
  <2>1. p \in HeldOf(call, gfd)
    BY DEF HeldOf, Moving
  <2>. HIDE DEF gfd
  <2>2. Cardinality(HeldOf(call, gfd)) \in Nat /\ Cardinality(HeldOf(call, gfd)) # 0
    BY <2>1, SlotsAreFinite, FS_EmptySet
  <2>3. Cardinality(OpenOf(AllFiles, gfd)) \in Nat
    BY SlotsAreFinite
  <2>4. OpenSum(globalTable, gfd) = Cardinality(OpenOf(AllFiles, gfd)) + Cardinality(HeldOf(call, gfd))
    BY DEF IInv, CountsHold, Counted
  <2>. QED  BY <2>2, <2>3, <2>4
<1>3. /\ globalTable' \in Seq(Entries)
      /\ \A g : OpenSum(globalTable, g) = OpenSum(globalTable', g) + One(gfd, g)
  BY <1>1, <1>2, DecrementedCounts
<1>4. \A q : FilesOf(q)' = FilesOf(q) /\ TablePos(q)' = TablePos(q)
  BY InTable, InTableNext
<1>5. OthersStay(p)
  BY CallOf DEF OthersStay
<1>6. OwnFits(p, c)
  <2>1. PosOf(processTable', p) # 0 => Len(FilesIn(processTable', p)) > 3
    <3>1. HasReason(p)
      BY DEF IInv, TablesFit
    <3>. QED  BY <3>1, InTable DEF HasReason
  <2>. QED  BY <2>1 DEF OwnFits, Opening, Moving
<1>7. Balanced(p, c)
  <2>1. AllFiles' = AllFiles
    BY <1>4 DEF AllFiles
  <2>2. ASSUME NEW g
        PROVE  OpenSum(globalTable', g) + Cardinality(OpenOf(AllFiles, g)) + Moved(call[p], g)
                = OpenSum(globalTable, g) + Cardinality(OpenOf(AllFiles', g)) + Moved(c, g)
    <3>1. Moved(call[p], g) = One(gfd, g) /\ Moved(c, g) = 0
      BY DEF Moved, Moving
    <3>2. OpenSum(globalTable', g) \in Nat /\ Cardinality(OpenOf(AllFiles, g)) \in Nat /\ One(gfd, g) \in Nat
      BY <1>3, SumIsOfEntries, SlotsAreFinite DEF One
    <3>3. OpenSum(globalTable, g) = OpenSum(globalTable', g) + One(gfd, g)
      BY <1>3
    <3>. QED  BY <2>1, <3>1, <3>2, <3>3
  <2>. QED  BY <2>2 DEF Balanced
<1>8. exists' \subseteq Path
  BY CallOf
<1>. QED  BY <1>3, <1>5, <1>6, <1>7, <1>8, TableStep

\* A closing by the program,
LEMMA CloseFileKeeps ==
    ASSUME IInv, NEW p \in Pid, NEW fd, CloseFile(p, fd)
    PROVE  IInv' /\ StepOf(p)
<1>1. call[p].at = "run" /\ UNCHANGED <<globalTable, exists>> /\ exists' \subseteq Path
  BY CallOf DEF CloseFile, At
<1>2. CASE IsOpen(p, fd)
  <2>. DEFINE gfd == OpenFile(p, fd).gfd
              c == [Running EXCEPT !.at = "close", !.gfd = gfd]
  <2>1. mutex = Nobody /\ mutex' = p /\ processTable' = WithoutFile(p, fd) /\ call' = [call EXCEPT ![p] = c]
    BY <1>2 DEF CloseFile, Lock, Go
  <2>2. gfd \in Nat
    BY <1>2, OpenIs DEF IInv
  <2>3. c \in CallTypes /\ c.at = "close" /\ c.gfd = gfd
    <3>1. PICK r \in CallTypes : r = Running
      BY RunningFits
    <3>2. PICK n \in Int : n = gfd
      BY <2>2
    <3>3. LET d == [r EXCEPT !.at = "close", !.gfd = n]
          IN  d \in CallTypes /\ d.at = "close" /\ d.gfd = n
      BY DEF CallTypes, Points, Requests
    <3>. QED  BY <3>1, <3>2, <3>3
  <2>. HIDE DEF c
  <2>4. MutexFits(p, c)
    BY <2>1, <2>3 DEF MutexFits, Requests
  <2>. QED  BY <1>1, <1>2, <2>1, <2>3, <2>4, DescriptorGoes
<1>3. CASE ~IsOpen(p, fd)
  <2>1. Refuse(p) /\ UNCHANGED <<globalTable, processTable, mutex>>
    BY <1>1, <1>3 DEF CloseFile
  <2>. QED  BY <1>1, <2>1, GivesUp
<1>. QED  BY <1>2, <1>3

\* and the end of it, which closes its files one by one.
LEMMA EndingKeeps ==
    ASSUME IInv, NEW p \in Pid, FileClosed(p) \/ Finish(p) \/ CloseNext(p) \/ NextClosed(p) \/ Finished(p)
    PROVE  IInv' /\ StepOf(p)
<1>0. /\ call[p] \in CallTypes /\ exists \subseteq Path /\ call \in [Pid -> CallTypes]
      /\ Len(FilesOf(p)) \in Nat
  <2>1. Len(FilesOf(p)) \in Nat
    BY CallOf
  <2>. QED  BY <2>1, CallOf
<1>1. ASSUME NEW c \in CallTypes, c.at \in {"closing", "finished"}, Go(p, c),
             call[p].at \in {"run", "ending", "closing"}, UNCHANGED <<globalTable, processTable, mutex, exists>>
      PROVE  IInv' /\ StepOf(p)
  <2>1. MutexFits(p, c) /\ call[p].at \notin Moving \cup {"global"} /\ c.at \notin Moving \cup Opening
    BY <1>1 DEF MutexFits, Requests, Moving, Opening
  <2>2. exists' \subseteq Path /\ call' = [call EXCEPT ![p] = c]
    BY <1>0, <1>1 DEF Go
  <2>. QED  BY <1>1, <2>1, <2>2, GoesOn
<1>2. CASE FileClosed(p)
  <2>1. PICK c \in CallTypes : c.at \in {"run", "ending"} /\ call' = [call EXCEPT ![p] = c]
    BY <1>2, RunningFits DEF FileClosed, Run, Refuse, Go
  <2>2. /\ call[p].at = "close" /\ mutex' = Nobody
        /\ globalTable' = Decremented(call[p].gfd) /\ UNCHANGED <<processTable, exists>>
    BY <1>2 DEF FileClosed, At, Unlock
  <2>3. MutexFits(p, c)
    BY <2>1, <2>2 DEF MutexFits, Requests
  <2>. QED  BY <2>1, <2>2, <2>3, CountGoes
<1>3. CASE Finish(p)
  <2>. DEFINE c == [Running EXCEPT !.at = "closing", !.fd = 3, !.size = Len(FilesOf(p))]
  <2>1. c \in CallTypes /\ c.at = "closing"
    <3>1. PICK r \in CallTypes : r = Running
      BY RunningFits
    <3>2. PICK n \in Nat : n = Len(FilesOf(p))
      BY <1>0
    <3>3. LET d == [r EXCEPT !.at = "closing", !.fd = 3, !.size = n]
          IN  d \in CallTypes /\ d.at = "closing"
      BY DEF CallTypes, Points
    <3>. QED  BY <3>1, <3>2, <3>3
  <2>2. call[p].at \in {"run", "ending"} /\ Go(p, c) /\ UNCHANGED <<globalTable, processTable, mutex, exists>>
    BY <1>3 DEF Finish
  <2>. HIDE DEF c
  <2>. QED  BY <1>1, <2>1, <2>2
<1>4. CASE CloseNext(p)
  <2>. DEFINE fd == call[p].fd
  <2>1. call[p].at = "closing" /\ UNCHANGED <<globalTable, mutex, exists>> /\ fd \in Nat
    BY <1>0, <1>4 DEF CloseNext, At, CallTypes
  <2>2. CASE IsOpen(p, fd)
    <3>. DEFINE gfd == OpenFile(p, fd).gfd
                c == [call[p] EXCEPT !.at = "decrement", !.gfd = gfd]
    <3>1. processTable' = WithoutFile(p, fd) /\ call' = [call EXCEPT ![p] = c]
      BY <1>4, <2>2 DEF CloseNext, Go
    <3>2. gfd \in Nat
      BY <2>2, OpenIs DEF IInv
    <3>3. c \in CallTypes /\ c.at = "decrement" /\ c.gfd = gfd
      <4>1. PICK r \in CallTypes : r = call[p]
        BY <1>0
      <4>2. PICK n \in Int : n = gfd
        BY <3>2
      <4>3. LET d == [r EXCEPT !.at = "decrement", !.gfd = n]
            IN  d \in CallTypes /\ d.at = "decrement" /\ d.gfd = n
        BY DEF CallTypes, Points
      <4>. QED  BY <4>1, <4>2, <4>3
    <3>. HIDE DEF c
    <3>4. MutexFits(p, c)
      BY <2>1, <3>3 DEF MutexFits, Requests
    <3>. QED  BY <2>1, <2>2, <3>1, <3>3, <3>4, DescriptorGoes
  <2>3. CASE ~IsOpen(p, fd)
    <3>. DEFINE c == [call[p] EXCEPT !.fd = @ + 1]
    <3>1. Go(p, c) /\ UNCHANGED processTable
      BY <1>4, <2>3 DEF CloseNext
    <3>2. c \in CallTypes /\ c.at = "closing"
      <4>1. PICK r \in CallTypes : r = call[p]
        BY <1>0
      <4>2. PICK n \in Nat : n = call[p].fd + 1
        BY <2>1
      <4>3. [r EXCEPT !.fd = n] \in CallTypes /\ [r EXCEPT !.fd = n].at = r.at
        BY DEF CallTypes
      <4>. QED  BY <2>1, <4>1, <4>2, <4>3
    <3>. HIDE DEF c
    <3>. QED  BY <1>1, <2>1, <3>1, <3>2
  <2>. QED  BY <2>2, <2>3
<1>5. CASE NextClosed(p)
  <2>. DEFINE c == [call[p] EXCEPT !.at = "closing", !.fd = @ + 1, !.gfd = -1]
  <2>1. /\ call[p].at = "decrement" /\ call' = [call EXCEPT ![p] = c]
        /\ globalTable' = Decremented(call[p].gfd) /\ UNCHANGED <<processTable, mutex, exists>>
    BY <1>5 DEF NextClosed, At, Go
  <2>2. c \in CallTypes /\ c.at = "closing"
    <3>1. PICK r \in CallTypes : r = call[p]
      BY <1>0
    <3>2. PICK n \in Nat, m \in Int : n = call[p].fd + 1 /\ m = -1
      BY <1>0 DEF CallTypes
    <3>3. LET d == [r EXCEPT !.at = "closing", !.fd = n, !.gfd = m]
          IN  d \in CallTypes /\ d.at = "closing"
      BY DEF CallTypes, Points
    <3>. QED  BY <3>1, <3>2, <3>3
  <2>. HIDE DEF c
  <2>3. MutexFits(p, c)
    BY <2>1, <2>2 DEF MutexFits, Requests
  <2>. QED  BY <2>1, <2>2, <2>3, CountGoes
<1>6. CASE Finished(p)
  <2>. DEFINE c == [Running EXCEPT !.at = "finished"]
  <2>1. c \in CallTypes /\ c.at = "finished"
    BY RunningFits
  <2>2. call[p].at = "closing" /\ Go(p, c) /\ UNCHANGED <<globalTable, processTable, mutex, exists>>
    BY <1>6 DEF Finished, At
  <2>. HIDE DEF c
  <2>. QED  BY <1>1, <2>1, <2>2
<1>. QED  BY <1>2, <1>3, <1>4, <1>5, <1>6
-----------------------------------------------------------------------------
(* The invariant is kept, and says what the runs check. *)

\* Nothing is open at first, and nobody asks for anything.
LEMMA InitHolds == Init => IInv
<1>. SUFFICES ASSUME Init PROVE IInv
  OBVIOUS
<1>1. /\ globalTable = <<>> /\ processTable = <<>> /\ mutex = Nobody /\ exists = {}
      /\ call = [p \in Pid |-> Running]
  BY DEF Init
<1>2. \A p : TablePos(p) = 0 /\ FilesOf(p) = <<>>
  BY <1>1, InTable, NoTable
<1>3. TablesFit
  BY <1>1, <1>2 DEF TablesFit, OneEach, HasReason
<1>4. CallsFit
  <2>1. \A p \in Pid : call[p] = Running
    BY <1>1
  <2>2. call \in [Pid -> CallTypes]
    BY <1>1, RunningFits
  <2>3. ASSUME NEW p \in Pid PROVE CallFits(p)
    BY <1>1, <2>1, RunningFits, FilesConstants DEF CallFits, Requests, Opening, Moving
  <2>. QED  BY <2>2, <2>3 DEF CallsFit
<1>5. CountsHold
  <2>1. ASSUME NEW g PROVE OpenSum(globalTable, g) = Counted(g)
    <3>1. OpenSum(globalTable, g) = 0
      <4>1. globalTable \in Seq(Entries) /\ IndicesOf(globalTable, g) = {}
        BY <1>1 DEF IndicesOf
      <4>. QED  BY <4>1, SumIsOfEntries
    <3>2. OpenOf(AllFiles, g) = {}
      <4>1. ASSUME NEW q \in Slots PROVE q \notin OpenOf(AllFiles, g)
        <5>1. q[1] \in Pid /\ q[2] \in 4 .. 3 + MaxOpen
          BY DEF Slots
        <5>. QED  BY <1>2, <5>1 DEF OpenOf, AllFiles
      <4>. QED  BY <4>1 DEF OpenOf
    <3>3. HeldOf(call, g) = {}
      BY <1>1, RunningFits DEF HeldOf, Moving
    <3>. QED  BY <3>1, <3>2, <3>3, FS_EmptySet DEF Counted
  <2>. QED  BY <2>1 DEF CountsHold
<1>. QED  BY <1>3, <1>4, <1>5 DEF IInv

\* Every step of a program keeps it, and leaves the others' files alone.
LEMMA StepKeeps ==
    ASSUME IInv, PositionStays, NEW p \in Pid, Ask(p) \/ Handle(p)
    PROVE  IInv' /\ StepOf(p)
<1>1. CASE Ask(p)
  <2>1. CASE \E path \in Path, flags \in Flags : ValidateFile(p, path, flags)
    BY <2>1, OpeningKeeps
  <2>2. CASE OpenRequest(p)
    BY <2>2, OpeningKeeps
  <2>3. ASSUME NEW fd \in Descriptor, CloseFile(p, fd) PROVE IInv' /\ StepOf(p)
    BY <2>3, CloseFileKeeps
  <2>4. CASE \E fd \in Descriptor : DeleteFile(p, fd) \/ SeekFile(p, fd) \/ WriteFile(p, fd) \/ ReadFile(p, fd)
    BY <2>4, RequestsKeep
  <2>5. CASE Finish(p)
    BY <2>5, EndingKeeps
  <2>. QED  BY <1>1, <2>1, <2>2, <2>3, <2>4, <2>5 DEF Ask
<1>2. CASE Handle(p)
  <2>1. CASE FileValidated(p) \/ FileCreated(p) \/ NotCreated(p)
    BY <2>1, OpeningKeeps
  <2>2. CASE FindTable(p)
    BY <2>2, FindTableKeeps
  <2>3. CASE AddFileInGlobalTable(p)
    BY <2>3, AddFileKeeps
  <2>4. CASE FileOpened(p)
    BY <2>4, FileOpenedKeeps
  <2>5. CASE FileDeleted(p) \/ Transferred(p)
    BY <2>5, RequestsKeep
  <2>6. CASE FileClosed(p) \/ CloseNext(p) \/ NextClosed(p) \/ Finished(p)
    BY <2>6, EndingKeeps
  <2>. QED  BY <1>2, <2>1, <2>2, <2>3, <2>4, <2>5, <2>6 DEF Handle
<1>. QED  BY <1>1, <1>2

\* A step in which the files of a program change is one of its own.
OwnStep == \A p \in Pid : FilesOf(p)' # FilesOf(p) => call[p]' # call[p]

\* No step of the system breaks the invariant.
LEMMA InvariantKept ==
    ASSUME IInv, PositionStays, [Next]_vars
    PROVE  IInv' /\ [OwnStep]_vars
<1>1. CASE Next
  <2>1. PICK p \in Pid : Ask(p) \/ Handle(p)
    BY <1>1 DEF Next
  <2>2. IInv' /\ StepOf(p)
    BY <2>1, StepKeeps
  <2>. QED  BY <2>2 DEF StepOf, OwnStep
<1>2. CASE UNCHANGED vars
  <2>1. UNCHANGED <<globalTable, processTable, mutex, call, exists>>
    BY <1>2 DEF vars
  <2>2. \A q : FilesOf(q)' = FilesOf(q) /\ TablePos(q)' = TablePos(q)
    BY <2>1, InTable, InTableNext
  <2>3. TablesFit'
    BY <2>1, <2>2 DEF IInv, TablesFit, HasReason
  <2>4. CallsFit'
    BY <2>1, <2>2 DEF IInv, CallsFit, CallFits
  <2>5. CountsHold'
    <3>1. AllFiles' = AllFiles
      BY <2>2 DEF AllFiles
    <3>2. \A g : Counted(g)' = Counted(g)
      BY <2>1, <3>1 DEF Counted
    <3>. QED  BY <2>1, <3>2 DEF IInv, CountsHold
  <2>. QED  BY <1>2, <2>3, <2>4, <2>5 DEF IInv
<1>. QED  BY <1>1, <1>2

\* The descriptors with a number are those that are counted.
LEMMA CountsFollow == IInv => CountsAgree
<1>. SUFFICES ASSUME IInv, NEW g
              PROVE  OpenSum(globalTable, g) = Holders(g)
  BY DEF CountsAgree, OpenSum
<1>1. {q \in Opened : GfdOf(q) = g} = OpenOf(AllFiles, g)
  <2>1. ASSUME NEW q \in Slots
        PROVE  q \in {r \in Opened : GfdOf(r) = g} <=> q \in OpenOf(AllFiles, g)
    <3>1. q[1] \in Pid /\ AllFiles[q[1]] = FilesOf(q[1])
      BY DEF Slots, AllFiles
    <3>. QED  BY <3>1 DEF OpenOf, Opened, GfdOf, Slots
  <2>. QED  BY <2>1 DEF OpenOf, Opened, Slots
<1>2. {p \in Pid : call[p].at \in {"append", "close", "decrement"} /\ call[p].gfd = g} = HeldOf(call, g)
  BY DEF HeldOf, Moving
<1>3. Holders(g) = Counted(g)
  BY <1>1, <1>2 DEF Holders, Counted
<1>. QED  BY <1>3 DEF IInv, CountsHold

\* The invariant bounds what the tables hold.
LEMMA TypesFollow == IInv => TypeOK
<1>. SUFFICES ASSUME IInv PROVE TypeOK
  OBVIOUS
<1>1. \A i \in DOMAIN globalTable : globalTable[i] \in Entries
  BY LenProperties, ElementOfSeq DEF IInv, TablesFit
<1>2. ASSUME NEW i \in DOMAIN processTable
      PROVE  /\ processTable[i].pid \in Pid
             /\ SubSeq(processTable[i].files, 1, 3) = Defaults
             /\ \A j \in 4 .. Len(processTable[i].files) : processTable[i].files[j] \in OpenFiles
  <2>. DEFINE s == processTable[i].files
  <2>1. processTable[i] \in Tables
    BY LenProperties, ElementOfSeq DEF IInv, TablesFit
  <2>2. processTable[i].pid \in Pid /\ IsTable(s)
    BY <2>1 DEF Tables
  <2>. HIDE DEF s
  <2>3. SubSeq(s, 1, 3) = Defaults
    <3>1. s \in Seq(Files) /\ Len(s) \in Nat /\ 3 <= Len(s) /\ \A j \in 1 .. 3 : s[j] = Defaults[j]
      BY <2>2, FilesConstants DEF IsTable
    <3>2. SubSeq(s, 1, 3) = [j \in 1 .. 3 |-> s[j]]
      BY <3>1
    <3>3. Defaults = [j \in 1 .. 3 |-> Defaults[j]]
      BY DEF Defaults
    <3>. HIDE DEF Defaults
    <3>. QED  BY <3>1, <3>2, <3>3
  <2>. QED  BY <2>2, <2>3 DEF IsTable, s
<1>3. exists \subseteq Path
  BY CallOf DEF IInv, TablesFit
<1>4. ASSUME NEW p \in Pid
      PROVE  mutex = p <=> call[p].at \in {"validate", "create", "table", "global", "append",
                                           "close", "delete", "transfer"}
  BY CallOf DEF CallFits, Requests
<1>. QED  BY <1>1, <1>2, <1>3, <1>4 DEF TypeOK

\* A table that is there is the one that is found, and has its reason.
LEMMA TablesFollow == IInv => TablesAreOfOpenFiles
<1>. SUFFICES ASSUME IInv PROVE TablesAreOfOpenFiles
  OBVIOUS
<1>1. /\ processTable \in Seq(Tables) /\ OneEach(processTable) /\ Len(processTable) \in Nat
      /\ DOMAIN processTable = 1 .. Len(processTable)
  BY LenProperties DEF IInv, TablesFit
<1>2. ASSUME NEW i \in DOMAIN processTable
      PROVE  \/ Len(processTable[i].files) > 3
             \/ call[processTable[i].pid].at \in {"global", "append"}
  <2>. DEFINE p == processTable[i].pid
  <2>1. p \in Pid
    <3>1. processTable[i] \in Tables
      BY <1>1, ElementOfSeq
    <3>. QED  BY <3>1 DEF Tables
  <2>2. TablePos(p) = i /\ FilesOf(p) = processTable[i].files
    BY <1>1, TableIs, InTable
  <2>3. i # 0
    BY <1>1
  <2>4. HasReason(p)
    BY <2>1 DEF IInv, TablesFit
  <2>. QED  BY <2>2, <2>3, <2>4 DEF HasReason
<1>. QED  BY <1>1, <1>2 DEF TablesAreOfOpenFiles, OneEach
-----------------------------------------------------------------------------
\* While no table is written where it no longer is, the invariant holds of any number
\* of programs, files and descriptors.
THEOREM FilesInvariant == Spec /\ []PositionStays => []IInv
<1>1. Init => IInv
  BY InitHolds
<1>2. IInv /\ PositionStays /\ [Next]_vars => IInv'
  BY InvariantKept
<1>. QED  BY <1>1, <1>2, PTL DEF Spec

\* Then the tables have their types (add_file_in_global_table, open_file_in_process_table).
THEOREM TypeCorrect == Spec /\ []PositionStays => []TypeOK
<1>1. IInv => TypeOK
  BY TypesFollow
<1>. QED  BY <1>1, FilesInvariant, PTL

\* Then the counts of the global table are those of the descriptors, opened or about
\* to be (add_file_in_global_table, close_file).
THEOREM CountsAlwaysAgree == Spec /\ []PositionStays => []CountsAgree
<1>1. IInv => CountsAgree
  BY CountsFollow
<1>. QED  BY <1>1, FilesInvariant, PTL

\* Then a process has one table, and a file open in it or about to be
\* (open_file_in_process_table, remove_open_file_by_fd_and_pid).
THEOREM TablesAlwaysOfOpenFiles == Spec /\ []PositionStays => []TablesAreOfOpenFiles
<1>1. IInv => TablesAreOfOpenFiles
  BY TablesFollow
<1>. QED  BY <1>1, FilesInvariant, PTL

\* Then the files of a program are changed by its own calls alone.
THEOREM OnlyOwnFiles == Spec /\ []PositionStays => OnlyOwnFilesChange
<1>1. IInv /\ PositionStays /\ [Next]_vars => [OwnStep]_vars
  BY InvariantKept
<1>2. Spec /\ []PositionStays => [][OwnStep]_vars
  BY <1>1, FilesInvariant, PTL DEF Spec
<1>. QED  BY <1>2 DEF OwnStep, OnlyOwnFilesChange
-----------------------------------------------------------------------------
(* With two programs no table is written where it no longer is: one other table *)
(* can go at most, and what comes after it is then beyond the end.              *)

\* At a point where a position is remembered.
Remembers(c) == c.at \in {"global", "append"}

\* A step that leaves the tables where they are.
LEMMA TablesUnmoved ==
    ASSUME PositionStays, NEW p \in Pid, UNCHANGED processTable,
           \A q \in Pid : q # p => call'[q] = call[q],
           \/ ~Remembers(call'[p])
           \/ call'[p].pos = TablePos(p)
           \/ Remembers(call[p]) /\ call'[p].pos = call[p].pos
    PROVE  PositionStays'
<1>1. ASSUME NEW q \in Pid, Remembers(call'[q])
      PROVE  call'[q].pos = TablePos(q)' \/ call'[q].pos > Len(processTable')
  <2>1. TablePos(q)' = TablePos(q)
    BY InTable, InTableNext
  <2>. QED  BY <1>1, <2>1 DEF PositionStays, Remembers
<1>. QED  BY <1>1 DEF PositionStays, Remembers

\* A step of who has fs_request_mutex, or when nobody has it: no other remembers one.
LEMMA AloneInTable ==
    ASSUME IInv, NEW p \in Pid, mutex = p \/ mutex = Nobody,
           \A q \in Pid : q # p => call'[q] = call[q],
           Remembers(call'[p]) => call'[p].pos = TablePos(p)'
    PROVE  PositionStays'
<1>1. ASSUME NEW q \in Pid, Remembers(call'[q])
      PROVE  call'[q].pos = TablePos(q)'
  <2>1. CASE q # p
    <3>1. call[q].at \in Requests /\ CallFits(q)
      BY <1>1, <2>1, CallOf DEF Remembers, Requests
    <3>2. mutex = q
      BY <3>1 DEF CallFits
    <3>. QED  BY <2>1, <3>2, FilesConstants
  <2>. QED  BY <1>1, <2>1
<1>. QED  BY <1>1 DEF PositionStays, Remembers

\* Two programs have two tables at most.
LEMMA TwoTables ==
    ASSUME TablesFit, Cardinality(Pid) <= 2
    PROVE  Len(processTable) \in 0 .. 2
<1>. DEFINE t == processTable
<1>1. Len(t) \in Nat /\ DOMAIN t = 1 .. Len(t) /\ OneEach(t) /\ \A i \in 1 .. Len(t) : t[i].pid \in Pid
  <2>1. t \in Seq(Tables) /\ OneEach(t)
    BY DEF TablesFit
  <2>2. Len(t) \in Nat /\ DOMAIN t = 1 .. Len(t) /\ \A i \in 1 .. Len(t) : t[i] \in Tables
    BY <2>1, LenProperties, ElementOfSeq
  <2>. QED  BY <2>1, <2>2 DEF Tables
<1>2. ASSUME Len(t) > 2 PROVE FALSE
  <2>1. PICK a \in Pid, b \in Pid, c \in Pid : a # b /\ a # c /\ b # c
    <3>1. 1 \in DOMAIN t /\ 2 \in DOMAIN t /\ 3 \in DOMAIN t
      BY <1>1, <1>2
    <3>2. t[1].pid # t[2].pid /\ t[1].pid # t[3].pid /\ t[2].pid # t[3].pid
      BY <1>1, <3>1 DEF OneEach
    <3>3. t[1].pid \in Pid /\ t[2].pid \in Pid /\ t[3].pid \in Pid
      BY <1>1, <3>1
    <3>. QED  BY <3>2, <3>3
  <2>2. IsFiniteSet({}) /\ Cardinality({}) = 0
    BY FS_EmptySet
  <2>3. IsFiniteSet({a}) /\ Cardinality({a}) = 1
    BY FS_Singleton
  <2>4. IsFiniteSet({a} \cup {b}) /\ Cardinality({a} \cup {b}) = 2
    BY <2>1, <2>3, FS_AddElement
  <2>5. Cardinality(({a} \cup {b}) \cup {c}) = 3
    BY <2>1, <2>4, FS_AddElement
  <2>6. ({a} \cup {b}) \cup {c} \subseteq Pid
    OBVIOUS
  <2>7. Cardinality(({a} \cup {b}) \cup {c}) <= Cardinality(Pid)
    BY <2>6, SlotsAreFinite, FS_Subset
  <2>8. Cardinality(Pid) \in Nat
    BY SlotsAreFinite, FS_CardinalityType
  <2>. QED  BY <2>5, <2>7, <2>8
<1>. QED  BY <1>1, <1>2

\* The end of the other program takes its table away, or leaves all where they are.
LEMMA OtherTableGoes ==
    ASSUME IInv, PositionStays, Cardinality(Pid) <= 2,
           NEW p \in Pid, NEW fd, IsOpen(p, fd), processTable' = WithoutFile(p, fd),
           ~Remembers(call'[p]), \A q \in Pid : q # p => call'[q] = call[q]
    PROVE  PositionStays'
<1>. DEFINE t == processTable
            k == PosOf(t, p)
            v == RemoveAt(t, k)
            files == RemoveAt(FilesOf(p), FilePos(p, fd))
<1>1. t \in Seq(Tables) /\ OneEach(t) /\ TablePos(p) = k /\ k # 0 /\ Len(t) \in 0 .. 2 /\ k \in 1 .. Len(t)
  BY CallOf, OpenIs, FilesFit, TwoTables DEF IInv
<1>2. ASSUME NEW q \in Pid, q # p, Remembers(call[q])
      PROVE  call[q].pos = TablePos(q)' \/ call[q].pos > Len(processTable')
  <2>1. /\ call[q].pos = PosOf(t, q) \/ call[q].pos > Len(t)
        /\ call[q].pos \in Nat /\ TablePos(q)' = PosOf(processTable', q)
    BY <1>2, CallOf, InTable, InTableNext DEF PositionStays, Remembers, CallTypes
  <2>2. PosOf(t, q) \in 1 .. Len(t)
    <3>1. TablePos(q) # 0
      BY <1>2, CallOf DEF CallFits, Remembers
    <3>. QED  BY <3>1, FilesFit, CallOf DEF IInv
  <2>3. CASE Len(files) = 3
    <3>1. processTable' = v
      BY <1>1, <2>3 DEF WithoutFile
    <3>2. /\ t \in Seq(Tables) /\ OneEach(t) /\ p \in Pid /\ PosOf(t, p) # 0
      BY <1>1
    <3>3. /\ Len(v) = Len(t) - 1
          /\ \A r : r # p => PosOf(v, r) = IF PosOf(t, r) > PosOf(t, p) THEN PosOf(t, r) - 1 ELSE PosOf(t, r)
      <4>. HIDE DEF t
      <4>. QED  BY ONLY <3>2, TableRemoved DEF v, k
    <3>4. PosOf(v, q) = IF PosOf(t, q) > k THEN PosOf(t, q) - 1 ELSE PosOf(t, q)
      BY <1>2, <3>3
    <3>. HIDE DEF t, k, v
    <3>. QED  BY <1>1, <2>1, <2>2, <3>1, <3>3, <3>4
  <2>4. CASE Len(files) # 3
    <3>. DEFINE u == WithFiles(t, p, files)
    <3>1. processTable' = u
      BY <1>1, <2>4 DEF WithoutFile, WithFiles
    <3>2. IsTable(files)
      <4>1. IsTable(FilesOf(p)) /\ FilePos(p, fd) \in 4 .. Len(FilesOf(p))
        BY OpenIs DEF IInv
      <4>2. Len(files) = Len(FilesOf(p)) - 1 /\ (Len(FilesOf(p)) # 4 => IsTable(files))
        BY <4>1, FileRemoved
      <4>. HIDE DEF files
      <4>. QED  BY <2>4, <4>2
    <3>3. t \in Seq(Tables) /\ OneEach(t) /\ p \in Pid /\ PosOf(t, p) # 0 /\ IsTable(files)
      BY <1>1, <3>2
    <3>4. Len(u) = Len(t) /\ \A r : PosOf(u, r) = PosOf(t, r)
      <4>. HIDE DEF t, files
      <4>. QED  BY ONLY <3>3, TableReplaced DEF u
    <3>. HIDE DEF u
    <3>. QED  BY <1>1, <2>1, <3>1, <3>4
  <2>. QED  BY <2>3, <2>4
<1>3. ASSUME NEW q \in Pid, Remembers(call'[q])
      PROVE  call'[q].pos = TablePos(q)' \/ call'[q].pos > Len(processTable')
  <2>1. q # p /\ call'[q] = call[q]
    BY <1>3
  <2>. QED  BY <1>2, <1>3, <2>1
<1>. QED  BY <1>3 DEF PositionStays, Remembers

\* No step of two programs leaves a position behind.
LEMMA PositionKept ==
    ASSUME IInv, PositionStays, Cardinality(Pid) <= 2, [Next]_vars
    PROVE  PositionStays'
<1>1. ASSUME NEW p \in Pid, Ask(p) \/ Handle(p) PROVE PositionStays'
  <2>1. /\ call \in [Pid -> CallTypes] /\ call[p] \in CallTypes
        /\ \A q \in Pid : q # p => call'[q] = call[q]
    BY <1>1, CallOf, StepKeeps DEF StepOf
  <2>2. ASSUME NEW c, Go(p, c) PROVE call'[p] = c
    BY <2>1, <2>2 DEF Go
  <2>3. Running.at = "run" /\ \A at : [Running EXCEPT !.at = at].at = at
    BY DEF Running
  <2>4. ASSUME Run(p) \/ Refuse(p) PROVE ~Remembers(call'[p])
    BY <2>2, <2>3, <2>4 DEF Run, Refuse, Remembers
  <2>5. ASSUME UNCHANGED processTable, ~Remembers(call'[p]) PROVE PositionStays'
    BY <2>1, <2>5, TablesUnmoved
  <2>6. CASE FindTable(p)
    <3>1. CASE TablePos(p) = 0
      <4>1. /\ call'[p] = [call[p] EXCEPT !.at = "global", !.pos = Len(processTable) + 1]
            /\ processTable' = Append(processTable, [pid |-> p, files |-> Defaults])
        BY <2>2, <2>6, <3>1 DEF FindTable
      <4>2. call'[p].pos = Len(processTable) + 1
        BY <2>1, <4>1 DEF CallTypes
      <4>3. TablePos(p)' = Len(processTable) + 1
        BY <3>1, <4>1, CallOf, InTableNext, DefaultsAreTable, TableAdded
      <4>4. mutex = p
        BY <2>6, CallOf DEF FindTable, At, CallFits, Requests
      <4>. QED  BY <2>1, <4>2, <4>3, <4>4, AloneInTable
    <3>2. CASE TablePos(p) # 0
      <4>1. UNCHANGED processTable /\ call'[p] = [call[p] EXCEPT !.at = "global", !.pos = TablePos(p)]
        BY <2>2, <2>6, <3>2 DEF FindTable
      <4>2. call'[p].pos = TablePos(p)
        BY <2>1, <4>1 DEF CallTypes
      <4>. QED  BY <2>1, <4>1, <4>2, TablesUnmoved
    <3>. QED  BY <3>1, <3>2
  <2>7. CASE AddFileInGlobalTable(p)
    <3>1. /\ UNCHANGED processTable /\ Remembers(call[p])
          /\ call'[p] = [call[p] EXCEPT !.at = "append", !.gfd = Added(call[p].path).gfd]
      BY <2>2, <2>7 DEF AddFileInGlobalTable, At, Remembers
    <3>2. call'[p].pos = call[p].pos
      BY <2>1, <3>1 DEF CallTypes
    <3>. QED  BY <2>1, <3>1, <3>2, TablesUnmoved
  <2>8. CASE FileOpened(p)
    <3>1. ~Remembers(call'[p])
      BY <2>4, <2>8 DEF FileOpened
    <3>2. mutex = p
      BY <2>8, CallOf DEF FileOpened, At, CallFits, Requests
    <3>. QED  BY <2>1, <3>1, <3>2, AloneInTable
  <2>9. ASSUME NEW fd, CloseFile(p, fd) PROVE PositionStays'
    <3>1. mutex = Nobody
      BY <2>9 DEF CloseFile
    <3>2. ~Remembers(call'[p])
      <4>1. CASE ~IsOpen(p, fd)
        BY <2>4, <2>9, <4>1 DEF CloseFile
      <4>2. CASE IsOpen(p, fd)
        <5>1. call'[p] = [Running EXCEPT !.at = "close", !.gfd = OpenFile(p, fd).gfd]
          BY <2>2, <2>9, <4>2 DEF CloseFile
        <5>2. call'[p].at = "close"
          BY <5>1 DEF Running
        <5>. QED  BY <5>2 DEF Remembers
      <4>. QED  BY <4>1, <4>2
    <3>. QED  BY <2>1, <3>1, <3>2, AloneInTable
  <2>10. CASE CloseNext(p)
    <3>. DEFINE fd == call[p].fd
    <3>1. CASE IsOpen(p, fd)
      <4>1. /\ processTable' = WithoutFile(p, fd)
            /\ call'[p] = [call[p] EXCEPT !.at = "decrement", !.gfd = OpenFile(p, fd).gfd]
        BY <2>2, <2>10, <3>1 DEF CloseNext
      <4>2. call'[p].at = "decrement"
        BY <2>1, <4>1 DEF CallTypes
      <4>. QED  BY <2>1, <3>1, <4>1, <4>2, OtherTableGoes DEF Remembers
    <3>2. CASE ~IsOpen(p, fd)
      <4>1. UNCHANGED processTable /\ call'[p] = [call[p] EXCEPT !.fd = @ + 1] /\ call[p].at = "closing"
        BY <2>2, <2>10, <3>2 DEF CloseNext, At
      <4>2. call'[p].at = "closing"
        BY <2>1, <4>1 DEF CallTypes
      <4>. QED  BY <2>5, <4>1, <4>2 DEF Remembers
    <3>. QED  BY <3>1, <3>2
  <2>11. ASSUME NEW at, NEW c, Go(p, c), c.at = at, at \notin {"global", "append"}, UNCHANGED processTable
         PROVE  PositionStays'
    BY <2>2, <2>5, <2>11 DEF Remembers
  <2>12. CASE \E path \in Path, flags \in Flags : ValidateFile(p, path, flags)
    <3>1. PICK path \in Path, flags \in Flags : ValidateFile(p, path, flags)
      BY <2>12
    <3>2. [Running EXCEPT !.at = "validate", !.path = path, !.flags = flags].at = "validate"
      BY DEF Running
    <3>. QED  BY <2>11, <3>1, <3>2 DEF ValidateFile
  <2>13. CASE FileValidated(p)
    <3>1. \A valid : [call[p] EXCEPT !.at = "validated", !.valid = valid].at = "validated"
      BY <2>1 DEF CallTypes
    <3>. QED  BY <2>4, <2>5, <2>11, <2>13, <3>1 DEF FileValidated
  <2>14. CASE OpenRequest(p)
    <3>1. \A at : [call[p] EXCEPT !.at = at].at = at
      BY <2>1 DEF CallTypes
    <3>. QED  BY <2>11, <2>14, <3>1 DEF OpenRequest
  <2>15. CASE FileCreated(p) \/ NextClosed(p)
    <3>1. \A at : [call[p] EXCEPT !.at = at].at = at
      BY <2>1 DEF CallTypes
    <3>2. [call[p] EXCEPT !.at = "closing", !.fd = @ + 1, !.gfd = -1].at = "closing"
      BY <2>1 DEF CallTypes
    <3>. QED  BY <2>11, <2>15, <3>1, <3>2 DEF FileCreated, NextClosed
  <2>16. CASE NotCreated(p) \/ FileClosed(p) \/ FileDeleted(p) \/ Transferred(p)
    BY <2>4, <2>5, <2>16 DEF NotCreated, FileClosed, FileDeleted, Transferred
  <2>17. CASE Finish(p) \/ Finished(p)
    <3>1. [Running EXCEPT !.at = "closing", !.fd = 3, !.size = Len(FilesOf(p))].at = "closing"
      BY DEF Running
    <3>. QED  BY <2>3, <2>11, <2>17, <3>1 DEF Finish, Finished
  <2>18. ASSUME NEW fd, DeleteFile(p, fd) PROVE PositionStays'
    <3>1. \A path : [Running EXCEPT !.at = "delete", !.path = path].at = "delete"
      BY DEF Running
    <3>. QED  BY <2>4, <2>5, <2>11, <2>18, <3>1 DEF DeleteFile
  <2>19. ASSUME NEW fd, SeekFile(p, fd) \/ WriteFile(p, fd) \/ ReadFile(p, fd) PROVE PositionStays'
    BY <2>3, <2>4, <2>5, <2>11, <2>19 DEF SeekFile, WriteFile, ReadFile
  <2>20. CASE Ask(p)
    BY <2>9, <2>12, <2>14, <2>17, <2>18, <2>19, <2>20 DEF Ask
  <2>21. CASE Handle(p)
    BY <2>6, <2>7, <2>8, <2>10, <2>13, <2>15, <2>16, <2>17, <2>21 DEF Handle
  <2>. QED  BY <1>1, <2>20, <2>21
<1>2. CASE UNCHANGED vars
  <2>1. UNCHANGED processTable /\ UNCHANGED call
    BY <1>2 DEF vars
  <2>2. \A q : TablePos(q)' = TablePos(q)
    BY <2>1, InTable, InTableNext
  <2>. QED  BY <2>1, <2>2 DEF PositionStays
<1>. QED  BY <1>1, <1>2 DEF Next

\* Two programs never write a table where it no longer is, whatever they open and
\* close (open_file_in_process_table): with one more, one may.
THEOREM PositionsStayOfTwo ==
    ASSUME Cardinality(Pid) <= 2
    PROVE  Spec => []PositionStays
<1>1. Init => IInv /\ PositionStays
  <2>1. ASSUME Init PROVE PositionStays
    BY <2>1, RunningFits DEF Init, PositionStays
  <2>. QED  BY <2>1, InitHolds
<1>2. IInv /\ PositionStays /\ [Next]_vars => IInv' /\ PositionStays'
  BY InvariantKept, PositionKept
<1>. QED  BY <1>1, <1>2, PTL DEF Spec

\* So the tables of two programs agree in all of this, with no hypothesis.
THEOREM TablesOfTwoAgree ==
    ASSUME Cardinality(Pid) <= 2
    PROVE  Spec => [](TypeOK /\ CountsAgree /\ TablesAreOfOpenFiles) /\ OnlyOwnFilesChange
<1>1. Spec => []PositionStays
  BY PositionsStayOfTwo
<1>. QED  BY <1>1, TypeCorrect, CountsAlwaysAgree, TablesAlwaysOfOpenFiles, OnlyOwnFiles, PTL
=============================================================================
