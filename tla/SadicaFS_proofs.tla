--------------------------- MODULE SadicaFS_proofs ---------------------------
(* Proofs about SadicaFS: no block is in two files, both copies of the bitmap *)
(* know the blocks of every file, and the files implement FileStore.          *)
EXTENDS SadicaFS, SequenceLemmas

\* The bitmap's file loses nothing: no byte of the bitmap is zero before one that is
\* not. With one byte it never is.
NothingIsCut == bitmap \subseteq 0 .. BytesBeforeZero(bitmap) * ByteBits - 1

\* Requests are for offsets where a block begins.
OffsetsAreAligned == \A o \in Offset : \E k \in Nat : o = BlockSize * k

\* The process does not end between clearing the bits of a file and removing it.
DeletesAreWhole == "delete" \notin CrashIn
-----------------------------------------------------------------------------
\* A request is served by its own steps.
StepsOf(op) ==
    CASE op = "none" -> {"idle"}
      [] op = "create" -> {"block", "open", "persist", "record"}
      [] op = "save" -> {"block", "open", "persist", "grow", "write", "size"}
      [] op = "delete" -> {"clear", "free", "remove"}
      [] op = "get" -> {"read"}

Start == job.offset \div BlockSize

JobFits ==
    /\ job.at \in StepsOf(job.op)
    /\ job.op # "none" => job.path \in Path
    /\ job.op \in {"save", "delete", "get"} => Exists(job.path)
    /\ job.op \in {"save", "get"} => job.offset \in Offset /\ job.size \in Size
    /\ job.op = "save" => job.byte \in Byte
    /\ At("write") => job.place > Start /\ (job.place = Start + 1 => job.left = job.size)
    /\ At("read") => job.place > Start

\* A file has a block.
Has(r, p, b) == r[p] # NoFile /\ Holds(r[p].blocks, b)

\* Blocks that create_block has given for the request and that are not in a file yet.
Giving == job.at \in {"block", "open", "persist", "record", "grow"}
Given(b) ==
    \/ Giving /\ Holds(job.new, b)
    \/ job.at \in {"open", "persist"} /\ job.block = b

GivenAreFree ==
    /\ \A b \in Block : Given(b) => b \in bitmap
    /\ \A p \in Path, b \in Block : Given(b) => ~Has(records, p, b)
    /\ Giving => Distinct(job.new) /\ \A b \in Block : Holds(job.new, b) => b \in bitmapFile.bits
    /\ job.at \in {"open", "persist"} => ~Holds(job.new, job.block)

BlocksAreApart ==
    /\ \A p \in Path : Exists(p) => Distinct(records[p].blocks)
    /\ \A p, q \in Path, b \in Block : Has(records, p, b) /\ Has(records, q, b) => p = q

\* A file whose blocks are being freed is not counted.
BlocksAreKnown ==
    \A p \in Path, b \in Block :
        Has(records, p, b) /\ (job.op = "delete" => job.path # p) => b \in bitmap /\ b \in bitmapFile.bits

IInv == TypeOK /\ JobFits /\ GivenAreFree /\ BlocksAreApart /\ BlocksAreKnown

-----------------------------------------------------------------------------
\* What is in a block, and in those that no file has yet.
BlocksFit ==
    /\ \A b \in Block : Len(blocks[b]) <= BlockSize
    /\ \A b \in Block : Given(b) /\ (At("open") => b # job.block) => blocks[b] = <<>>

\* The bytes of a file with the blocks of a list, when the blocks hold d.
PlacesOf(list) == 0 .. Len(list) * BlockSize - 1
BlockOf(i) == i \div BlockSize + 1
PlaceIn(i) == (i % BlockSize) + 1
ByteOf(d, list, i) ==
    LET bytes == d[list[BlockOf(i)]] IN IF PlaceIn(i) \in DOMAIN bytes THEN bytes[PlaceIn(i)] ELSE Nul
BytesOf(d, list) ==
    [i \in {k \in PlacesOf(list) : ByteOf(d, list, k) # Nul} |-> ByteOf(d, list, i)]

\* The file and the bytes that a request is for.
Target == records[job.path].blocks
Asked == job.offset .. job.offset + job.size - 1
FirstOf(place) == BlockSize * (place - 1)

\* What is left is what comes after the blocks that are behind.
LeftFits ==
    \/ FirstOf(job.place) + job.left = job.offset + job.size
    \/ job.left = 0 /\ FirstOf(job.place) >= job.offset + job.size

SaveFits ==
    /\ At("grow") => ~Lacks(job.path, job.new, job.offset, job.size)
    /\ At("write") =>
          Len(Target) >= LastBlock(job.offset, job.size) /\ job.place <= LastReached /\ LeftFits
    /\ At("write") \/ At("size") =>
          \A i \in Asked : (At("write") => i < FirstOf(job.place)) =>
              i \in PlacesOf(Target) /\ ByteOf(blocks, Target, i) = job.byte

ReadFits ==
    At("read") =>
        /\ records[job.path].size >= job.offset + job.size
        /\ (\A i \in Asked : i \in PlacesOf(Target) /\ ByteOf(blocks, Target, i) # Nul) =>
              /\ LeftFits
              /\ job.left = 0 \/ job.place <= LastReached
              /\ job.left + Len(job.data) = job.size
              /\ \A i \in 1 .. Len(job.data) : job.data[i] = ByteOf(blocks, Target, job.offset + i - 1)

StoreInv == BlocksFit /\ SaveFits /\ ReadFits
-----------------------------------------------------------------------------
(* Lemmas on the operators. *)

\* The smaller and the larger of two numbers.
LEMMA MinOfTwo ==
    ASSUME NEW a \in Int, NEW b \in Int
    PROVE  Min({a, b}) = IF a <= b THEN a ELSE b
<1> DEFINE m == IF a <= b THEN a ELSE b
<1>1. m \in {a, b} /\ \A y \in {a, b} : m <= y
  OBVIOUS
<1>2. \A x \in {a, b} : (\A y \in {a, b} : x <= y) => x = m
  OBVIOUS
<1>. QED  BY <1>1, <1>2 DEF Min

LEMMA MaxOfTwo ==
    ASSUME NEW a \in Int, NEW b \in Int
    PROVE  Max({a, b}) = IF a >= b THEN a ELSE b
<1> DEFINE m == IF a >= b THEN a ELSE b
<1>1. m \in {a, b} /\ \A y \in {a, b} : m >= y
  OBVIOUS
<1>2. \A x \in {a, b} : (\A y \in {a, b} : x >= y) => x = m
  OBVIOUS
<1>. QED  BY <1>1, <1>2 DEF Max

\* Quotient and rest are those of the division, and no others.
LEMMA DivBounds ==
    ASSUME NEW i \in Nat, NEW d \in Nat \ {0}
    PROVE  i \div d \in Nat /\ i % d \in 0 .. d - 1 /\ i = d * (i \div d) + (i % d)
OBVIOUS

LEMMA NextMultiple ==
    ASSUME NEW a \in Int, NEW b \in Int, NEW d \in Nat, a < b
    PROVE  d * a + d <= d * b
<1>1. PICK k \in Nat : b = a + 1 + k
  OBVIOUS
<1>2. d * b = d * a + d + d * k
  BY <1>1
<1>3. d * k \in Nat
  BY <1>1
<1>4. d * a \in Int /\ d * b \in Int
  OBVIOUS
<1>. QED  BY <1>2, <1>3, <1>4

LEMMA DivUnique ==
    ASSUME NEW i \in Nat, NEW d \in Nat \ {0}, NEW q \in Int, d * q <= i, i < d * q + d
    PROVE  i \div d = q /\ i % d = i - d * q
<1> DEFINE r == i \div d
<1>1. r \in Nat /\ i % d \in 0 .. d - 1 /\ i = d * r + (i % d)
  BY DivBounds
<1>2. d * r <= i /\ i < d * r + d
  BY <1>1
<1>. HIDE DEF r
<1>3. ~(r < q) /\ ~(r > q)
  BY <1>1, <1>2, NextMultiple
<1>4. r = q
  BY <1>1, <1>3
<1>. QED  BY <1>1, <1>4 DEF r

\* Wherever update_bitmap_file stops, what it writes is a bitmap.
LEMMA AsFileIsTyped ==
    ASSUME NEW bits, bits \subseteq Block
    PROVE  /\ AsFile(bits) \in [length : 0 .. Bytes, bits : SUBSET Block]
           /\ bits \subseteq 0 .. BytesBeforeZero(bits) * ByteBits - 1 => AsFile(bits).bits = bits
<1> DEFINE K == {k \in 0 .. Bytes - 1 : BitsOf(k) \cap bits = {}} \cup {Bytes}
<1>1. K \subseteq 0 .. Bytes /\ K \subseteq Nat /\ K # {}
  BY SadicaConstants
<1>2. Min(K) \in K
  BY <1>1, MinIsMember
<1>3. BytesBeforeZero(bits) = Min(K)
  BY DEF BytesBeforeZero
<1>. HIDE DEF K
<1>. QED  BY <1>1, <1>2, <1>3 DEF AsFile

\* A block after it was written.
LEMMA OverwrittenIsTyped ==
    ASSUME NEW s \in Seq(Byte \cup {Nul}), NEW o \in Nat, NEW n \in Nat, NEW b \in Byte \cup {Nul}
    PROVE  /\ Overwritten(s, o, n, b) \in Seq(Byte \cup {Nul})
           /\ Len(Overwritten(s, o, n, b)) = IF Len(s) >= o + n THEN Len(s) ELSE o + n
           /\ \A i \in 1 .. Len(Overwritten(s, o, n, b)) :
                 Overwritten(s, o, n, b)[i] =
                    IF i \in o + 1 .. o + n THEN b ELSE IF i <= Len(s) THEN s[i] ELSE Nul
<1> DEFINE m == IF Len(s) >= o + n THEN Len(s) ELSE o + n
           v(i) == IF i \in o + 1 .. o + n THEN b ELSE IF i <= Len(s) THEN s[i] ELSE Nul
<1>1. Len(s) \in Nat /\ \A i \in 1 .. Len(s) : s[i] \in Byte \cup {Nul}
  BY LenProperties, ElementOfSeq
<1>2. Max({Len(s), o + n}) = m /\ m \in Nat
  BY <1>1, MaxOfTwo
<1>3. Overwritten(s, o, n, b) = [i \in 1 .. m |-> v(i)]
  BY <1>2 DEF Overwritten
<1>4. \A i \in 1 .. m : v(i) \in Byte \cup {Nul}
  BY <1>1
<1>. HIDE DEF m, v
<1>5. [i \in 1 .. m |-> v(i)] \in Seq(Byte \cup {Nul}) /\ Len([i \in 1 .. m |-> v(i)]) = m
  BY <1>2, <1>4, IsASeq
<1>. QED  BY <1>3, <1>5 DEF m, v

LEMMA OverwrittenFirst ==
    ASSUME NEW s \in Seq(Byte \cup {Nul}), NEW n \in Nat, NEW b \in Byte \cup {Nul}
    PROVE  /\ Overwritten(s, 0, n, b) \in Seq(Byte \cup {Nul})
           /\ Len(Overwritten(s, 0, n, b)) = IF Len(s) >= n THEN Len(s) ELSE n
           /\ \A i \in 1 .. Len(Overwritten(s, 0, n, b)) :
                 Overwritten(s, 0, n, b)[i] = IF i \in 1 .. n THEN b ELSE IF i <= Len(s) THEN s[i] ELSE Nul
<1>1. ASSUME NEW o \in Nat
      PROVE  /\ Overwritten(s, o, n, b) \in Seq(Byte \cup {Nul})
             /\ Len(Overwritten(s, o, n, b)) = IF Len(s) >= o + n THEN Len(s) ELSE o + n
             /\ \A i \in 1 .. Len(Overwritten(s, o, n, b)) :
                   Overwritten(s, o, n, b)[i] =
                      IF i \in o + 1 .. o + n THEN b ELSE IF i <= Len(s) THEN s[i] ELSE Nul
  BY OverwrittenIsTyped, Zenon
<1>2. 0 \in Nat /\ 0 + n = n /\ 0 + 1 = 1
  OBVIOUS
<1>. QED  BY <1>1, <1>2

\* What is read of a block: the bytes before the first zero.
LEMMA TextIsPrefix ==
    ASSUME NEW s \in Seq(Byte \cup {Nul})
    PROVE  /\ Text(s) \in Seq(Byte \cup {Nul})
           /\ Len(Text(s)) <= Len(s)
           /\ \A i \in 1 .. Len(Text(s)) : Text(s)[i] = s[i]
           /\ \A n \in 0 .. Len(s) : (\A i \in 1 .. n : s[i] # Nul) => Len(Text(s)) >= n
<1> DEFINE Z == {i \in DOMAIN s : s[i] = Nul} \cup {Len(s) + 1}
<1>1. Len(s) \in Nat /\ DOMAIN s = 1 .. Len(s) /\ \A i \in 1 .. Len(s) : s[i] \in Byte \cup {Nul}
  BY LenProperties, ElementOfSeq
<1>2. Z \subseteq 1 .. Len(s) + 1 /\ Z \subseteq Nat /\ Z # {}
  BY <1>1
<1>3. Min(Z) \in Z
  BY <1>2, MinIsMember
<1>4. Text(s) = SubSeq(s, 1, Min(Z) - 1)
  BY DEF Text
<1>5. Min(Z) \in 1 .. Len(s) + 1
  BY <1>2, <1>3
<1>6. ASSUME NEW n \in 0 .. Len(s), \A i \in 1 .. n : s[i] # Nul
      PROVE  Min(Z) > n
  BY <1>1, <1>3, <1>5, <1>6
<1>. HIDE DEF Z
<1>7. \A i \in 1 .. Min(Z) - 1 : s[i] \in Byte \cup {Nul}
  BY <1>1, <1>5
<1>8. /\ SubSeq(s, 1, Min(Z) - 1) \in Seq(Byte \cup {Nul})
      /\ Len(SubSeq(s, 1, Min(Z) - 1)) = Min(Z) - 1
      /\ \A i \in 1 .. Min(Z) - 1 : SubSeq(s, 1, Min(Z) - 1)[i] = s[i]
  BY <1>1, <1>5, <1>7, SubSeqProperties, Z3
<1>. QED  BY <1>1, <1>4, <1>5, <1>6, <1>8
-----------------------------------------------------------------------------
(* Types, and what a request has at each of its points. *)

LEMMA JobTypes ==
    ASSUME TypeOK
    PROVE  /\ job.op \in {"none", "create", "save", "delete", "get"}
           /\ job.at \in {"idle", "block", "open", "persist", "record", "grow", "write", "size", "clear",
                          "free", "remove", "read"}
           /\ job.path \in Path \cup {NoFile} /\ job.offset \in Nat /\ job.size \in Nat
           /\ job.byte \in Byte \cup {Nul} /\ job.new \in Seq(Block) /\ job.block \in Block
           /\ job.place \in Nat /\ job.left \in Nat /\ job.data \in Seq(Byte \cup {Nul})
BY DEF TypeOK, Jobs

LEMMA IdleIsAJob == Idle \in Jobs
<1>1. 0 \in Block /\ <<>> \in Seq(Block) /\ <<>> \in Seq(Byte \cup {Nul})
  BY SadicaConstants DEF Block
<1>. QED  BY <1>1 DEF Idle, Jobs

LEMMA FileTypes ==
    ASSUME TypeOK, NEW p \in Path, Exists(p)
    PROVE  /\ records[p] \in FileRecord
           /\ records[p].size \in Nat /\ records[p].blocks \in Seq(Block)
           /\ Len(records[p].blocks) \in Nat
           /\ \A i \in 1 .. Len(records[p].blocks) : records[p].blocks[i] \in Block
<1>1. records[p] \in FileRecord
  BY DEF TypeOK, Exists
<1>2. records[p].size \in Nat /\ records[p].blocks \in Seq(Block)
  BY <1>1 DEF FileRecord
<1>. QED  BY <1>1, <1>2, LenProperties, ElementOfSeq

\* A block is behind.
LEMMA NextBlock ==
    ASSUME NEW at \in {"write", "size", "read"}, NEW place \in Nat, NEW left \in Nat,
           NEW data \in Seq(Byte \cup {Nul}), job \in Jobs,
           job' = [job EXCEPT !.at = at, !.place = place, !.left = left, !.data = data]
    PROVE  job' \in Jobs
BY DEF Jobs

\* Who has a file of his own to work on.
LEMMA TargetTypes ==
    ASSUME TypeOK, JobFits, job.op \in {"save", "delete", "get"}
    PROVE  /\ job.path \in Path /\ Exists(job.path)
           /\ records[job.path].size \in Nat /\ Target \in Seq(Block) /\ Len(Target) \in Nat
           /\ \A i \in 1 .. Len(Target) : Target[i] \in Block
BY FileTypes DEF JobFits, Target

LEMMA StartTypes ==
    ASSUME TypeOK
    PROVE  Start \in Nat /\ FirstPlace \in 0 .. BlockSize - 1 /\ FirstLength \in Int
           /\ FirstLength <= job.size /\ FirstPlace + FirstLength <= BlockSize
<1>1. job.offset \in Nat /\ job.size \in Nat /\ BlockSize \in Nat \ {0}
  BY JobTypes, SadicaConstants
<1>2. Start \in Nat /\ FirstPlace \in 0 .. BlockSize - 1
  BY <1>1, DivBounds DEF Start, FirstPlace
<1>3. Min({job.size, BlockSize}) = IF job.size <= BlockSize THEN job.size ELSE BlockSize
  BY <1>1, MinOfTwo
<1>. QED  BY <1>1, <1>2, <1>3 DEF FirstLength

\* The last block of a save or a read.
LEMMA ReachTypes ==
    ASSUME TypeOK, JobFits, job.op \in {"save", "get"}
    PROVE  /\ LastReached \in Int /\ LastReached <= Len(Target)
           /\ LastReached = IF (job.offset + job.size) \div BlockSize + 1 <= Len(Target)
                            THEN (job.offset + job.size) \div BlockSize + 1 ELSE Len(Target)
<1>1. Len(Target) \in Nat /\ job.offset + job.size \in Nat
  BY TargetTypes, JobTypes
<1>2. (job.offset + job.size) \div BlockSize + 1 \in Nat
  BY <1>1, SadicaConstants, DivBounds
<1>. QED  BY <1>1, <1>2, MinOfTwo DEF LastReached, Target

LEMMA FreeBlocksAreBlocks ==
    ASSUME FreeBlocks # {}
    PROVE  Min(FreeBlocks) \in Block /\ Min(FreeBlocks) \notin bitmap
<1>1. FreeBlocks \subseteq Nat
  BY SadicaConstants DEF FreeBlocks, Block
<1>. QED  BY <1>1, MinIsMember DEF FreeBlocks

LEMMA StepTypes ==
    ASSUME TypeOK, JobFits, [Next]_vars
    PROVE  TypeOK'
<1>. USE JobTypes
<1>0. CASE UNCHANGED vars
  BY <1>0 DEF vars, disk, TypeOK
<1>. DEFINE Same == UNCHANGED <<bitmap, disk, answer>>
<1>1. ASSUME job' \in Jobs, UNCHANGED <<bitmap, disk>>, answer' \in [ok : BOOLEAN, data : Seq(Byte \cup {Nul})]
      PROVE  TypeOK'
  BY <1>1 DEF TypeOK, disk
<1>2. ASSUME NEW ok \in BOOLEAN, Done(ok)
      PROVE  job' \in Jobs /\ answer' \in [ok : BOOLEAN, data : Seq(Byte \cup {Nul})]
  <2>1. <<>> \in Seq(Byte \cup {Nul})
    OBVIOUS
  <2>. QED  BY <1>2, <2>1, IdleIsAJob DEF Done
<1>3. ASSUME NEW d \in Seq(Byte \cup {Nul}), DoneReading(d)
      PROVE  job' \in Jobs /\ answer' \in [ok : BOOLEAN, data : Seq(Byte \cup {Nul})]
  BY <1>3, IdleIsAJob DEF DoneReading
<1>4. answer \in [ok : BOOLEAN, data : Seq(Byte \cup {Nul})]
  BY DEF TypeOK
<1>5. ASSUME NEW op \in {"create", "delete"}, NEW p \in Path, NEW point \in {"block", "clear"}, Begin(op, p, point)
      PROVE  job' \in Jobs
  BY <1>5, IdleIsAJob DEF Begin, Jobs
<1>6. ASSUME NEW p \in Path, ValidateFile(p)
      PROVE  TypeOK'
  BY <1>1, <1>2, <1>6 DEF ValidateFile, Exists
<1>7. ASSUME NEW p \in Path, CreateFile(p)
      PROVE  TypeOK'
  BY <1>1, <1>4, <1>5, <1>7 DEF CreateFile
<1>8. ASSUME NEW p \in Path, DeleteFile(p)
      PROVE  TypeOK'
  BY <1>1, <1>2, <1>4, <1>5, <1>8 DEF DeleteFile
<1>9. ASSUME NEW p \in Path, NEW o \in Offset, NEW n \in Size, NEW b \in Byte, SaveData(p, o, n, b)
      PROVE  TypeOK'
  <2>1. job' \in Jobs
    BY <1>9, IdleIsAJob, SadicaConstants DEF SaveData, Jobs
  <2>. QED  BY <1>1, <1>4, <1>9, <2>1 DEF SaveData
<1>10. ASSUME NEW p \in Path, NEW o \in Offset, NEW n \in Size, GetData(p, o, n)
       PROVE  TypeOK'
  <2>1. <<>> \in Seq(Byte \cup {Nul})
    OBVIOUS
  <2>. o \in Nat /\ n \in Nat
    BY SadicaConstants
  <2>2. o \div BlockSize \in Nat
    BY SadicaConstants, DivBounds
  <2>3. CASE records[p].size < o + n
    BY <1>1, <1>3, <1>10, <2>1, <2>3 DEF GetData
  <2>4. CASE ~(records[p].size < o + n)
    <3>1. job' \in Jobs
      <4>1. job' = [Idle EXCEPT !.op = "get", !.at = "read", !.path = p, !.offset = o, !.size = n,
                                !.place = o \div BlockSize + 1, !.left = n]
        BY <1>10, <2>4 DEF GetData
      <4>. DEFINE place == o \div BlockSize + 1
      <4>2. place \in Nat
        BY <2>2
      <4>. HIDE DEF place
      <4>3. job' = [Idle EXCEPT !.op = "get", !.at = "read", !.path = p, !.offset = o, !.size = n,
                                !.place = place, !.left = n]
        BY <4>1 DEF place
      <4>. QED  BY <4>2, <4>3, IdleIsAJob DEF Jobs
    <3>. QED  BY <1>1, <1>4, <1>10, <2>4, <3>1 DEF GetData
  <2>. QED  BY <2>3, <2>4
<1>11. CASE NoBlock
  BY <1>1, <1>2, <1>11 DEF NoBlock
<1>12. CASE SetBit
  <2>1. Min(FreeBlocks) \in Block
    BY <1>12, FreeBlocksAreBlocks DEF SetBit
  <2>2. job' \in Jobs
    BY <1>12, <2>1 DEF SetBit, Jobs, TypeOK
  <2>. QED  BY <1>12, <2>1, <2>2 DEF SetBit, disk, TypeOK
<1>13. CASE OpenBlock
  <2>1. <<>> \in Seq(Byte \cup {Nul})
    OBVIOUS
  <2>2. job' \in Jobs
    BY <1>13 DEF OpenBlock, Go, Jobs, TypeOK
  <2>. QED  BY <1>13, <2>1, <2>2 DEF OpenBlock, Opened, TypeOK
<1>14. CASE OpenFails
  BY <1>1, <1>2, <1>14 DEF OpenFails
<1>15. CASE PersistBlock
  <2>1. Append(job.new, job.block) \in Seq(Block)
    BY AppendProperties
  <2>2. job' \in Jobs
    BY <1>15, <2>1 DEF PersistBlock, Jobs, TypeOK
  <2>3. bitmapFile' \in [length : 0 .. Bytes, bits : SUBSET Block]
    BY <1>15, AsFileIsTyped DEF PersistBlock, UpdateBitmapFile, TypeOK
  <2>. QED  BY <1>15, <2>2, <2>3 DEF PersistBlock, TypeOK
<1>16. CASE WriteRecord
  <2>1. [size |-> 0, blocks |-> job.new] \in FileRecord
    BY DEF FileRecord
  <2>2. records' \in [Path -> {NoFile} \cup FileRecord]
    BY <1>16, <2>1 DEF WriteRecord, TypeOK
  <2>. QED  BY <1>2, <1>16, <2>2 DEF WriteRecord, TypeOK
<1>17. CASE Grow
  <2>1. job.path \in Path /\ records[job.path] \in FileRecord /\ Exists(job.path)
        /\ records[job.path].blocks \in Seq(Block) /\ records[job.path].size \in Nat
    BY <1>17, FileTypes DEF Grow, At, JobFits, StepsOf
  <2>2. records[job.path].blocks \o job.new \in Seq(Block)
    BY <2>1, ConcatProperties
  <2>3. [records[job.path] EXCEPT !.blocks = @ \o job.new] \in FileRecord
    BY <2>1, <2>2 DEF FileRecord
  <2>4. records' \in [Path -> {NoFile} \cup FileRecord]
    BY <1>17, <2>1, <2>3 DEF Grow, TypeOK
  <2>5. job.offset \div BlockSize + 1 \in Nat
    BY SadicaConstants, DivBounds
  <2>6. job' \in Jobs
    BY <1>17, <2>5 DEF Grow, Jobs, TypeOK
  <2>. QED  BY <1>17, <2>4, <2>6 DEF Grow, TypeOK
<1>18. CASE WriteBlock
  <2>. DEFINE first == job.place = job.offset \div BlockSize + 1
              place == IF first THEN FirstPlace ELSE 0
              length == IF first THEN FirstLength ELSE Min({job.left, BlockSize})
              block == records[job.path].blocks[job.place]
  <2>1. /\ At("write") /\ FirstLength >= 0
        /\ blocks' = [blocks EXCEPT ![block] = Overwritten(@, place, length, job.byte)]
        /\ job' = [job EXCEPT !.at = IF job.place < LastReached THEN "write" ELSE "size",
                              !.place = @ + 1, !.left = @ - length]
        /\ UNCHANGED <<bitmap, bitmapFile, records, answer>>
    BY <1>18 DEF WriteBlock
  <2>2. first => job.left = job.size
    BY <2>1 DEF At, JobFits, Start
  <2>3. Min({job.left, BlockSize}) = IF job.left <= BlockSize THEN job.left ELSE BlockSize
    BY SadicaConstants, MinOfTwo
  <2>4. place \in Nat /\ length \in Nat /\ job.left - length \in Nat
    BY <2>1, <2>2, <2>3, StartTypes, SadicaConstants
  <2>. HIDE DEF first, place, length, block
  <2>5. \A b \in Block : Overwritten(blocks[b], place, length, job.byte) \in Seq(Byte \cup {Nul})
    BY <2>4, OverwrittenIsTyped DEF TypeOK
  <2>6. blocks' \in [Block -> Seq(Byte \cup {Nul})]
    BY <2>1, <2>5 DEF TypeOK
  <2>. DEFINE next == IF job.place < LastReached THEN "write" ELSE "size"
              rest == job.left - length
  <2>7. next \in {"write", "size"} /\ rest \in Nat
    BY <2>4
  <2>8. job' = [job EXCEPT !.at = next, !.place = job.place + 1, !.left = rest, !.data = job.data]
    BY <2>1 DEF TypeOK, Jobs
  <2>. HIDE DEF next, rest
  <2>9. job.place + 1 \in Nat
    OBVIOUS
  <2>10. job' \in Jobs
    BY <2>7, <2>8, <2>9, NextBlock DEF TypeOK
  <2>. QED  BY <2>1, <2>6, <2>10 DEF TypeOK
<1>19. CASE UpdateFileSize
  <2>1. job.path \in Path /\ records[job.path] \in FileRecord /\ Exists(job.path)
        /\ records[job.path].size \in Nat
    BY <1>19, FileTypes DEF UpdateFileSize, At, JobFits, StepsOf
  <2>2. Max({records[job.path].size, job.offset + job.size}) \in Nat
    <3>1. job.offset + job.size \in Nat
      OBVIOUS
    <3>. QED  BY <2>1, <3>1, MaxOfTwo
  <2>3. [records[job.path] EXCEPT !.size = Max({@, job.offset + job.size})] \in FileRecord
    BY <2>1, <2>2 DEF FileRecord
  <2>4. records' \in [Path -> {NoFile} \cup FileRecord]
    BY <1>19, <2>1, <2>3 DEF UpdateFileSize, TypeOK
  <2>. QED  BY <1>2, <1>19, <2>4 DEF UpdateFileSize, TypeOK
<1>20. CASE ClearBits
  <2>1. job' \in Jobs
    BY <1>20 DEF ClearBits, Go, Jobs, TypeOK
  <2>. QED  BY <1>20, <2>1 DEF ClearBits, disk, TypeOK
<1>21. CASE PersistFreed
  <2>1. job' \in Jobs
    BY <1>21 DEF PersistFreed, Go, Jobs, TypeOK
  <2>2. bitmapFile' \in [length : 0 .. Bytes, bits : SUBSET Block]
    BY <1>21, AsFileIsTyped DEF PersistFreed, UpdateBitmapFile, TypeOK
  <2>. QED  BY <1>21, <2>1, <2>2 DEF PersistFreed, TypeOK
<1>22. CASE RemoveRecord
  <2>1. records' \in [Path -> {NoFile} \cup FileRecord]
    BY <1>22 DEF RemoveRecord, TypeOK
  <2>. QED  BY <1>2, <1>22, <2>1 DEF RemoveRecord, TypeOK
<1>23. CASE ReadBlock
  <2>. DEFINE text == Text(blocks[records[job.path].blocks[job.place]])
              length == Min({job.left, Len(text)})
  <2>1. /\ At("read") /\ job.place <= LastReached
        /\ job' = [job EXCEPT !.place = @ + 1, !.left = @ - length, !.data = @ \o SubSeq(text, 1, length)]
        /\ UNCHANGED <<bitmap, disk, answer>>
    BY <1>23 DEF ReadBlock
  <2>2. job.op = "get" /\ job.place > Start
    BY <2>1 DEF At, JobFits, StepsOf
  <2>3. job.place \in 1 .. Len(Target)
    BY <2>1, <2>2, ReachTypes, TargetTypes, StartTypes
  <2>4. text \in Seq(Byte \cup {Nul})
    BY <2>2, <2>3, TargetTypes, TextIsPrefix DEF Target, TypeOK
  <2>. HIDE DEF text
  <2>5. Len(text) \in Nat /\ \A i \in 1 .. Len(text) : text[i] \in Byte \cup {Nul}
    BY <2>4, LenProperties, ElementOfSeq
  <2>6. length \in 0 .. Len(text) /\ length <= job.left
    BY <2>5, MinOfTwo
  <2>. HIDE DEF length
  <2>7. \A i \in 1 .. length : text[i] \in Byte \cup {Nul}
    BY <2>5, <2>6
  <2>8. SubSeq(text, 1, length) \in Seq(Byte \cup {Nul})
    BY <2>6, <2>7, SubSeqProperties
  <2>9. job.data \o SubSeq(text, 1, length) \in Seq(Byte \cup {Nul})
    BY <2>8, ConcatProperties
  <2>. DEFINE rest == job.left - length
              all == job.data \o SubSeq(text, 1, length)
  <2>10. job' \in Jobs
    <3>1. job' = [job EXCEPT !.at = "read", !.place = job.place + 1, !.left = rest, !.data = all]
      BY <2>1 DEF TypeOK, Jobs, At
    <3>2. rest \in Nat /\ all \in Seq(Byte \cup {Nul}) /\ job.place + 1 \in Nat
      BY <2>6, <2>9
    <3>. HIDE DEF rest, all
    <3>. QED  BY <3>1, <3>2, NextBlock DEF TypeOK
  <2>. QED  BY <1>1, <1>4, <2>1, <2>10
<1>24. CASE DataRead
  BY <1>1, <1>3, <1>24 DEF DataRead
<1>25. CASE Restart
  <2>1. bitmap' \subseteq Block
    BY <1>25 DEF Restart, TypeOK
  <2>. QED  BY <1>25, <2>1, IdleIsAJob DEF Restart, TypeOK, disk
<1>. QED
  BY <1>0, <1>6, <1>7, <1>8, <1>9, <1>10, <1>11, <1>12, <1>13, <1>14, <1>15, <1>16, <1>17, <1>18, <1>19,
     <1>20, <1>21, <1>22, <1>23, <1>24, <1>25 DEF Next, Serve
-----------------------------------------------------------------------------
(* A request is served by its own steps. *)

LEMMA Points ==
    ASSUME TypeOK, JobFits
    PROVE  /\ At("idle") => job.op = "none"
           /\ At("block") \/ At("open") \/ At("persist") => job.op \in {"create", "save"}
           /\ At("record") => job.op = "create"
           /\ At("grow") \/ At("write") \/ At("size") => job.op = "save"
           /\ At("clear") \/ At("free") \/ At("remove") => job.op = "delete"
           /\ At("read") => job.op = "get"
           /\ job.op \in {"save", "delete", "get"} => job.path \in Path /\ Exists(job.path)
           /\ job.op = "create" => job.path \in Path
BY JobTypes DEF JobFits, StepsOf, At

\* The same request goes on at another point.
GoesOn(op, path, offset, size, byte, at) ==
    /\ job'.op = op /\ job'.path = path /\ job'.offset = offset /\ job'.size = size /\ job'.byte = byte
    /\ job'.at = at

LEMMA IdleJob ==
    ASSUME job' = Idle
    PROVE  job'.op = "none" /\ job'.at = "idle" /\ JobFits' /\ GivenAreFree'
<1>1. job'.op = "none" /\ job'.at = "idle"
  BY DEF Idle
<1>. QED  BY <1>1 DEF JobFits, StepsOf, At, GivenAreFree, Giving, Given

\* Every action but those that end a request.
LEMMA JobMoves ==
    ASSUME TypeOK, JobFits
    PROVE  /\ SetBit => /\ GoesOn(job.op, job.path, job.offset, job.size, job.byte, "open")
                        /\ job'.new = job.new /\ job'.block = Min(FreeBlocks)
           /\ OpenBlock => /\ GoesOn(job.op, job.path, job.offset, job.size, job.byte, "persist")
                           /\ job'.new = job.new /\ job'.block = job.block
           /\ PersistBlock =>
                 /\ GoesOn(job.op, job.path, job.offset, job.size, job.byte, job'.at)
                 /\ job'.new = Append(job.new, job.block)
                 /\ job'.at = IF job.op = "create" THEN "record"
                              ELSE IF Lacks(job.path, Append(job.new, job.block), job.offset, job.size)
                                   THEN "block" ELSE "grow"
           /\ Grow => /\ GoesOn(job.op, job.path, job.offset, job.size, job.byte, "write")
                      /\ job'.place = Start + 1 /\ job'.left = job.size
           /\ WriteBlock => /\ GoesOn(job.op, job.path, job.offset, job.size, job.byte, job'.at)
                            /\ job'.at = IF job.place < LastReached THEN "write" ELSE "size"
                            /\ job'.place = job.place + 1
           /\ ClearBits => GoesOn(job.op, job.path, job.offset, job.size, job.byte, "free")
           /\ PersistFreed => GoesOn(job.op, job.path, job.offset, job.size, job.byte, "remove")
           /\ ReadBlock => /\ GoesOn(job.op, job.path, job.offset, job.size, job.byte, "read")
                           /\ job'.place = job.place + 1
           /\ \A p \in Path :
                 /\ CreateFile(p) => GoesOn("create", p, 0, 0, Nul, "block") /\ job'.new = <<>>
                 /\ DeleteFile(p) => \/ job' = Idle
                                     \/ Exists(p) /\ GoesOn("delete", p, 0, 0, Nul, "clear")
           /\ \A p \in Path, o \in Offset, n \in Size :
                 /\ GetData(p, o, n) => \/ job' = Idle
                                        \/ /\ Exists(p) /\ GoesOn("get", p, o, n, Nul, "read")
                                           /\ job'.place = o \div BlockSize + 1 /\ job'.left = n
                                           /\ records[p].size >= o + n /\ job'.data = <<>>
                 /\ \A b \in Byte : SaveData(p, o, n, b) =>
                       /\ Exists(p) /\ GoesOn("save", p, o, n, b, job'.at) /\ job'.new = <<>>
                       /\ job'.at = IF Lacks(p, <<>>, o, n) THEN "block" ELSE "grow"
<1>. USE DEF TypeOK, Jobs, GoesOn
<1>1. SetBit => /\ GoesOn(job.op, job.path, job.offset, job.size, job.byte, "open")
                /\ job'.new = job.new /\ job'.block = Min(FreeBlocks)
  BY DEF SetBit
<1>2. OpenBlock => /\ GoesOn(job.op, job.path, job.offset, job.size, job.byte, "persist")
                   /\ job'.new = job.new /\ job'.block = job.block
  BY DEF OpenBlock, Go
<1>3. PersistBlock =>
         /\ GoesOn(job.op, job.path, job.offset, job.size, job.byte, job'.at)
         /\ job'.new = Append(job.new, job.block)
         /\ job'.at = IF job.op = "create" THEN "record"
                      ELSE IF Lacks(job.path, Append(job.new, job.block), job.offset, job.size)
                           THEN "block" ELSE "grow"
  BY DEF PersistBlock
<1>4. Grow => /\ GoesOn(job.op, job.path, job.offset, job.size, job.byte, "write")
              /\ job'.place = Start + 1 /\ job'.left = job.size
  BY DEF Grow, Start
<1>5. WriteBlock => /\ GoesOn(job.op, job.path, job.offset, job.size, job.byte, job'.at)
                    /\ job'.at = IF job.place < LastReached THEN "write" ELSE "size"
                    /\ job'.place = job.place + 1
  BY DEF WriteBlock
<1>6. ClearBits => GoesOn(job.op, job.path, job.offset, job.size, job.byte, "free")
  BY DEF ClearBits, Go
<1>7. PersistFreed => GoesOn(job.op, job.path, job.offset, job.size, job.byte, "remove")
  BY DEF PersistFreed, Go
<1>8. ReadBlock => /\ GoesOn(job.op, job.path, job.offset, job.size, job.byte, "read")
                   /\ job'.place = job.place + 1
  BY DEF ReadBlock, At
<1>9. ASSUME NEW p \in Path
      PROVE  /\ CreateFile(p) => GoesOn("create", p, 0, 0, Nul, "block") /\ job'.new = <<>>
             /\ DeleteFile(p) => \/ job' = Idle
                                 \/ Exists(p) /\ GoesOn("delete", p, 0, 0, Nul, "clear")
  BY DEF CreateFile, DeleteFile, Begin, Done, Idle
<1>10. ASSUME NEW p \in Path, NEW o \in Offset, NEW n \in Size, GetData(p, o, n)
       PROVE  \/ job' = Idle
              \/ /\ Exists(p) /\ GoesOn("get", p, o, n, Nul, "read")
                 /\ job'.place = o \div BlockSize + 1 /\ job'.left = n
                 /\ records[p].size >= o + n /\ job'.data = <<>>
  <2>1. CASE records[p].size < o + n
    BY <1>10, <2>1 DEF GetData, DoneReading
  <2>2. CASE ~(records[p].size < o + n)
    <3>1. records[p].size \in Nat /\ o + n \in Nat
      BY <1>10, FileTypes, SadicaConstants DEF GetData
    <3>2. records[p].size >= o + n
      BY <2>2, <3>1
    <3>3. job' = [Idle EXCEPT !.op = "get", !.at = "read", !.path = p, !.offset = o, !.size = n,
                              !.place = o \div BlockSize + 1, !.left = n]
      BY <1>10, <2>2 DEF GetData
    <3>. QED  BY <1>10, <3>2, <3>3 DEF Idle, GetData
  <2>. QED  BY <2>1, <2>2
<1>11. ASSUME NEW p \in Path, NEW o \in Offset, NEW n \in Size, NEW b \in Byte, SaveData(p, o, n, b)
       PROVE  /\ Exists(p) /\ GoesOn("save", p, o, n, b, job'.at) /\ job'.new = <<>>
              /\ job'.at = IF Lacks(p, <<>>, o, n) THEN "block" ELSE "grow"
  BY <1>11 DEF SaveData, Idle
<1>. QED  BY <1>1, <1>2, <1>3, <1>4, <1>5, <1>6, <1>7, <1>8, <1>9, <1>10, <1>11

\* The actions that end a request.
Ends ==
    \/ NoBlock \/ OpenFails \/ WriteRecord \/ UpdateFileSize \/ RemoveRecord \/ DataRead \/ Restart
    \/ \E p \in Path : ValidateFile(p)

LEMMA EndIsIdle ==
    ASSUME Ends
    PROVE  job' = Idle
BY DEF Ends, NoBlock, OpenFails, WriteRecord, UpdateFileSize, RemoveRecord, DataRead, Restart, ValidateFile,
       Done, DoneReading

LEMMA StepFits ==
    ASSUME TypeOK, JobFits, [Next]_vars
    PROVE  JobFits'
<1>. USE JobMoves, Points, JobTypes
<1>0. CASE UNCHANGED vars
  BY <1>0 DEF vars, disk, JobFits, At, Exists, Start
<1>1. CASE Ends
  BY <1>1, EndIsIdle, IdleJob
<1>2. ASSUME job'.at \in StepsOf(job.op), job'.at \notin {"write", "read"}, records' = records,
             GoesOn(job.op, job.path, job.offset, job.size, job.byte, job'.at)
      PROVE  JobFits'
  BY <1>2 DEF JobFits, GoesOn, At, Exists
<1>3. CASE SetBit
  BY <1>2, <1>3 DEF SetBit, GoesOn, At, StepsOf, disk
<1>4. CASE OpenBlock
  BY <1>2, <1>4 DEF OpenBlock, GoesOn, At, StepsOf
<1>5. CASE PersistBlock
  BY <1>2, <1>5 DEF PersistBlock, GoesOn, At, StepsOf
<1>6. CASE Grow
  <2>1. At("grow") /\ job.op = "save" /\ job.path \in Path /\ Exists(job.path)
    BY <1>6 DEF Grow
  <2>2. Exists(job.path)'
    <3>1. records' = [records EXCEPT ![job.path].blocks = @ \o job.new] /\ job'.path = job.path
      BY <1>6 DEF Grow, GoesOn
    <3>2. records'[job.path] = [records[job.path] EXCEPT !.blocks = @ \o job.new]
      BY <2>1, <3>1 DEF TypeOK
    <3>3. records[job.path] \in FileRecord /\ records[job.path].blocks \o job.new \in Seq(Block)
      BY <2>1, FileTypes, ConcatProperties
    <3>4. records'[job.path] \in FileRecord
      BY <3>2, <3>3 DEF FileRecord
    <3>. QED  BY <3>1, <3>4, SadicaConstants DEF Exists
  <2>3. Start' = Start /\ Start \in Nat
    BY <1>6, StartTypes DEF GoesOn, Start
  <2>. QED  BY <1>6, <2>1, <2>2, <2>3 DEF GoesOn, JobFits, StepsOf, At, Exists
<1>7. CASE WriteBlock
  <2>1. At("write") /\ job.op = "save" /\ job.path \in Path /\ Exists(job.path) /\ records' = records
    BY <1>7 DEF WriteBlock
  <2>2. Start' = Start /\ Start \in Nat
    BY <1>7, StartTypes DEF GoesOn, Start
  <2>3. job.place > Start
    BY <2>1 DEF JobFits
  <2>4. job'.place > Start + 1
    BY <1>7, <2>2, <2>3
  <2>. QED  BY <1>7, <2>1, <2>2, <2>4 DEF GoesOn, JobFits, StepsOf, At, Exists
<1>8. CASE ClearBits
  BY <1>2, <1>8 DEF ClearBits, GoesOn, At, StepsOf, disk
<1>9. CASE PersistFreed
  BY <1>2, <1>9 DEF PersistFreed, GoesOn, At, StepsOf
<1>10. CASE ReadBlock
  <2>1. At("read") /\ job.op = "get" /\ job.path \in Path /\ Exists(job.path) /\ records' = records
    BY <1>10 DEF ReadBlock, disk
  <2>2. Start' = Start /\ Start \in Nat
    BY <1>10, StartTypes DEF GoesOn, Start
  <2>3. job.place > Start
    BY <2>1 DEF JobFits
  <2>4. job'.place > Start
    BY <1>10, <2>2, <2>3
  <2>. QED  BY <1>10, <2>1, <2>2, <2>4 DEF GoesOn, JobFits, StepsOf, At, Exists
<1>11. ASSUME NEW p \in Path, CreateFile(p)
       PROVE  JobFits'
  BY <1>11 DEF GoesOn, JobFits, StepsOf, At
<1>12. ASSUME NEW p \in Path, DeleteFile(p)
       PROVE  JobFits'
  <2>1. CASE job' = Idle
    BY <2>1, IdleJob
  <2>2. CASE job' # Idle
    <3>1. records' = records
      BY <1>12 DEF DeleteFile, disk
    <3>2. Exists(p) /\ GoesOn("delete", p, 0, 0, Nul, "clear")
      BY <1>12, <2>2
    <3>. QED  BY <3>1, <3>2 DEF GoesOn, JobFits, StepsOf, At, Exists
  <2>. QED  BY <2>1, <2>2
<1>13. ASSUME NEW p \in Path, NEW o \in Offset, NEW n \in Size, GetData(p, o, n)
       PROVE  JobFits'
  <2>1. CASE job' = Idle
    BY <2>1, IdleJob
  <2>2. CASE job' # Idle
    <3>1. Exists(p) /\ GoesOn("get", p, o, n, Nul, "read") /\ job'.place = o \div BlockSize + 1
          /\ records' = records
      <4>1. records' = records
        BY <1>13 DEF GetData, disk
      <4>. QED  BY <1>13, <2>2, <4>1
    <3>2. o \in Nat /\ o \div BlockSize \in Nat
      BY SadicaConstants, DivBounds
    <3>3. job'.place > Start'
      BY <3>1, <3>2 DEF GoesOn, Start
    <3>. QED  BY <3>1, <3>3 DEF GoesOn, JobFits, StepsOf, At, Exists
  <2>. QED  BY <2>1, <2>2
<1>14. ASSUME NEW p \in Path, NEW o \in Offset, NEW n \in Size, NEW b \in Byte, SaveData(p, o, n, b)
       PROVE  JobFits'
  <2>1. Exists(p) /\ GoesOn("save", p, o, n, b, job'.at) /\ job'.at \in {"block", "grow"} /\ records' = records
    BY <1>14 DEF SaveData, disk
  <2>. QED  BY <2>1 DEF GoesOn, JobFits, StepsOf, At, Exists
<1>. QED
  BY <1>0, <1>1, <1>3, <1>4, <1>5, <1>6, <1>7, <1>8, <1>9, <1>10, <1>11, <1>12, <1>13, <1>14
     DEF Next, Serve, Ends
-----------------------------------------------------------------------------
(* Whose each block is. *)

LEMMA HasTypes ==
    ASSUME TypeOK, NEW p \in Path, NEW b, Has(records, p, b)
    PROVE  b \in Block /\ Exists(p)
<1>1. Exists(p)
  BY DEF Has, Exists
<1>2. \A i \in 1 .. Len(records[p].blocks) : records[p].blocks[i] \in Block
  BY <1>1, FileTypes
<1>. QED  BY <1>1, <1>2 DEF Has, Holds

\* What a step gives and takes.
LEMMA WriteRecordMoves ==
    ASSUME TypeOK, JobFits, WriteRecord
    PROVE  \A p \in Path :
              /\ p # job.path => records'[p] = records[p]
              /\ p = job.path => Exists(p)' /\ records'[p].blocks = job.new
<1>1. [size |-> 0, blocks |-> job.new] \in FileRecord /\ [size |-> 0, blocks |-> job.new].blocks = job.new
  BY JobTypes DEF FileRecord
<1>2. records' = [records EXCEPT ![job.path] = [size |-> 0, blocks |-> job.new]]
  BY DEF WriteRecord
<1>. DEFINE r == [size |-> 0, blocks |-> job.new]
<1>. HIDE DEF r
<1>3. records' = [records EXCEPT ![job.path] = r] /\ r \in FileRecord /\ r.blocks = job.new
  BY <1>1, <1>2 DEF r
<1>. QED  BY <1>3, SadicaConstants DEF Exists, TypeOK

LEMMA GrowMoves ==
    ASSUME TypeOK, JobFits, Grow
    PROVE  \A p \in Path :
              /\ p # job.path => records'[p] = records[p]
              /\ p = job.path => /\ Exists(p) /\ Exists(p)' /\ records'[p].size = records[p].size
                                 /\ records'[p].blocks = records[p].blocks \o job.new
<1>1. job.path \in Path /\ Exists(job.path)
  BY Points DEF Grow
<1>2. records' = [records EXCEPT ![job.path].blocks = @ \o job.new]
  BY DEF Grow
<1>3. records'[job.path] = [records[job.path] EXCEPT !.blocks = @ \o job.new]
  BY <1>1, <1>2 DEF TypeOK
<1>4. records[job.path] \in FileRecord /\ records[job.path].blocks \o job.new \in Seq(Block)
  BY <1>1, FileTypes, JobTypes, ConcatProperties
<1>5. /\ records'[job.path] \in FileRecord /\ records'[job.path].size = records[job.path].size
      /\ records'[job.path].blocks = records[job.path].blocks \o job.new
  BY <1>3, <1>4 DEF FileRecord
<1>6. Exists(job.path)'
  <2>1. job'.path = job.path
    BY JobMoves DEF GoesOn
  <2>. QED  BY <1>5, <2>1, SadicaConstants DEF Exists
<1>7. \A p \in Path : p # job.path => records'[p] = records[p]
  BY <1>2 DEF TypeOK
<1>8. job'.path = job.path
  BY JobMoves DEF GoesOn
<1>9. \A p \in Path : p = job.path => Exists(p)'
  BY <1>6, <1>8 DEF Exists
<1>. QED  BY <1>1, <1>5, <1>7, <1>9

LEMMA UpdateFileSizeMoves ==
    ASSUME TypeOK, JobFits, UpdateFileSize
    PROVE  \A p \in Path :
              /\ p # job.path => records'[p] = records[p]
              /\ p = job.path => /\ Exists(p) /\ Exists(p)' /\ records'[p].blocks = records[p].blocks
                                 /\ records'[p].size = Max({records[p].size, job.offset + job.size})
<1>1. job.path \in Path /\ Exists(job.path)
  BY Points DEF UpdateFileSize
<1>. DEFINE larger == Max({records[job.path].size, job.offset + job.size})
<1>2. larger \in Nat
  <2>1. records[job.path].size \in Nat /\ job.offset + job.size \in Nat
    BY <1>1, FileTypes, JobTypes
  <2>. QED  BY <2>1, MaxOfTwo
<1>3. records' = [records EXCEPT ![job.path].size = larger]
  BY DEF UpdateFileSize
<1>. HIDE DEF larger
<1>4. records'[job.path] = [records[job.path] EXCEPT !.size = larger]
  BY <1>1, <1>3 DEF TypeOK
<1>5. /\ records'[job.path] \in FileRecord /\ records'[job.path].size = larger
      /\ records'[job.path].blocks = records[job.path].blocks
  BY <1>1, <1>2, <1>4, FileTypes DEF FileRecord
<1>6. \A p \in Path : p # job.path => records'[p] = records[p]
  BY <1>3 DEF TypeOK
<1>7. \A p \in Path : p = job.path => Exists(p)'
  BY <1>5, SadicaConstants DEF Exists
<1>. QED  BY <1>1, <1>5, <1>6, <1>7 DEF larger

LEMMA RemoveRecordMoves ==
    ASSUME TypeOK, RemoveRecord
    PROVE  \A p \in Path :
              /\ p # job.path => records'[p] = records[p]
              /\ p = job.path => ~Exists(p)'
BY DEF RemoveRecord, TypeOK, Exists

\* The rest of Next leaves the records alone.
LEMMA RecordsChange ==
    ASSUME [Next]_vars
    PROVE  records' = records \/ WriteRecord \/ Grow \/ UpdateFileSize \/ RemoveRecord
BY DEF Next, Serve, vars, disk, NoBlock, SetBit, OpenBlock, OpenFails, PersistBlock, WriteBlock, ClearBits,
       PersistFreed, ReadBlock, DataRead, Restart, ValidateFile, CreateFile, DeleteFile, SaveData, GetData

LEMMA StepApart ==
    ASSUME IInv, [Next]_vars
    PROVE  BlocksAreApart'
<1>. USE DEF IInv
<1>1. CASE records' = records
  BY <1>1 DEF BlocksAreApart, Has, Exists
<1>2. CASE WriteRecord
  <2>1. Giving /\ Distinct(job.new)
    BY <1>2 DEF WriteRecord, At, Giving, GivenAreFree
  <2>2. \A p \in Path : Exists(p)' => Distinct(records'[p].blocks)
    BY <1>2, <2>1, WriteRecordMoves DEF BlocksAreApart, Exists
  <2>3. \A p \in Path, b \in Block : Has(records', p, b) =>
           IF p = job.path THEN Given(b) ELSE Has(records, p, b)
    BY <1>2, <2>1, WriteRecordMoves DEF Has, Given
  <2>4. \A p, q \in Path, b \in Block : Has(records', p, b) /\ Has(records', q, b) => p = q
    BY <2>3 DEF BlocksAreApart, GivenAreFree
  <2>. QED  BY <2>2, <2>4 DEF BlocksAreApart
<1>3. CASE Grow
  <2>1. Giving /\ Distinct(job.new)
    BY <1>3 DEF Grow, At, Giving, GivenAreFree
  <2>2. \A p \in Path, b \in Block : Has(records', p, b) =>
           Has(records, p, b) \/ (p = job.path /\ Given(b))
    <3>1. SUFFICES ASSUME NEW p \in Path, p = job.path, NEW b \in Block, Has(records', p, b)
                   PROVE  Has(records, p, b) \/ Given(b)
      BY <1>3, GrowMoves DEF Has
    <3>2. Exists(p) /\ records[p].blocks \in Seq(Block) /\ job.new \in Seq(Block)
          /\ records'[p].blocks = records[p].blocks \o job.new
      BY <1>3, <3>1, GrowMoves, FileTypes, JobTypes
    <3>3. Holds(records[p].blocks, b) \/ Holds(job.new, b)
      BY <3>1, <3>2, ConcatDistinct DEF Has
    <3>. QED  BY <2>1, <3>2, <3>3 DEF Has, Exists, Given
  <2>3. \A p, q \in Path, b \in Block : Has(records', p, b) /\ Has(records', q, b) => p = q
    BY <2>2 DEF BlocksAreApart, GivenAreFree
  <2>4. ASSUME NEW p \in Path, p = job.path
        PROVE  Distinct(records'[p].blocks)
    <3>1. Exists(p) /\ records[p].blocks \in Seq(Block) /\ job.new \in Seq(Block)
          /\ records'[p].blocks = records[p].blocks \o job.new
      BY <1>3, <2>4, GrowMoves, FileTypes, JobTypes
    <3>2. \A b \in Block : ~(Holds(records[p].blocks, b) /\ Holds(job.new, b))
      BY <2>1, <3>1 DEF GivenAreFree, Given, Has, Exists
    <3>. QED  BY <2>1, <3>1, <3>2, ConcatDistinct DEF BlocksAreApart
  <2>5. \A p \in Path : Exists(p)' => Distinct(records'[p].blocks)
    BY <1>3, <2>4, GrowMoves DEF BlocksAreApart, Exists
  <2>. QED  BY <2>3, <2>5 DEF BlocksAreApart
<1>4. CASE UpdateFileSize
  <2>1. \A p \in Path, b \in Block : Has(records', p, b) => Has(records, p, b)
    BY <1>4, UpdateFileSizeMoves DEF Has, Exists
  <2>2. \A p \in Path : Exists(p)' => Exists(p) /\ records'[p].blocks = records[p].blocks
    BY <1>4, UpdateFileSizeMoves DEF Exists
  <2>. QED  BY <2>1, <2>2 DEF BlocksAreApart
<1>5. CASE RemoveRecord
  <2>1. \A p \in Path, b \in Block : Has(records', p, b) => Has(records, p, b)
    BY <1>5, RemoveRecordMoves DEF Has, Exists
  <2>2. \A p \in Path : Exists(p)' => Exists(p) /\ records'[p].blocks = records[p].blocks
    BY <1>5, RemoveRecordMoves DEF Exists
  <2>. QED  BY <2>1, <2>2 DEF BlocksAreApart
<1>. QED  BY <1>1, <1>2, <1>3, <1>4, <1>5, RecordsChange

LEMMA StepGiven ==
    ASSUME IInv, NothingIsCut, [Next]_vars
    PROVE  GivenAreFree'
<1>. USE DEF IInv
<1>1. ASSUME job'.at \notin {"block", "open", "persist", "record", "grow"}
      PROVE  GivenAreFree'
  BY <1>1 DEF GivenAreFree, Giving, Given
<1>2. ASSUME job'.at \in {"block", "grow"}, job'.new = <<>>
      PROVE  GivenAreFree'
  BY <1>2 DEF GivenAreFree, Giving, Given, Holds, Distinct
<1>3. CASE UNCHANGED vars
  BY <1>3 DEF vars, disk, GivenAreFree, Giving, Given, Has
<1>4. CASE Ends
  BY <1>4, EndIsIdle, IdleJob
<1>5. CASE Grow \/ WriteBlock \/ ClearBits \/ PersistFreed \/ ReadBlock
  BY <1>1, <1>5, JobMoves DEF GoesOn
<1>6. ASSUME NEW p \in Path, NEW o \in Offset, NEW n \in Size, GetData(p, o, n)
      PROVE  GivenAreFree'
  BY <1>1, <1>6, JobMoves, IdleJob DEF GoesOn
<1>7. ASSUME NEW p \in Path, CreateFile(p) \/ DeleteFile(p)
      PROVE  GivenAreFree'
  BY <1>1, <1>2, <1>7, JobMoves, IdleJob DEF GoesOn
<1>8. ASSUME NEW p \in Path, NEW o \in Offset, NEW n \in Size, NEW b \in Byte, SaveData(p, o, n, b)
      PROVE  GivenAreFree'
  BY <1>2, <1>8, JobMoves
<1>9. CASE SetBit
  <2>. DEFINE m == Min(FreeBlocks)
  <2>1. m \in Block /\ m \notin bitmap
    BY <1>9, FreeBlocksAreBlocks DEF SetBit
  <2>2. /\ At("block") /\ bitmap' = bitmap \cup {m} /\ bitmapFile' = bitmapFile /\ records' = records
        /\ job'.at = "open" /\ job'.new = job.new /\ job'.block = m
    BY <1>9, JobMoves DEF SetBit, GoesOn, disk
  <2>. HIDE DEF m
  <2>3. Giving /\ \A b \in Block : Holds(job.new, b) => Given(b)
    BY <2>2 DEF Giving, Given, At
  <2>4. \A b \in Block : Given(b)' <=> Given(b) \/ b = m
    BY <2>2, <2>3 DEF Giving, Given, At
  <2>5. \A p \in Path : ~Has(records, p, m)
    BY <2>1, <2>2, Points DEF BlocksAreKnown
  <2>6. ~Holds(job.new, m)
    BY <2>1, <2>3 DEF GivenAreFree
  <2>. QED  BY <2>1, <2>2, <2>3, <2>4, <2>5, <2>6 DEF GivenAreFree, Giving
<1>10. CASE OpenBlock
  <2>1. /\ At("open") /\ bitmap' = bitmap /\ bitmapFile' = bitmapFile /\ records' = records
        /\ job'.at = "persist" /\ job'.new = job.new /\ job'.block = job.block
    BY <1>10, JobMoves DEF OpenBlock, GoesOn
  <2>2. \A b \in Block : Given(b)' <=> Given(b)
    BY <2>1 DEF Giving, Given, At
  <2>. QED  BY <2>1, <2>2 DEF GivenAreFree, Giving, At
<1>11. CASE PersistBlock
  <2>1. /\ At("persist") /\ bitmap' = bitmap /\ bitmapFile' = AsFile(bitmap) /\ records' = records
        /\ job'.at \in {"record", "block", "grow"} /\ job'.new = Append(job.new, job.block)
    BY <1>11, JobMoves DEF PersistBlock, UpdateBitmapFile, GoesOn
  <2>2. bitmapFile'.bits = bitmap
    BY <2>1, AsFileIsTyped DEF NothingIsCut, TypeOK
  <2>3. /\ Distinct(job.new) /\ ~Holds(job.new, job.block)
        /\ \A b \in Block : Given(b) <=> Holds(job.new, b) \/ b = job.block
    BY <2>1 DEF GivenAreFree, Giving, Given, At
  <2>4. Distinct(job'.new) /\ \A b \in Block : Holds(job'.new, b) <=> Given(b)
    BY <2>1, <2>3, JobTypes, AppendDistinct
  <2>5. \A b \in Block : Given(b)' <=> Given(b)
    BY <2>1, <2>4 DEF Giving, Given
  <2>. QED  BY <2>1, <2>2, <2>4, <2>5 DEF GivenAreFree
<1>. QED
  BY <1>3, <1>4, <1>5, <1>6, <1>7, <1>8, <1>9, <1>10, <1>11 DEF Next, Serve, Ends

LEMMA StepKnown ==
    ASSUME IInv, NothingIsCut, DeletesAreWhole, [Next]_vars
    PROVE  BlocksAreKnown'
<1>. USE DEF IInv
<1>. DEFINE Still(p) == /\ \A b \in Block : Has(records', p, b) => Has(records, p, b)
                        /\ (job.op = "delete" /\ job.path = p) => (job'.op = "delete" /\ job'.path = p)
\* Nothing is unmarked, in memory or on the disk.
<1>1. ASSUME bitmap \subseteq bitmap', bitmapFile'.bits \in {bitmap, bitmapFile.bits},
             \A p \in Path : Still(p)
      PROVE  BlocksAreKnown'
  BY <1>1 DEF BlocksAreKnown
<1>. DEFINE Same == bitmap' = bitmap /\ bitmapFile' = bitmapFile
<1>2. CASE UNCHANGED vars
  BY <1>2 DEF vars, disk, BlocksAreKnown
<1>3. CASE NoBlock \/ OpenFails \/ DataRead \/ \E p \in Path : ValidateFile(p)
  <2>1. Same /\ records' = records /\ job.op # "delete"
    BY <1>3, Points DEF NoBlock, OpenFails, DataRead, ValidateFile, disk
  <2>. QED  BY <1>1, <2>1
<1>4. CASE Restart
  <2>1. job.op # "delete" /\ records' = records /\ bitmapFile' = bitmapFile /\ bitmapFile.bits \subseteq bitmap'
    BY <1>4, SadicaConstants DEF Restart, DeletesAreWhole, disk
  <2>. QED  BY <2>1 DEF BlocksAreKnown
<1>5. CASE SetBit
  <2>1. /\ bitmap \subseteq bitmap' /\ bitmapFile' = bitmapFile /\ records' = records
        /\ job'.op = job.op /\ job'.path = job.path
    BY <1>5, JobMoves DEF SetBit, GoesOn, disk
  <2>. QED  BY <1>1, <2>1
<1>6. CASE OpenBlock \/ WriteBlock \/ ReadBlock
  <2>1. Same /\ records' = records /\ job'.op = job.op /\ job'.path = job.path
    BY <1>6, JobMoves DEF OpenBlock, WriteBlock, ReadBlock, GoesOn, disk
  <2>. QED  BY <1>1, <2>1
<1>7. CASE PersistBlock \/ PersistFreed
  <2>1. /\ bitmap' = bitmap /\ bitmapFile' = AsFile(bitmap) /\ records' = records
        /\ job'.op = job.op /\ job'.path = job.path
    BY <1>7, JobMoves DEF PersistBlock, PersistFreed, UpdateBitmapFile, GoesOn
  <2>2. bitmapFile'.bits = bitmap
    BY <2>1, AsFileIsTyped DEF NothingIsCut, TypeOK
  <2>. QED  BY <1>1, <2>1, <2>2
<1>8. CASE WriteRecord
  <2>1. Same /\ job.op = "create" /\ At("record") /\ job'.op = "none"
    BY <1>8, Points, IdleJob DEF WriteRecord, Done
  <2>2. ASSUME NEW p \in Path, NEW b \in Block, Has(records', p, b)
        PROVE  b \in bitmap /\ b \in bitmapFile.bits
    <3>1. CASE p = job.path
      <4>1. Holds(job.new, b)
        BY <1>8, <2>2, <3>1, WriteRecordMoves DEF Has
      <4>. QED  BY <2>1, <4>1 DEF GivenAreFree, Given, Giving, At
    <3>2. CASE p # job.path
      BY <1>8, <2>1, <2>2, <3>2, WriteRecordMoves DEF Has, BlocksAreKnown
    <3>. QED  BY <3>1, <3>2
  <2>. QED  BY <2>1, <2>2 DEF BlocksAreKnown
<1>9. CASE Grow
  <2>1. Same /\ job.op = "save" /\ At("grow") /\ job.path \in Path
    BY <1>9, Points DEF Grow
  <2>2. ASSUME NEW p \in Path, NEW b \in Block, Has(records', p, b)
        PROVE  b \in bitmap /\ b \in bitmapFile.bits
    <3>1. CASE p = job.path
      <4>1. Exists(p) /\ records[p].blocks \in Seq(Block) /\ job.new \in Seq(Block)
            /\ records'[p].blocks = records[p].blocks \o job.new
        BY <1>9, <3>1, GrowMoves, FileTypes, JobTypes
      <4>2. Has(records, p, b) \/ Holds(job.new, b)
        BY <2>2, <4>1, ConcatDistinct DEF Has, Exists
      <4>. QED  BY <2>1, <4>2 DEF GivenAreFree, Given, Giving, At, BlocksAreKnown
    <3>2. CASE p # job.path
      BY <1>9, <2>1, <2>2, <3>2, GrowMoves DEF Has, BlocksAreKnown
    <3>. QED  BY <3>1, <3>2
  <2>. QED  BY <2>1, <2>2 DEF BlocksAreKnown
<1>10. CASE UpdateFileSize
  <2>1. Same /\ job.op = "save"
    BY <1>10, Points DEF UpdateFileSize
  <2>2. \A p \in Path, b \in Block : Has(records', p, b) => Has(records, p, b)
    BY <1>10, UpdateFileSizeMoves DEF Has, Exists
  <2>. QED  BY <1>1, <2>1, <2>2
<1>11. CASE RemoveRecord
  <2>1. Same
    BY <1>11 DEF RemoveRecord
  <2>2. \A p \in Path, b \in Block : Has(records', p, b) => Has(records, p, b) /\ p # job.path
    BY <1>11, RemoveRecordMoves DEF Has, Exists
  <2>. QED  BY <2>1, <2>2 DEF BlocksAreKnown
<1>12. CASE ClearBits
  <2>1. /\ At("clear") /\ job.op = "delete" /\ job.path \in Path /\ Exists(job.path)
        /\ bitmap' = bitmap \ ToSet(records[job.path].blocks) /\ bitmapFile' = bitmapFile /\ records' = records
        /\ job'.op = "delete" /\ job'.path = job.path
    BY <1>12, Points, JobMoves DEF ClearBits, GoesOn, disk
  <2>2. ASSUME NEW p \in Path, NEW b \in Block, Has(records, p, b), p # job.path
        PROVE  b \in bitmap' /\ b \in bitmapFile.bits
    <3>1. b \in bitmap /\ b \in bitmapFile.bits
      BY <2>2 DEF BlocksAreKnown
    <3>2. ~Has(records, job.path, b)
      BY <2>1, <2>2 DEF BlocksAreApart
    <3>3. b \notin ToSet(records[job.path].blocks)
      BY <2>1, <3>2, FileTypes, ToSetHolds DEF Has, Exists
    <3>. QED  BY <2>1, <3>1, <3>3
  <2>. QED  BY <2>1, <2>2 DEF BlocksAreKnown
\* The requests that begin.
<1>13. ASSUME At("idle"), Same, records' = records
       PROVE  BlocksAreKnown'
  BY <1>1, <1>13, Points
<1>14. ASSUME NEW p \in Path, CreateFile(p) \/ DeleteFile(p)
       PROVE  BlocksAreKnown'
  BY <1>13, <1>14 DEF CreateFile, DeleteFile, Begin, disk
<1>15. ASSUME NEW p \in Path, NEW o \in Offset, NEW n \in Size, GetData(p, o, n)
       PROVE  BlocksAreKnown'
  BY <1>13, <1>15 DEF GetData, disk
<1>16. ASSUME NEW p \in Path, NEW o \in Offset, NEW n \in Size, NEW b \in Byte, SaveData(p, o, n, b)
       PROVE  BlocksAreKnown'
  BY <1>13, <1>16 DEF SaveData, disk
<1>. QED
  BY <1>2, <1>3, <1>4, <1>5, <1>6, <1>7, <1>8, <1>9, <1>10, <1>11, <1>12, <1>14, <1>15, <1>16 DEF Next, Serve
-----------------------------------------------------------------------------
LEMMA InitInv == Init => IInv
<1>. SUFFICES ASSUME Init PROVE IInv
  OBVIOUS
<1>1. TypeOK
  <2>1. bitmapFile \in [length : 0 .. Bytes, bits : SUBSET Block]
    BY AsFileIsTyped DEF Init
  <2>. QED  BY <2>1, IdleIsAJob DEF Init, TypeOK
<1>2. job.op = "none" /\ job.at = "idle" /\ \A p \in Path : ~Exists(p)
  BY DEF Init, Idle, Exists
<1>. QED  BY <1>1, <1>2 DEF IInv, JobFits, StepsOf, At, GivenAreFree, Giving, Given, BlocksAreApart, BlocksAreKnown,
                     Has, Exists

LEMMA StepInv ==
    ASSUME IInv, NothingIsCut, DeletesAreWhole, [Next]_vars
    PROVE  IInv'
<1>. USE DEF IInv
<1>1. TypeOK'
  BY StepTypes
<1>2. JobFits'
  BY StepFits
<1>3. GivenAreFree'
  BY StepGiven
<1>4. BlocksAreApart'
  BY StepApart
<1>5. BlocksAreKnown'
  BY StepKnown
<1>. QED  BY <1>1, <1>2, <1>3, <1>4, <1>5

LEMMA InvIsEnough ==
    ASSUME IInv
    PROVE  BlocksAreNotShared /\ BlocksAreMarked
<1>. USE DEF IInv
<1>1. ASSUME NEW p \in Path
      PROVE  /\ BlocksOf(p) \in Seq(Block) /\ DOMAIN BlocksOf(p) = 1 .. Len(BlocksOf(p))
             /\ Distinct(BlocksOf(p)) /\ \A b : Holds(BlocksOf(p), b) <=> Has(records, p, b)
  <2>1. CASE Exists(p)
    BY <2>1, FileTypes, LenProperties DEF BlocksOf, BlocksAreApart, Has, Exists
  <2>2. CASE ~Exists(p)
    BY <2>2 DEF BlocksOf, Has, Exists, Holds, Distinct
  <2>. QED  BY <2>1, <2>2
<1>2. ASSUME NEW p \in Path, NEW q \in Path, NEW i \in DOMAIN BlocksOf(p), NEW j \in DOMAIN BlocksOf(q),
             BlocksOf(p)[i] = BlocksOf(q)[j]
      PROVE  p = q /\ i = j
  <2>1. Holds(BlocksOf(p), BlocksOf(p)[i]) /\ Holds(BlocksOf(q), BlocksOf(p)[i])
    BY <1>1, <1>2 DEF Holds
  <2>2. p = q
    BY <1>1, <2>1, HasTypes DEF BlocksAreApart
  <2>. QED  BY <1>1, <1>2, <2>2 DEF Distinct
<1>3. ASSUME NEW p \in Path, job.op = "delete" => job.path # p, NEW b \in ToSet(BlocksOf(p))
      PROVE  b \in bitmap \cap bitmapFile.bits
  <2>1. Has(records, p, b) /\ b \in Block
    BY <1>1, <1>3, ToSetHolds
  <2>. QED  BY <1>3, <2>1 DEF BlocksAreKnown
<1>. QED  BY <1>2, <1>3 DEF BlocksAreNotShared, BlocksAreMarked

\* Every step keeps every variable in its type, whatever the constants are.
THEOREM TypesAreKept == Spec => []TypeOK
<1>1. Init => TypeOK /\ JobFits
  BY InitInv DEF IInv
<1>2. TypeOK /\ JobFits /\ [Next]_vars => (TypeOK /\ JobFits)'
  BY StepTypes, StepFits
<1>. QED  BY <1>1, <1>2, PTL DEF Spec

\* As long as update_bitmap_file loses nothing of the bitmap, and the process does not end
\* in delete_file, no block is in two files or twice in one.
THEOREM BlocksStayApart ==
    ASSUME DeletesAreWhole
    PROVE  Spec /\ []NothingIsCut => []BlocksAreNotShared
<1>1. IInv /\ NothingIsCut /\ [Next]_vars => IInv'
  BY StepInv
<1>2. IInv => BlocksAreNotShared
  BY InvIsEnough
<1>. QED  BY <1>1, <1>2, InitInv, PTL DEF Spec

\* And both copies of the bitmap know the blocks of every file.
THEOREM BlocksStayMarked ==
    ASSUME DeletesAreWhole
    PROVE  Spec /\ []NothingIsCut => []BlocksAreMarked
<1>1. IInv /\ NothingIsCut /\ [Next]_vars => IInv'
  BY StepInv
<1>2. IInv => BlocksAreMarked
  BY InvIsEnough
<1>. QED  BY <1>1, <1>2, InitInv, PTL DEF Spec

\* A bitmap of one byte never has a zero byte before another: nothing is lost.
THEOREM OneByteIsNeverCut ==
    ASSUME Bytes = 1
    PROVE  Spec => []NothingIsCut
<1>1. TypeOK => NothingIsCut
  <2>1. SUFFICES ASSUME TypeOK PROVE NothingIsCut
    OBVIOUS
  <2>. DEFINE K == {k \in 0 .. Bytes - 1 : BitsOf(k) \cap bitmap = {}} \cup {Bytes}
  <2>2. CASE bitmap = {}
    BY <2>2 DEF NothingIsCut
  <2>3. CASE bitmap # {}
    <3>1. BitsOf(0) = Block
      BY SadicaConstants DEF BitsOf, Block
    <3>2. BitsOf(0) \cap bitmap # {}
      BY <2>1, <2>3, <3>1 DEF TypeOK
    <3>3. K = {1}
      BY <3>2
    <3>4. Min(K) = 1
      BY <3>3, MinIsMember
    <3>5. BytesBeforeZero(bitmap) = 1
      BY <3>4 DEF BytesBeforeZero
    <3>. QED  BY <2>1, <3>5, SadicaConstants DEF NothingIsCut, TypeOK, Block
  <2>. QED  BY <2>2, <2>3
<1>. QED  BY <1>1, TypesAreKept, PTL
-----------------------------------------------------------------------------
(* Where the bytes of a file are. *)

\* The first place of a block and the next one's.
LEMMA FirstPlaces ==
    ASSUME NEW k \in Nat \ {0}
    PROVE  FirstOf(k) \in Nat /\ FirstOf(k + 1) = FirstOf(k) + BlockSize /\ BlockSize \in Nat \ {0}
<1> DEFINE q == k - 1
           f == BlockSize * q
<1>1. BlockSize \in Nat \ {0} /\ q \in Nat
  BY SadicaConstants
<1>2. f \in Nat
  BY <1>1
<1>3. BlockSize * ((k + 1) - 1) = f + BlockSize
  <2>1. (k + 1) - 1 = q + 1
    OBVIOUS
  <2>. QED  BY <1>1, <2>1
<1>. QED  BY <1>1, <1>2, <1>3 DEF FirstOf

\* Place i is in block BlockOf(i).
LEMMA PlaceIsInABlock ==
    ASSUME NEW i \in Nat
    PROVE  /\ BlockOf(i) \in Nat \ {0} /\ PlaceIn(i) \in 1 .. BlockSize
           /\ FirstOf(BlockOf(i)) \in Nat /\ i = FirstOf(BlockOf(i)) + (PlaceIn(i) - 1)
<1> DEFINE q == i \div BlockSize
           r == i % BlockSize
<1>1. BlockSize \in Nat \ {0} /\ q \in Nat /\ r \in 0 .. BlockSize - 1 /\ i = BlockSize * q + r
  BY SadicaConstants, DivBounds
<1>. HIDE DEF q, r
<1>2. (q + 1) - 1 = q /\ (r + 1) - 1 = r /\ q + 1 \in Nat \ {0} /\ r + 1 \in 1 .. BlockSize
  BY <1>1
<1>3. BlockOf(i) = q + 1 /\ PlaceIn(i) = r + 1
  BY DEF BlockOf, PlaceIn, q, r
<1>4. FirstOf(q + 1) = BlockSize * q
  BY <1>2 DEF FirstOf
<1>5. FirstOf(q + 1) \in Nat
  BY <1>2, FirstPlaces
<1>. QED  BY <1>1, <1>2, <1>3, <1>4, <1>5

\* A file of n blocks has the places of the first n.
LEMMA PlacesOfBlocks ==
    ASSUME NEW n \in Nat, NEW i \in Nat
    PROVE  i < n * BlockSize <=> BlockOf(i) <= n
<1> DEFINE k == BlockOf(i)
           q == k - 1
           c == PlaceIn(i) - 1
<1>1. BlockSize \in Nat \ {0} /\ q \in Nat /\ c \in 0 .. BlockSize - 1 /\ k \in Nat
  <2>1. k \in Nat \ {0} /\ PlaceIn(i) \in 1 .. BlockSize
    BY PlaceIsInABlock
  <2>. HIDE DEF k
  <2>. QED  BY <2>1, SadicaConstants
<1>2. i = BlockSize * q + c
  BY PlaceIsInABlock DEF FirstOf
<1>. HIDE DEF k, q, c
<1>3. /\ n * BlockSize = BlockSize * n /\ BlockSize * n \in Nat /\ BlockSize * q \in Nat
      /\ (k <= n <=> q < n)
  BY <1>1 DEF q
<1>4. ASSUME q < n PROVE i < n * BlockSize
  <2>1. BlockSize * q + BlockSize <= BlockSize * n
    BY <1>1, <1>4, NextMultiple
  <2>. QED  BY <1>1, <1>2, <1>3, <2>1
<1>5. ASSUME n < q \/ n = q PROVE ~(i < n * BlockSize)
  <2>1. BlockSize * n <= BlockSize * q
    <3>1. CASE n < q
      <4>1. BlockSize * n + BlockSize <= BlockSize * q
        BY <1>1, <3>1, NextMultiple
      <4>. QED  BY <1>1, <1>3, <4>1
    <3>2. CASE n = q
      BY <1>3, <3>2
    <3>. QED  BY <1>5, <3>1, <3>2
  <2>. QED  BY <1>1, <1>2, <1>3, <2>1
<1>. QED  BY <1>1, <1>3, <1>4, <1>5 DEF k

\* And the places of block k are FirstOf(k) and those after it.
LEMMA PlaceOfBlock ==
    ASSUME NEW k \in Nat \ {0}, NEW j \in 0 .. BlockSize - 1
    PROVE  FirstOf(k) + j \in Nat /\ BlockOf(FirstOf(k) + j) = k /\ PlaceIn(FirstOf(k) + j) = j + 1
<1> DEFINE q == k - 1
           i == FirstOf(k) + j
<1>1. BlockSize \in Nat \ {0} /\ FirstOf(k) \in Nat /\ q \in Nat /\ FirstOf(k) = BlockSize * q
  BY FirstPlaces DEF FirstOf
<1>. DEFINE f == BlockSize * q
<1>2. i \in Nat /\ f <= i /\ i < f + BlockSize /\ i - f = j /\ f \in Nat
  <2>. HIDE DEF f
  <2>. QED  BY <1>1 DEF f
<1>. HIDE DEF i, q
<1>3. i \div BlockSize = q /\ i % BlockSize = j
  <2>1. q \in Int /\ i \in Nat /\ BlockSize * q <= i /\ i < BlockSize * q + BlockSize
    BY <1>1, <1>2
  <2>2. i \div BlockSize = q /\ i % BlockSize = i - BlockSize * q
    BY <1>1, <2>1, DivUnique
  <2>. QED  BY <1>2, <2>2
<1>4. BlockOf(i) = q + 1 /\ PlaceIn(i) = j + 1
  BY <1>3 DEF BlockOf, PlaceIn
<1>5. q + 1 = k
  BY DEF q
<1>. QED  BY <1>2, <1>4, <1>5 DEF i

LEMMA PlacesOfList ==
    ASSUME NEW list \in Seq(Block)
    PROVE  /\ \A i : i \in PlacesOf(list) <=> i \in Nat /\ BlockOf(i) \in 1 .. Len(list)
           /\ \A k \in 1 .. Len(list) : list[k] \in Block
<1>1. Len(list) \in Nat /\ Len(list) * BlockSize \in Nat
  <2>1. Len(list) \in Nat /\ BlockSize \in Nat
    BY LenProperties, SadicaConstants
  <2>. QED  BY <2>1
<1>2. ASSUME NEW i \in Nat
      PROVE  i < Len(list) * BlockSize <=> BlockOf(i) \in 1 .. Len(list)
  <2>1. BlockOf(i) \in Nat \ {0}
    BY PlaceIsInABlock
  <2>2. i < Len(list) * BlockSize <=> BlockOf(i) <= Len(list)
    BY <1>1, PlacesOfBlocks
  <2>. QED  BY <1>1, <2>1, <2>2
<1>3. \A i : i \in PlacesOf(list) <=> i \in Nat /\ i < Len(list) * BlockSize
  BY <1>1 DEF PlacesOf
<1>. QED  BY <1>2, <1>3, ElementOfSeq

\* A file has the same bytes when its blocks have.
LEMMA SameBytes ==
    ASSUME NEW list \in Seq(Block), NEW d, NEW e, \A k \in 1 .. Len(list) : d[list[k]] = e[list[k]]
    PROVE  /\ \A i \in PlacesOf(list) : ByteOf(e, list, i) = ByteOf(d, list, i)
           /\ BytesOf(e, list) = BytesOf(d, list)
<1>1. ASSUME NEW i \in PlacesOf(list)
      PROVE  ByteOf(e, list, i) = ByteOf(d, list, i)
  <2>1. BlockOf(i) \in 1 .. Len(list)
    BY PlacesOfList
  <2>2. d[list[BlockOf(i)]] = e[list[BlockOf(i)]]
    BY <2>1
  <2>. QED  BY <2>2 DEF ByteOf
<1>. QED  BY <1>1 DEF BytesOf

\* And when it gets blocks where nothing is.
LEMMA GrownBytes ==
    ASSUME NEW s \in Seq(Block), NEW t \in Seq(Block), NEW d, \A b \in Block : Holds(t, b) => d[b] = <<>>
    PROVE  BytesOf(d, s \o t) = BytesOf(d, s)
<1> DEFINE r == s \o t
           D(l) == {k \in PlacesOf(l) : ByteOf(d, l, k) # Nul}
<1>1. /\ Len(s) \in Nat /\ Len(t) \in Nat /\ r \in Seq(Block) /\ Len(r) = Len(s) + Len(t)
      /\ \A i \in 1 .. Len(s) + Len(t) : r[i] = IF i <= Len(s) THEN s[i] ELSE t[i - Len(s)]
  BY ConcatProperties, LenProperties
<1>2. \A k \in 1 .. Len(t) : t[k] \in Block
  BY ElementOfSeq
<1>. HIDE DEF r
<1>3. ASSUME NEW i \in PlacesOf(r)
      PROVE  IF i \in PlacesOf(s) THEN ByteOf(d, r, i) = ByteOf(d, s, i) ELSE ByteOf(d, r, i) = Nul
  <2>. DEFINE k == BlockOf(i)
  <2>1. i \in Nat /\ k \in 1 .. Len(r) /\ (i \in PlacesOf(s) <=> k \in 1 .. Len(s))
    BY <1>1, PlacesOfList
  <2>. HIDE DEF k
  <2>2. CASE i \in PlacesOf(s)
    <3>1. r[k] = s[k]
      BY <1>1, <2>1, <2>2
    <3>. QED  BY <2>2, <3>1 DEF ByteOf, k
  <2>3. CASE i \notin PlacesOf(s)
    <3>1. k - Len(s) \in 1 .. Len(t) /\ r[k] = t[k - Len(s)]
      BY <1>1, <2>1, <2>3
    <3>2. d[r[k]] = <<>>
      BY <1>2, <3>1 DEF Holds
    <3>. QED  BY <2>3, <3>2 DEF ByteOf, k
  <2>. QED  BY <2>2, <2>3
<1>4. PlacesOf(s) \subseteq PlacesOf(r)
  BY <1>1, PlacesOfList
<1>5. D(r) = D(s)
  BY <1>3, <1>4
<1>6. \A i \in D(s) : ByteOf(d, r, i) = ByteOf(d, s, i)
  BY <1>3, <1>4
<1>. QED  BY <1>5, <1>6 DEF BytesOf, r

\* What a write of n bytes b to the beginning of block k of a file changes.
WrittenTo(d, e, block, n, b) ==
    e[block] = Overwritten(d[block], 0, n, b) /\ \A c \in Block : c # block => e[c] = d[c]
WrittenFrom(d, e, list, k, n, b) ==
    \A i \in PlacesOf(list) :
        ByteOf(e, list, i) = IF i \in FirstOf(k) .. FirstOf(k) + n - 1 THEN b ELSE ByteOf(d, list, i)

LEMMA WrittenBytes ==
    ASSUME NEW list \in Seq(Block), Distinct(list), NEW k \in 1 .. Len(list),
           NEW d \in [Block -> Seq(Byte \cup {Nul})], Len(d[list[k]]) <= BlockSize,
           NEW n \in 0 .. BlockSize, NEW b \in Byte,
           NEW e, WrittenTo(d, e, list[k], n, b)
    PROVE  FirstOf(k) .. FirstOf(k) + n - 1 \subseteq PlacesOf(list) /\ WrittenFrom(d, e, list, k, n, b)
<1> DEFINE f == FirstOf(k)
<1>1. /\ Len(list) \in Nat /\ BlockSize \in Nat \ {0} /\ k \in Nat \ {0} /\ n \in Nat
      /\ \A i \in 1 .. Len(list) : list[i] \in Block
  BY LenProperties, ElementOfSeq, SadicaConstants
<1>2. f \in Nat /\ \A j \in 0 .. BlockSize - 1 : f + j \in PlacesOf(list) /\ BlockOf(f + j) = k
  BY <1>1, FirstPlaces, PlaceOfBlock, PlacesOfList
<1>. HIDE DEF f
<1>3. ASSUME NEW i \in f .. f + n - 1
      PROVE  i \in PlacesOf(list)
  <2>1. i - f \in 0 .. BlockSize - 1 /\ f + (i - f) = i
    BY <1>1, <1>2
  <2>. QED  BY <1>2, <2>1
<1>. DEFINE old == d[list[k]]
            new == Overwritten(old, 0, n, b)
<1>4. /\ old \in Seq(Byte \cup {Nul}) /\ Len(old) \in Nat /\ DOMAIN old = 1 .. Len(old)
  BY <1>1, LenProperties
<1>5. /\ new \in Seq(Byte \cup {Nul}) /\ Len(new) = IF Len(old) >= n THEN Len(old) ELSE n
      /\ \A i \in 1 .. Len(new) :
            new[i] = IF i \in 1 .. n THEN b ELSE IF i <= Len(old) THEN old[i] ELSE Nul
  <2>1. old \in Seq(Byte \cup {Nul}) /\ n \in Nat /\ b \in Byte \cup {Nul}
    BY <1>1, <1>4
  <2>. HIDE DEF old
  <2>2. /\ Overwritten(old, 0, n, b) \in Seq(Byte \cup {Nul})
        /\ Len(Overwritten(old, 0, n, b)) = IF Len(old) >= n THEN Len(old) ELSE n
        /\ \A i \in 1 .. Len(Overwritten(old, 0, n, b)) :
              Overwritten(old, 0, n, b)[i] = IF i \in 1 .. n THEN b ELSE IF i <= Len(old) THEN old[i] ELSE Nul
    BY ONLY <2>1, OverwrittenFirst, Zenon
  <2>. QED  BY <2>2 DEF new
<1>6. DOMAIN new = 1 .. Len(new)
  BY <1>5, LenProperties
<1>. HIDE DEF new, old
<1>7. ASSUME NEW i \in PlacesOf(list)
      PROVE  ByteOf(e, list, i) = IF i \in f .. f + n - 1 THEN b ELSE ByteOf(d, list, i)
  <2>. DEFINE p == BlockOf(i)
              c == PlaceIn(i)
  <2>1. p \in 1 .. Len(list) /\ c \in 1 .. BlockSize /\ i = FirstOf(p) + (c - 1) /\ FirstOf(p) \in Nat
    BY PlacesOfList, PlaceIsInABlock
  <2>. HIDE DEF p, c
  <2>3. CASE p = k
    <3>1. e[list[p]] = new /\ d[list[p]] = old
      BY <1>1, <2>1, <2>3 DEF new, old, WrittenTo
    <3>2. i \in f .. f + n - 1 <=> c \in 1 .. n
      BY <1>1, <2>1, <2>3 DEF f
    <3>3. ByteOf(e, list, i) = IF c \in DOMAIN new THEN new[c] ELSE Nul
      BY <3>1 DEF ByteOf, p, c
    <3>4. ByteOf(d, list, i) = IF c \in DOMAIN old THEN old[c] ELSE Nul
      BY <3>1 DEF ByteOf, p, c
    <3>. QED  BY <1>1, <1>4, <1>5, <1>6, <2>1, <3>2, <3>3, <3>4
  <2>4. CASE p # k
    <3>1. list[p] # list[k]
      BY <2>1, <2>4 DEF Distinct
    <3>2. e[list[p]] = d[list[p]]
      BY <1>1, <2>1, <3>1 DEF WrittenTo
    <3>3. ByteOf(e, list, i) = ByteOf(d, list, i)
      BY <3>2 DEF ByteOf, p
    <3>4. i \notin f .. f + n - 1
      <4>1. SUFFICES ASSUME i \in f .. f + n - 1 PROVE FALSE
        OBVIOUS
      <4>2. i - f \in 0 .. BlockSize - 1 /\ f + (i - f) = i
        BY <1>1, <1>2, <4>1
      <4>3. BlockOf(i) = k
        BY <1>2, <4>2
      <4>. QED  BY <2>4, <4>3 DEF p
    <3>. QED  BY <3>3, <3>4
  <2>. QED  BY <2>3, <2>4
<1>. QED  BY <1>3, <1>7 DEF f, WrittenFrom
-----------------------------------------------------------------------------
(* Where a save and a read are. *)

\* A request for an offset where a block begins.
LEMMA Aligned ==
    ASSUME OffsetsAreAligned, NEW o \in Offset
    PROVE  o \in Nat /\ o % BlockSize = 0 /\ o \div BlockSize \in Nat /\ FirstOf(o \div BlockSize + 1) = o
           /\ BlockOf(o) = o \div BlockSize + 1
<1>1. PICK k \in Nat : o = BlockSize * k
  BY DEF OffsetsAreAligned
<1>2. o \in Nat /\ BlockSize \in Nat \ {0} /\ k \in Int
  BY SadicaConstants
<1>3. BlockSize * k <= o /\ o < BlockSize * k + BlockSize
  BY <1>1, <1>2
<1>4. o \div BlockSize = k /\ o % BlockSize = o - BlockSize * k
  BY <1>2, <1>3, DivUnique
<1>5. o - BlockSize * k = 0
  BY <1>1, <1>2
<1>6. (k + 1) - 1 = k
  OBVIOUS
<1>7. FirstOf(k + 1) = o
  BY <1>1, <1>6 DEF FirstOf
<1>. QED  BY <1>2, <1>4, <1>5, <1>7 DEF BlockOf

\* The last block that a file needs is that of the last byte.
LEMMA LastBlockIs ==
    ASSUME NEW o \in Nat, NEW n \in Nat \ {0}
    PROVE  LastBlock(o, n) = BlockOf(o + n - 1) /\ o + n - 1 \in Nat /\ LastBlock(o, n) \in Nat
<1> DEFINE i == o + n - 1
           q == i \div BlockSize
           r == i % BlockSize
           f == BlockSize * q
<1>1. BlockSize \in Nat \ {0} /\ i \in Nat /\ i + BlockSize = o + n + BlockSize - 1 /\ i + BlockSize \in Nat
  BY SadicaConstants
<1>. HIDE DEF i
<1>2. q \in Nat /\ r \in 0 .. BlockSize - 1 /\ i = f + r
  BY <1>1, DivBounds
<1>. HIDE DEF q, r
<1>3. f \in Nat /\ BlockSize * (q + 1) = f + BlockSize
  BY <1>1, <1>2
<1>. HIDE DEF f
<1>4. BlockSize * (q + 1) <= i + BlockSize /\ i + BlockSize < BlockSize * (q + 1) + BlockSize /\ q + 1 \in Int
  BY <1>1, <1>2, <1>3
<1>5. (i + BlockSize) \div BlockSize = q + 1
  BY <1>1, <1>4, DivUnique
<1>6. LastBlock(o, n) = q + 1 /\ BlockOf(i) = q + 1
  BY <1>1, <1>5 DEF LastBlock, BlockOf, q
<1>7. q + 1 \in Nat
  BY <1>2
<1>. QED  BY <1>1, <1>6, <1>7 DEF i

\* A place before the end of block k is in it or in one before.
LEMMA BlockBefore ==
    ASSUME NEW k \in Nat, NEW i \in Nat
    PROVE  /\ BlockOf(i) <= k <=> i < FirstOf(k + 1)
           /\ k # 0 => FirstOf(k + 1) = FirstOf(k) + BlockSize
<1>1. FirstOf(k + 1) = k * BlockSize
  <2>1. (k + 1) - 1 = k /\ BlockSize \in Nat
    BY SadicaConstants
  <2>2. BlockSize * k = k * BlockSize
    BY <2>1
  <2>. QED  BY <2>1, <2>2 DEF FirstOf
<1>. QED  BY <1>1, PlacesOfBlocks, FirstPlaces

\* What a save or a read knows of itself.
LEMMA Goes ==
    ASSUME TypeOK, JobFits, OffsetsAreAligned, job.op \in {"save", "get"}
    PROVE  /\ job.path \in Path /\ Exists(job.path) /\ Target \in Seq(Block) /\ Len(Target) \in Nat
           /\ job.offset \in Nat /\ job.size \in Nat \ {0} /\ FirstPlace = 0
           /\ Start + 1 \in Nat \ {0} /\ FirstOf(Start + 1) = job.offset /\ BlockOf(job.offset) = Start + 1
           /\ LastReached = IF BlockOf(job.offset + job.size) <= Len(Target)
                            THEN BlockOf(job.offset + job.size) ELSE Len(Target)
           /\ BlockOf(job.offset + job.size) \in Nat \ {0}
<1>1. job.offset \in Offset /\ job.size \in Size
  BY DEF JobFits
<1>2. job.offset \in Nat /\ job.size \in Nat \ {0} /\ job.offset + job.size \in Nat
  <2>1. job.offset \in Nat /\ job.size \in Nat \ {0}
    BY <1>1, SadicaConstants
  <2>. QED  BY <2>1
<1>3. BlockOf(job.offset + job.size) \in Nat \ {0}
  BY <1>2, PlaceIsInABlock
<1>. QED  BY <1>1, <1>2, <1>3, Aligned, TargetTypes, ReachTypes DEF FirstPlace, Start, BlockOf

\* A write, when offsets are aligned: the beginning of one block of the file.
WriteLength == IF job.left <= BlockSize THEN job.left ELSE BlockSize

LEMMA WriteBlockMoves ==
    ASSUME IInv, OffsetsAreAligned, SaveFits, WriteBlock
    PROVE  /\ At("write") /\ job.op = "save" /\ job.place \in 1 .. Len(Target) /\ WriteLength \in 0 .. BlockSize
           /\ blocks' = [blocks EXCEPT ![Target[job.place]] = Overwritten(@, 0, WriteLength, job.byte)]
           /\ job'.left = job.left - WriteLength /\ job.byte \in Byte /\ Target[job.place] \in Block
<1>. USE DEF IInv
<1>1. At("write") /\ job.op = "save" /\ job.place > Start
  BY Points DEF WriteBlock, JobFits, At
<1>2. job.place \in Nat /\ job.left \in Nat /\ job.size \in Nat /\ BlockSize \in Nat \ {0}
  BY JobTypes, SadicaConstants
<1>3. job.place \in 1 .. Len(Target)
  <2>1. job.place <= LastReached /\ LastReached <= Len(Target) /\ LastReached \in Int /\ Start \in Nat
    BY <1>1, ReachTypes, StartTypes DEF SaveFits
  <2>. QED  BY <1>1, <1>2, <2>1, TargetTypes
<1>4. FirstPlace = 0
  BY <1>1, Goes
<1>. DEFINE first == job.place = job.offset \div BlockSize + 1
            place == IF first THEN FirstPlace ELSE 0
            length == IF first THEN FirstLength ELSE Min({job.left, BlockSize})
            block == records[job.path].blocks[job.place]
<1>5. /\ blocks' = [blocks EXCEPT ![block] = Overwritten(@, place, length, job.byte)]
      /\ job' = [job EXCEPT !.at = IF job.place < LastReached THEN "write" ELSE "size",
                            !.place = @ + 1, !.left = @ - length]
  BY DEF WriteBlock
<1>6. Min({job.left, BlockSize}) = WriteLength /\ WriteLength \in 0 .. BlockSize
  BY <1>2, MinOfTwo DEF WriteLength
<1>7. first => job.left = job.size
  BY <1>1 DEF JobFits, Start
<1>8. FirstLength = Min({job.size, BlockSize})
  <2>1. Min({job.size, BlockSize}) = IF job.size <= BlockSize THEN job.size ELSE BlockSize
    BY <1>2, MinOfTwo
  <2>. QED  BY <1>2, <1>4, <2>1 DEF FirstLength
<1>9. place = 0 /\ length = WriteLength
  BY <1>4, <1>6, <1>7, <1>8
<1>10. block = Target[job.place]
  BY DEF Target
<1>. HIDE DEF place, length, block
<1>11. job'.left = job.left - WriteLength
  BY <1>5, <1>9 DEF TypeOK, Jobs
<1>12. blocks' = [blocks EXCEPT ![Target[job.place]] = Overwritten(@, 0, WriteLength, job.byte)]
  BY <1>5, <1>9, <1>10
<1>13. job.byte \in Byte
  BY <1>1 DEF JobFits
<1>. QED  BY <1>1, <1>3, <1>6, <1>11, <1>12, <1>13, TargetTypes
-----------------------------------------------------------------------------
(* The bytes are where the requests take them to be. *)

LEMMA GivenMoves ==
    ASSUME IInv, [Next]_vars, NEW b \in Block, Given(b)'
    PROVE  \/ UNCHANGED vars
           \/ SetBit /\ At("open")' /\ (b # job'.block => Given(b) /\ At("block"))
           \/ OpenBlock /\ At("persist")' /\ Given(b)
           \/ PersistBlock /\ At("persist") /\ Given(b)
<1>. USE DEF IInv
<1>1. job'.at \in {"block", "open", "persist", "record", "grow"}
  BY DEF Given, Giving
<1>2. ASSUME job'.new = <<>>, job'.at \in {"block", "grow"}
      PROVE  FALSE
  BY <1>2 DEF Given, Giving, Holds
<1>3. ~Ends
  BY <1>1, EndIsIdle, IdleJob
<1>4. ~Grow /\ ~WriteBlock /\ ~ClearBits /\ ~PersistFreed /\ ~ReadBlock
  BY <1>1, JobMoves DEF GoesOn
<1>5. ASSUME NEW p \in Path, NEW o \in Offset, NEW n \in Size, GetData(p, o, n)
      PROVE  FALSE
  BY <1>1, <1>5, JobMoves, IdleJob DEF GoesOn
<1>6. ASSUME NEW p \in Path, NEW o \in Offset, NEW n \in Size, NEW c \in Byte, SaveData(p, o, n, c)
      PROVE  FALSE
  BY <1>2, <1>6, JobMoves
<1>7. ASSUME NEW p \in Path, CreateFile(p) \/ DeleteFile(p)
      PROVE  FALSE
  BY <1>1, <1>2, <1>7, JobMoves, IdleJob DEF GoesOn
<1>8. ~ \E p \in Path : CreateFile(p) \/ DeleteFile(p)
  BY <1>7
<1>9. CASE SetBit
  <2>1. At("block") /\ job'.at = "open" /\ job'.new = job.new
    BY <1>9, JobMoves DEF SetBit, GoesOn
  <2>. QED  BY <1>9, <2>1 DEF At, Given, Giving
<1>10. CASE OpenBlock
  <2>1. At("open") /\ job'.at = "persist" /\ job'.new = job.new /\ job'.block = job.block
    BY <1>10, JobMoves DEF OpenBlock, GoesOn
  <2>. QED  BY <1>10, <2>1 DEF At, Given, Giving
<1>11. CASE PersistBlock
  <2>1. /\ At("persist") /\ job'.at \in {"record", "block", "grow"}
        /\ job'.new = Append(job.new, job.block)
    BY <1>11, JobMoves DEF PersistBlock, GoesOn
  <2>2. Holds(job'.new, b) => Holds(job.new, b) \/ b = job.block
    BY <2>1, JobTypes, AppendDistinct
  <2>. QED  BY <1>11, <2>1, <2>2 DEF At, Given, Giving
<1>. QED
  BY <1>3, <1>4, <1>5, <1>6, <1>8, <1>9, <1>10, <1>11 DEF Next, Serve, Ends

LEMMA BlocksChange ==
    ASSUME [Next]_vars
    PROVE  blocks' = blocks \/ OpenBlock \/ WriteBlock
BY DEF Next, Serve, vars, disk, NoBlock, SetBit, OpenFails, PersistBlock, WriteRecord, Grow, UpdateFileSize,
       ClearBits, PersistFreed, RemoveRecord, ReadBlock, DataRead, Restart, ValidateFile, CreateFile, DeleteFile,
       SaveData, GetData

LEMMA StepBlocksFit ==
    ASSUME IInv, OffsetsAreAligned, StoreInv, [Next]_vars
    PROVE  BlocksFit'
<1>. USE DEF IInv, StoreInv
<1>1. ASSUME NEW b \in Block
      PROVE  Len(blocks'[b]) <= BlockSize
  <2>1. CASE blocks' = blocks
    BY <2>1 DEF BlocksFit
  <2>2. CASE OpenBlock
    <3>1. blocks' = [blocks EXCEPT ![job.block] = <<>>]
      BY <2>2 DEF OpenBlock, Opened
    <3>2. blocks'[b] = blocks[b] \/ blocks'[b] = <<>>
      BY <3>1 DEF TypeOK
    <3>. QED  BY <3>2, SadicaConstants DEF BlocksFit
  <2>3. CASE WriteBlock
    <3>1. /\ blocks' = [blocks EXCEPT ![Target[job.place]] = Overwritten(@, 0, WriteLength, job.byte)]
          /\ WriteLength \in 0 .. BlockSize /\ job.byte \in Byte /\ BlockSize \in Nat
      BY <2>3, WriteBlockMoves, SadicaConstants
    <3>2. Len(Overwritten(blocks[b], 0, WriteLength, job.byte)) <= BlockSize
      <4>1. blocks[b] \in Seq(Byte \cup {Nul}) /\ Len(blocks[b]) \in Nat /\ Len(blocks[b]) <= BlockSize
        BY LenProperties DEF BlocksFit, TypeOK
      <4>2. WriteLength \in Nat /\ job.byte \in Byte \cup {Nul}
        BY <3>1
      <4>3. Len(Overwritten(blocks[b], 0, WriteLength, job.byte))
               = IF Len(blocks[b]) >= WriteLength THEN Len(blocks[b]) ELSE WriteLength
        BY <4>1, <4>2, OverwrittenFirst
      <4>. QED  BY <3>1, <4>1, <4>2, <4>3
    <3>3. blocks'[b] = blocks[b] \/ blocks'[b] = Overwritten(blocks[b], 0, WriteLength, job.byte)
      BY <3>1 DEF TypeOK
    <3>. QED  BY <3>2, <3>3 DEF BlocksFit
  <2>. QED  BY <2>1, <2>2, <2>3, BlocksChange
<1>2. ASSUME NEW b \in Block, Given(b)', At("open")' => b # job'.block
      PROVE  blocks'[b] = <<>>
  <2>1. CASE UNCHANGED vars
    <3>1. Given(b) /\ (At("open") => b # job.block) /\ blocks' = blocks
      BY <1>2, <2>1 DEF vars, disk, Given, Giving, At
    <3>. QED  BY <3>1 DEF BlocksFit
  <2>2. CASE SetBit /\ At("open")' /\ (b # job'.block => Given(b) /\ At("block"))
    <3>1. Given(b) /\ At("block") /\ blocks' = blocks
      BY <1>2, <2>2 DEF SetBit, disk
    <3>. QED  BY <3>1 DEF BlocksFit, At
  <2>3. CASE OpenBlock /\ At("persist")' /\ Given(b)
    <3>1. blocks' = [blocks EXCEPT ![job.block] = <<>>]
      BY <2>3 DEF OpenBlock, Opened
    <3>2. b # job.block => blocks[b] = <<>>
      BY <2>3 DEF BlocksFit
    <3>. QED  BY <3>1, <3>2 DEF TypeOK
  <2>4. CASE PersistBlock /\ At("persist") /\ Given(b)
    <3>1. blocks' = blocks
      BY <2>4 DEF PersistBlock
    <3>. QED  BY <2>4, <3>1 DEF BlocksFit, At
  <2>. QED  BY <1>2, <2>1, <2>2, <2>3, <2>4, GivenMoves
<1>. QED  BY <1>1, <1>2 DEF BlocksFit

\* Where a save or a read begins when the file is large enough.
LEMMA BeginsInside ==
    ASSUME NEW o \in Nat, NEW n \in Nat \ {0}, NEW len \in Nat, BlockOf(o + n - 1) <= len
    PROVE  BlockOf(o) <= len /\ BlockOf(o) <= BlockOf(o + n)
<1>1. o + n - 1 \in Nat /\ o + n \in Nat /\ o <= o + n - 1 /\ o <= o + n
  OBVIOUS
<1>. DEFINE l == o + n - 1
            m == o + n
<1>2. l \in Nat /\ m \in Nat /\ o <= l /\ o <= m /\ BlockOf(l) <= len
  BY <1>1
<1>. HIDE DEF l, m
<1>3. BlockOf(m) \in Nat
  BY <1>2, PlaceIsInABlock
<1>4. l < FirstOf(len + 1) /\ m < FirstOf(BlockOf(m) + 1)
  BY <1>2, <1>3, BlockBefore
<1>5. FirstOf(len + 1) \in Nat /\ FirstOf(BlockOf(m) + 1) \in Nat
  <2>1. len + 1 \in Nat \ {0} /\ BlockOf(m) + 1 \in Nat \ {0}
    BY <1>3
  <2>. QED  BY <2>1, FirstPlaces
<1>6. o < FirstOf(len + 1) /\ o < FirstOf(BlockOf(m) + 1)
  BY <1>2, <1>4, <1>5
<1>7. BlockOf(o) <= len /\ BlockOf(o) <= BlockOf(m)
  BY <1>3, <1>6, BlockBefore
<1>. QED  BY <1>7 DEF m

LEMMA StepSaveFits ==
    ASSUME IInv, OffsetsAreAligned, StoreInv, [Next]_vars
    PROVE  SaveFits'
<1>. USE DEF IInv, StoreInv
<1>1. ASSUME job'.at \notin {"grow", "write", "size"}
      PROVE  SaveFits'
  BY <1>1 DEF SaveFits, At
<1>2. CASE UNCHANGED vars
  BY <1>2 DEF vars, disk, SaveFits, At, Lacks, Target, LastReached, LeftFits, Asked
<1>3. CASE Ends
  BY <1>1, <1>3, EndIsIdle, IdleJob
<1>4. CASE SetBit \/ OpenBlock \/ ClearBits \/ PersistFreed \/ ReadBlock
  BY <1>1, <1>4, JobMoves DEF GoesOn
<1>5. ASSUME NEW p \in Path, CreateFile(p) \/ DeleteFile(p)
      PROVE  SaveFits'
  BY <1>1, <1>5, JobMoves, IdleJob DEF GoesOn
<1>6. ASSUME NEW p \in Path, NEW o \in Offset, NEW n \in Size, GetData(p, o, n)
      PROVE  SaveFits'
  BY <1>1, <1>6, JobMoves, IdleJob DEF GoesOn
<1>7. ASSUME NEW p \in Path, NEW o \in Offset, NEW n \in Size, NEW b \in Byte, SaveData(p, o, n, b)
      PROVE  SaveFits'
  <2>1. /\ GoesOn("save", p, o, n, b, job'.at) /\ job'.new = <<>> /\ records' = records
        /\ job'.at = IF Lacks(p, <<>>, o, n) THEN "block" ELSE "grow"
    <3>1. records' = records
      BY <1>7 DEF SaveData, disk
    <3>. QED  BY <1>7, <3>1, JobMoves
  <2>. QED  BY <2>1 DEF SaveFits, At, GoesOn, Lacks
<1>8. CASE PersistBlock
  <2>1. /\ GoesOn(job.op, job.path, job.offset, job.size, job.byte, job'.at) /\ records' = records
        /\ job'.new = Append(job.new, job.block)
        /\ job'.at = IF job.op = "create" THEN "record"
                     ELSE IF Lacks(job.path, Append(job.new, job.block), job.offset, job.size)
                          THEN "block" ELSE "grow"
    BY <1>8, JobMoves DEF PersistBlock
  <2>. QED  BY <2>1 DEF SaveFits, At, GoesOn, Lacks
<1>9. CASE Grow
  <2>. DEFINE o == job.offset
              n == job.size
              old == Len(records[job.path].blocks)
              new == Len(job.new)
              len == Len(records'[job.path].blocks)
  <2>1. /\ At("grow") /\ job.op = "save" /\ job'.at = "write" /\ job'.path = job.path
        /\ job'.offset = o /\ job'.size = n /\ job'.place = Start + 1 /\ job'.left = n
    BY <1>9, JobMoves, Points DEF Grow, GoesOn
  <2>2. /\ job.path \in Path /\ Len(records[job.path].blocks) \in Nat
        /\ o \in Nat /\ n \in Nat \ {0} /\ FirstOf(Start + 1) = o
        /\ BlockOf(o) = Start + 1 /\ BlockOf(o + n) \in Nat \ {0}
    BY <2>1, Goes DEF Target
  <2>3. len \in Nat /\ len = old + new
    <3>1. /\ records'[job.path].blocks = records[job.path].blocks \o job.new
          /\ records[job.path].blocks \in Seq(Block) /\ job.new \in Seq(Block)
      BY <1>9, <2>2, GrowMoves, FileTypes, JobTypes
    <3>2. len = old + new /\ old \in Nat /\ new \in Nat
      BY <3>1, ConcatProperties, LenProperties
    <3>. HIDE DEF len, old, new
    <3>. QED  BY <3>2
  <2>4. len >= LastBlock(o, n) /\ LastBlock(o, n) \in Nat
    <3>1. ~(old + new < LastBlock(o, n))
      BY <2>1 DEF SaveFits, Lacks
    <3>. DEFINE needed == LastBlock(o, n)
    <3>2. needed \in Nat
      BY <2>2, LastBlockIs
    <3>. HIDE DEF len, old, new, needed
    <3>3. ~(old + new < needed)
      BY <3>1 DEF needed
    <3>4. len >= needed
      BY <2>3, <3>2, <3>3
    <3>. QED  BY <3>2, <3>4 DEF needed
  <2>. HIDE DEF len, old, new
  <2>5. BlockOf(o) <= len /\ BlockOf(o) <= BlockOf(o + n)
    <3>1. BlockOf(o + n - 1) <= len
      BY <2>2, <2>3, <2>4, LastBlockIs
    <3>. QED  BY <2>2, <2>3, <3>1, BeginsInside
  <2>6. LastReached' = IF BlockOf(o + n) <= len THEN BlockOf(o + n) ELSE len
    <3>1. LastReached' = Min({BlockOf(o + n), len})
      BY <2>1 DEF LastReached, BlockOf, len
    <3>2. BlockOf(o + n) \in Int /\ len \in Int
      BY <2>2, <2>3
    <3>. QED  BY <3>1, <3>2, MinOfTwo
  <2>7. job'.place <= LastReached'
    BY <2>1, <2>2, <2>5, <2>6
  <2>8. Len(Target') = len
    BY <2>1 DEF Target, len
  <2>9. LeftFits'
    BY <2>1, <2>2 DEF LeftFits
  <2>10. ASSUME NEW i \in Asked', i < FirstOf(job'.place)
         PROVE  FALSE
    BY <2>1, <2>2, <2>10 DEF Asked
  <2>. QED  BY <2>1, <2>4, <2>7, <2>8, <2>9, <2>10 DEF SaveFits, At
<1>10. CASE WriteBlock
  <2>. DEFINE o == job.offset
              n == job.size
              k == job.place
              f == FirstOf(k)
              WL == WriteLength
  <2>1. /\ At("write") /\ job.op = "save" /\ k \in 1 .. Len(Target) /\ WL \in 0 .. BlockSize
        /\ blocks' = [blocks EXCEPT ![Target[k]] = Overwritten(@, 0, WL, job.byte)]
        /\ job'.left = job.left - WL /\ job.byte \in Byte /\ Target[k] \in Block
    BY <1>10, WriteBlockMoves
  <2>2. /\ records' = records /\ job'.path = job.path /\ job'.offset = o /\ job'.size = n
        /\ job'.byte = job.byte /\ job'.place = k + 1
        /\ job'.at = IF k < LastReached THEN "write" ELSE "size"
    BY <1>10, JobMoves DEF WriteBlock, GoesOn
  <2>3. /\ Target \in Seq(Block) /\ Len(Target) \in Nat /\ o \in Nat /\ n \in Nat \ {0}
        /\ LastReached = IF BlockOf(o + n) <= Len(Target) THEN BlockOf(o + n) ELSE Len(Target)
        /\ BlockOf(o + n) \in Nat \ {0} /\ job.path \in Path /\ Exists(job.path)
    BY <2>1, Goes
  <2>4. Target' = Target /\ LastReached' = LastReached /\ Asked' = Asked
    BY <2>2 DEF Target, LastReached, Asked
  <2>5. /\ Len(Target) >= LastBlock(o, n) /\ k <= LastReached
        /\ f + job.left = o + n \/ (job.left = 0 /\ f >= o + n)
        /\ \A i \in Asked : i < f => i \in PlacesOf(Target) /\ ByteOf(blocks, Target, i) = job.byte
    BY <2>1 DEF SaveFits, LeftFits
  <2>6. /\ f \in Nat /\ FirstOf(k + 1) = f + BlockSize /\ BlockSize \in Nat \ {0} /\ k \in Nat \ {0}
        /\ job.left \in Nat
    <3>1. k \in Nat \ {0}
      BY <2>1, <2>3
    <3>. QED  BY <3>1, FirstPlaces, JobTypes
  <2>7. WL = IF job.left <= BlockSize THEN job.left ELSE BlockSize
    BY DEF WriteLength
  <2>. HIDE DEF f, WL
  <2>8. LeftFits'
    <3>1. \/ (f + BlockSize) + (job.left - WL) = o + n
          \/ job.left - WL = 0 /\ f + BlockSize >= o + n
      BY <2>3, <2>5, <2>6, <2>7
    <3>. QED  BY <2>1, <2>2, <2>6, <3>1 DEF LeftFits
  <2>9. job'.at = "write" => job'.place <= LastReached'
    BY <2>2, <2>3, <2>4, <2>6
  <2>10. ASSUME job'.at = "size"
         PROVE  o + n - 1 < f + BlockSize
    <3>1. k = LastReached
      BY <2>2, <2>3, <2>5, <2>6, <2>10
    <3>2. CASE BlockOf(o + n) <= Len(Target)
      <4>1. o + n \in Nat /\ BlockOf(o + n) <= k
        BY <2>3, <2>6, <3>1, <3>2
      <4>2. o + n < FirstOf(k + 1)
        BY <2>6, <4>1, BlockBefore
      <4>. QED  BY <2>3, <2>6, <4>2
    <3>3. CASE ~(BlockOf(o + n) <= Len(Target))
      <4>. DEFINE l == o + n - 1
      <4>1. l \in Nat /\ BlockOf(l) <= k
        <5>1. LastBlock(o, n) = BlockOf(l) /\ l \in Nat
          BY <2>3, LastBlockIs
        <5>. HIDE DEF l
        <5>. QED  BY <2>3, <2>5, <3>1, <3>3, <5>1
      <4>. HIDE DEF l
      <4>2. l < FirstOf(k + 1)
        BY <2>6, <4>1, BlockBefore
      <4>. QED  BY <2>6, <4>2 DEF l
    <3>. QED  BY <3>2, <3>3
  <2>11. ASSUME NEW i \in Asked, job'.at = "write" => i < FirstOf(k + 1)
         PROVE  i \in PlacesOf(Target) /\ ByteOf(blocks', Target, i) = job.byte
    <3>1. i \in Nat /\ i >= o /\ i <= o + n - 1
      BY <2>3 DEF Asked
    <3>2. i < f + BlockSize
      BY <2>2, <2>3, <2>6, <2>10, <2>11, <3>1
    <3>3. i \in PlacesOf(Target)
      <4>1. BlockOf(i) <= k /\ BlockOf(i) \in Nat \ {0}
        BY <2>6, <3>1, <3>2, BlockBefore, PlaceIsInABlock
      <4>2. BlockOf(i) \in 1 .. Len(Target)
        BY <2>1, <2>3, <2>6, <4>1
      <4>. QED  BY <2>3, <3>1, <4>2, PlacesOfList
    <3>4. ByteOf(blocks', Target, i) = IF i \in f .. f + WL - 1 THEN job.byte ELSE ByteOf(blocks, Target, i)
      <4>1. Distinct(Target)
        BY <2>3 DEF BlocksAreApart, Target
      <4>2. blocks \in [Block -> Seq(Byte \cup {Nul})] /\ Len(blocks[Target[k]]) <= BlockSize
        BY <2>1 DEF TypeOK, BlocksFit
      <4>3. WrittenTo(blocks, blocks', Target[k], WL, job.byte)
        BY <2>1, <4>2 DEF WrittenTo
      <4>4. k \in 1 .. Len(Target) /\ WL \in 0 .. BlockSize /\ job.byte \in Byte /\ Target \in Seq(Block)
        BY <2>1, <2>3
      <4>5. WrittenFrom(blocks, blocks', Target, k, WL, job.byte)
        BY ONLY <4>1, <4>2, <4>3, <4>4, WrittenBytes
      <4>. QED  BY <3>3, <4>5 DEF WrittenFrom, f
    <3>5. CASE i < f
      BY <2>5, <3>3, <3>4, <3>5
    <3>6. CASE ~(i < f)
      <4>1. i \in f .. f + WL - 1
        <5>. DEFINE left == job.left
                    end == o + n
        <5>1. /\ f + left = end \/ (left = 0 /\ f >= end)
              /\ i \in Nat /\ i <= end - 1 /\ i < f + BlockSize /\ ~(i < f)
              /\ f \in Nat /\ left \in Nat /\ BlockSize \in Nat /\ end \in Nat
              /\ WL = IF left <= BlockSize THEN left ELSE BlockSize
          BY <2>3, <2>5, <2>6, <2>7, <3>1, <3>2, <3>6
        <5>. HIDE DEF left, end
        <5>. QED  BY ONLY <5>1
      <4>. QED  BY <3>3, <3>4, <4>1
    <3>. QED  BY <3>5, <3>6
  <2>12. /\ job'.at \in {"write", "size"}
         /\ At("write")' => /\ Len(Target') >= LastBlock(job'.offset, job'.size)
                            /\ job'.place <= LastReached' /\ LeftFits'
    BY <2>2, <2>4, <2>5, <2>8, <2>9 DEF At
  <2>13. \A i \in Asked' : (At("write")' => i < FirstOf(job'.place)) =>
            i \in PlacesOf(Target') /\ ByteOf(blocks', Target', i) = job'.byte
    BY <2>2, <2>4, <2>11 DEF At
  <2>. QED  BY <2>12, <2>13 DEF SaveFits, At
<1>. QED
  BY <1>2, <1>3, <1>4, <1>5, <1>6, <1>7, <1>8, <1>9, <1>10 DEF Next, Serve, Ends

\* What a read gets of one block.
ReadText == Text(blocks[Target[job.place]])
ReadLength == IF job.left <= Len(ReadText) THEN job.left ELSE Len(ReadText)

LEMMA ReadBlockMoves ==
    ASSUME TypeOK, JobFits, ReadBlock
    PROVE  /\ At("read") /\ job.op = "get" /\ job.place \in 1 .. Len(Target) /\ job.place <= LastReached
           /\ ReadText \in Seq(Byte \cup {Nul}) /\ Len(ReadText) \in Nat /\ ReadLength \in 0 .. Len(ReadText)
           /\ job'.left = job.left - ReadLength
           /\ Len(job.data) \in Nat /\ Len(job'.data) = Len(job.data) + ReadLength
           /\ \A i \in 1 .. Len(job.data) : job'.data[i] = job.data[i]
           /\ \A i \in Len(job.data) + 1 .. Len(job.data) + ReadLength : job'.data[i] = ReadText[i - Len(job.data)]
<1>1. At("read") /\ job.op = "get" /\ job.place <= LastReached
  BY Points DEF ReadBlock, At
<1>2. job.place \in 1 .. Len(Target)
  <2>1. /\ job.place > Start /\ Start \in Nat /\ LastReached \in Int /\ LastReached <= Len(Target)
        /\ job.place \in Nat /\ Len(Target) \in Nat
    BY <1>1, ReachTypes, TargetTypes, StartTypes, JobTypes DEF JobFits
  <2>. QED  BY <1>1, <2>1
<1>3. ReadText \in Seq(Byte \cup {Nul}) /\ Len(ReadText) \in Nat
  <2>1. blocks[Target[job.place]] \in Seq(Byte \cup {Nul})
    BY <1>1, <1>2, TargetTypes DEF TypeOK
  <2>2. ReadText \in Seq(Byte \cup {Nul})
    BY <2>1, TextIsPrefix DEF ReadText
  <2>. QED  BY <2>2, LenProperties
<1>4. Min({job.left, Len(ReadText)}) = ReadLength /\ ReadLength \in 0 .. Len(ReadText)
  <2>1. job.left \in Nat
    BY JobTypes
  <2>. QED  BY <1>3, <2>1, MinOfTwo DEF ReadLength
<1>5. job' = [job EXCEPT !.place = @ + 1, !.left = @ - ReadLength, !.data = @ \o SubSeq(ReadText, 1, ReadLength)]
  BY <1>4 DEF ReadBlock, ReadText, Target
<1>. DEFINE part == SubSeq(ReadText, 1, ReadLength)
<1>6. job'.left = job.left - ReadLength /\ job'.data = job.data \o part
  BY <1>5 DEF TypeOK, Jobs
<1>7. part \in Seq(Byte \cup {Nul}) /\ Len(part) = ReadLength /\ \A j \in 1 .. ReadLength : part[j] = ReadText[j]
  <2>1. \A j \in 1 .. ReadLength : ReadText[j] \in Byte \cup {Nul}
    BY <1>3, <1>4, ElementOfSeq
  <2>. QED  BY <1>3, <1>4, <2>1, SubSeqProperties, Z3
<1>. HIDE DEF part
<1>8. /\ job.data \in Seq(Byte \cup {Nul}) /\ Len(job.data) \in Nat
      /\ Len(job.data \o part) = Len(job.data) + Len(part)
      /\ \A i \in 1 .. Len(job.data) + Len(part) :
            (job.data \o part)[i] = IF i <= Len(job.data) THEN job.data[i] ELSE part[i - Len(job.data)]
  BY <1>7, JobTypes, LenProperties, ConcatProperties
<1>. DEFINE l == Len(job.data)
<1>9. ASSUME NEW i \in 1 .. l
      PROVE  job'.data[i] = job.data[i]
  BY <1>4, <1>6, <1>7, <1>8
<1>10. ASSUME NEW i \in l + 1 .. l + ReadLength
       PROVE  job'.data[i] = ReadText[i - l]
  <2>1. i \in 1 .. l + Len(part) /\ ~(i <= l) /\ i - l \in 1 .. ReadLength
    BY <1>4, <1>7, <1>8
  <2>. QED  BY <1>6, <1>7, <1>8, <2>1
<1>. QED  BY <1>1, <1>2, <1>3, <1>4, <1>6, <1>7, <1>8, <1>9, <1>10

LEMMA StepReadFits ==
    ASSUME IInv, OffsetsAreAligned, StoreInv, [Next]_vars
    PROVE  ReadFits'
<1>. USE DEF IInv, StoreInv
<1>1. ASSUME job'.at # "read"
      PROVE  ReadFits'
  BY <1>1 DEF ReadFits, At
<1>2. CASE UNCHANGED vars
  BY <1>2 DEF vars, disk, ReadFits, At, Target, LastReached, LeftFits, Asked
<1>3. CASE Ends
  BY <1>1, <1>3, EndIsIdle, IdleJob
<1>4. CASE SetBit \/ OpenBlock \/ PersistBlock \/ Grow \/ WriteBlock \/ ClearBits \/ PersistFreed
  BY <1>1, <1>4, JobMoves DEF GoesOn
<1>5. ASSUME NEW p \in Path, CreateFile(p) \/ DeleteFile(p)
      PROVE  ReadFits'
  BY <1>1, <1>5, JobMoves, IdleJob DEF GoesOn
<1>6. ASSUME NEW p \in Path, NEW o \in Offset, NEW n \in Size, NEW b \in Byte, SaveData(p, o, n, b)
      PROVE  ReadFits'
  BY <1>1, <1>6, JobMoves
<1>7. ASSUME NEW p \in Path, NEW o \in Offset, NEW n \in Size, GetData(p, o, n)
      PROVE  ReadFits'
  <2>1. CASE job' = Idle
    BY <1>1, <2>1, IdleJob
  <2>2. CASE job' # Idle
    <3>. DEFINE len == Len(records[p].blocks)
    <3>1. /\ Exists(p) /\ job'.path = p /\ job'.offset = o /\ job'.size = n
          /\ job'.place = o \div BlockSize + 1 /\ job'.left = n
          /\ records[p].size >= o + n /\ job'.data = <<>>
      BY <1>7, <2>2, JobMoves DEF GoesOn
    <3>2. records' = records /\ blocks' = blocks
      BY <1>7 DEF GetData, disk
    <3>3. o \in Nat /\ n \in Nat \ {0}
      BY SadicaConstants
    <3>4. FirstOf(job'.place) = o /\ job'.place = BlockOf(o)
      BY <3>1, Aligned
    <3>5. Target' = records[p].blocks /\ records[p].blocks \in Seq(Block) /\ len \in Nat
      BY <3>1, <3>2, FileTypes DEF Target
    <3>6. ASSUME \A i \in Asked' : i \in PlacesOf(Target')
          PROVE  job'.place <= LastReached'
      <4>. DEFINE l == o + n - 1
      <4>1. l \in Nat /\ l \in o .. o + n - 1
        BY <3>3
      <4>2. l \in PlacesOf(records[p].blocks)
        BY <3>1, <3>5, <3>6, <4>1 DEF Asked
      <4>3. BlockOf(l) <= len
        BY <3>5, <4>1, <4>2, PlacesOfList
      <4>4. BlockOf(o) <= len /\ BlockOf(o) <= BlockOf(o + n)
        BY <3>3, <3>5, <4>3, BeginsInside
      <4>5. BlockOf(o + n) \in Int
        <5>1. o + n \in Nat
          BY <3>3
        <5>. QED  BY <5>1, PlaceIsInABlock
      <4>. HIDE DEF len
      <4>6. LastReached' = Min({BlockOf(o + n), len})
        BY <3>1, <3>2 DEF LastReached, BlockOf, len
      <4>7. LastReached' = IF BlockOf(o + n) <= len THEN BlockOf(o + n) ELSE len
        BY <3>5, <4>5, <4>6, MinOfTwo
      <4>. QED  BY <3>4, <4>4, <4>7
    <3>7. LeftFits'
      BY <3>1, <3>4 DEF LeftFits
    <3>8. job'.left + Len(job'.data) = job'.size /\ 1 .. Len(job'.data) = {}
      BY <3>1, <3>3
    <3>. QED  BY <3>1, <3>2, <3>6, <3>7, <3>8 DEF ReadFits
  <2>. QED  BY <2>1, <2>2
<1>8. CASE ReadBlock
  <2>. DEFINE o == job.offset
              n == job.size
              k == job.place
              f == FirstOf(k)
              left == job.left
              length == ReadLength
              end == o + n
              held == blocks[Target[k]]
  <2>1. /\ At("read") /\ job.op = "get" /\ k \in 1 .. Len(Target) /\ k <= LastReached
        /\ ReadText \in Seq(Byte \cup {Nul}) /\ Len(ReadText) \in Nat /\ length \in 0 .. Len(ReadText)
        /\ job'.left = left - length
        /\ Len(job.data) \in Nat /\ Len(job'.data) = Len(job.data) + length
        /\ \A i \in 1 .. Len(job.data) : job'.data[i] = job.data[i]
        /\ \A i \in Len(job.data) + 1 .. Len(job.data) + length : job'.data[i] = ReadText[i - Len(job.data)]
    BY <1>8, ReadBlockMoves
  <2>2. /\ records' = records /\ blocks' = blocks /\ job'.path = job.path /\ job'.offset = o /\ job'.size = n
        /\ job'.place = k + 1
    <3>1. records' = records /\ blocks' = blocks
      BY <1>8 DEF ReadBlock, disk
    <3>. QED  BY <1>8, <3>1, JobMoves DEF GoesOn
  <2>3. /\ Target \in Seq(Block) /\ Len(Target) \in Nat /\ o \in Nat /\ n \in Nat \ {0}
        /\ LastReached = IF BlockOf(o + n) <= Len(Target) THEN BlockOf(o + n) ELSE Len(Target)
        /\ BlockOf(o + n) \in Nat \ {0} /\ Target[k] \in Block
    BY <2>1, Goes, TargetTypes
  <2>4. Target' = Target /\ LastReached' = LastReached /\ Asked' = Asked
    BY <2>2 DEF Target, LastReached, Asked
  <2>5. records[job.path].size >= o + n
    BY <2>1 DEF ReadFits
  <2>6. /\ f \in Nat /\ FirstOf(k + 1) = f + BlockSize /\ BlockSize \in Nat \ {0} /\ k \in Nat \ {0}
        /\ left \in Nat /\ end \in Nat
    <3>1. k \in Nat \ {0}
      BY <2>1, <2>3
    <3>2. end \in Nat
      BY <2>3
    <3>. QED  BY <3>1, <3>2, FirstPlaces, JobTypes
  <2>7. /\ held \in Seq(Byte \cup {Nul}) /\ Len(held) \in Nat /\ Len(held) <= BlockSize
        /\ DOMAIN held = 1 .. Len(held) /\ Len(ReadText) <= Len(held)
        /\ \A i \in 1 .. Len(ReadText) : ReadText[i] = held[i]
        /\ \A j \in 0 .. Len(held) : (\A i \in 1 .. j : held[i] # Nul) => Len(ReadText) >= j
    <3>1. held \in Seq(Byte \cup {Nul}) /\ Len(held) <= BlockSize
      BY <2>3 DEF TypeOK, BlocksFit
    <3>. HIDE DEF held
    <3>2. ReadText = Text(held)
      BY DEF ReadText, held
    <3>. QED  BY <3>1, <3>2, LenProperties, TextIsPrefix
\* A place of the block, and of the file.
  <2>8. ASSUME NEW j \in 1 .. BlockSize
        PROVE  /\ ByteOf(blocks, Target, f + j - 1) = IF j \in 1 .. Len(held) THEN held[j] ELSE Nul
    <3>1. j - 1 \in 0 .. BlockSize - 1 /\ (j - 1) + 1 = j /\ f + (j - 1) = f + j - 1
      BY <2>6
    <3>2. BlockOf(f + j - 1) = k /\ PlaceIn(f + j - 1) = j
      BY <2>6, <3>1, PlaceOfBlock
    <3>. HIDE DEF k
    <3>. QED  BY <2>7, <3>2 DEF ByteOf
  <2>. HIDE DEF held, f, end, length, left
  <2>9. ASSUME \A i \in Asked : i \in PlacesOf(Target) /\ ByteOf(blocks, Target, i) # Nul
        PROVE  /\ LeftFits'
               /\ job'.left = 0 \/ job'.place <= LastReached'
               /\ job'.left + Len(job'.data) = job'.size
               /\ \A i \in 1 .. Len(job'.data) : job'.data[i] = ByteOf(blocks, Target, o + i - 1)
    <3>1. /\ f + left = end \/ (left = 0 /\ f >= end)
          /\ left + Len(job.data) = n
          /\ \A i \in 1 .. Len(job.data) : job.data[i] = ByteOf(blocks, Target, o + i - 1)
      <4>1. /\ LeftFits /\ job.left + Len(job.data) = job.size
            /\ \A i \in 1 .. Len(job.data) : job.data[i] = ByteOf(blocks, Target, job.offset + i - 1)
        BY <2>1, <2>9 DEF ReadFits
      <4>. QED  BY <4>1 DEF LeftFits, f, end, left
    <3>2. \A i \in o .. end - 1 : i \in PlacesOf(Target) /\ ByteOf(blocks, Target, i) # Nul
      <4>1. o .. end - 1 = Asked
        BY <2>3 DEF Asked, end
      <4>. QED  BY <2>9, <4>1
    <3>. DEFINE there == IF left <= BlockSize THEN left ELSE BlockSize
    <3>3. there \in 0 .. BlockSize /\ there <= left
      BY <2>6
\* All that is asked for of the block is there, and none of it is zero.
    <3>4. ASSUME NEW j \in 1 .. there
          PROVE  j \in 1 .. Len(held) /\ held[j] # Nul
      <4>1. f + j - 1 \in o .. end - 1
        <5>1. f + left = end /\ f >= o
          <6>1. f + left = end /\ left + Len(job.data) = n /\ end = o + n
            BY <2>6, <3>1, <3>3 DEF end
          <6>. QED  BY <2>1, <2>3, <2>6, <6>1
        <5>. QED  BY <2>3, <2>6, <3>3, <5>1
      <4>2. j \in 1 .. BlockSize
        BY <2>6, <3>3
      <4>. QED  BY <2>8, <3>2, <4>1, <4>2
    <3>5. there <= Len(held)
      <4>1. CASE there = 0
        BY <2>7, <4>1
      <4>2. CASE there # 0
        <5>1. there \in 1 .. there
          BY <3>3, <4>2
        <5>. QED  BY <2>7, <3>4, <5>1
      <4>. QED  BY <4>1, <4>2
    <3>6. Len(ReadText) >= there
      <4>1. there \in 0 .. Len(held)
        BY <2>7, <3>3, <3>5
      <4>. QED  BY <2>7, <3>4, <4>1
    <3>7. length = there
      <4>1. length = IF left <= Len(ReadText) THEN left ELSE Len(ReadText)
        BY DEF ReadLength, left, length
      <4>2. Len(ReadText) <= BlockSize
        BY <2>1, <2>6, <2>7
      <4>. QED  BY <2>1, <2>6, <3>3, <3>6, <4>1, <4>2
    <3>8. LeftFits'
      <4>1. \/ (f + BlockSize) + (left - there) = end
            \/ left - there = 0 /\ f + BlockSize >= end
        BY <2>6, <3>1
      <4>. QED  BY <2>1, <2>2, <2>6, <3>7, <4>1 DEF LeftFits, end
    <3>9. ASSUME left - there # 0
          PROVE  k + 1 <= LastReached
      <4>1. there = BlockSize /\ f + left = end /\ f + BlockSize < end /\ f + BlockSize >= o
        <5>1. there = BlockSize /\ f + left = end /\ f + BlockSize < end
          BY <2>6, <3>1, <3>9
        <5>. DEFINE l == Len(job.data)
        <5>2. left + l = n /\ end = o + n /\ l \in Nat /\ o \in Nat /\ n \in Nat
          BY <2>1, <2>3, <3>1 DEF end
        <5>. HIDE DEF l, o, n
        <5>. QED  BY <2>6, <5>1, <5>2
      <4>. DEFINE i == f + BlockSize
      <4>2. i \in o .. end - 1 /\ i \in Nat /\ i < end /\ ~(i < FirstOf(k + 1))
        BY <2>3, <2>6, <4>1
      <4>. HIDE DEF i
      <4>3. BlockOf(i) <= Len(Target) /\ BlockOf(i) \in Nat
        BY <2>3, <3>2, <4>2, PlacesOfList
      <4>4. ~(BlockOf(i) <= k)
        BY <2>6, <4>2, BlockBefore
      <4>5. ~(BlockOf(end) <= k)
        <5>1. ~(end < FirstOf(k + 1))
          BY <2>6, <4>1
        <5>. QED  BY <2>6, <5>1, BlockBefore
      <4>6. BlockOf(end) \in Nat /\ LastReached = IF BlockOf(end) <= Len(Target) THEN BlockOf(end) ELSE Len(Target)
        BY <2>3 DEF end
      <4>. QED  BY <2>3, <2>6, <4>3, <4>4, <4>5, <4>6
    <3>10. ASSUME NEW i \in 1 .. Len(job'.data)
           PROVE  job'.data[i] = ByteOf(blocks, Target, o + i - 1)
      <4>. DEFINE l == Len(job.data)
      <4>1. CASE i <= l
        <5>1. i \in 1 .. l
          BY <2>1, <4>1
        <5>. QED  BY <2>1, <3>1, <5>1
      <4>2. CASE ~(i <= l)
        <5>. DEFINE j == i - l
        <5>1. i \in l + 1 .. l + length /\ j \in 1 .. length /\ i \in Nat
          BY <2>1, <4>2
        <5>2. j \in 1 .. there /\ there # 0
          BY <3>3, <3>7, <5>1
        <5>3. job'.data[i] = ReadText[j] /\ ReadText[j] = held[j]
          <6>1. j \in 1 .. Len(ReadText)
            BY <2>1, <5>1
          <6>. QED  BY <2>1, <2>7, <5>1, <6>1
        <5>4. j \in 1 .. BlockSize /\ j \in 1 .. Len(held)
          BY <2>6, <3>3, <3>4, <5>2
        <5>5. ByteOf(blocks, Target, f + j - 1) = held[j]
          BY <2>8, <5>4
        <5>6. f + j - 1 = o + i - 1
          <6>1. f + left = end
            BY <2>6, <3>1, <3>3, <5>2
          <6>2. left + l = n /\ end = o + n /\ l \in Nat /\ o \in Nat /\ n \in Nat
            BY <2>1, <2>3, <3>1 DEF end
          <6>. HIDE DEF l, o, n
          <6>. QED  BY <2>6, <5>1, <6>1, <6>2
        <5>. QED  BY <5>3, <5>5, <5>6
      <4>. QED  BY <2>1, <4>1, <4>2
    <3>11. (left - length) + (Len(job.data) + length) = n
      BY <2>1, <2>6, <3>1
    <3>. QED  BY <2>1, <2>2, <2>4, <3>7, <3>8, <3>9, <3>10, <3>11
  <2>. QED  BY <2>2, <2>4, <2>5, <2>9 DEF ReadFits
<1>. QED
  BY <1>2, <1>3, <1>4, <1>5, <1>6, <1>7, <1>8 DEF Next, Serve, Ends

LEMMA StepStoreInv ==
    ASSUME IInv, OffsetsAreAligned, StoreInv, [Next]_vars
    PROVE  StoreInv'
BY StepBlocksFit, StepSaveFits, StepReadFits DEF StoreInv
-----------------------------------------------------------------------------
(* The files implement FileStore. *)

\* The files that records r and blocks that hold d stand for.
FileOf(r, d, p) == [size |-> r[p].size, bytes |-> BytesOf(d, r[p].blocks)]
StoredIn(r, d) == [p \in {q \in Path : r[q] # NoFile} |-> FileOf(r, d, p)]

LEMMA StoredIs ==
    Stored = StoredIn(records, blocks) /\ Stored' = StoredIn(records', blocks')
BY DEF Stored, StoredIn, FileOf, BytesOf, WrittenIn, ByteAt, BlockAt, ByteOf, BlockOf, PlaceIn, PlacesOf, Exists

LEMMA StoredSame ==
    ASSUME NEW r, NEW d, NEW s, NEW e,
           \A p \in Path : /\ s[p] # NoFile <=> r[p] # NoFile
                           /\ r[p] # NoFile => FileOf(s, e, p) = FileOf(r, d, p)
    PROVE  StoredIn(s, e) = StoredIn(r, d)
<1>1. {q \in Path : s[q] # NoFile} = {q \in Path : r[q] # NoFile}
  OBVIOUS
<1>. QED  BY <1>1 DEF StoredIn

Stutters == Stored' = Stored /\ answer' = answer

LEMMA SilentSteps ==
    ASSUME records' = records, blocks' = blocks
    PROVE  Stored' = Stored
BY StoredIs

\* The bytes of blocks that nobody has written.
LEMMA NoBytes ==
    ASSUME NEW list \in Seq(Block), NEW d, \A b \in Block : Holds(list, b) => d[b] = <<>>
    PROVE  BytesOf(d, list) = [i \in {} |-> 0]
<1>1. ASSUME NEW i \in PlacesOf(list)
      PROVE  ByteOf(d, list, i) = Nul
  <2>1. BlockOf(i) \in 1 .. Len(list) /\ list[BlockOf(i)] \in Block
    BY PlacesOfList
  <2>2. d[list[BlockOf(i)]] = <<>>
    BY <2>1 DEF Holds
  <2>. QED  BY <2>2 DEF ByteOf
<1>. DEFINE D == {k \in PlacesOf(list) : ByteOf(d, list, k) # Nul}
<1>2. D = {}
  BY <1>1
<1>. HIDE DEF D
<1>3. [i \in D |-> ByteOf(d, list, i)] = [i \in {} |-> 0]
  BY <1>2
<1>. QED  BY <1>3 DEF BytesOf, D

LEMMA OpenBlockIsSilent ==
    ASSUME IInv, OpenBlock
    PROVE  Stutters
<1>. USE DEF IInv
<1>1. At("open") /\ blocks' = [blocks EXCEPT ![job.block] = <<>>] /\ records' = records /\ answer' = answer
  BY DEF OpenBlock, Opened
<1>2. job.block \in Block /\ Given(job.block)
  BY <1>1, JobTypes DEF Given, At
<1>3. ASSUME NEW p \in Path, Exists(p)
      PROVE  BytesOf(blocks', records[p].blocks) = BytesOf(blocks, records[p].blocks)
  <2>1. ~Holds(records[p].blocks, job.block)
    BY <1>2, <1>3 DEF GivenAreFree, Has, Exists
  <2>2. records[p].blocks \in Seq(Block) /\ \A k \in 1 .. Len(records[p].blocks) : records[p].blocks[k] \in Block
    BY <1>3, FileTypes
  <2>3. \A k \in 1 .. Len(records[p].blocks) : blocks[records[p].blocks[k]] = blocks'[records[p].blocks[k]]
    BY <1>1, <2>1, <2>2 DEF Holds, TypeOK
  <2>. QED  BY <2>2, <2>3, SameBytes
<1>4. \A p \in Path : /\ records'[p] # NoFile <=> records[p] # NoFile
                      /\ records[p] # NoFile => FileOf(records', blocks', p) = FileOf(records, blocks, p)
  BY <1>1, <1>3 DEF FileOf, Exists
<1>5. StoredIn(records', blocks') = StoredIn(records, blocks)
  BY ONLY <1>4, StoredSame
<1>. QED  BY <1>1, <1>5, StoredIs DEF Stutters

LEMMA GrowIsSilent ==
    ASSUME IInv, BlocksFit, Grow
    PROVE  Stutters
<1>. USE DEF IInv
<1>1. At("grow") /\ blocks' = blocks /\ answer' = answer
  BY DEF Grow
<1>2. \A b \in Block : Holds(job.new, b) => blocks[b] = <<>>
  BY <1>1 DEF BlocksFit, Given, Giving, At
<1>3. ASSUME NEW p \in Path
      PROVE  /\ records'[p] # NoFile <=> records[p] # NoFile
             /\ records[p] # NoFile => FileOf(records', blocks', p) = FileOf(records, blocks, p)
  <2>1. CASE p # job.path
    <3>1. records'[p] = records[p]
      BY <2>1, GrowMoves
    <3>. QED  BY <1>1, <3>1 DEF FileOf
  <2>2. CASE p = job.path
    <3>1. /\ Exists(p) /\ Exists(p)' /\ records'[p].size = records[p].size
          /\ records'[p].blocks = records[p].blocks \o job.new
      BY <2>2, GrowMoves
    <3>2. BytesOf(blocks, records[p].blocks \o job.new) = BytesOf(blocks, records[p].blocks)
      BY <1>2, <3>1, FileTypes, JobTypes, GrownBytes
    <3>. QED  BY <1>1, <3>1, <3>2 DEF FileOf, Exists
  <2>. QED  BY <2>1, <2>2
<1>4. StoredIn(records', blocks') = StoredIn(records, blocks)
  BY <1>3, StoredSame
<1>. QED  BY <1>1, <1>4, StoredIs DEF Stutters

LEMMA WriteRecordCreates ==
    ASSUME IInv, BlocksFit, WriteRecord
    PROVE  Store!Create(job.path)
<1>. USE DEF IInv
<1>1. At("record") /\ blocks' = blocks /\ answer' = Store!Yes /\ job.path \in Path
  BY Points DEF WriteRecord, Done, Store!Yes
<1>2. \A b \in Block : Holds(job.new, b) => blocks[b] = <<>>
  BY <1>1 DEF BlocksFit, Given, Giving, At
<1>3. BytesOf(blocks, job.new) = [i \in {} |-> 0]
  BY <1>2, JobTypes, NoBytes
<1>4. /\ \A q \in Path : q # job.path => records'[q] = records[q]
      /\ records'[job.path] # NoFile
      /\ FileOf(records', blocks', job.path) = Store!Empty
  <2>. DEFINE r == [size |-> 0, blocks |-> job.new]
  <2>1. records' = [records EXCEPT ![job.path] = r]
    BY DEF WriteRecord
  <2>2. records'[job.path] = r /\ r.size = 0 /\ r.blocks = job.new
    BY <1>1, <2>1 DEF TypeOK
  <2>3. records'[job.path] # NoFile
    BY <1>1, WriteRecordMoves DEF Exists
  <2>4. FileOf(records', blocks', job.path) = Store!Empty
    BY <1>1, <1>3, <2>2 DEF FileOf, Store!Empty
  <2>. QED  BY <2>3, <2>4, WriteRecordMoves
<1>. DEFINE D(r) == {q \in Path : r[q] # NoFile}
<1>5. D(records') = D(records) \cup {job.path}
  BY <1>1, <1>4
<1>6. StoredIn(records', blocks') =
         [q \in D(records) \cup {job.path} |-> IF q = job.path THEN Store!Empty ELSE FileOf(records, blocks, q)]
  <2>1. \A q \in D(records') : FileOf(records', blocks', q)
                                  = IF q = job.path THEN Store!Empty ELSE FileOf(records, blocks, q)
    BY <1>1, <1>4 DEF FileOf
  <2>. QED  BY <1>5, <2>1 DEF StoredIn
<1>7. DOMAIN Stored = D(records) /\ \A q \in D(records) : Stored[q] = FileOf(records, blocks, q)
  BY StoredIs DEF StoredIn
<1>8. Stored' = [q \in DOMAIN Stored \cup {job.path} |-> IF q = job.path THEN Store!Empty ELSE Stored[q]]
  BY <1>6, <1>7, StoredIs
<1>. QED  BY <1>1, <1>8 DEF Store!Create

LEMMA RemoveRecordDeletes ==
    ASSUME IInv, RemoveRecord
    PROVE  Store!Delete(job.path)
<1>. USE DEF IInv
<1>1. blocks' = blocks /\ answer' = Store!Yes /\ job.path \in Path /\ Exists(job.path)
  BY Points DEF RemoveRecord, Done, Store!Yes
<1>2. /\ \A q \in Path : q # job.path => records'[q] = records[q]
      /\ records'[job.path] = NoFile
  BY <1>1 DEF RemoveRecord, TypeOK
<1>. DEFINE D(r) == {q \in Path : r[q] # NoFile}
<1>3. D(records') = D(records) \ {job.path}
  BY <1>1, <1>2
<1>4. \A q \in D(records') : FileOf(records', blocks', q) = FileOf(records, blocks, q)
  BY <1>1, <1>2 DEF FileOf
<1>5. StoredIn(records', blocks') = [q \in D(records) \ {job.path} |-> FileOf(records, blocks, q)]
  BY <1>3, <1>4 DEF StoredIn
<1>6. DOMAIN Stored = D(records) /\ \A q \in D(records) : Stored[q] = FileOf(records, blocks, q)
  BY StoredIs DEF StoredIn
<1>7. Stored' = [q \in DOMAIN Stored \ {job.path} |-> Stored[q]]
  BY <1>5, <1>6, StoredIs
<1>8. job.path \in DOMAIN Stored
  BY <1>1, <1>6 DEF Exists
<1>. QED  BY <1>1, <1>7, <1>8 DEF Store!Delete

\* One file changes, and what is there does not.
LEMMA OneFileChanges ==
    ASSUME NEW p \in Path, Exists(p), Exists(p)', NEW f, FileOf(records', blocks', p) = f,
           \A q \in Path : q # p /\ Exists(q) => FileOf(records', blocks', q) = FileOf(records, blocks, q),
           \A q \in Path : records'[q] # NoFile <=> records[q] # NoFile
    PROVE  p \in DOMAIN Stored /\ Stored[p] = FileOf(records, blocks, p) /\ Stored' = [Stored EXCEPT ![p] = f]
<1>. DEFINE D(r) == {q \in Path : r[q] # NoFile}
<1>1. D(records') = D(records) /\ p \in D(records)
  BY DEF Exists
<1>2. DOMAIN Stored = D(records) /\ \A q \in D(records) : Stored[q] = FileOf(records, blocks, q)
  BY StoredIs DEF StoredIn
<1>3. \A q \in D(records) : FileOf(records', blocks', q) = IF q = p THEN f ELSE Stored[q]
  BY <1>1, <1>2 DEF Exists
<1>4. Stored' = [q \in D(records) |-> FileOf(records', blocks', q)]
  BY <1>1, StoredIs DEF StoredIn
<1>5. Stored = [q \in D(records) |-> FileOf(records, blocks, q)]
  BY StoredIs DEF StoredIn
<1>6. Stored' = [Stored EXCEPT ![p] = f]
  BY <1>2, <1>3, <1>4, <1>5
<1>. QED  BY <1>1, <1>2, <1>6

LEMMA UpdateFileSizeSaves ==
    ASSUME IInv, SaveFits, UpdateFileSize
    PROVE  job.offset \in Offset /\ job.size \in Size /\ job.byte \in Byte /\ job.path \in Path
           /\ Store!Save(job.path, job.offset, job.size, job.byte)
<1>. USE DEF IInv
<1>. DEFINE p == job.path
            o == job.offset
            n == job.size
            b == job.byte
            list == records[p].blocks
<1>1. /\ At("size") /\ blocks' = blocks /\ answer' = Store!Yes
      /\ o \in Offset /\ n \in Size /\ b \in Byte /\ p \in Path /\ Exists(p)
  BY Points DEF UpdateFileSize, Done, Store!Yes, JobFits
<1>2. /\ records'[p].blocks = list /\ records'[p].size = Max({records[p].size, o + n})
      /\ \A q \in Path : q # p => records'[q] = records[q]
      /\ records'[p] # NoFile
  BY <1>1, UpdateFileSizeMoves DEF Exists
<1>3. o \in Nat /\ n \in Nat /\ records[p].size \in Nat /\ list \in Seq(Block) /\ b # Nul
  BY <1>1, JobTypes, FileTypes, SadicaConstants
<1>4. Max({records[p].size, o + n}) = Store!Larger(records[p].size, o + n)
  BY <1>3, MaxOfTwo DEF Store!Larger
<1>5. \A i \in Store!Range(o, n) : i \in PlacesOf(list) /\ ByteOf(blocks, list, i) = b
  BY <1>1 DEF SaveFits, Asked, Target, Store!Range, At
<1>. DEFINE old == FileOf(records, blocks, p)
            new == [size |-> Store!Larger(old.size, o + n), bytes |-> Store!Written(old, Store!Range(o, n), b)]
<1>6. Store!Written(old, Store!Range(o, n), b) = old.bytes
  <2>. DEFINE D == {k \in PlacesOf(list) : ByteOf(blocks, list, k) # Nul}
  <2>1. old.bytes = [i \in D |-> ByteOf(blocks, list, i)]
    BY DEF FileOf, BytesOf
  <2>2. \A i \in Store!Range(o, n) : i \in D /\ ByteOf(blocks, list, i) = b
    BY <1>3, <1>5
  <2>. HIDE DEF D, old
  <2>3. DOMAIN old.bytes \cup Store!Range(o, n) = D
    BY <2>1, <2>2
  <2>4. \A i \in D : (IF i \in Store!Range(o, n) THEN b ELSE old.bytes[i]) = ByteOf(blocks, list, i)
    BY <2>1, <2>2
  <2>. QED  BY <2>1, <2>3, <2>4 DEF Store!Written
<1>7. FileOf(records', blocks', p) = new
  BY <1>1, <1>2, <1>4, <1>6 DEF FileOf
<1>8. \A q \in Path : q # p /\ Exists(q) => FileOf(records', blocks', q) = FileOf(records, blocks, q)
  BY <1>1, <1>2 DEF FileOf
<1>9. \A q \in Path : records'[q] # NoFile <=> records[q] # NoFile
  BY <1>1, <1>2 DEF Exists
<1>. HIDE DEF new
<1>10. p \in DOMAIN Stored /\ Stored[p] = old /\ Stored' = [Stored EXCEPT ![p] = new]
  BY <1>1, <1>2, <1>7, <1>8, <1>9, OneFileChanges DEF Exists
<1>11. Stored' = [Stored EXCEPT ![p] = [size |-> Store!Larger(@.size, o + n),
                                       bytes |-> Store!Written(@, Store!Range(o, n), b)]]
  BY <1>10 DEF new
<1>. QED  BY <1>1, <1>10, <1>11 DEF Store!Save

LEMMA WriteBlockInterrupts ==
    ASSUME IInv, OffsetsAreAligned, BlocksFit, SaveFits, WriteBlock
    PROVE  job.offset \in Offset /\ job.size \in Size /\ job.byte \in Byte /\ job.path \in Path
           /\ Store!Interrupt(job.path, job.offset, job.size, job.byte)
<1>. USE DEF IInv
<1>. DEFINE p == job.path
            o == job.offset
            n == job.size
            b == job.byte
            k == job.place
            f == FirstOf(k)
            list == records[p].blocks
            where == f .. f + WriteLength - 1
<1>1. /\ At("write") /\ job.op = "save" /\ k \in 1 .. Len(list) /\ WriteLength \in 0 .. BlockSize
      /\ blocks' = [blocks EXCEPT ![list[k]] = Overwritten(@, 0, WriteLength, b)]
      /\ b \in Byte /\ list[k] \in Block
  BY WriteBlockMoves DEF Target
<1>2. /\ records' = records /\ answer' = answer
      /\ o \in Offset /\ n \in Size /\ p \in Path /\ Exists(p)
  BY <1>1, Points DEF WriteBlock, JobFits
<1>3. /\ list \in Seq(Block) /\ Len(list) \in Nat /\ o \in Nat /\ n \in Nat \ {0}
      /\ Start \in Nat /\ Start + 1 \in Nat /\ FirstOf(Start + 1) = o /\ k \in Nat /\ k > Start /\ b # Nul
      /\ \A i \in 1 .. Len(list) : list[i] \in Block
  <2>1. Start \in Nat /\ k \in Nat /\ k > Start /\ b # Nul
    BY <1>1, StartTypes, JobTypes, SadicaConstants DEF JobFits
  <2>. QED  BY <1>1, <1>2, <2>1, Goes, FileTypes DEF Target
<1>4. where \subseteq Store!Range(o, n)
  <2>1. f >= o /\ f \in Nat
    <3>1. BlockSize * Start = o /\ f = BlockSize * (k - 1)
      <4>1. (Start + 1) - 1 = Start
        BY <1>3
      <4>. QED  BY <1>3, <4>1 DEF FirstOf
    <3>2. f \in Nat
      <4>1. k \in Nat \ {0}
        BY <1>3
      <4>. QED  BY <4>1, FirstPlaces
    <3>3. CASE k - 1 = Start
      BY <1>3, <3>1, <3>2, <3>3
    <3>4. CASE Start < k - 1
      <4>1. k - 1 \in Int /\ BlockSize \in Nat
        BY <1>3, SadicaConstants
      <4>2. BlockSize * Start + BlockSize <= BlockSize * (k - 1)
        <5>. DEFINE q == k - 1
        <5>1. q \in Int /\ Start \in Int /\ Start < q
          BY <1>3, <3>4, <4>1
        <5>. HIDE DEF q
        <5>2. BlockSize * Start + BlockSize <= BlockSize * q
          BY <4>1, <5>1, NextMultiple
        <5>. QED  BY <5>2 DEF q
      <4>3. o + BlockSize <= f
        BY <3>1, <4>2
      <4>. HIDE DEF f, o
      <4>. QED  BY <1>3, <3>2, <4>1, <4>3
    <3>5. k - 1 = Start \/ Start < k - 1
      BY <1>3
    <3>. QED  BY <3>2, <3>3, <3>4, <3>5
  <2>2. f + job.left = o + n \/ job.left = 0
    BY <1>1 DEF SaveFits, LeftFits
  <2>3. job.left \in Nat /\ BlockSize \in Nat
    BY JobTypes, SadicaConstants
  <2>4. WriteLength = 0 \/ f + WriteLength <= o + n
    BY <1>3, <2>1, <2>2, <2>3 DEF WriteLength
  <2>. HIDE DEF f, o, n
  <2>. QED  BY <1>1, <1>3, <2>1, <2>4 DEF Store!Range
<1>5. where \subseteq PlacesOf(list) /\ WrittenFrom(blocks, blocks', list, k, WriteLength, b)
  <2>1. Distinct(list)
    BY <1>2 DEF BlocksAreApart
  <2>2. blocks \in [Block -> Seq(Byte \cup {Nul})] /\ Len(blocks[list[k]]) <= BlockSize
    BY <1>1 DEF TypeOK, BlocksFit
  <2>3. WrittenTo(blocks, blocks', list[k], WriteLength, b)
    BY <1>1, <2>2 DEF WrittenTo
  <2>. QED  BY ONLY <1>1, <1>3, <2>1, <2>2, <2>3, WrittenBytes
<1>. DEFINE old == FileOf(records, blocks, p)
            new == [old EXCEPT !.bytes = Store!Written(old, where, b)]
<1>6. BytesOf(blocks', list) = Store!Written(old, where, b)
  <2>. DEFINE D == {i \in PlacesOf(list) : ByteOf(blocks, list, i) # Nul}
              E == {i \in PlacesOf(list) : ByteOf(blocks', list, i) # Nul}
  <2>1. old.bytes = [i \in D |-> ByteOf(blocks, list, i)]
    BY DEF FileOf, BytesOf
  <2>2. \A i \in PlacesOf(list) : ByteOf(blocks', list, i) = IF i \in where THEN b ELSE ByteOf(blocks, list, i)
    BY <1>5 DEF WrittenFrom
  <2>. HIDE DEF where, old
  <2>3. E = D \cup where
    BY <1>3, <1>5, <2>2
  <2>4. \A i \in E : ByteOf(blocks', list, i) = IF i \in where THEN b ELSE old.bytes[i]
    BY <2>1, <2>2, <2>3
  <2>5. DOMAIN old.bytes = D
    BY <2>1
  <2>6. BytesOf(blocks', list) = [i \in E |-> ByteOf(blocks', list, i)]
    BY DEF BytesOf
  <2>. HIDE DEF D, E
  <2>. QED  BY <2>3, <2>4, <2>5, <2>6 DEF Store!Written
<1>7. FileOf(records', blocks', p) = new
  BY <1>2, <1>6 DEF FileOf
<1>8. ASSUME NEW q \in Path, q # p, Exists(q)
      PROVE  FileOf(records', blocks', q) = FileOf(records, blocks, q)
  <2>1. records[q].blocks \in Seq(Block) /\ \A i \in 1 .. Len(records[q].blocks) : records[q].blocks[i] \in Block
    BY <1>8, FileTypes
  <2>2. Has(records, p, list[k])
    BY <1>1, <1>2 DEF Has, Holds, Exists
  <2>3. ~Has(records, q, list[k])
    BY <1>1, <1>2, <1>8, <2>2 DEF BlocksAreApart
  <2>4. \A i \in 1 .. Len(records[q].blocks) : blocks[records[q].blocks[i]] = blocks'[records[q].blocks[i]]
    BY <1>1, <1>8, <2>1, <2>3 DEF Has, Holds, Exists, TypeOK
  <2>5. BytesOf(blocks', records[q].blocks) = BytesOf(blocks, records[q].blocks)
    BY <2>1, <2>4, SameBytes
  <2>. QED  BY <1>2, <2>5 DEF FileOf
<1>. HIDE DEF new
<1>9. p \in DOMAIN Stored /\ Stored[p] = old /\ Stored' = [Stored EXCEPT ![p] = new]
  BY <1>2, <1>7, <1>8, OneFileChanges DEF Exists
<1>10. Stored' = [Stored EXCEPT ![p].bytes = Store!Written(Stored[p], where, b)]
  BY <1>9 DEF new
<1>11. where \in SUBSET Store!Range(o, n)
  BY <1>4
<1>. HIDE DEF where
<1>. QED  BY <1>1, <1>2, <1>9, <1>10, <1>11 DEF Store!Interrupt

\* What the bytes of a file say of its blocks.
LEMMA StoredBytes ==
    ASSUME NEW p \in Path, Exists(p)
    PROVE  /\ p \in DOMAIN Stored /\ Stored[p].size = records[p].size
           /\ \A i \in DOMAIN Stored[p].bytes :
                 /\ i \in PlacesOf(records[p].blocks) /\ ByteOf(blocks, records[p].blocks, i) # Nul
                 /\ Stored[p].bytes[i] = ByteOf(blocks, records[p].blocks, i)
<1>1. p \in DOMAIN Stored /\ Stored[p] = FileOf(records, blocks, p)
  BY StoredIs DEF StoredIn, Exists
<1>. QED  BY <1>1 DEF FileOf, BytesOf

LEMMA DataReadGets ==
    ASSUME IInv, ReadFits, DataRead
    PROVE  job.offset \in Offset /\ job.size \in Size /\ job.path \in Path
           /\ Store!Get(job.path, job.offset, job.size)
<1>. USE DEF IInv
<1>. DEFINE p == job.path
            o == job.offset
            n == job.size
            list == records[p].blocks
<1>1. /\ At("read") /\ records' = records /\ blocks' = blocks /\ DoneReading(job.data)
      /\ o \in Offset /\ n \in Size /\ p \in Path /\ Exists(p)
  BY Points DEF DataRead, JobFits, disk
<1>2. job.place > LastReached
  BY DEF DataRead
<1>3. o \in Nat /\ n \in Nat \ {0} /\ job.left \in Nat /\ job.place \in Nat /\ LastReached \in Int
  BY <1>1, JobTypes, ReachTypes, Points, SadicaConstants
<1>4. records[p].size >= o + n /\ records[p].size \in Nat
  BY <1>1, FileTypes DEF ReadFits
<1>5. Stored' = Stored
  BY <1>1, SilentSteps
<1>6. /\ p \in DOMAIN Stored /\ Stored[p].size = records[p].size
      /\ \A i \in DOMAIN Stored[p].bytes :
            /\ i \in PlacesOf(list) /\ ByteOf(blocks, list, i) # Nul
            /\ Stored[p].bytes[i] = ByteOf(blocks, list, i)
  BY <1>1, StoredBytes
<1>7. ASSUME Store!Range(o, n) \subseteq DOMAIN Stored[p].bytes
      PROVE  answer' = [ok |-> TRUE, data |-> [i \in 1 .. n |-> Stored[p].bytes[o + i - 1]]]
  <2>1. \A i \in Asked : i \in PlacesOf(Target) /\ ByteOf(blocks, Target, i) # Nul
    BY <1>6, <1>7 DEF Asked, Target, Store!Range
  <2>2. job.left = 0 /\ job.left + Len(job.data) = n
        /\ \A i \in 1 .. Len(job.data) : job.data[i] = ByteOf(blocks, list, o + i - 1)
    <3>1. (job.left = 0 \/ job.place <= LastReached) /\ job.left + Len(job.data) = n
          /\ \A i \in 1 .. Len(job.data) : job.data[i] = ByteOf(blocks, list, o + i - 1)
      BY <1>1, <2>1 DEF ReadFits, Target
    <3>. QED  BY <1>2, <1>3, <3>1
  <2>3. Len(job.data) = n /\ job.data \in Seq(Byte \cup {Nul}) /\ DOMAIN job.data = 1 .. n
    <3>1. job.data \in Seq(Byte \cup {Nul}) /\ Len(job.data) \in Nat
      BY JobTypes, LenProperties
    <3>2. Len(job.data) = n
      BY <1>3, <2>2, <3>1
    <3>. QED  BY <3>1, <3>2, LenProperties
  <2>4. \A i \in 1 .. n : job.data[i] = Stored[p].bytes[o + i - 1]
    <3>1. ASSUME NEW i \in 1 .. n PROVE o + i - 1 \in Store!Range(o, n)
      BY <1>3 DEF Store!Range
    <3>. QED  BY <1>6, <1>7, <2>2, <2>3, <3>1
  <2>5. job.data = [i \in 1 .. n |-> job.data[i]]
    BY <2>3
  <2>6. job.data = [i \in 1 .. n |-> Stored[p].bytes[o + i - 1]]
    BY <2>4, <2>5
  <2>7. job.data # <<>>
    BY <1>3, <2>3
  <2>8. answer' = [ok |-> TRUE, data |-> job.data]
    BY <1>1, <2>7 DEF DoneReading
  <2>. QED  BY <2>6, <2>8
<1>8. ~(Stored[p].size < o + n)
  BY <1>3, <1>4, <1>6
<1>. QED  BY <1>1, <1>5, <1>6, <1>7, <1>8 DEF Store!Get
-----------------------------------------------------------------------------
(* Every step is one of FileStore's, or none. *)

LEMMA InitStore == Init => Store!Init /\ StoreInv
<1>. SUFFICES ASSUME Init PROVE Store!Init /\ StoreInv
  OBVIOUS
<1>1. job.at = "idle" /\ job.new = <<>> /\ answer = Store!Yes /\ \A q \in Path : ~Exists(q)
  BY DEF Init, Idle, Store!Yes, Exists
<1>2. Stored = [p \in {} |-> Store!Empty]
  <2>1. {q \in Path : records[q] # NoFile} = {}
    BY <1>1 DEF Exists
  <2>2. StoredIn(records, blocks) = [p \in {} |-> FileOf(records, blocks, p)]
    BY <2>1 DEF StoredIn
  <2>. QED  BY <2>2, StoredIs
<1>3. BlocksFit
  <2>1. \A b \in Block : blocks[b] = <<>>
    BY DEF Init
  <2>. QED  BY <2>1, SadicaConstants DEF BlocksFit
<1>4. SaveFits /\ ReadFits
  BY <1>1 DEF SaveFits, ReadFits, At
<1>. QED  BY <1>1, <1>2, <1>3, <1>4 DEF Store!Init, StoreInv

\* Requests that the process turns down.
LEMMA RefusalsFail ==
    ASSUME NoBlock \/ OpenFails
    PROVE  Store!Fail
<1>1. UNCHANGED disk /\ answer' = Store!No
  BY DEF NoBlock, OpenFails, Done, Store!No
<1>2. Stored' = Stored
  BY <1>1, SilentSteps DEF disk
<1>. QED  BY <1>1, <1>2 DEF Store!Fail

\* And those that it answers at once, or begins.
LEMMA RequestsAreKnown ==
    ASSUME NEW p \in Path
    PROVE  /\ ValidateFile(p) => Store!Validate(p)
           /\ CreateFile(p) => Stutters
           /\ DeleteFile(p) => Stutters \/ Store!Fail
<1>1. ASSUME ValidateFile(p)
      PROVE  Store!Validate(p)
  <2>1. Stored' = Stored
    BY <1>1, SilentSteps DEF ValidateFile, disk
  <2>2. Exists(p) <=> p \in DOMAIN Stored
    BY StoredIs DEF StoredIn, Exists
  <2>3. answer' = [ok |-> Exists(p), data |-> <<>>]
    BY <1>1 DEF ValidateFile, Done
  <2>4. Exists(p) \in BOOLEAN
    BY DEF Exists
  <2>5. answer' = IF Exists(p) THEN Store!Yes ELSE Store!No
    BY <2>3, <2>4 DEF Store!Yes, Store!No
  <2>. QED  BY <2>1, <2>2, <2>5 DEF Store!Validate
<1>2. CreateFile(p) => Stutters
  BY SilentSteps DEF CreateFile, disk, Stutters
<1>3. ASSUME DeleteFile(p)
      PROVE  Stutters \/ Store!Fail
  <2>1. Stored' = Stored
    BY <1>3, SilentSteps DEF DeleteFile, disk
  <2>2. answer' = answer \/ answer' = Store!No
    BY <1>3 DEF DeleteFile, Done, Store!No
  <2>. QED  BY <2>1, <2>2 DEF Stutters, Store!Fail
<1>. QED  BY <1>1, <1>2, <1>3

LEMMA GetDataIsKnown ==
    ASSUME NEW p \in Path, NEW o \in Offset, NEW n \in Size, GetData(p, o, n)
    PROVE  Stutters \/ Store!Fail
<1>1. Stored' = Stored
  BY SilentSteps DEF GetData, disk
<1>2. answer' = answer \/ answer' = Store!No
  BY DEF GetData, DoneReading, Store!No
<1>. QED  BY <1>1, <1>2 DEF Stutters, Store!Fail

LEMMA StepImplements ==
    ASSUME IInv, StoreInv, OffsetsAreAligned, [Next]_vars
    PROVE  Store!Next \/ Stutters
<1>. USE DEF IInv, StoreInv
<1>1. CASE UNCHANGED vars
  BY <1>1, SilentSteps DEF vars, disk, Stutters
<1>2. CASE SetBit \/ PersistBlock \/ ClearBits \/ PersistFreed \/ ReadBlock \/ Restart
  BY <1>2, SilentSteps DEF SetBit, PersistBlock, ClearBits, PersistFreed, ReadBlock, Restart, disk, Stutters
<1>3. CASE OpenBlock \/ Grow
  BY <1>3, OpenBlockIsSilent, GrowIsSilent
<1>4. CASE NoBlock \/ OpenFails
  BY <1>4, RefusalsFail DEF Store!Next
<1>5. CASE WriteRecord
  BY <1>5, WriteRecordCreates, Points DEF WriteRecord, Store!Next
<1>6. CASE WriteBlock
  BY <1>6, WriteBlockInterrupts DEF Store!Next
<1>7. CASE UpdateFileSize
  BY <1>7, UpdateFileSizeSaves DEF Store!Next
<1>8. CASE RemoveRecord
  BY <1>8, RemoveRecordDeletes, Points DEF RemoveRecord, Store!Next
<1>9. CASE DataRead
  BY <1>9, DataReadGets DEF Store!Next
<1>10. ASSUME NEW p \in Path, ValidateFile(p) \/ CreateFile(p) \/ DeleteFile(p)
       PROVE  Store!Next \/ Stutters
  BY <1>10, RequestsAreKnown DEF Store!Next
<1>11. ASSUME NEW p \in Path, NEW o \in Offset, NEW n \in Size, GetData(p, o, n)
       PROVE  Store!Next \/ Stutters
  BY <1>11, GetDataIsKnown DEF Store!Next
<1>12. ASSUME NEW p \in Path, NEW o \in Offset, NEW n \in Size, NEW b \in Byte, SaveData(p, o, n, b)
       PROVE  Store!Next \/ Stutters
  BY <1>12, SilentSteps DEF SaveData, disk, Stutters
<1>. QED
  BY <1>1, <1>2, <1>3, <1>4, <1>5, <1>6, <1>7, <1>8, <1>9, <1>10, <1>11, <1>12 DEF Next, Serve

\* Whoever asks for offsets where blocks begin has a store of files of bytes, although a
\* request takes several steps and the process may end between two of them.
THEOREM FilesImplementAStore ==
    ASSUME DeletesAreWhole, OffsetsAreAligned
    PROVE  Spec /\ []NothingIsCut => FilesAreAStore
<1>1. Init => IInv /\ StoreInv /\ Store!Init
  BY InitInv, InitStore
<1>2. IInv /\ StoreInv /\ NothingIsCut /\ [Next]_vars => (IInv /\ StoreInv)'
  BY StepInv, StepStoreInv
<1>3. IInv /\ StoreInv /\ [Next]_vars => [Store!Next]_<<Stored, answer>>
  BY StepImplements DEF Stutters
<1>. QED  BY <1>1, <1>2, <1>3, PTL DEF Spec, FilesAreAStore, Store!Spec
=============================================================================
