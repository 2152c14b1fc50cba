------------------------------ MODULE SadicaFS ------------------------------
(***************************************************************************)
(* The filesystem process. A file is a record with its size and the list   *)
(* of its blocks; a bitmap tells which blocks are in use, and is kept in   *)
(* memory and in a file that is written again after every change. Requests *)
(* are served one at a time under request_mutex, and each changes several  *)
(* files of the disk one after another: the process may end between any    *)
(* two, and the next one starts from what is on the disk.                  *)
(***************************************************************************)
EXTENDS Integers, FiniteSets, FiniteSetsExt, Sequences, SequencesExt

CONSTANTS
    Path,       \* the names of files
    NoFile,     \* there is no such file
    Bytes,      \* bytes of the bitmap
    ByteBits,   \* blocks that a byte of the bitmap stands for: 8
    BlockSize,  \* TAMANIO_BLOQUES
    Byte,       \* what a program may write
    Nul,        \* the byte between the end of a block and where it is written
    Offset,     \* where the cursors of open files are
    Size,       \* how many bytes are saved and read
    CrashIn     \* the requests during which the process may end

Block == 0 .. Bytes * ByteBits - 1
FileRecord == [size : Nat, blocks : Seq(Block)]

ASSUME SadicaConstants ==
    /\ Bytes \in Nat \ {0} /\ ByteBits \in Nat \ {0} /\ BlockSize \in Nat \ {0}
    /\ Offset \subseteq Nat /\ Size \subseteq Nat \ {0} /\ Nul \notin Byte
    /\ NoFile \notin FileRecord /\ NoFile \notin Path
    /\ CrashIn \subseteq {"create", "save", "delete"}

VARIABLES
    bitmap,     \* the blocks that are in use, in memory
    bitmapFile, \* Bitmap.bin: its length, and the blocks in use it tells of
    records,    \* Archivos/: size and blocks of each file
    blocks,     \* Bloques/: the bytes of each block
    job,        \* the request that holds request_mutex
    answer      \* the answer to the last one

disk == <<bitmapFile, records, blocks>>
vars == <<bitmap, disk, job, answer>>

Idle == [op |-> "none", at |-> "idle", path |-> NoFile, offset |-> 0, size |-> 0, byte |-> Nul,
         new |-> <<>>, block |-> 0, place |-> 0, left |-> 0, data |-> <<>>]

Exists(p) == records[p] # NoFile
At(point) == job.at = point
Go(point) == job' = [job EXCEPT !.at = point]
\* fs_response_file answers a truth value, fs_response_get_data bytes.
Done(ok) == job' = Idle /\ answer' = [ok |-> ok, data |-> <<>>]
DoneReading(bytes) == job' = Idle /\ answer' = [ok |-> bytes # <<>>, data |-> bytes]
-----------------------------------------------------------------------------
(* The requests of the kernel, which names only files it has open, but for   *)
(* the first two.                                                            *)

Begin(op, p, point) == At("idle") /\ job' = [Idle EXCEPT !.op = op, !.at = point, !.path = p]

ValidateFile(p) == At("idle") /\ Done(Exists(p)) /\ UNCHANGED <<bitmap, disk>>

CreateFile(p) == Begin("create", p, "block") /\ UNCHANGED <<bitmap, disk, answer>>

DeleteFile(p) ==
    IF Exists(p) THEN Begin("delete", p, "clear") /\ UNCHANGED <<bitmap, disk, answer>>
                 ELSE At("idle") /\ Done(FALSE) /\ UNCHANGED <<bitmap, disk>>

\* Blocks the file needs: up to the one of its last byte.
LastBlock(o, n) == (o + n + BlockSize - 1) \div BlockSize
Lacks(p, new, o, n) == Len(records[p].blocks) + Len(new) < LastBlock(o, n)

\* A request for a file that is not there ends the process: see Restart.
SaveData(p, o, n, b) ==
    /\ At("idle") /\ Exists(p)
    /\ job' = [Idle EXCEPT !.op = "save", !.at = IF Lacks(p, <<>>, o, n) THEN "block" ELSE "grow",
                           !.path = p, !.offset = o, !.size = n, !.byte = b]
    /\ UNCHANGED <<bitmap, disk, answer>>
-----------------------------------------------------------------------------
(* create_block *)

\* Mutated: the bit after the last one is tested too.
FreeBitsAndOneMore == (0 .. Bytes * ByteBits) \ bitmap

FreeBlocks == Block \ bitmap

NoBlock ==
    /\ At("block") /\ FreeBlocks = {}
    /\ Done(FALSE)
    /\ UNCHANGED <<bitmap, disk>>

SetBit ==
    /\ At("block") /\ FreeBlocks # {}
    /\ bitmap' = bitmap \cup {Min(FreeBlocks)}
    /\ job' = [job EXCEPT !.at = "open", !.block = Min(FreeBlocks)]
    /\ UNCHANGED <<disk, answer>>

\* Mutated: the file of the block is opened with "a".
OpenedToAppend == blocks

\* A block that is taken again is empty: its file is opened with "w".
Opened == [blocks EXCEPT ![job.block] = <<>>]

OpenBlock ==
    /\ At("open") /\ blocks' = Opened
    /\ Go("persist")
    /\ UNCHANGED <<bitmap, bitmapFile, records, answer>>

\* The file of the block cannot be opened: the bit stays set, in memory.
OpenFails ==
    /\ At("open") /\ Done(FALSE)
    /\ UNCHANGED <<bitmap, disk>>

\* update_bitmap_file writes the bitmap as a string: nothing after its first zero byte.
BitsOf(k) == k * ByteBits .. (k + 1) * ByteBits - 1
BytesBeforeZero(bits) == Min({k \in 0 .. Bytes - 1 : BitsOf(k) \cap bits = {}} \cup {Bytes})

\* Mutated: the last bit of the bitmap is not written.
AsFileButLast(bits) == [length |-> BytesBeforeZero(bits), bits |-> bits \ {Bytes * ByteBits - 1}]

AsFile(bits) ==
    [length |-> BytesBeforeZero(bits), bits |-> bits \cap (0 .. BytesBeforeZero(bits) * ByteBits - 1)]

\* Mutated: the bitmap is written when the process ends in order.
BitmapFileLater == UNCHANGED bitmapFile

UpdateBitmapFile == bitmapFile' = AsFile(bitmap)

PersistBlock ==
    /\ At("persist") /\ UpdateBitmapFile
    /\ LET new == Append(job.new, job.block)
       IN  job' = [job EXCEPT !.new = new,
                              !.at = IF job.op = "create" THEN "record"
                                     ELSE IF Lacks(job.path, new, job.offset, job.size) THEN "block"
                                     ELSE "grow"]
    /\ UNCHANGED <<bitmap, records, blocks, answer>>
-----------------------------------------------------------------------------
(* create_file, save_data, delete_file *)

\* A record that is already there is written over.
WriteRecord ==
    /\ At("record")
    /\ records' = [records EXCEPT ![job.path] = [size |-> 0, blocks |-> job.new]]
    /\ Done(TRUE)
    /\ UNCHANGED <<bitmap, bitmapFile, blocks>>

\* The first block that is written, the place in it, and how many bytes of it.
FirstPlace == job.offset % BlockSize
FirstLength == Min({job.size, BlockSize}) - FirstPlace

Grow ==
    /\ At("grow")
    /\ records' = [records EXCEPT ![job.path].blocks = @ \o job.new]
    /\ job' = [job EXCEPT !.at = "write", !.place = job.offset \div BlockSize + 1, !.left = job.size]
    /\ UNCHANGED <<bitmap, bitmapFile, blocks, answer>>

\* A block after n bytes b were written from o on; what is skipped is filled with zeros.
Overwritten(bytes, o, n, b) ==
    [i \in 1 .. Max({Len(bytes), o + n}) |->
        IF i \in o + 1 .. o + n THEN b ELSE IF i <= Len(bytes) THEN bytes[i] ELSE Nul]

\* Blocks that a save or a read goes through: up to that of the byte after the last one.
LastReached == Min({(job.offset + job.size) \div BlockSize + 1, Len(records[job.path].blocks)})

WriteBlock ==
    /\ At("write") /\ FirstLength >= 0
    /\ LET first == job.place = job.offset \div BlockSize + 1
           place == IF first THEN FirstPlace ELSE 0
           length == IF first THEN FirstLength ELSE Min({job.left, BlockSize})
           block == records[job.path].blocks[job.place]
       IN  /\ blocks' = [blocks EXCEPT ![block] = Overwritten(@, place, length, job.byte)]
           /\ job' = [job EXCEPT !.at = IF job.place < LastReached THEN "write" ELSE "size",
                                 !.place = @ + 1, !.left = @ - length]
    /\ UNCHANGED <<bitmap, bitmapFile, records, answer>>

UpdateFileSize ==
    /\ At("size")
    /\ records' = [records EXCEPT ![job.path].size = Max({@, job.offset + job.size})]
    /\ Done(TRUE)
    /\ UNCHANGED <<bitmap, bitmapFile, blocks>>

\* free_blocks
ClearBits ==
    /\ At("clear")
    /\ bitmap' = bitmap \ ToSet(records[job.path].blocks)
    /\ Go("free")
    /\ UNCHANGED <<disk, answer>>

PersistFreed ==
    /\ At("free") /\ UpdateBitmapFile
    /\ Go("remove")
    /\ UNCHANGED <<bitmap, records, blocks, answer>>

RemoveRecord ==
    /\ At("remove")
    /\ records' = [records EXCEPT ![job.path] = NoFile]
    /\ Done(TRUE)
    /\ UNCHANGED <<bitmap, bitmapFile, blocks>>
-----------------------------------------------------------------------------
(* get_data *)

\* A block is read as a string.
Text(bytes) ==
    SubSeq(bytes, 1, Min({i \in DOMAIN bytes : bytes[i] = Nul} \cup {Len(bytes) + 1}) - 1)

GetData(p, o, n) ==
    /\ At("idle") /\ Exists(p)
    /\ IF records[p].size < o + n
       THEN DoneReading(<<>>)
       ELSE /\ job' = [Idle EXCEPT !.op = "get", !.at = "read", !.path = p, !.offset = o, !.size = n,
                                   !.place = o \div BlockSize + 1, !.left = n]
            /\ UNCHANGED answer
    /\ UNCHANGED <<bitmap, disk>>

\* Whole blocks from that of the offset on, until there are as many bytes as asked for.
ReadBlock ==
    /\ At("read") /\ job.place <= LastReached
    /\ LET text == Text(blocks[records[job.path].blocks[job.place]])
           length == Min({job.left, Len(text)})
       IN  job' = [job EXCEPT !.place = @ + 1, !.left = @ - length, !.data = @ \o SubSeq(text, 1, length)]
    /\ UNCHANGED <<bitmap, disk, answer>>

DataRead ==
    /\ At("read") /\ job.place > LastReached
    /\ DoneReading(job.data)
    /\ UNCHANGED <<bitmap, disk>>
-----------------------------------------------------------------------------
\* The process ends and another starts, which reads the bitmap from its file. What it
\* takes for the bits after the end of the file is whatever the memory holds.
Restart ==
    /\ job.op \in CrashIn \cup {"none", "get"}
    /\ \E rest \in SUBSET {b \in Block : b >= bitmapFile.length * ByteBits} :
            bitmap' = bitmapFile.bits \cup rest
    /\ job' = Idle
    /\ UNCHANGED <<disk, answer>>

Init ==
    /\ bitmap = {} /\ bitmapFile = AsFile({})
    /\ records = [p \in Path |-> NoFile] /\ blocks = [b \in Block |-> <<>>]
    /\ job = Idle /\ answer = [ok |-> TRUE, data |-> <<>>]

Serve ==
    \/ NoBlock \/ SetBit \/ OpenBlock \/ OpenFails \/ PersistBlock \/ WriteRecord \/ Grow
    \/ WriteBlock \/ UpdateFileSize \/ ClearBits \/ PersistFreed \/ RemoveRecord \/ ReadBlock \/ DataRead

Next ==
    \/ Serve \/ Restart
    \/ \E p \in Path :
        \/ ValidateFile(p) \/ CreateFile(p) \/ DeleteFile(p)
        \/ \E o \in Offset, n \in Size :
            GetData(p, o, n) \/ \E b \in Byte : SaveData(p, o, n, b)

Spec == Init /\ [][Next]_vars
-----------------------------------------------------------------------------
Jobs == [op : {"none", "create", "save", "delete", "get"},
         at : {"idle", "block", "open", "persist", "record", "grow", "write", "size", "clear", "free",
               "remove", "read"},
         path : Path \cup {NoFile}, offset : Nat, size : Nat, byte : Byte \cup {Nul},
         new : Seq(Block), block : Block, place : Nat, left : Nat, data : Seq(Byte \cup {Nul})]

TypeOK ==
    /\ bitmap \subseteq Block
    /\ bitmapFile \in [length : 0 .. Bytes, bits : SUBSET Block]
    /\ records \in [Path -> {NoFile} \cup FileRecord]
    /\ blocks \in [Block -> Seq(Byte \cup {Nul})]
    /\ job \in Jobs
    /\ answer \in [ok : BOOLEAN, data : Seq(Byte \cup {Nul})]

BlocksOf(p) == IF Exists(p) THEN records[p].blocks ELSE <<>>

\* create_block marks a block in memory and on the disk before it is in a record, and
\* delete_file frees it before the record goes: whatever request the process ended in,
\* no block is in two files, or twice in one.
BlocksAreNotShared ==
    \A p, q \in Path : \A i \in DOMAIN BlocksOf(p), j \in DOMAIN BlocksOf(q) :
        BlocksOf(p)[i] = BlocksOf(q)[j] => p = q /\ i = j

\* The bitmap in memory and the one on the disk are two copies: both know every block
\* of every file, so that nobody is given it, neither now nor after a restart.
BlocksAreMarked ==
    \A p \in Path : (job.op = "delete" => job.path # p) =>
        ToSet(BlocksOf(p)) \subseteq bitmap \cap bitmapFile.bits

-----------------------------------------------------------------------------
(* The refinement of FileStore. *)

\* What is in a file at a place, counting from 0: Nul where nobody wrote.
BlockAt(list, i) == blocks[list[i \div BlockSize + 1]]
ByteAt(list, i) ==
    IF (i % BlockSize) + 1 \in DOMAIN BlockAt(list, i) THEN BlockAt(list, i)[(i % BlockSize) + 1] ELSE Nul

WrittenIn(list) == {i \in 0 .. Len(list) * BlockSize - 1 : ByteAt(list, i) # Nul}

Stored == [p \in {q \in Path : Exists(q)} |->
              [size |-> records[p].size,
               bytes |-> [i \in WrittenIn(records[p].blocks) |-> ByteAt(records[p].blocks, i)]]]

Store == INSTANCE FileStore WITH files <- Stored

\* The process serves its requests as a store of files of bytes would, one at a time and
\* each on its own file, although it writes a file in several steps of several files of
\* the disk and may end in between.
FilesAreAStore == Store!Spec
=============================================================================
