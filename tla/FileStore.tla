----------------------------- MODULE FileStore -----------------------------
(***************************************************************************)
(* What a file system promises to the kernel: files of bytes, each changed *)
(* only by the requests that name it, and one request at a time. A save    *)
(* that the process does not live to finish may have written some of its   *)
(* bytes.                                                                  *)
(***************************************************************************)
EXTENDS Integers, FiniteSets, Sequences

CONSTANTS
    Path,   \* the names of files
    Byte,   \* what a byte may be
    Offset, \* where saves and reads begin
    Size    \* how many bytes they are for

VARIABLES
    files,  \* for each file that is there, its bytes by their place, and its size
    answer  \* the answer to the last request

Range(o, n) == o .. o + n - 1
Yes == [ok |-> TRUE, data |-> <<>>]
No == [ok |-> FALSE, data |-> <<>>]
Larger(a, b) == IF a > b THEN a ELSE b
Empty == [size |-> 0, bytes |-> [i \in {} |-> 0]]

\* A file after the byte b was written at the places in where.
Written(f, where, b) ==
    [i \in DOMAIN f.bytes \cup where |-> IF i \in where THEN b ELSE f.bytes[i]]

Create(p) ==
    /\ answer' = Yes
    /\ files' = [q \in DOMAIN files \cup {p} |-> IF q = p THEN Empty ELSE files[q]]

Delete(p) ==
    /\ answer' = Yes
    /\ p \in DOMAIN files
    /\ files' = [q \in DOMAIN files \ {p} |-> files[q]]

Fail == answer' = No /\ UNCHANGED files
Validate(p) ==
    /\ answer' = IF p \in DOMAIN files THEN Yes ELSE No
    /\ UNCHANGED files

Save(p, o, n, b) ==
    /\ answer' = Yes
    /\ p \in DOMAIN files
    /\ files' = [files EXCEPT ![p] = [size |-> Larger(@.size, o + n),
                                      bytes |-> Written(@, Range(o, n), b)]]

Interrupt(p, o, n, b) ==
    /\ UNCHANGED answer
    /\ p \in DOMAIN files
    /\ \E where \in SUBSET Range(o, n) : files' = [files EXCEPT ![p].bytes = Written(files[p], where, b)]

\* Nothing beyond the end of the file, and nobody promises what is where nobody wrote.
Get(p, o, n) ==
    /\ p \in DOMAIN files /\ UNCHANGED files
    /\ IF files[p].size < o + n
       THEN answer' = No
       ELSE Range(o, n) \subseteq DOMAIN files[p].bytes =>
                answer' = [ok |-> TRUE, data |-> [i \in 1 .. n |-> files[p].bytes[o + i - 1]]]

Init == files = [p \in {} |-> Empty] /\ answer = Yes

Next ==
    \/ Fail
    \/ \E p \in Path, o \in Offset, n \in Size, b \in Byte : Interrupt(p, o, n, b) \/ Save(p, o, n, b)
    \/ \E p \in Path :
        \/ Create(p) \/ Delete(p) \/ Validate(p)
        \/ \E o \in Offset, n \in Size : Get(p, o, n)

Spec == Init /\ [][Next]_<<files, answer>>
=============================================================================
