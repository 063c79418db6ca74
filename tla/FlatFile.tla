------------------------------ MODULE FlatFile ------------------------------
(***************************************************************************)
(* What the files of kernel/fs/fs.c promise to programs: a file is there   *)
(* or not, and each of its offsets has the byte that was last written to   *)
(* it, if any was.  The k-th byte of the w-th write is <<w, k>>.           *)
(***************************************************************************)
EXTENDS Naturals

CONSTANTS File, Offset, Sizes, NoFile, Unwritten

VARIABLES content, writes

Empty == [o \in Offset |-> Unwritten]

Init == content = [f \in File |-> NoFile] /\ writes = 0

Create(f) ==
    /\ UNCHANGED writes
    /\ content[f] = NoFile
    /\ content' = [content EXCEPT ![f] = Empty]

Remove(f) ==
    /\ UNCHANGED writes
    /\ content[f] # NoFile
    /\ content' = [content EXCEPT ![f] = NoFile]

Write(f, at, n) ==
    /\ writes' = writes + 1
    /\ content[f] # NoFile
    /\ content' = [content EXCEPT ![f] =
           [o \in Offset |-> IF o \in at .. (at + n - 1) THEN <<writes + 1, o - at + 1>> ELSE @[o]]]

Next == \E f \in File : Create(f) \/ Remove(f) \/ \E at \in Offset, n \in Sizes : Write(f, at, n)

Spec == Init /\ [][Next]_<<content, writes>>
=============================================================================
