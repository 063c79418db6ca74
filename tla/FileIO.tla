------------------------------- MODULE FileIO -------------------------------
(***************************************************************************)
(* What files hold: do_fread, do_fwrite and do_lseek of kernel/fs/fs.c,    *)
(* with the blocks that do_touch, do_fwrite and do_rm take and give back.  *)
(*                                                                         *)
(* The first DPTR blocks of a file are named in its inode; the inode also  *)
(* names index blocks (lev1_ptr), each with LEV more blocks.  Transfers go *)
(* sector by sector; one that begins inside a sector has a head that fs.c  *)
(* treats apart.  A call is one step: the kernel is locked meanwhile.      *)
(* Directories, links and power failures are the business of FileSystem.   *)
(* Calls on a descriptor that is not open are left out: fs.c does not      *)
(* refuse them, and they reach inode 0, the root directory.                *)
(***************************************************************************)
EXTENDS Integers, Sequences, FiniteSets, SequencesExt

CONSTANTS
    File,      \* files, by their inode
    Fd,        \* descriptors
    SS, SPB,   \* bytes of a sector, sectors of a block
    DPTR, LEV, \* blocks an inode names, blocks an index block names
    NumBlock,  \* blocks of the card
    Sizes,     \* bytes a call asks for
    Offsets,   \* offsets programs seek
    MaxWrites, \* bound on the calls of do_fwrite
    MaxRead,   \* bound on the offset do_fread leaves
    Misuse,    \* calls that fs.c does not check, of those in Careless
    NoFile, Unwritten

Careless == {"tooLong", "rmShrunk", "rmSparse", "rmOpen", "full"}
BS == SS * SPB
Direct == DPTR * SPB               \* sectors of the direct blocks,
Level == LEV * SPB                 \* of the blocks of one index
DirectEnd == Direct * SS
LevelSize == Level * SS
Reach == Direct + 2 * Level        \* of the blocks a file can have
Capacity == Reach * SS
Offset == 0 .. (Capacity - 1)
Block == 1 .. NumBlock

ASSUME FileIOOK ==
    /\ \A n \in {SS, SPB, DPTR, LEV, NumBlock} : n \in Nat \ {0}
    /\ Sizes \subseteq Nat \ {0} /\ Offsets \subseteq Nat /\ MaxWrites \in Nat /\ MaxRead \in 0 .. (Capacity - 1)
    /\ Misuse \subseteq Careless /\ NoFile \notin File

(* What the card holds; the k-th byte of the w-th write is <<w, k>>.       *)
Pointer == 0 .. NumBlock
Byte == {"old"} \cup Nat \X Nat
Node == [direct : [0 .. (DPTR - 1) -> Pointer], lev1 : [0 .. 2 -> Pointer], usize : Nat]
ASSUME NoFileOK == NoFile \notin Node /\ NoFile \notin [Offset -> Byte \cup {Unwritten}]

VARIABLES
    disk,      \* the inodes, the bitmap, and the blocks, as data and as index
    file_d,    \* the open file of a descriptor, with its two offsets
    written,   \* history: the offsets of a file programs wrote
    writes     \* history: the number of writes

vars == <<disk, file_d, written, writes>>

Closed == [ino |-> NoFile, r_ptr |-> 0, w_ptr |-> 0]
inode(f) == disk.inode[f]
Exists(f) == inode(f) # NoFile
NoEntries == [e \in 0 .. (LEV - 1) |-> 0]

Least(S) == CHOOSE x \in S : \A y \in S : x <= y
Smaller(m, n) == IF m <= n THEN m ELSE n

(* First fit; 0 when the card is full.                                     *)
alloc_data_block(d) == IF Block \subseteq d.bmap THEN 0 ELSE Least(Block \ d.bmap)
Allocated(d) == [d EXCEPT !.bmap = @ \cup ({alloc_data_block(d)} \ {0})]

(***************************************************************************)
(* Where a sector of a file lies                                           *)
(***************************************************************************)
LevelOf(sec) == (sec - Direct) \div Level
EntryOf(sec) == ((sec - Direct) % Level) \div SPB

BlockOf(d, f, sec) ==
    IF sec < Direct THEN d.inode[f].direct[sec \div SPB]
    ELSE d.index[d.inode[f].lev1[LevelOf(sec)]][EntryOf(sec)]

(* do_fwrite allocates what is missing on the way to a sector.             *)
WithDirect(d, f, j) ==
    IF d.inode[f].direct[j] # 0 THEN d
    ELSE [Allocated(d) EXCEPT !.inode[f].direct[j] = alloc_data_block(d)]
IndexKept(d, f, l) ==
    IF d.inode[f].lev1[l] # 0 THEN d
    ELSE [Allocated(d) EXCEPT !.inode[f].lev1[l] = alloc_data_block(d)]
WithLevel(d, f, l) ==
    IF d.inode[f].lev1[l] # 0 THEN d
    ELSE [Allocated(d) EXCEPT !.inode[f].lev1[l] = alloc_data_block(d),
                              !.index[alloc_data_block(d)] = NoEntries]
WithEntry(d, f, l, e) ==
    LET b == d.inode[f].lev1[l]
    IN IF d.index[b][e] # 0 THEN d
       ELSE [Allocated(d) EXCEPT !.index[b][e] = alloc_data_block(d)]
WithSector(d, f, sec) ==
    IF sec < Direct THEN WithDirect(d, f, sec \div SPB)
    ELSE WithEntry(WithLevel(d, f, LevelOf(sec)), f, LevelOf(sec), EntryOf(sec))

(* The pieces of a transfer of n bytes at an offset: the rest of a sector  *)
(* that it begins in, and whole sectors, the last one in part, as far as   *)
(* the index blocks reach.                                                 *)
FirstPart(at, n) == IF at % SS = 0 THEN 0 ELSE Smaller(n, SS - (at % SS))
Sectors(at, n) ==
    LET h == FirstPart(at, n)
        first == (at + SS - 1) \div SS
    IN [i \in 1 .. Smaller((n - h + SS - 1) \div SS, Reach - first) |->
           [sec |-> first + i - 1, off |-> 0,
            from |-> h + (i - 1) * SS, len |-> Smaller(SS, n - h - (i - 1) * SS)]]
Pieces(at, n) ==
    (IF FirstPart(at, n) = 0 THEN <<>>
     ELSE <<[sec |-> at \div SS, off |-> at % SS, from |-> 0, len |-> FirstPart(at, n)]>>)
    \o Sectors(at, n)

Place(p, k) == (p.sec % SPB) * SS + p.off + k - 1
Stored(d, f, p, bytes) ==
    LET b == BlockOf(d, f, p.sec)
    IN [d EXCEPT !.data[b] = [x \in DOMAIN @ |->
           IF \E k \in 1 .. p.len : x = Place(p, k)
           THEN bytes[p.from + (CHOOSE k \in 1 .. p.len : x = Place(p, k))] ELSE @[x]]]
PutPiece(d, f, p, bytes) == Stored(WithSector(d, f, p.sec), f, p, bytes)
PutAll(d, f, ps, bytes) == FoldLeft(LAMBDA e, p : PutPiece(e, f, p, bytes), d, ps)

(***************************************************************************)
(* The calls                                                               *)
(***************************************************************************)
do_fwrite(fd, n) ==
    LET f == file_d[fd].ino
        at == file_d[fd].w_ptr
        bytes == [k \in 1 .. n |-> <<writes + 1, k>>]
        after == PutAll(disk, f, Pieces(at, n), bytes)
    IN /\ f # NoFile /\ writes < MaxWrites
       /\ at + n < Capacity \/ "tooLong" \in Misuse
       /\ \/ \A i \in DOMAIN Pieces(at, n) : BlockOf(after, f, Pieces(at, n)[i].sec) # 0
          \/ "full" \in Misuse
       /\ disk' = [after EXCEPT !.inode[f].usize = at + n]
       /\ file_d' = [file_d EXCEPT ![fd].w_ptr = at + n]
       /\ written' = [written EXCEPT ![f] = @ \cup at .. (at + n - 1)]
       /\ writes' = writes + 1

(* What do_fread copies into the buffer of its caller: as many bytes as    *)
(* there are sectors, whatever usize says; of a sector without a block,    *)
(* those of block 0.  Under an index block, the sector that it begins in   *)
(* is copied to its end even when fewer bytes were asked for.              *)
Copied(at, n) ==
    IF at >= DirectEnd /\ at % SS # 0 /\ n < SS - (at % SS) THEN SS - (at % SS) ELSE n
Parts(f, at, n) ==
    LET ps == Pieces(at, Copied(at, n))
    IN [i \in DOMAIN ps |->
           [k \in 1 .. ps[i].len |-> disk.data[BlockOf(disk, f, ps[i].sec)][Place(ps[i], k)]]]
ReadOver(f, at, n) ==
    FlattenSeq(IF Len(Parts(f, at, n)) > 1 /\ at % SS # 0 THEN Tail(Parts(f, at, n)) ELSE Parts(f, at, n))
Read(f, at, n) == FlattenSeq(Parts(f, at, n))

do_fread(fd, n) ==
    /\ file_d[fd].ino # NoFile
    /\ file_d[fd].r_ptr + n <= MaxRead
    /\ file_d' = [file_d EXCEPT ![fd].r_ptr = @ + n]
    /\ UNCHANGED <<disk, written, writes>>

(* From the beginning, from where each offset is, or from usize.           *)
do_lseek(fd, offset) ==
    /\ file_d[fd].ino # NoFile
    /\ \E from \in {<<0, 0>>, <<file_d[fd].r_ptr, file_d[fd].w_ptr>>,
                    <<inode(file_d[fd].ino).usize, inode(file_d[fd].ino).usize>>} :
        /\ from[1] + offset \in Offset /\ from[2] + offset \in Offset
        /\ file_d' = [file_d EXCEPT ![fd].r_ptr = from[1] + offset, ![fd].w_ptr = from[2] + offset]
    /\ UNCHANGED <<disk, written, writes>>

do_fopen(fd, f) ==
    /\ file_d[fd].ino = NoFile /\ Exists(f)
    /\ file_d' = [file_d EXCEPT ![fd] = [Closed EXCEPT !.ino = f]]
    /\ UNCHANGED <<disk, written, writes>>

do_fclose(fd) ==
    /\ file_d[fd].ino # NoFile
    /\ file_d' = [file_d EXCEPT ![fd] = Closed]
    /\ UNCHANGED <<disk, written, writes>>

do_touch(f) ==
    /\ ~Exists(f)
    /\ alloc_data_block(disk) # 0 \/ "full" \in Misuse
    /\ disk' = [Allocated(disk) EXCEPT !.inode[f] =
           [direct |-> [j \in 0 .. (DPTR - 1) |-> IF j = 0 THEN alloc_data_block(disk) ELSE 0],
            lev1 |-> [l \in 0 .. 2 |-> 0], usize |-> 0]]
    /\ UNCHANGED <<file_d, written, writes>>

(* The blocks do_rm gives back; usize says which index blocks it looks at. *)
FunRange(g) == {g[x] : x \in DOMAIN g}
Under(b) == FunRange(disk.index[b]) \cup {b}
FreedFirst(f) ==
    FunRange(inode(f).direct)
    \cup (IF inode(f).usize > DirectEnd THEN Under(inode(f).lev1[0]) ELSE {})
FreedBlocks(f) ==
    FunRange(inode(f).direct)
    \cup (IF inode(f).usize > DirectEnd THEN Under(inode(f).lev1[0]) ELSE {})
    \cup (IF inode(f).usize > DirectEnd + LevelSize /\ inode(f).usize < Capacity
          THEN Under(inode(f).lev1[1]) ELSE {})

(* usize is what the last write left: the end of the file, unless it went  *)
(* back.                                                                   *)
SizeIsEnd(f) == \A o \in written[f] : o < inode(f).usize

do_rm(f) ==
    /\ Exists(f)
    /\ (\E fd \in Fd : file_d[fd].ino = f) => "rmOpen" \in Misuse
    /\ ~SizeIsEnd(f) => "rmShrunk" \in Misuse
    /\ inode(f).usize > DirectEnd /\ inode(f).lev1[0] = 0 => "rmSparse" \in Misuse
    /\ disk' = [disk EXCEPT !.bmap = @ \ FreedBlocks(f), !.inode[f] = NoFile]
    /\ written' = [written EXCEPT ![f] = {}]
    /\ UNCHANGED <<file_d, writes>>

Init ==
    /\ disk = [inode |-> [f \in File |-> NoFile], bmap |-> {},
               data |-> [b \in 0 .. NumBlock |-> [x \in 0 .. (BS - 1) |-> "old"]],
               index |-> [b \in 0 .. NumBlock |-> NoEntries]]
    /\ file_d = [fd \in Fd |-> Closed]
    /\ written = [f \in File |-> {}]
    /\ writes = 0

Next ==
    \/ \E f \in File : do_touch(f) \/ do_rm(f) \/ \E fd \in Fd : do_fopen(fd, f)
    \/ \E fd \in Fd :
        \/ do_fclose(fd)
        \/ \E n \in Sizes : do_fwrite(fd, n) \/ do_fread(fd, n)
        \/ \E o \in Offsets : do_lseek(fd, o)

Spec == Init /\ [][Next]_vars

(***************************************************************************)
(* Properties                                                              *)
(***************************************************************************)
Files == {f \in File : Exists(f)}
DirectOf(f) == FunRange(inode(f).direct) \ {0}
LevelsOf(f) == FunRange(inode(f).lev1) \ {0}
UnderOf(f) == (UNION {FunRange(disk.index[b]) : b \in LevelsOf(f)}) \ {0}
BlocksOf(f) == DirectOf(f) \cup LevelsOf(f) \cup UnderOf(f)

(* The blocks of the files implement flat files: a write changes the bytes *)
(* it names in the file it names and nothing else, whichever blocks it     *)
(* allocates and whatever was in them.                                     *)
ByteAt(f, o) == disk.data[BlockOf(disk, f, o \div SS)][o % BS]
Content == [f \in File |->
    IF ~Exists(f) THEN NoFile
    ELSE [o \in Offset |-> IF o \in written[f] THEN ByteAt(f, o) ELSE Unwritten]]
Flat == INSTANCE FlatFile WITH content <- Content
IsFlatFile == Flat!Spec

(* A read from any offset copies what is there, up to the end of the       *)
(* blocks a file can have, across sectors, blocks and index blocks.  What  *)
(* it copies beyond the length asked for ends with the sector it began in. *)
ReadsBack ==
    \A f \in Files, at \in Offset, n \in Sizes :
        LET r == Read(f, at, n)
        IN /\ Smaller(n, Capacity - at) <= Len(r)
           /\ n < Len(r) => Len(r) <= SS - (at % SS)
           /\ \A k \in 1 .. Len(r) : at + k - 1 \in written[f] => r[k] = ByteAt(f, at + k - 1)

(* The bitmap marks the blocks of the files and no other: what do_rm finds *)
(* from usize is all that the writes allocated.                            *)
NothingLeaked == disk.bmap = UNION {BlocksOf(f) : f \in Files}

(* What a program of the repository relies on, and the code does not do:   *)
(* test_lfs.c:27 reads 13 bytes at a time, beyond the first MB and inside  *)
(* a sector, into its 64 bytes of line 8.  do_fread copies no more bytes   *)
(* than its caller asked for.                                              *)
ReadInBuffer ==
    \A fd \in Fd, n \in Sizes : file_d[fd].ino # NoFile =>
        Len(Read(file_d[fd].ino, file_d[fd].r_ptr, n)) <= n
=============================================================================
