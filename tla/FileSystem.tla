----------------------------- MODULE FileSystem -----------------------------
(***************************************************************************)
(* The directories, links, bitmaps and descriptors of kernel/fs/fs.c.      *)
(*                                                                         *)
(* The card holds a superblock, a bitmap of inodes, a bitmap of blocks,    *)
(* the inodes and the blocks; a call reads what it needs and writes what   *)
(* it changes, sector by sector.  A call is one step here (the kernel is   *)
(* locked meanwhile), unless the power fails: then only the first writes   *)
(* of the call are on the card, and the system starts again.               *)
(*                                                                         *)
(* Of an inode the mode, nlinks, the first block, and for directories the  *)
(* number of entries (usize / 32) are kept; what files hold is the         *)
(* business of FileIO.  An inode in memory equals the one on the card,     *)
(* which every lookup reads again.  Blocks are numbered from the first     *)
(* that do_mkfs leaves free; 0 is where the superblock and bitmaps are.    *)
(***************************************************************************)
EXTENDS Integers, Sequences, FiniteSets, SequencesExt

CONSTANTS
    Name,      \* names programs give
    NumIno,    \* inodes of the card
    NumBlock,  \* blocks of the card, without the reserved ones
    PerBlock,  \* entries in a block
    MAXFD,     \* entries of file_d
    Misuse,    \* calls that fs.c does not check, of those in Careless
    CrashIn    \* calls in which the power may fail

Ino == 0 .. (NumIno - 1)
Block == 1 .. NumBlock
Root == 0
Careless == {"missingPath", "rmdirFull", "rmdirFile", "rmDir", "lnTaken", "lnDir", "rmOpen",
             "openDir", "mkfsOpen"}

ASSUME FileSystemOK ==
    /\ NumIno \in Nat \ {0} /\ NumBlock \in Nat \ {0} /\ MAXFD \in Nat \ {0}
    /\ PerBlock \in Nat /\ PerBlock >= 2
    /\ Misuse \subseteq Careless
    /\ CrashIn \subseteq {"mkfs", "mkdir", "rmdir", "touch", "ln", "rm"}
    /\ Name \cap {".", ".."} = {}

VARIABLES
    disk,      \* what is on the card
    current,   \* the inode current_inode points to
    file_d,    \* the inodes of the open descriptors, Root where none is
    crashed    \* history: the power has failed

vars == <<disk, current, file_d, crashed>>

Dentry(mode, ino, name) == [mode |-> mode, ino |-> ino, name |-> name]
Inode(mode, nlinks, n, block) == [mode |-> mode, nlinks |-> nlinks, n |-> n, block |-> block]
inode(i) == disk.inode[i]

(***************************************************************************)
(* Writes to the card.  A block written over 0 destroys the superblock.    *)
(***************************************************************************)
Write(d, w) ==
    CASE w.to = "super" -> [d EXCEPT !.magic = TRUE, !.imap = {Root}, !.bmap = {}]
      [] w.to = "imap" -> [d EXCEPT !.imap = IF w.is THEN @ \cup {w.at} ELSE @ \ {w.at}]
      [] w.to = "bmap" -> [d EXCEPT !.bmap = IF w.is THEN @ \cup {w.at} ELSE @ \ {w.at}]
      [] w.to = "inode" -> [d EXCEPT !.inode[w.at] = w.is]
      [] w.to = "data" /\ w.at # 0 -> [d EXCEPT !.data[w.at] = w.is]
      [] w.to = "data" /\ w.at = 0 -> [d EXCEPT !.magic = FALSE]
W(to, at, is) == [to |-> to, at |-> at, is |-> is]
WrittenOver(d, ws) == FoldLeft(Write, d, ws)
Written(ws) == WrittenOver(disk, ws)

(* What do_mkfs writes: the superblock and both bitmaps at once, the bit of*)
(* the first block, the inode of the root, and its two entries.            *)
Mkfs == <<W("super", 0, TRUE), W("bmap", 1, TRUE), W("inode", Root, Inode("DIR", 0, 2, 1)),
          W("data", 1, <<Dentry("DIR", Root, "."), Dentry("DIR", Root, "..")>>)>>

(* The call ends; or the power fails after k writes, and main makes a file *)
(* system if it finds no superblock: the descriptors are gone and the root *)
(* is current.                                                             *)
Complete(ws) == disk' = Written(ws) /\ UNCHANGED <<current, file_d, crashed>>
PowerFails(call, ws) ==
    /\ call \in CrashIn
    /\ \E k \in 0 .. (Len(ws) - 1) :
        LET left == Written(SubSeq(ws, 1, k))
        IN disk' = IF left.magic THEN left ELSE WrittenOver(left, Mkfs)
    /\ current' = Root /\ file_d' = [fd \in 1 .. MAXFD |-> Root]
    /\ crashed' = TRUE
Do(call, ws) == Complete(ws) \/ PowerFails(call, ws)

(***************************************************************************)
(* First-fit allocation; 0 when there is no block.  When there is no inode *)
(* alloc_inode returns without a value: no step is given for that.         *)
(***************************************************************************)
Least(S) == CHOOSE x \in S : \A y \in S : x <= y
alloc_data_block == IF Block \subseteq disk.bmap THEN 0 ELSE Least(Block \ disk.bmap)
alloc_inode == Least(Ino \ disk.imap)

(***************************************************************************)
(* The entries of a directory, and the inode a name leads to.  What nobody *)
(* wrote has no name.  lookup tests no mode (its test of it, fs.c:102, is  *)
(* commented out): in a path that goes on after a file it reads usize      *)
(* bytes of the file as entries.  Files are empty here, as do_touch leaves *)
(* them (usize 0), and such a path fails; with what FileIO writes in them  *)
(* it could lead anywhere.                                                 *)
(***************************************************************************)
Buffer(b) == IF b = 0 THEN <<>> ELSE disk.data[b]
Entries(i) ==
    LET b == Buffer(inode(i).block)
    IN SubSeq(b, 1, IF inode(i).n <= Len(b) THEN inode(i).n ELSE Len(b))
Named(es, name) == {k \in DOMAIN es : es[k].name = name}
Found(i, name) == Named(Entries(i), name) # {}
lookup(i, name) == Entries(i)[Least(Named(Entries(i), name))].ino

(* find_dir walks from the current directory, or from the root, and leaves *)
(* current_inode where it got to, also when it fails.                      *)
Path == [absolute : BOOLEAN, names : Seq(Name \cup {".", ".."})]
find_dir(path) ==
    FoldLeft(LAMBDA w, name :
                 IF w.ok /\ Found(w.at, name) THEN [ok |-> TRUE, at |-> lookup(w.at, name)]
                 ELSE [w EXCEPT !.ok = FALSE],
             [ok |-> TRUE, at |-> IF path.absolute THEN Root ELSE current], path.names)

(* A program walks a path that leads nowhere only if it is careless.       *)
Mistaken(path) == ~find_dir(path).ok => find_dir(path).at = current \/ "missingPath" \in Misuse

WithEntry(i, e) == Append(Entries(i), e)
(* Variants: the entry itself is kept and the next one lost; nlinks of the *)
(* directory is not counted up.                                            *)
ShiftedLate(i, k) ==
    LET es == Entries(i) IN [j \in DOMAIN es |-> IF j > k /\ j < Len(es) THEN es[j + 1] ELSE es[j]]
GrownUncounted(i) == [inode(i) EXCEPT !.n = @ + 1]

(* The entries after k move up; the last one stays where it was, as well.  *)
Shifted(i, k) ==
    LET es == Entries(i) IN [j \in DOMAIN es |-> IF j >= k /\ j < Len(es) THEN es[j + 1] ELSE es[j]]
Grown(i) == [inode(i) EXCEPT !.nlinks = @ + 1, !.n = @ + 1]
Shrunk(i) == [inode(i) EXCEPT !.nlinks = (@ - 1) % 65536, !.n = @ - 1]

(***************************************************************************)
(* The calls                                                               *)
(***************************************************************************)
Create(name, mode, nlinks, n, own) ==
    LET i == alloc_inode
        b == alloc_data_block
    IN <<W("imap", i, TRUE)>> \o (IF b = 0 THEN <<>> ELSE <<W("bmap", b, TRUE)>>)
       \o <<W("inode", i, Inode(mode, nlinks, n, b))>> \o own
       \o <<W("data", inode(current).block, WithEntry(current, Dentry(mode, i, name))),
            W("inode", current, Grown(current))>>

init_dentry(b, i, father) == <<W("data", b, <<Dentry("DIR", i, "."), Dentry("DIR", father, "..")>>)>>

(* An entry that the block has no place for gets lost behind the buffer:   *)
(* no step is given for that either.                                       *)
HasPlace(i) == Len(Entries(i)) < PerBlock

CanCreate(name) ==
    /\ disk.magic /\ ~Found(current, name)
    /\ Ino \ disk.imap # {} /\ HasPlace(current)

do_mkdir(name) ==
    /\ CanCreate(name)
    /\ Do("mkdir", Create(name, "DIR", 0, 2, init_dentry(alloc_data_block, alloc_inode, current)))

do_touch(name) ==
    /\ CanCreate(name)
    /\ Do("touch", Create(name, "FILE", 1, 0, <<>>))

(* "delete all files": the names come from the block of the directory, and *)
(* after the first lookup, which uses the same buffer, from the father's.  *)
(* What is deleted is what the father has under these names.               *)
DeletedFiles(father, dir, after) ==
    LET kept == SubSeq(after, 1, inode(father).n)
        Step(st, k) ==
            IF k <= Len(st.buffer) /\ st.buffer[k].mode = "FILE"
            THEN LET hits == Named(kept, st.buffer[k].name)
                     file == kept[Least(hits)].ino
                 IN [buffer |-> after,
                     ws |-> IF hits = {} THEN st.ws
                            ELSE st.ws \o <<W("bmap", inode(file).block, FALSE), W("imap", file, FALSE)>>]
            ELSE st
    IN FoldLeft(Step, [buffer |-> Buffer(inode(dir).block), ws |-> <<>>],
                [k \in 1 .. inode(dir).n |-> k]).ws

do_rmdir(name) ==
    /\ disk.magic /\ Found(current, name)
    /\ LET dir == lookup(current, name)
           after == Shifted(current, Least({k \in DOMAIN Entries(current) : Entries(current)[k].ino = dir}))
       IN /\ inode(dir).mode = "FILE" \/ name \in {".", ".."} => "rmdirFile" \in Misuse
          /\ inode(dir).mode = "DIR" /\ inode(dir).n > 2 => "rmdirFull" \in Misuse
          /\ Do("rmdir", <<W("bmap", inode(dir).block, FALSE), W("imap", dir, FALSE),
                           W("data", inode(current).block, after)>>
                         \o DeletedFiles(current, dir, after)
                         \o <<W("inode", current, Shrunk(current))>>)

(* Variant: the mode is not tested. *)
CdAnywhere(path) ==
    /\ disk.magic
    /\ current' = IF find_dir(path).ok THEN find_dir(path).at ELSE current
    /\ UNCHANGED <<disk, file_d, crashed>>
do_cd(path) ==
    /\ disk.magic
    /\ current' = IF find_dir(path).ok /\ inode(find_dir(path).at).mode = "DIR"
                  THEN find_dir(path).at ELSE current
    /\ UNCHANGED <<disk, file_d, crashed>>

(* What do_fopen, do_cat and do_ln do when there is no such file.          *)
NoSuchFile(path) ==
    /\ disk.magic /\ ~find_dir(path).ok /\ Mistaken(path)
    /\ current' = find_dir(path).at
    /\ UNCHANGED <<disk, file_d, crashed>>

(* The first slot without an inode; the table is taken to have one.        *)
FreeSlots == {fd \in 1 .. MAXFD : file_d[fd] = Root}
do_fopen(path) ==
    /\ disk.magic /\ find_dir(path).ok
    /\ inode(find_dir(path).at).mode = "DIR" => "openDir" \in Misuse
    /\ FreeSlots # {}
    /\ file_d' = [file_d EXCEPT ![Least(FreeSlots)] = find_dir(path).at]
    /\ UNCHANGED <<disk, current, crashed>>

do_fclose(fd) ==
    /\ file_d[fd] # Root
    /\ file_d' = [file_d EXCEPT ![fd] = Root]
    /\ UNCHANGED <<disk, current, crashed>>

do_ln(path, name) ==
    /\ disk.magic /\ find_dir(path).ok
    /\ LET file == find_dir(path).at
       IN /\ inode(file).mode = "DIR" => "lnDir" \in Misuse
          /\ Found(current, name) => "lnTaken" \in Misuse
          /\ HasPlace(current)
          /\ Do("ln", <<W("data", inode(current).block,
                          WithEntry(current, Dentry("FILE", file, name))),
                        W("inode", current, Grown(current)),
                        W("inode", file, [(IF file = current THEN Grown(file) ELSE inode(file))
                                             EXCEPT !.nlinks = @ + 1])>>)

(* The last name of a file frees it; variants: any name does; the bit of   *)
(* the inode stays.                                                        *)
FreedEarly(file, kept, left) ==
    <<W("imap", file, FALSE), W("bmap", inode(file).block, FALSE)>>
InodeLeaked(file, kept, left) ==
    IF left = 0 THEN <<W("bmap", inode(file).block, FALSE)>>
    ELSE <<W("inode", file, [kept EXCEPT !.nlinks = left])>>
Unlinked(file, kept, left) ==
    IF left = 0 THEN <<W("imap", file, FALSE), W("bmap", inode(file).block, FALSE)>>
    ELSE <<W("inode", file, [kept EXCEPT !.nlinks = left])>>

do_rm(name) ==
    /\ disk.magic /\ Found(current, name)
    /\ LET file == lookup(current, name)
           kept == IF file = current THEN Shrunk(file) ELSE inode(file)
           left == (kept.nlinks - 1) % 65536
       IN /\ inode(file).mode = "DIR" => "rmDir" \in Misuse
          /\ (\E fd \in 1 .. MAXFD : file_d[fd] = file) /\ left = 0 => "rmOpen" \in Misuse
          /\ Do("rm", <<W("data", inode(current).block,
                          Shifted(current, Least(Named(Entries(current), name)))),
                        W("inode", current, Shrunk(current))>>
                      \o Unlinked(file, kept, left))

do_mkfs ==
    /\ (\E fd \in 1 .. MAXFD : file_d[fd] # Root) => "mkfsOpen" \in Misuse
    /\ \/ disk' = Written(Mkfs) /\ current' = Root /\ UNCHANGED <<file_d, crashed>>
       \/ PowerFails("mkfs", Mkfs)

(* A blank card, and the first boot.                                       *)
Blank == [magic |-> FALSE, imap |-> {}, bmap |-> {},
          inode |-> [i \in Ino |-> Inode("FILE", 0, 0, 0)], data |-> [b \in Block |-> <<>>]]

Init ==
    /\ disk = WrittenOver(Blank, Mkfs)
    /\ current = Root
    /\ file_d = [fd \in 1 .. MAXFD |-> Root]
    /\ crashed = FALSE

(* The paths programs give: a name, or a name below another.               *)
CONSTANT Paths
ASSUME PathsOK == Paths \subseteq Path

Next ==
    \/ do_mkfs
    \/ \E name \in Name : do_mkdir(name) \/ do_touch(name)
    \/ \E name \in Name \cup {".", ".."} : do_rmdir(name) \/ do_rm(name)
    \/ \E path \in Paths : do_cd(path) \/ NoSuchFile(path) \/ do_fopen(path)
    \/ \E path \in Paths, name \in Name : do_ln(path, name)
    \/ \E fd \in 1 .. MAXFD : do_fclose(fd)

Spec == Init /\ [][Next]_vars

(***************************************************************************)
(* Properties                                                              *)
(***************************************************************************)

(* What can be reached from the root.                                      *)
IsDir(i) == inode(i).mode = "DIR"
Named1(i) == IF IsDir(i) THEN {e.ino : e \in Range(Entries(i))} ELSE {}
Reached == FoldLeft(LAMBDA S, k : S \cup UNION {Named1(i) : i \in S}, {Root}, [k \in Ino \ {0} |-> k])
Dirs == {i \in Reached : IsDir(i)}
Links == UNION {{d} \X (3 .. Len(Entries(d))) : d \in Dirs}
LinksTo(i) == {l \in Links : Entries(l[1])[l[2]].ino = i}

(* The tree hangs together, also after a power failure in mkdir or touch:  *)
(* names in a directory differ and lead to inodes in use, of the kind the  *)
(* entry says; a directory has one name, and its ".." is where that is.    *)
TreeSound ==
    \A d \in Dirs :
        /\ Len(Entries(d)) = inode(d).n
        /\ Entries(d)[1] = Dentry("DIR", d, ".") /\ Entries(d)[2].name = ".."
        /\ \A k \in 3 .. inode(d).n :
            LET e == Entries(d)[k]
            IN /\ e.ino \in disk.imap \ {Root} /\ e.mode = inode(e.ino).mode
               /\ Named(Entries(d), e.name) = {k}
               /\ e.mode = "DIR" => LinksTo(e.ino) = {<<d, k>>} /\ lookup(e.ino, "..") = d

(* nlinks of a file is the number of its names, of a directory that of the *)
(* entries in it, through links, removals and power failures.              *)
LinkCounts ==
    \A i \in Reached :
        inode(i).nlinks = IF IsDir(i) THEN inode(i).n - 2 ELSE Cardinality(LinksTo(i))

(* Two inodes in the tree have different blocks, which are marked as used. *)
BlocksApart ==
    \A i \in Reached :
        /\ inode(i).block \in disk.bmap
        /\ \A j \in Reached \ {i} : inode(i).block # inode(j).block

(* Without power failures nothing is marked as used that is not in the     *)
(* tree: what rm and rmdir take out can be allocated again.                *)
NothingLeaked ==
    ~crashed => disk.imap = Reached /\ disk.bmap = {inode(i).block : i \in Reached}

(* What the kernel keeps between calls stays in the tree, whatever is      *)
(* removed: current_inode is a directory of it ("We can only create a dir  *)
(* in a dir", fs.c:101), and an open descriptor leads to a file that still *)
(* has a name, whichever of its names are removed.                         *)
ReferencesValid ==
    /\ current \in Dirs
    /\ \A fd \in 1 .. MAXFD : file_d[fd] # Root => file_d[fd] \in Reached /\ ~IsDir(file_d[fd])
=============================================================================
