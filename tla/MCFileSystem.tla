---------------------------- MODULE MCFileSystem ----------------------------
(* Paths of one and two names, from here and from the root, and the way up;*)
(* names are treated alike.                                                *)
EXTENDS FileSystem

AllPaths == {[absolute |-> FALSE, names |-> p] :
                p \in {<<x>> : x \in Name \cup {".."}} \cup {<<x, y>> : x, y \in Name}}
            \cup {[absolute |-> TRUE, names |-> p] : p \in {<<>>} \cup {<<x>> : x \in Name}}

(* What free inodes and blocks hold is overwritten before it is read.      *)
Shown == <<disk.magic, disk.imap, disk.bmap, [i \in Reached |-> inode(i)],
           [i \in Dirs |-> Entries(i)], current, file_d, crashed>>
Alike == Permutations(Name)
=============================================================================
