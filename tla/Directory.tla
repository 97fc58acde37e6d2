----------------------------- MODULE Directory -----------------------------
(***************************************************************************)
(* The part of a POSIX directory that the repository's file transactions   *)
(* rely on: a directory maps names to inodes, a rename or a link changes   *)
(* one or two entries atomically, and an inode's link count is the number  *)
(* of entries that lead to it.  The operating system is external to the    *)
(* repository; the scripts reach it through os.link, os.rename, os.unlink, *)
(* os.open(O_CREAT | O_EXCL) and os.stat on a directory descriptor.        *)
(*                                                                         *)
(* Names that a script draws at random (".<name>.<label>.<pid>.<hex>") and *)
(* that no running process remembers any more are not kept one by one: the *)
(* inodes they still lead to form the set of strays.                       *)
(***************************************************************************)
EXTENDS Naturals, FiniteSets

CONSTANTS Inodes,   \* the inode numbers of the file system
          NoFile    \* the value of a directory entry that does not exist

ASSUME DirectoryAssumption == Inodes # {} /\ NoFile \notin Inodes

Exists(d, n) == d[n] # NoFile

(* os.unlink: the name goes, the inode stays while another name leads to it *)
Unlink(d, n) == [d EXCEPT ![n] = NoFile]

(* os.rename: replaces whatever the new name led to *)
Rename(d, from, to) == [d EXCEPT ![to] = d[from], ![from] = NoFile]

(* os.link, for a new name that does not exist *)
Link(d, from, to) == [d EXCEPT ![to] = d[from]]

(* os.open with O_CREAT | O_EXCL: the name leads to a new inode *)
Create(d, n, i) == [d EXCEPT ![n] = i]

(* st_nlink of inode i *)
Nlink(d, strays, i) ==
    Cardinality({n \in DOMAIN d : d[n] = i}) + (IF i \in strays THEN 1 ELSE 0)

Linked(d, strays) == {d[n] : n \in DOMAIN d} \cup strays

(* The inode a creation gets: one that no entry and no open handle pins.     *)
(* TLC takes the first free number, so a number is reused as soon as the    *)
(* file system allows it.                                                   *)
FreeInodes(d, strays, pinned) == Inodes \ (Linked(d, strays) \cup pinned)

NewInode(d, strays, pinned) == CHOOSE i \in FreeInodes(d, strays, pinned) : TRUE
=============================================================================
