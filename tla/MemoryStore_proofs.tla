------------------------- MODULE MemoryStore_proofs -------------------------
(***************************************************************************)
(* What holds of MemoryStore for every number of sessions, edits, errors    *)
(* and crashes: the newest archives are kept, no step but the editor's      *)
(* replaces one file by another under the memory file's name, no version is *)
(* lost, the file is a compare-and-swap register (CasRegister), and a write *)
(* that ends leaves it in place.                                            *)
(***************************************************************************)
EXTENDS MemoryStore, FiniteSetTheorems, WellFoundedInduction, TLAPS

-----------------------------------------------------------------------------
(* The archive *)

\* Archives are numbered in their order, the sessions' tokens are versions
Tokens == Versions \cup {Absent}
ArchiveOK == /\ archived \in Seq(Tokens) /\ kept \subseteq DOMAIN archived
             /\ token \in [Sessions -> Tokens]

ArchiveInv == ArchiveOK /\ NewestKept

LEMMA InitArchive == ASSUME Init PROVE ArchiveInv
<1>1. token \in [Sessions -> Tokens]
    BY DEF Init, Tokens
<1>2. archived = <<>> /\ kept = {}
    BY DEF Init
<1> QED BY <1>1, <1>2 DEF ArchiveInv, ArchiveOK, NewestKept

\* One more archive, kept
LEMMA ArchiveKeeps ==
    ASSUME ArchiveInv, NEW v \in Tokens, Archive(v), token' = token
    PROVE  ArchiveInv'
<1>1. /\ archived' = Append(archived, v) /\ archived' \in Seq(Tokens)
      /\ DOMAIN archived = 1 .. Len(archived) /\ Len(archived) \in Nat
      /\ Len(archived') = Len(archived) + 1 /\ DOMAIN archived' = 1 .. (Len(archived) + 1)
    BY DEF ArchiveInv, ArchiveOK, Archive
<1>2. kept' = kept \cup {Len(archived) + 1}
    BY DEF Archive
<1>3. ArchiveOK'
    BY <1>1, <1>2 DEF ArchiveInv, ArchiveOK
<1>4. ASSUME NEW a \in DOMAIN archived', a > Len(archived') - Keep PROVE a \in kept'
    <2>1. CASE a = Len(archived) + 1
        BY <1>2, <2>1
    <2>2. CASE a # Len(archived) + 1
        <3>1. a \in DOMAIN archived /\ a > Len(archived) - Keep
            BY <1>1, <1>4, <2>2, StoreAssumption
        <3> QED BY <1>2, <3>1 DEF ArchiveInv, NewestKept
    <2> QED BY <2>1, <2>2
<1> QED BY <1>3, <1>4 DEF ArchiveInv, NewestKept

\* An archive with Keep newer ones beside it is none of the newest Keep
LEMMA OldIsOld ==
    ASSUME ArchiveOK, NEW a \in kept, Cardinality({b \in kept : b > a}) >= Keep
    PROVE  ~(a > Len(archived) - Keep)
<1> DEFINE newer == {b \in kept : b > a}
           n == Len(archived)
<1>1. n \in Nat /\ kept \subseteq 1 .. n /\ a \in 1 .. n
    BY DEF ArchiveOK
<1>2. newer \subseteq (a + 1) .. n
    <2>1. ASSUME NEW b \in newer PROVE b \in (a + 1) .. n
        <3>1. b \in 1 .. n /\ b > a
            BY <1>1
        <3>2. b \in Int /\ a \in Int /\ n \in Int /\ a < b /\ b <= n
            BY <1>1, <3>1
        <3> QED BY <3>2
    <2> QED BY <2>1
<1>3. IsFiniteSet((a + 1) .. n) /\ Cardinality((a + 1) .. n) = n - a
    <2>1. a + 1 \in Int /\ n \in Int
        BY <1>1
    <2>2. /\ IsFiniteSet((a + 1) .. n)
          /\ Cardinality((a + 1) .. n) = IF a + 1 > n THEN 0 ELSE n - (a + 1) + 1
        BY <2>1, FS_Interval
    <2> QED BY <1>1, <2>2
<1>4. Cardinality(newer) <= n - a /\ Cardinality(newer) \in Nat
    BY <1>2, <1>3, FS_Subset, FS_CardinalityType
<1> QED BY <1>1, <1>4, StoreAssumption

LEMMA NextArchive == ASSUME ArchiveInv, [Next]_vars PROVE ArchiveInv'
<1>1. ASSUME UNCHANGED <<archived, kept, token>> PROVE ArchiveInv'
    BY <1>1 DEF ArchiveInv, ArchiveOK, NewestKept
<1> USE DEF archiveVars, At, Same, Changed, Refuse, Raise
<1>2. ASSUME NEW s \in Sessions, ReadMemory(s) PROVE ArchiveInv'
    BY <1>2 DEF ReadMemory, ArchiveInv, ArchiveOK, Tokens, NewestKept
<1>3. ASSUME NEW s \in Sessions, ArchivePrior(s) PROVE ArchiveInv'
    <2>1. token[s] \in Tokens
        BY DEF ArchiveInv, ArchiveOK
    <2> QED BY <1>3, <2>1, ArchiveKeeps DEF ArchivePrior
<1>4. ASSUME NEW s \in Sessions, Prune(s) PROVE ArchiveInv'
    <2> DEFINE old == {a \in kept : Cardinality({b \in kept : b > a}) >= Keep}
    <2>1. CASE UNCHANGED <<archived, kept>>
        BY <1>1, <1>4, <2>1 DEF Prune
    <2>2. CASE \E a \in old : kept' = kept \ {a} /\ archived' = archived
        <3>1. PICK a \in old : kept' = kept \ {a} /\ archived' = archived
            BY <2>2
        <3>2. ~(a > Len(archived) - Keep) /\ token' = token
            BY <1>4, OldIsOld DEF ArchiveInv, Prune
        <3> QED BY <3>1, <3>2 DEF ArchiveInv, ArchiveOK, NewestKept
    <2> QED BY <1>4, <2>1, <2>2 DEF Prune
<1>5. ASSUME NEW s \in Sessions, Crash(s) PROVE ArchiveInv'
    <2>1. token[s] \in Tokens /\ token' = token
        BY <1>5 DEF ArchiveInv, ArchiveOK, Crash
    <2> QED BY <1>1, <1>5, <2>1, ArchiveKeeps DEF Crash
<1>6. ASSUME NEW s \in Sessions, Fail(s) PROVE ArchiveInv'
    BY <1>1, <1>6 DEF Fail, FailBehind
<1>7. ASSUME NEW s \in Sessions,
             \/ Acquire(s) \/ ReadPrior(s) \/ RecoverLook(s) \/ Revive(s) \/ ReadInitial(s)
             \/ ConfirmAbsent(s) \/ ClaimExisting(s) \/ CheckClaim(s)
      PROVE  ArchiveInv'
    BY <1>1, <1>7 DEF Acquire, ReadPrior, RecoverLook, Revive, ReadInitial, ConfirmAbsent,
                      ClaimExisting, CheckClaim
<1>8. ASSUME NEW s \in Sessions,
             \/ CreateTemporary(s) \/ LinkFile(s) \/ UnlinkTemporary(s) \/ CheckPublished(s)
             \/ UndoLook(s) \/ UndoUnlink(s) \/ CheckPost(s) \/ UnlinkClaim(s)
             \/ RestoreLink(s) \/ RestoreUnlink(s)
      PROVE  ArchiveInv'
    BY <1>1, <1>8 DEF CreateTemporary, LinkFile, UnlinkTemporary, CheckPublished, UndoLook,
                      UndoUnlink, CheckPost, UnlinkClaim, RestoreLink, RestoreUnlink
<1>9. ASSUME UserStep \/ UNCHANGED vars PROVE ArchiveInv'
    BY <1>1, <1>9 DEF UserStep, SaveByRename, SaveInPlace, OpenHandle, WriteHandle, Delete,
                      Editor, vars, sessionVars
<1> QED BY <1>2, <1>3, <1>4, <1>5, <1>6, <1>7, <1>8, <1>9 DEF Next, Write, Rest

\* The five newest archives are retained (archive_prior, prune_archives), for any
\* number of archives to keep, whatever dies or fails in between
THEOREM NewestAreKept == Spec => []NewestKept
<1>1. ArchiveInv => NewestKept
    BY DEF ArchiveInv
<1> QED BY <1>1, InitArchive, NextArchive, PTL DEF Spec

-----------------------------------------------------------------------------
(* The name of the file *)

\* Between the look of the recovery and its rename nothing appears, when the
\* editor does not save in that moment
Vacant == \A s \in lock : pc[s] = "revive" => ~Exists(dir, "file")

NameInv == /\ dir = [n \in Names |-> dir[n]] /\ pc = [s \in Sessions |-> pc[s]]
           /\ Vacant

\* The file stays where it is, or the name is left or taken
Kept(d) == Exists(dir, "file") /\ Exists(d, "file") => d["file"] = dir["file"]

\* What the end of a write, with an exception or without, does to the file
LEMMA RaiseKeeps ==
    ASSUME NameInv, NEW s \in Sessions, lock = {s}, Raise(s)
    PROVE  NameInv' /\ Kept(dir')
<1> USE DEF NameInv, Vacant, Kept, Names, Exists, Unlink, End, Continue, Abandon, Go
<1>1. CASE pc[s] \in {"preread", "recover", "revive", "initial", "absent", "claim",
                      "post", "unclaim", "restore"}
    BY <1>1 DEF Raise
<1>2. CASE pc[s] \in {"verify", "confirm", "archive", "final"}
    BY <1>2 DEF Raise
<1>3. CASE pc[s] \in {"create", "link"}
    BY <1>3 DEF Raise
<1>4. CASE pc[s] \in {"untmp", "published"}
    BY <1>4 DEF Raise
<1>5. CASE pc[s] \in {"undo", "undo2"}
    BY <1>5 DEF Raise
<1>6. CASE pc[s] \in {"restore2", "prune"}
    BY <1>6 DEF Raise
<1> QED BY <1>1, <1>2, <1>3, <1>4, <1>5, <1>6 DEF Raise

LEMMA InitName == ASSUME Init PROVE NameInv
BY DEF Init, NameInv, Vacant, Names

LEMMA StepName ==
    ASSUME NameInv, ~Late, [Next]_vars
    PROVE  NameInv' /\ (UserStep \/ Kept(dir'))
<1> USE DEF NameInv, Vacant, Kept, Names, Exists, At, Same, Changed, Go
<1>1. ASSUME NEW s \in Sessions, ReadMemory(s) PROVE NameInv' /\ Kept(dir')
    <2>1. \E p \in {"lock", "refused"} : pc' = [pc EXCEPT ![s] = p]
        BY <1>1 DEF ReadMemory
    <2>2. UNCHANGED <<dir, lock>>
        BY <1>1 DEF ReadMemory, fileVars, entryVars
    <2> QED BY <2>1, <2>2
<1>2. ASSUME NEW s \in Sessions, Acquire(s) PROVE NameInv' /\ Kept(dir')
    BY <1>2 DEF Acquire, fileVars, entryVars
<1>3. ASSUME NEW s \in Sessions, Refuse(s), lock = {s} PROVE NameInv' /\ Kept(dir')
    BY <1>3, RaiseKeeps DEF Refuse
<1>4. ASSUME NEW s \in Sessions, Fail(s) PROVE NameInv' /\ Kept(dir')
    <2>1. CASE Raise(s)
        BY <1>4, <2>1, RaiseKeeps DEF Fail
    <2>2. CASE FailBehind(s)
        BY <1>4, <2>2 DEF Fail, FailBehind, RestoreTakenBack, End, Continue, Rename, Unlink
    <2> QED BY <1>4, <2>1, <2>2 DEF Fail
<1>5. ASSUME NEW s \in Sessions,
             \/ ReadPrior(s) \/ RecoverLook(s) \/ ReadInitial(s) \/ ConfirmAbsent(s)
             \/ CheckClaim(s) \/ UndoLook(s) \/ CheckPost(s)
      PROVE  NameInv' /\ Kept(dir')
    <2>1. CASE Refuse(s) /\ lock = {s}
        BY <1>3, <2>1
    <2>2. CASE ~Refuse(s) \/ lock # {s}
        BY <1>5, <2>2 DEF ReadPrior, RecoverLook, ReadInitial, ConfirmAbsent, CheckClaim, UndoLook,
                          CheckPost, fileVars, entryVars
    <2> QED BY <2>1, <2>2
<1>6. ASSUME NEW s \in Sessions, Revive(s) PROVE NameInv' /\ Kept(dir')
    BY <1>6 DEF Revive
<1>7. ASSUME NEW s \in Sessions, ClaimExisting(s) PROVE NameInv' /\ Kept(dir')
    BY <1>3, <1>7 DEF ClaimExisting, Rename
<1>8. ASSUME NEW s \in Sessions, ArchivePrior(s) PROVE NameInv' /\ Kept(dir')
    BY <1>8 DEF ArchivePrior, fileVars, entryVars
<1>9. ASSUME NEW s \in Sessions, CreateTemporary(s) PROVE NameInv' /\ Kept(dir')
    BY <1>9 DEF CreateTemporary, Write1, Create
<1>10. ASSUME NEW s \in Sessions, LinkFile(s) PROVE NameInv' /\ Kept(dir')
    BY <1>3, <1>10 DEF LinkFile, Link
<1>11. ASSUME NEW s \in Sessions, UnlinkTemporary(s) PROVE NameInv' /\ Kept(dir')
    BY <1>11 DEF UnlinkTemporary, Unlink
<1>12. ASSUME NEW s \in Sessions, CheckPublished(s) PROVE NameInv' /\ Kept(dir')
    BY <1>3, <1>12 DEF CheckPublished, Continue, End
<1>13. ASSUME NEW s \in Sessions, UndoUnlink(s) \/ UnlinkClaim(s) PROVE NameInv' /\ Kept(dir')
    BY <1>13 DEF UndoUnlink, UnlinkClaim, Abandon, Continue, End, Unlink
<1>14. ASSUME NEW s \in Sessions, Prune(s) PROVE NameInv' /\ Kept(dir')
    BY <1>14 DEF Prune, End, fileVars, entryVars
<1>15. ASSUME NEW s \in Sessions, RestoreLink(s) PROVE NameInv' /\ Kept(dir')
    BY <1>3, <1>15 DEF RestoreLink, Link
<1>16. ASSUME NEW s \in Sessions, RestoreUnlink(s) PROVE NameInv' /\ Kept(dir')
    BY <1>3, <1>16 DEF RestoreUnlink, End, Unlink
<1>17. ASSUME NEW s \in Sessions, Crash(s) PROVE NameInv' /\ Kept(dir')
    <2>1. pc' = [pc EXCEPT ![s] = "dead"]
        BY <1>17 DEF Crash, End
    <2>2. CASE lock = {s}
        <3>1. lock' = {} /\ dir' = [dir EXCEPT !["tmp"] = NoFile, !["claim"] = NoFile]
            BY <1>17, <2>2 DEF Crash, End
        <3> QED BY <2>1, <3>1
    <2>3. CASE lock # {s}
        <3>1. UNCHANGED <<lock, dir>>
            BY <1>17, <2>3 DEF Crash, entryVars
        <3> QED BY <2>1, <3>1
    <2> QED BY <2>2, <2>3
<1>18. ASSUME UserStep PROVE NameInv'
    <2>1. CASE SaveByRename
        <3>1. ~NameChecked /\ UNCHANGED <<lock, pc>> /\ dir' = [dir EXCEPT !["file"] = dir'["file"]]
            BY <2>1 DEF SaveByRename, Editor, Write1, Create, sessionVars
        <3> QED BY <3>1 DEF NameChecked
    <2>2. CASE ~SaveByRename
        BY <1>18, <2>2 DEF UserStep, SaveInPlace, OpenHandle, WriteHandle, Delete, Editor, Overwrite,
                           Unlink, fileVars, entryVars, sessionVars
    <2> QED BY <2>1, <2>2
<1>19. ASSUME UNCHANGED vars PROVE NameInv' /\ Kept(dir')
    BY <1>19 DEF vars, fileVars, entryVars, sessionVars
<1> QED BY <1>1, <1>2, <1>4, <1>5, <1>6, <1>7, <1>8, <1>9, <1>10, <1>11, <1>12, <1>13, <1>14,
           <1>15, <1>16, <1>17, <1>18, <1>19 DEF Next, Write, Rest

\* The helper publishes without overwriting an occupied target: every step of its
\* transactions, errors and crashes included, leaves the file, moves it away or
\* finds the name free, unless the editor saves just before the recovery renames
THEOREM FileNeverReplaced == ~Late => (Spec => NeverReplaces)
<1> SUFFICES ASSUME ~Late PROVE Spec => NeverReplaces
    OBVIOUS
<1>1. Init => NameInv
    BY InitName
<1>2. NameInv /\ [Next]_vars => NameInv'
    BY StepName
<1>3. NameInv /\ [Next]_vars =>
          [UserStep \/ (Exists(dir, "file") /\ Exists(dir', "file") => dir'["file"] = dir["file"])]_vars
    BY StepName DEF Kept
<1> QED BY <1>1, <1>2, <1>3, PTL DEF Spec, NeverReplaces

-----------------------------------------------------------------------------
(* Nothing is lost *)

\* Every version of a set is held by an inode that some name leads to
Held(d, l, D, V) == \A v \in V : \E i \in Linked(d, l) \ {NoFile} : D[i] = v

LEMMA LinkedNames ==
    ASSUME NEW d, DOMAIN d = Names, NEW l
    PROVE  Linked(d, l) = {d["file"], d["tmp"], d["claim"]} \cup l
BY DEF Linked, Names

\* What a step must not do to a version that has to be held
LEMMA HeldStays ==
    ASSUME NEW d, NEW l, NEW D, NEW V, Held(d, l, D, V),
           NEW d2, NEW l2, NEW D2, NEW W, W \subseteq V,
           \A i \in Linked(d, l) \ {NoFile} :
               D[i] \in W => i \in Linked(d2, l2) /\ D2[i] = D[i]
    PROVE  Held(d2, l2, D2, W)
BY DEF Held

\* One more version, held by a linked inode
LEMMA HeldMore ==
    ASSUME NEW d, NEW l, NEW D, NEW V, Held(d, l, D, V),
           NEW v, NEW i \in Linked(d, l) \ {NoFile}, D[i] = v
    PROVE  Held(d, l, D, V \cup {v})
BY DEF Held

Preparing == {"link", "untmp", "published", "undo", "undo2"}
HoldsClaim == {"verify", "confirm", "archive", "final", "create", "link", "untmp",
               "published", "undo", "undo2", "post", "unclaim", "restore", "restore2"}

StoreOK ==
    /\ dir \in [Names -> Inodes \cup {NoFile}]
    /\ stale \subseteq Inodes /\ strays \subseteq Inodes
    /\ data \in [Inodes -> Nat] /\ last \in Nat /\ live \subseteq Nat
    /\ token \in [Sessions -> Nat] /\ handle \in Inodes \cup {NoFile}
    /\ pc = [s \in Sessions |-> pc[s]] /\ lock \subseteq Sessions

\* No version is newer than the last one written
Dated == /\ \A i \in Inodes : data[i] <= last
         /\ \A s \in Sessions : token[s] <= last
         /\ \A v \in live : v <= last

\* A temporary and a claim belong to the lock holder
Owned == /\ Exists(dir, "tmp") => \E s \in lock : pc[s] \in {"link", "untmp"}
         /\ Exists(dir, "claim") => \E s \in lock : pc[s] \in HoldsClaim

\* What the lock holder is about to remove holds nothing that has to stay: a
\* document that is not accepted yet, or the version it has replaced.  p is where
\* the holder is, d the directory, t its token.
Fits(p, d, t) ==
    /\ p = "revive" => Claims # {} /\ ~Exists(d, "file")
    /\ p \in Preparing => /\ prepared \in Inodes \X Nat
                          /\ data[prepared[1]] = prepared[2]
                          /\ prepared[2] \notin live /\ prepared[2] > t
    /\ p \in {"link", "untmp"} => d["tmp"] = prepared[1]
    /\ p = "link" => d["file"] # prepared[1] /\ handle # prepared[1]
    /\ p = "undo2" => d["file"] \in {prepared[1], NoFile}
    /\ p = "unclaim" => Exists(d, "claim") /\ data[d["claim"]] = t
    /\ p \in {"post", "unclaim"} => t \notin live

Holder(s) == lock = {s} /\ pc[s] \in Locked /\ Fits(pc[s], dir, token[s])

KeptInv == /\ StoreOK /\ Dated /\ Owned
           /\ Held(dir, Leftovers, data, live \ dropped)
           /\ \A s \in lock : Holder(s)

LEMMA InitKept == ASSUME Init PROVE KeptInv
<1>1. First \in Inodes
    BY DirectoryAssumption DEF First
<1>2. StoreOK
    BY <1>1 DEF Init, StoreOK, Names, Absent
<1>3. Dated /\ Owned
    BY <1>1 DEF Init, Dated, Owned, Names, Exists, Absent
<1>4. Held(dir, Leftovers, data, live \ dropped)
    <2>1. CASE last = 1
        <3>1. dir["file"] = First /\ data[First] = 1 /\ live = {1} /\ dir = [n \in Names |-> dir[n]]
            BY <1>1, <2>1 DEF Init, Names, Absent
        <3>2. First \in Linked(dir, Leftovers) \ {NoFile}
            BY <1>1, <3>1, DirectoryAssumption DEF Linked, Names
        <3> QED BY <3>1, <3>2 DEF Held
    <2>2. CASE last = 0
        BY <2>2 DEF Init, Held, Absent
    <2> QED BY <2>1, <2>2 DEF Init
<1> QED BY <1>2, <1>3, <1>4 DEF KeptInv, Init

\* A write that ends leaves its claim and its temporary under names nobody remembers
LEMMA EndKeeps ==
    ASSUME KeptInv, NEW s \in Sessions, NEW r \in Ended, NEW d \in [Names -> Inodes \cup {NoFile}],
           End(s, r, d), UNCHANGED <<data, last, token, handle>>,
           live' \subseteq Nat, \A v \in live' : v <= last,
           Held(d, Leftovers, data, live' \ dropped')
    PROVE  KeptInv'
<1> DEFINE rest == [d EXCEPT !["tmp"] = NoFile, !["claim"] = NoFile]
<1>1. /\ dir' = rest /\ lock' = {} /\ pc' = [pc EXCEPT ![s] = r]
      /\ stale' = stale \cup ({d["claim"]} \ {NoFile})
      /\ strays' = strays \cup ({d["tmp"]} \ {NoFile})
    BY DEF End, Go
<1>2. StoreOK'
    BY <1>1 DEF KeptInv, StoreOK, Names
<1>3. Dated' /\ Owned'
    BY <1>1 DEF KeptInv, Dated, Owned, StoreOK, Names, Exists
<1>4. ASSUME NEW i \in Linked(d, Leftovers) \ {NoFile} PROVE i \in Linked(rest, Leftovers')
    <2>1. i \in {d["file"], d["tmp"], d["claim"]} \cup strays \cup stale
        BY LinkedNames DEF Leftovers
    <2>2. Linked(rest, Leftovers') = {rest["file"], rest["tmp"], rest["claim"]} \cup (strays' \cup stale')
        BY LinkedNames DEF Leftovers
    <2>3. rest["file"] = d["file"]
        BY DEF Names
    <2> QED BY <1>1, <2>1, <2>2, <2>3
<1>5. Held(rest, Leftovers', data, live' \ dropped')
    BY <1>4, HeldStays
<1> QED BY <1>1, <1>2, <1>3, <1>5 DEF KeptInv

\* An unlink of a name whose inode holds nothing that has to stay, or has another name
LEMMA UnlinkKeeps ==
    ASSUME KeptInv, NEW n \in Names,
           \/ dir[n] = NoFile \/ data[dir[n]] \notin live
           \/ \E m \in Names \ {n} : dir[m] = dir[n]
    PROVE  /\ Unlink(dir, n) \in [Names -> Inodes \cup {NoFile}]
           /\ Held(Unlink(dir, n), Leftovers, data, live \ dropped)
<1>1. Unlink(dir, n) \in [Names -> Inodes \cup {NoFile}]
    BY DEF KeptInv, StoreOK, Unlink
<1>2. ASSUME NEW i \in Linked(dir, Leftovers) \ {NoFile}, data[i] \in live
      PROVE  i \in Linked(Unlink(dir, n), Leftovers)
    <2>1. CASE i \in Leftovers
        BY <2>1 DEF Linked
    <2>2. CASE i \notin Leftovers
        <3>1. PICK m \in Names : dir[m] = i
            BY <1>2, <2>2 DEF Linked, KeptInv, StoreOK
        <3>2. \E k \in Names \ {n} : dir[k] = i
            BY <1>2, <3>1
        <3> QED BY <3>2 DEF Linked, Unlink, KeptInv, StoreOK
    <2> QED BY <2>1, <2>2
<1>3. Held(dir, Leftovers, data, live \ dropped)
    BY DEF KeptInv
<1> QED BY <1>1, <1>2, <1>3, HeldStays

\* A write that goes on
LEMMA GoKeeps ==
    ASSUME KeptInv, NEW s \in Sessions, lock = {s}, NEW p \in Locked, Go(s, p),
           UNCHANGED <<stale, strays, lock, data, last, token, handle, live, dropped>>,
           NEW d \in [Names -> Inodes \cup {NoFile}], dir' = d,
           Held(d, Leftovers, data, live \ dropped),
           Exists(d, "tmp") => p \in {"link", "untmp"},
           Exists(d, "claim") => p \in HoldsClaim,
           prepared' = prepared, Fits(p, d, token[s]), p = "revive" => d = dir
    PROVE  KeptInv'
<1>1. pc' = [pc EXCEPT ![s] = p] /\ pc'[s] = p /\ Leftovers' = Leftovers
    BY DEF Go, KeptInv, StoreOK, Leftovers
<1>2. StoreOK' /\ Dated'
    BY <1>1 DEF KeptInv, StoreOK, Dated
<1>3. Owned'
    BY <1>1 DEF Owned
<1>4. Held(dir, Leftovers, data, live \ dropped)'
    BY <1>1
<1>5. ASSUME p = "revive" PROVE Claims' = Claims
    BY <1>1, <1>5 DEF Claims
<1>6. Fits(p, dir, token[s])'
    BY <1>5 DEF Fits
<1>7. ASSUME NEW t \in lock' PROVE Holder(t)'
    BY <1>1, <1>6, <1>7 DEF Holder
<1> QED BY <1>2, <1>3, <1>4, <1>7 DEF KeptInv

\* What the lock holder leaves under its own names
LEMMA Holds ==
    ASSUME KeptInv, NEW s \in Sessions, lock = {s}
    PROVE  /\ Fits(pc[s], dir, token[s]) /\ pc[s] \in Locked
           /\ Exists(dir, "tmp") => pc[s] \in {"link", "untmp"}
           /\ Exists(dir, "claim") => pc[s] \in HoldsClaim
           /\ dir \in [Names -> Inodes \cup {NoFile}]
           /\ Held(dir, Leftovers, data, live \ dropped)
           /\ live \subseteq Nat /\ \A v \in live : v <= last
BY DEF KeptInv, Holder, Owned, StoreOK, Dated

LEMMA AbandonKeeps ==
    ASSUME KeptInv, NEW s \in Sessions, lock = {s}, NEW d \in [Names -> Inodes \cup {NoFile}],
           ~Exists(d, "tmp"), Held(d, Leftovers, data, live \ dropped), Abandon(s, d),
           UNCHANGED <<data, last, token, handle, live, dropped>>
    PROVE  KeptInv'
<1>0. live \subseteq Nat /\ \A v \in live : v <= last
    BY Holds
<1>1. CASE Exists(d, "claim")
    <2>1. Fits("restore", d, token[s])
        BY DEF Fits, Preparing
    <2>2. /\ Go(s, "restore") /\ dir' = d
          /\ UNCHANGED <<stale, strays, lock, prepared>>
        BY <1>1 DEF Abandon, Continue
    <2> QED BY <2>1, <2>2, GoKeeps DEF Locked, HoldsClaim
<1>2. CASE ~Exists(d, "claim")
    BY <1>0, <1>2, EndKeeps DEF Abandon, Ended
<1> QED BY <1>1, <1>2

LEMMA RaiseKeepsAll ==
    ASSUME KeptInv, NEW s \in Sessions, lock = {s}, Raise(s), UNCHANGED <<token, handle, dropped>>
    PROVE  KeptInv'
<1>0. UNCHANGED <<data, last, live, dropped>>
    BY DEF Raise
<1>1. /\ Fits(pc[s], dir, token[s]) /\ Held(dir, Leftovers, data, live \ dropped)
      /\ Exists(dir, "tmp") => pc[s] \in {"link", "untmp"}
      /\ Exists(dir, "claim") => pc[s] \in HoldsClaim
      /\ dir \in [Names -> Inodes \cup {NoFile}]
      /\ live \subseteq Nat /\ \A v \in live : v <= last
    BY Holds
<1>2. ASSUME NEW r \in {"refused", "ok"}, End(s, r, dir) PROVE KeptInv'
    BY <1>0, <1>1, <1>2, EndKeeps DEF Ended
<1>3. ASSUME pc[s] \in {"create", "link", "untmp", "published"}
      PROVE  /\ Unlink(dir, "tmp") \in [Names -> Inodes \cup {NoFile}]
             /\ ~Exists(Unlink(dir, "tmp"), "tmp")
             /\ Held(Unlink(dir, "tmp"), Leftovers, data, live \ dropped)
    <2>1. dir["tmp"] = NoFile \/ data[dir["tmp"]] \notin live
        BY <1>1, <1>3 DEF Exists, Fits, Preparing
    <2> QED BY <1>1, <2>1, UnlinkKeeps DEF Names, Unlink, Exists
<1>4. CASE pc[s] \in {"verify", "confirm", "archive", "final"} /\ Continue(s, "restore", dir)
    <2>1. /\ Go(s, "restore") /\ dir' = dir /\ UNCHANGED <<stale, strays, lock, prepared>>
        BY <1>4 DEF Continue
    <2>2. Fits("restore", dir, token[s]) /\ ~Exists(dir, "tmp")
        BY <1>1, <1>4 DEF Fits, Preparing
    <2> QED BY <1>0, <1>1, <2>1, <2>2, GoKeeps DEF Locked, HoldsClaim
<1>5. CASE pc[s] \in {"create", "link"} /\ Abandon(s, Unlink(dir, "tmp"))
    BY <1>0, <1>3, <1>5, AbandonKeeps
<1>6. CASE pc[s] \in {"untmp", "published"} /\ Continue(s, "undo", Unlink(dir, "tmp"))
    <2>1. /\ Go(s, "undo") /\ dir' = Unlink(dir, "tmp") /\ UNCHANGED <<stale, strays, lock, prepared>>
        BY <1>6 DEF Continue
    <2>2. Fits("undo", Unlink(dir, "tmp"), token[s])
        BY <1>1, <1>6 DEF Fits, Preparing
    <2> QED BY <1>0, <1>3, <1>6, <2>1, <2>2, GoKeeps DEF Locked, HoldsClaim
<1>7. CASE pc[s] \in {"undo", "undo2"} /\ Abandon(s, dir)
    BY <1>0, <1>1, <1>7, AbandonKeeps
<1>8. CASE /\ pc[s] = "restore2" /\ dir["file"] = dir["claim"]
           /\ End(s, "refused", Unlink(dir, "file"))
    <2>1. dir["file"] = NoFile \/ \E m \in Names \ {"file"} : dir[m] = dir["file"]
        BY <1>8 DEF Names
    <2>2. /\ Unlink(dir, "file") \in [Names -> Inodes \cup {NoFile}]
          /\ Held(Unlink(dir, "file"), Leftovers, data, live \ dropped)
        BY <2>1, UnlinkKeeps DEF Names
    <2> QED BY <1>0, <1>1, <1>8, <2>2, EndKeeps DEF Ended
<1> QED BY <1>2, <1>4, <1>5, <1>6, <1>7, <1>8 DEF Raise

\* The step of a session that does not hold the lock
LEMMA AsideKeeps ==
    ASSUME KeptInv, NEW s \in Sessions, s \notin lock, NEW p, Go(s, p),
           UNCHANGED <<fileVars, lock, prepared, handle, live, dropped>>,
           token' \in [Sessions -> Nat], \A t \in Sessions : token'[t] <= last,
           \A t \in lock : token'[t] = token[t]
    PROVE  KeptInv'
<1>1. pc' = [pc EXCEPT ![s] = p] /\ Leftovers' = Leftovers /\ Claims' = Claims
      /\ UNCHANGED <<dir, stale, strays, data, last>>
    BY DEF Go, Leftovers, Claims, fileVars, entryVars
<1>2. \A t \in lock : pc'[t] = pc[t]
    BY <1>1 DEF KeptInv, StoreOK
<1>3. StoreOK' /\ Dated' /\ Owned' /\ Held(dir, Leftovers, data, live \ dropped)'
    BY <1>1, <1>2 DEF KeptInv, StoreOK, Dated, Owned
<1>4. ASSUME NEW t \in lock PROVE Holder(t)'
    BY <1>1, <1>2, <1>4 DEF KeptInv, Holder, Fits
<1> QED BY <1>3, <1>4 DEF KeptInv

\* A look that lets the write go on
LEMMA LookKeeps ==
    ASSUME KeptInv, NEW s \in Sessions, lock = {s}, NEW p \in Locked, Go(s, p), Same,
           UNCHANGED <<token, handle, dropped>>, Fits(p, dir, token[s]),
           pc[s] \in {"link", "untmp"} => p \in {"link", "untmp"},
           pc[s] \in HoldsClaim => p \in HoldsClaim
    PROVE  KeptInv'
<1>1. /\ Exists(dir, "tmp") => p \in {"link", "untmp"}
      /\ Exists(dir, "claim") => p \in HoldsClaim
      /\ dir \in [Names -> Inodes \cup {NoFile}]
      /\ Held(dir, Leftovers, data, live \ dropped)
    BY Holds
<1>2. UNCHANGED <<dir, stale, strays, data, last, lock, prepared, live>>
    BY DEF Same, fileVars, entryVars
<1> QED BY <1>1, <1>2, GoKeeps

LEMMA LooksKeep ==
    ASSUME KeptInv, NEW s \in Sessions,
           \/ ReadPrior(s) \/ RecoverLook(s) \/ ReadInitial(s) \/ ConfirmAbsent(s)
           \/ CheckClaim(s) \/ UndoLook(s) \/ CheckPost(s)
    PROVE  KeptInv'
<1>1. lock = {s} /\ UNCHANGED <<token, handle, dropped>>
    BY DEF ReadPrior, RecoverLook, ReadInitial, ConfirmAbsent, CheckClaim, UndoLook, CheckPost,
           At, userVars
<1>2. CASE Refuse(s)
    BY <1>1, <1>2, RaiseKeepsAll DEF Refuse
<1>3. Fits(pc[s], dir, token[s])
    BY <1>1, Holds
<1>4. CASE ReadPrior(s) /\ ~Refuse(s)
    <2>1. Same /\ Go(s, "recover") /\ pc[s] = "preread"
        BY <1>4 DEF ReadPrior, At
    <2>2. Fits("recover", dir, token[s])
        BY DEF Fits, Preparing
    <2> QED BY <1>1, <2>1, <2>2, LookKeeps DEF Locked, HoldsClaim
<1>5. CASE RecoverLook(s) /\ ~Refuse(s)
    <2>1. pc[s] = "recover" /\ Same
        BY <1>5 DEF RecoverLook, At
    <2>2. CASE Go(s, "initial")
        <3>1. Fits("initial", dir, token[s])
            BY DEF Fits, Preparing
        <3> QED BY <1>1, <2>1, <2>2, <3>1, LookKeeps DEF Locked, HoldsClaim
    <2>3. CASE Go(s, "revive") /\ Claims # {} /\ ~Exists(dir, "file")
        <3>1. Fits("revive", dir, token[s])
            BY <2>3 DEF Fits, Preparing
        <3> QED BY <1>1, <2>1, <2>3, <3>1, LookKeeps DEF Locked, HoldsClaim
    <2> QED BY <1>5, <2>2, <2>3 DEF RecoverLook
<1>6. CASE ReadInitial(s) /\ ~Refuse(s)
    <2>1. pc[s] = "initial" /\ Same /\ (Go(s, "absent") \/ Go(s, "claim"))
        BY <1>6 DEF ReadInitial, At
    <2>2. Fits("absent", dir, token[s]) /\ Fits("claim", dir, token[s])
        BY DEF Fits, Preparing
    <2> QED BY <1>1, <2>1, <2>2, LookKeeps DEF Locked, HoldsClaim
<1>7. CASE ConfirmAbsent(s) /\ ~Refuse(s)
    <2>1. pc[s] = "absent" /\ Same /\ Go(s, "create")
        BY <1>7 DEF ConfirmAbsent, At
    <2>2. Fits("create", dir, token[s])
        BY DEF Fits, Preparing
    <2> QED BY <1>1, <2>1, <2>2, LookKeeps DEF Locked, HoldsClaim
<1>8. CASE CheckClaim(s) /\ ~Refuse(s)
    <2>1. PICK p \in {"confirm", "archive", "final", "create"} : Go(s, p) /\ Same
        BY <1>8 DEF CheckClaim
    <2>2. pc[s] \in {"verify", "confirm", "final"}
        BY <1>8 DEF CheckClaim, At
    <2>3. Fits(p, dir, token[s])
        BY DEF Fits, Preparing
    <2> QED BY <1>1, <2>1, <2>2, <2>3, LookKeeps DEF Locked, HoldsClaim
<1>9. CASE UndoLook(s) /\ ~Refuse(s)
    <2>1. pc[s] = "undo" /\ Same /\ Go(s, "undo2") /\ IsPrepared
        BY <1>9 DEF UndoLook, At
    <2>2. Fits("undo2", dir, token[s])
        BY <1>3, <2>1 DEF Fits, Preparing, IsPrepared
    <2> QED BY <1>1, <2>1, <2>2, LookKeeps DEF Locked, HoldsClaim
<1>10. CASE CheckPost(s) /\ ~Refuse(s)
    <2>1. pc[s] = "post" /\ Same /\ Go(s, "unclaim") /\ Reads("claim", token[s])
        BY <1>10 DEF CheckPost, At
    <2>2. Fits("unclaim", dir, token[s])
        BY <1>3, <2>1 DEF Fits, Preparing, Reads, Single
    <2> QED BY <1>1, <2>1, <2>2, LookKeeps DEF Locked, HoldsClaim
<1> QED BY <1>2, <1>4, <1>5, <1>6, <1>7, <1>8, <1>9, <1>10

\* A set of inodes some names lead to has a newest one
LEMMA HasNewest ==
    ASSUME NEW S, S # {}, S \subseteq Inodes, data \in [Inodes -> Nat], last \in Nat,
           \A i \in Inodes : data[i] <= last
    PROVE  \E i \in S : \A j \in S : data[j] <= data[i]
<1> DEFINE Age(i) == last - data[i]
           ages == {Age(i) : i \in S}
<1>1. \A i \in S : Age(i) \in Nat /\ data[i] \in Nat
    BY SMT
<1>2. ages \subseteq Nat /\ ages # {}
    BY <1>1
<1>3. IsWellFoundedOn(OpToRel(<, Nat), Nat)
    BY NatLessThanWellFounded
<1>4. PICK a \in ages : \A b \in ages : ~(<<b, a>> \in OpToRel(<, Nat))
    BY <1>2, <1>3, WFMin
<1>5. \A b \in ages : ~(b < a)
    BY <1>2, <1>4 DEF OpToRel
<1>6. PICK i \in S : a = Age(i)
    BY <1>4
<1>7. ASSUME NEW j \in S PROVE data[j] <= data[i]
    <2>1. ~(Age(j) < Age(i)) /\ data[i] \in Nat /\ data[j] \in Nat
        BY <1>1, <1>5, <1>6, <1>7
    <2> QED BY <2>1
<1> QED BY <1>6, <1>7

LEMMA NewestIsStale ==
    ASSUME KeptInv, Claims # {}
    PROVE  Newest \in Claims /\ Newest \in stale /\ \A j \in Claims : data[j] <= data[Newest]
<1>1. \E i \in Claims : \A j \in Claims : data[j] <= data[i]
    <2>1. Claims \subseteq Inodes /\ data \in [Inodes -> Nat] /\ last \in Nat
          /\ \A i \in Inodes : data[i] <= last
        BY DEF KeptInv, StoreOK, Dated, Claims
    <2> QED BY <2>1, HasNewest
<1>2. Newest \in Claims /\ \A j \in Claims : data[j] <= data[Newest]
    BY <1>1 DEF Newest
<1> QED BY <1>2 DEF Claims

\* A name gets or gives up an inode that keeps another name
LEMMA MoveHeld ==
    ASSUME NEW d \in [Names -> Inodes \cup {NoFile}], NEW e \in [Names -> Inodes \cup {NoFile}],
           NEW l, NEW m, NEW D, NEW V, Held(d, l, D, V),
           \A i \in ({d[n] : n \in Names} \cup l) \ {NoFile} : i \in {e[n] : n \in Names} \cup m
    PROVE  Held(e, m, D, V)
BY HeldStays DEF Linked

LEMMA MovesKeep ==
    ASSUME KeptInv, NEW s \in Sessions,
           ClaimExisting(s) \/ LinkFile(s) \/ UnlinkTemporary(s) \/ RestoreLink(s)
    PROVE  KeptInv'
<1>1. lock = {s} /\ UNCHANGED <<token, handle, dropped>>
    BY DEF ClaimExisting, LinkFile, UnlinkTemporary, RestoreLink, At, userVars
<1>2. /\ Fits(pc[s], dir, token[s])
      /\ Exists(dir, "tmp") => pc[s] \in {"link", "untmp"}
      /\ Exists(dir, "claim") => pc[s] \in HoldsClaim
      /\ dir \in [Names -> Inodes \cup {NoFile}]
      /\ Held(dir, Leftovers, data, live \ dropped)
    BY <1>1, Holds
<1>3. ASSUME NEW d, Changed(d)
      PROVE  dir' = d /\ UNCHANGED <<stale, strays, lock, data, last, live, prepared>>
    BY <1>3 DEF Changed
<1>4. CASE Refuse(s)
    BY <1>1, <1>4, RaiseKeepsAll DEF Refuse
<1>5. CASE ClaimExisting(s) /\ ~Refuse(s)
    <2> DEFINE d == Rename(dir, "file", "claim")
    <2>1. pc[s] = "claim" /\ Changed(d) /\ Go(s, "verify")
        BY <1>5 DEF ClaimExisting, At
    <2>2. ~Exists(dir, "claim") /\ ~Exists(dir, "tmp")
        BY <1>2, <2>1 DEF HoldsClaim
    <2>3. d \in [Names -> Inodes \cup {NoFile}] /\ d["claim"] = dir["file"] /\ d["tmp"] = NoFile
        BY <1>2, <2>2 DEF Rename, Names, Exists
    <2>4. Held(d, Leftovers, data, live \ dropped)
        <3>1. \A i \in ({dir[n] : n \in Names} \cup Leftovers) \ {NoFile} :
                  i \in {d[n] : n \in Names} \cup Leftovers
            BY <2>2, <2>3 DEF Names, Exists
        <3> QED BY <1>2, <2>3, <3>1, MoveHeld
    <2>5. Fits("verify", d, token[s])
        BY DEF Fits, Preparing
    <2> QED BY <1>1, <1>3, <2>1, <2>3, <2>4, <2>5, GoKeeps DEF Locked, HoldsClaim, Exists
<1>6. CASE LinkFile(s) /\ ~Refuse(s)
    <2> DEFINE d == Link(dir, "tmp", "file")
    <2>1. pc[s] = "link" /\ Changed(d) /\ Go(s, "untmp") /\ ~Exists(dir, "file")
        BY <1>6 DEF LinkFile, At
    <2>2. d \in [Names -> Inodes \cup {NoFile}] /\ d["claim"] = dir["claim"] /\ d["tmp"] = dir["tmp"]
        BY <1>2 DEF Link, Names
    <2>3. Held(d, Leftovers, data, live \ dropped)
        <3>1. \A i \in ({dir[n] : n \in Names} \cup Leftovers) \ {NoFile} :
                  i \in {d[n] : n \in Names} \cup Leftovers
            BY <2>1, <2>2 DEF Names, Exists
        <3> QED BY <1>2, <2>2, <3>1, MoveHeld
    <2>4. Fits("untmp", d, token[s])
        BY <1>2, <2>1, <2>2 DEF Fits, Preparing
    <2> QED BY <1>1, <1>3, <2>1, <2>2, <2>3, <2>4, GoKeeps DEF Locked, HoldsClaim
<1>7. CASE UnlinkTemporary(s)
    <2> DEFINE d == Unlink(dir, "tmp")
    <2>1. pc[s] = "untmp" /\ Changed(d) /\ Go(s, "published")
        BY <1>7 DEF UnlinkTemporary, At
    <2>2. dir["tmp"] = NoFile \/ data[dir["tmp"]] \notin live
        BY <1>2, <2>1 DEF Fits, Preparing
    <2>3. d \in [Names -> Inodes \cup {NoFile}] /\ Held(d, Leftovers, data, live \ dropped)
        BY <2>2, UnlinkKeeps DEF Names
    <2>4. ~Exists(d, "tmp")
        BY <1>2 DEF Unlink, Names, Exists
    <2>5. Fits("published", d, token[s])
        BY <1>2, <2>1 DEF Fits, Preparing
    <2> QED BY <1>1, <1>3, <2>1, <2>3, <2>4, <2>5, GoKeeps DEF Locked, HoldsClaim
<1>8. CASE RestoreLink(s) /\ ~Refuse(s)
    <2> DEFINE d == Link(dir, "claim", "file")
    <2>1. pc[s] = "restore" /\ Changed(d) /\ Go(s, "restore2") /\ ~Exists(dir, "file")
        BY <1>8 DEF RestoreLink, At
    <2>2. d \in [Names -> Inodes \cup {NoFile}] /\ d["claim"] = dir["claim"] /\ d["tmp"] = dir["tmp"]
        BY <1>2 DEF Link, Names
    <2>3. Held(d, Leftovers, data, live \ dropped)
        <3>1. \A i \in ({dir[n] : n \in Names} \cup Leftovers) \ {NoFile} :
                  i \in {d[n] : n \in Names} \cup Leftovers
            BY <2>1, <2>2 DEF Names, Exists
        <3> QED BY <1>2, <2>2, <3>1, MoveHeld
    <2>4. Fits("restore2", d, token[s]) /\ ~Exists(d, "tmp")
        BY <1>2, <2>1, <2>2 DEF Fits, Preparing, Exists
    <2> QED BY <1>1, <1>3, <2>1, <2>2, <2>3, <2>4, GoKeeps DEF Locked, HoldsClaim
<1> QED BY <1>4, <1>5, <1>6, <1>7, <1>8

\* os.rename of the newest claim: the name it takes is free
LEMMA ReviveKeeps == ASSUME KeptInv, NEW s \in Sessions, Revive(s) PROVE KeptInv'
<1>1. /\ lock = {s} /\ pc[s] = "revive" /\ lock' = {s} /\ pc' = [pc EXCEPT ![s] = "initial"]
      /\ dir' = [dir EXCEPT !["file"] = Newest] /\ stale' = stale \ {Newest}
      /\ UNCHANGED <<strays, data, last, token, handle, prepared, live, dropped>>
    BY DEF Revive, At, Go, userVars
<1>2. /\ Fits(pc[s], dir, token[s]) /\ dir \in [Names -> Inodes \cup {NoFile}]
      /\ Exists(dir, "tmp") => pc[s] \in {"link", "untmp"}
      /\ Exists(dir, "claim") => pc[s] \in HoldsClaim
      /\ Held(dir, Leftovers, data, live \ dropped)
    BY <1>1, Holds
<1>3. ~Exists(dir, "file") /\ Newest \in stale /\ Newest \in Inodes
    BY <1>1, <1>2, NewestIsStale DEF Fits, KeptInv, StoreOK
<1>4. ~Exists(dir, "tmp") /\ ~Exists(dir, "claim")
    BY <1>1, <1>2 DEF HoldsClaim
<1>5. dir' \in [Names -> Inodes \cup {NoFile}] /\ dir'["file"] = Newest
      /\ dir'["tmp"] = NoFile /\ dir'["claim"] = NoFile
    BY <1>1, <1>2, <1>3, <1>4 DEF Names, Exists
<1>6. Held(dir', Leftovers', data, live \ dropped)
    <2>1. \A i \in ({dir[n] : n \in Names} \cup Leftovers) \ {NoFile} :
              i \in {dir'[n] : n \in Names} \cup Leftovers'
        BY <1>1, <1>3, <1>4, <1>5 DEF Names, Exists, Leftovers
    <2> QED BY <1>2, <1>5, <2>1, MoveHeld
<1>7. StoreOK' /\ Dated' /\ Owned'
    BY <1>1, <1>5 DEF KeptInv, StoreOK, Dated, Owned, Exists
<1>8. Holder(s)'
    BY <1>1 DEF KeptInv, StoreOK, Holder, Fits, Preparing, Locked
<1> QED BY <1>1, <1>6, <1>7, <1>8 DEF KeptInv

\* A new inode is nobody's
LEMMA NewIsFree ==
    ASSUME Free # {}
    PROVE  New \in Inodes /\ New \notin Linked(dir, Leftovers) /\ New \notin Pinned
BY DEF New, Free, NewInode, FreeInodes

\* A file written to a free inode under a name disturbs no other
LEMMA WrittenHeld ==
    ASSUME KeptInv, NEW n \in Names, Write1(n), NEW W, W \subseteq live \ dropped,
           dir[n] = NoFile \/ data[dir[n]] \notin W
    PROVE  /\ Held(dir', Leftovers', data', W)
           /\ New \in Inodes /\ New \notin Linked(dir, Leftovers) /\ New \notin Pinned
           /\ dir' \in [Names -> Inodes \cup {NoFile}] /\ dir' = [dir EXCEPT ![n] = New]
           /\ data' \in [Inodes -> Nat] /\ data' = [data EXCEPT ![New] = last + 1]
           /\ last' = last + 1 /\ UNCHANGED <<stale, strays>> /\ Leftovers' = Leftovers
           /\ New \in Linked(dir', Leftovers) \ {NoFile} /\ data'[New] = last + 1
<1>1. /\ New \in Inodes /\ New \notin Linked(dir, Leftovers) /\ New \notin Pinned
      /\ New # NoFile
    BY NewIsFree, DirectoryAssumption DEF Write1
<1>2. /\ dir' = [dir EXCEPT ![n] = New] /\ data' = [data EXCEPT ![New] = last + 1]
      /\ last' = last + 1 /\ UNCHANGED <<stale, strays>> /\ Leftovers' = Leftovers
    BY DEF Write1, Create, Leftovers
<1>3. /\ dir \in [Names -> Inodes \cup {NoFile}] /\ data \in [Inodes -> Nat] /\ last \in Nat
      /\ Held(dir, Leftovers, data, live \ dropped) /\ stale \subseteq Inodes /\ strays \subseteq Inodes
    BY DEF KeptInv, StoreOK
<1>4. dir' \in [Names -> Inodes \cup {NoFile}] /\ data' \in [Inodes -> Nat]
    BY <1>1, <1>2, <1>3
<1>5. New \in Linked(dir', Leftovers) \ {NoFile} /\ data'[New] = last + 1
    BY <1>1, <1>2, <1>3, <1>4 DEF Linked
<1>6. ASSUME NEW i \in Linked(dir, Leftovers) \ {NoFile}, data[i] \in W
      PROVE  i \in Linked(dir', Leftovers') /\ data'[i] = data[i]
    <2>1. i # New /\ i \in Inodes
        BY <1>1, <1>3, <1>6 DEF Linked, Leftovers
    <2>2. i \in Leftovers \/ \E m \in Names : dir[m] = i
        BY <1>3, <1>6 DEF Linked
    <2>3. ASSUME NEW m \in Names, dir[m] = i PROVE dir'[m] = i
        BY <1>2, <1>3, <1>6, <2>3
    <2> QED BY <1>2, <1>3, <1>4, <2>1, <2>2, <2>3 DEF Linked
<1>7. Held(dir', Leftovers', data', W)
    BY <1>3, <1>6, HeldStays
<1> QED BY <1>1, <1>2, <1>4, <1>5, <1>7

LEMMA CreateKeeps == ASSUME KeptInv, NEW s \in Sessions, CreateTemporary(s) PROVE KeptInv'
<1>1. /\ lock = {s} /\ pc[s] = "create" /\ lock' = {s} /\ pc' = [pc EXCEPT ![s] = "link"]
      /\ Write1("tmp") /\ prepared' = <<New, last + 1>>
      /\ UNCHANGED <<token, handle, live, dropped>>
    BY DEF CreateTemporary, At, Go, userVars
<1>2. /\ Exists(dir, "tmp") => pc[s] \in {"link", "untmp"}
      /\ dir \in [Names -> Inodes \cup {NoFile}]
      /\ \A v \in live : v <= last /\ v \in Nat
    BY <1>1, Holds
<1>3. dir["tmp"] = NoFile
    BY <1>1, <1>2 DEF Exists
<1>4. /\ Held(dir', Leftovers', data', live \ dropped)
      /\ New \in Inodes /\ New \notin Linked(dir, Leftovers) /\ New \notin Pinned
      /\ dir' \in [Names -> Inodes \cup {NoFile}] /\ dir' = [dir EXCEPT !["tmp"] = New]
      /\ data' \in [Inodes -> Nat] /\ data' = [data EXCEPT ![New] = last + 1]
      /\ last' = last + 1 /\ UNCHANGED <<stale, strays>> /\ data'[New] = last + 1
    BY <1>1, <1>3, WrittenHeld DEF Names
<1>5. StoreOK'
    BY <1>1, <1>4 DEF KeptInv, StoreOK
<1>6. Dated'
    BY <1>1, <1>4 DEF KeptInv, StoreOK, Dated
<1>7. dir'["tmp"] = New /\ dir'["file"] = dir["file"] /\ dir'["claim"] = dir["claim"]
      /\ dir["file"] # New /\ handle # New
    BY <1>2, <1>4 DEF Names, Linked, Pinned
<1>8. Owned' /\ pc'[s] = "link"
    BY <1>1, <1>7 DEF KeptInv, StoreOK, Owned, Exists, HoldsClaim
<1>9. last + 1 \notin live /\ last + 1 \in Nat /\ last + 1 > token[s]
    BY <1>2 DEF KeptInv, StoreOK, Dated
<1>10. Fits("link", dir, token[s])'
    BY <1>1, <1>4, <1>7, <1>9 DEF Fits
<1>11. Holder(s)'
    BY <1>1, <1>8, <1>10 DEF Holder, Locked
<1> QED BY <1>1, <1>4, <1>5, <1>6, <1>8, <1>11 DEF KeptInv

LEMMA ArchiveKeepsAll == ASSUME KeptInv, NEW s \in Sessions, ArchivePrior(s) PROVE KeptInv'
<1>1. /\ lock = {s} /\ pc[s] = "archive" /\ Go(s, "final")
      /\ UNCHANGED <<fileVars, lock, prepared, token, handle, live, dropped>>
    BY DEF ArchivePrior, At, userVars
<1>2. UNCHANGED <<dir, stale, strays, data, last>>
    BY <1>1 DEF fileVars, entryVars
<1>3. Fits("final", dir, token[s]) /\ ~Exists(dir, "tmp")
    BY <1>1, Holds DEF Fits, Preparing
<1> QED BY <1>1, <1>2, <1>3, Holds, GoKeeps DEF Locked, HoldsClaim

\* From here on the write counts, and the version it was drafted from does not
LEMMA PublishedKeeps == ASSUME KeptInv, NEW s \in Sessions, CheckPublished(s) PROVE KeptInv'
<1>1. lock = {s} /\ pc[s] = "published" /\ UNCHANGED <<token, handle, dropped>>
    BY DEF CheckPublished, At, userVars
<1>2. CASE Refuse(s)
    BY <1>1, <1>2, RaiseKeepsAll DEF Refuse
<1>3. CASE ~Refuse(s)
    <2>1. /\ dir["file"] = prepared[1] /\ Exists(dir, "file") /\ data[dir["file"]] = prepared[2]
          /\ live' = (live \ {token[s]}) \cup {prepared[2]} /\ UNCHANGED <<data, last>>
          /\ IF Exists(dir, "claim") THEN Continue(s, "post", dir) ELSE End(s, "ok", dir)
        BY <1>3 DEF CheckPublished, IsPrepared, Reads, Single
    <2>2. /\ Fits(pc[s], dir, token[s]) /\ ~Exists(dir, "tmp")
          /\ dir \in [Names -> Inodes \cup {NoFile}]
          /\ Held(dir, Leftovers, data, live \ dropped)
        BY <1>1, Holds
    <2>3. prepared \in Inodes \X Nat /\ prepared[2] \notin live
        BY <1>1, <2>2 DEF Fits, Preparing
    <2>4. dir["file"] \in Linked(dir, Leftovers) \ {NoFile}
        BY <2>1, <2>2 DEF Linked, Names, Exists
    <2>5. Held(dir, Leftovers, data, live' \ dropped')
        <3> DEFINE V == (live \ {token[s]}) \ dropped
        <3>1. V \subseteq live \ dropped
            OBVIOUS
        <3>2. Held(dir, Leftovers, data, V)
            BY <2>2, <3>1, HeldStays
        <3>3. Held(dir, Leftovers, data, V \cup {prepared[2]})
            BY <2>1, <2>4, <3>2, HeldMore
        <3>4. live' \ dropped' \subseteq V \cup {prepared[2]}
            BY <1>1, <2>1
        <3> QED BY <3>3, <3>4, HeldStays
    <2>6. live' \subseteq Nat /\ \A v \in live' : v <= last
        BY <2>1, <2>3 DEF KeptInv, StoreOK, Dated
    <2>7. CASE ~Exists(dir, "claim")
        BY <1>1, <2>1, <2>2, <2>5, <2>6, <2>7, EndKeeps DEF Ended
    <2>8. CASE Exists(dir, "claim")
        <3>1. /\ pc' = [pc EXCEPT ![s] = "post"] /\ dir' = dir
              /\ UNCHANGED <<stale, strays, lock, prepared>>
            BY <2>1, <2>8 DEF Continue, Go
        <3>2. StoreOK' /\ Dated' /\ pc'[s] = "post"
            BY <1>1, <2>1, <2>6, <3>1 DEF KeptInv, StoreOK, Dated
        <3>3. Owned'
            BY <1>1, <2>2, <3>1, <3>2 DEF Owned, Exists, HoldsClaim
        <3>4. Held(dir', Leftovers', data', live' \ dropped')
            BY <2>1, <2>5, <3>1 DEF Leftovers
        <3>5. token[s] \notin live'
            BY <1>1, <2>1, <2>2, <2>3 DEF Fits, Preparing, KeptInv, StoreOK
        <3>6. Fits("post", dir, token[s])'
            BY <1>1, <3>1, <3>5 DEF Fits, Preparing
        <3>7. Holder(s)'
            BY <1>1, <3>1, <3>2, <3>6 DEF Holder, Locked
        <3> QED BY <1>1, <3>1, <3>2, <3>3, <3>4, <3>7 DEF KeptInv
    <2> QED BY <2>1, <2>7, <2>8
<1> QED BY <1>2, <1>3

LEMMA UndoKeeps == ASSUME KeptInv, NEW s \in Sessions, UndoUnlink(s) PROVE KeptInv'
<1>1. /\ lock = {s} /\ pc[s] = "undo2" /\ UNCHANGED <<token, handle, data, last, live, dropped>>
      /\ Abandon(s, Unlink(dir, "file"))
    BY DEF UndoUnlink, At, userVars
<1>2. Fits(pc[s], dir, token[s]) /\ ~Exists(dir, "tmp") /\ dir \in [Names -> Inodes \cup {NoFile}]
    BY <1>1, Holds
<1>3. dir["file"] = NoFile \/ data[dir["file"]] \notin live
    BY <1>1, <1>2 DEF Fits, Preparing
<1>4. /\ Unlink(dir, "file") \in [Names -> Inodes \cup {NoFile}]
      /\ Held(Unlink(dir, "file"), Leftovers, data, live \ dropped)
    BY <1>3, UnlinkKeeps DEF Names
<1>5. ~Exists(Unlink(dir, "file"), "tmp")
    BY <1>2 DEF Unlink, Names, Exists
<1> QED BY <1>1, <1>4, <1>5, AbandonKeeps

\* The claim holds the version that was replaced: it was read after the publication
LEMMA UnclaimKeeps == ASSUME KeptInv, NEW s \in Sessions, UnlinkClaim(s) PROVE KeptInv'
<1> DEFINE d == Unlink(dir, "claim")
<1>1. /\ lock = {s} /\ pc[s] = "unclaim" /\ UNCHANGED <<token, handle, data, last, live, dropped>>
      /\ Continue(s, "prune", d) \/ End(s, "ok", d)
    BY DEF UnlinkClaim, At, userVars
<1>2. /\ Fits(pc[s], dir, token[s]) /\ ~Exists(dir, "tmp")
      /\ dir \in [Names -> Inodes \cup {NoFile}]
      /\ live \subseteq Nat /\ \A v \in live : v <= last
    BY <1>1, Holds
<1>3. d \in [Names -> Inodes \cup {NoFile}] /\ Held(d, Leftovers, data, live \ dropped)
    <2>1. data[dir["claim"]] \notin live
        BY <1>1, <1>2 DEF Fits
    <2> QED BY <2>1, UnlinkKeeps DEF Names
<1>4. ~Exists(d, "tmp") /\ ~Exists(d, "claim")
    BY <1>2 DEF Unlink, Names, Exists
<1>5. CASE End(s, "ok", d)
    BY <1>1, <1>2, <1>3, <1>5, EndKeeps DEF Ended
<1>6. CASE Continue(s, "prune", d)
    <2>1. Fits("prune", d, token[s])
        BY DEF Fits, Preparing
    <2>2. Go(s, "prune") /\ dir' = d /\ UNCHANGED <<stale, strays, lock, prepared>>
        BY <1>6 DEF Continue
    <2> QED BY <1>1, <1>3, <1>4, <2>1, <2>2, GoKeeps DEF Locked
<1> QED BY <1>1, <1>5, <1>6

LEMMA EndsKeep ==
    ASSUME KeptInv, NEW s \in Sessions, Prune(s) \/ RestoreUnlink(s)
    PROVE  KeptInv'
<1>1. lock = {s} /\ UNCHANGED <<token, handle, dropped>>
    BY DEF Prune, RestoreUnlink, At, userVars
<1>2. /\ dir \in [Names -> Inodes \cup {NoFile}] /\ Held(dir, Leftovers, data, live \ dropped)
      /\ live \subseteq Nat /\ \A v \in live : v <= last
    BY <1>1, Holds
<1>3. CASE Prune(s)
    <2>1. CASE End(s, "ok", dir) /\ UNCHANGED <<data, last, live>>
        BY <1>1, <1>2, <2>1, EndKeeps DEF Ended
    <2>2. CASE UNCHANGED <<fileVars, lock, pc, prepared, live>>
        <3>1. UNCHANGED <<dir, stale, strays, data, last, lock, pc, prepared, live, token, handle, dropped>>
            BY <1>1, <2>2 DEF fileVars, entryVars
        <3>2. Leftovers' = Leftovers /\ Claims' = Claims
            BY <3>1 DEF Leftovers, Claims
        <3>3. StoreOK' /\ Dated' /\ Owned' /\ Held(dir, Leftovers, data, live \ dropped)'
            BY <3>1, <3>2 DEF KeptInv, StoreOK, Dated, Owned
        <3>4. ASSUME NEW t \in lock PROVE Holder(t)'
            BY <3>1, <3>2, <3>4 DEF KeptInv, Holder, Fits
        <3> QED BY <3>1, <3>3, <3>4 DEF KeptInv
    <2> QED BY <1>3, <2>1, <2>2 DEF Prune
<1>4. CASE RestoreUnlink(s) /\ Refuse(s)
    BY <1>1, <1>4, RaiseKeepsAll DEF Refuse
<1>5. CASE RestoreUnlink(s) /\ ~Refuse(s)
    <2>1. /\ dir["file"] = dir["claim"] /\ End(s, "refused", Unlink(dir, "claim"))
          /\ UNCHANGED <<data, last, live>>
        BY <1>5 DEF RestoreUnlink
    <2>2. /\ Unlink(dir, "claim") \in [Names -> Inodes \cup {NoFile}]
          /\ Held(Unlink(dir, "claim"), Leftovers, data, live \ dropped)
        BY <2>1, UnlinkKeeps DEF Names
    <2> QED BY <1>1, <1>2, <2>1, <2>2, EndKeeps DEF Ended
<1> QED BY <1>3, <1>4, <1>5

\* What fails behind the step leaves the file under the claim, or the claim that
\* was replaced gone, or the restored file, whose version is struck, gone
LEMMA BehindKeeps ==
    ASSUME KeptInv, NEW s \in Sessions, lock = {s}, FailBehind(s), UNCHANGED <<token, handle>>
    PROVE  KeptInv'
<1>1. /\ Fits(pc[s], dir, token[s]) /\ Held(dir, Leftovers, data, live \ dropped)
      /\ Exists(dir, "tmp") => pc[s] \in {"link", "untmp"}
      /\ Exists(dir, "claim") => pc[s] \in HoldsClaim
      /\ dir \in [Names -> Inodes \cup {NoFile}]
      /\ live \subseteq Nat /\ \A v \in live : v <= last
    BY Holds
<1>2. UNCHANGED <<data, last, live>>
    BY DEF FailBehind
<1>3. ASSUME NEW d \in [Names -> Inodes \cup {NoFile}], End(s, "refused", d),
             Held(d, Leftovers, data, live \ dropped')
      PROVE  KeptInv'
    BY <1>1, <1>2, <1>3, EndKeeps DEF Ended
<1>4. CASE pc[s] = "claim" /\ End(s, "refused", Rename(dir, "file", "claim")) /\ UNCHANGED dropped
    <2> DEFINE d == Rename(dir, "file", "claim")
    <2>1. ~Exists(dir, "claim")
        BY <1>1, <1>4 DEF HoldsClaim
    <2>2. d \in [Names -> Inodes \cup {NoFile}] /\ d["claim"] = dir["file"] /\ d["tmp"] = dir["tmp"]
        BY <1>1 DEF Rename, Names
    <2>3. Held(d, Leftovers, data, live \ dropped)
        <3>1. \A i \in ({dir[n] : n \in Names} \cup Leftovers) \ {NoFile} :
                  i \in {d[n] : n \in Names} \cup Leftovers
            BY <2>1, <2>2 DEF Names, Exists
        <3> QED BY <1>1, <2>2, <3>1, MoveHeld
    <2> QED BY <1>3, <1>4, <2>2, <2>3
<1>5. CASE pc[s] = "unclaim" /\ End(s, "refused", Unlink(dir, "claim")) /\ UNCHANGED dropped
    <2>1. data[dir["claim"]] \notin live
        BY <1>1, <1>5 DEF Fits
    <2>2. /\ Unlink(dir, "claim") \in [Names -> Inodes \cup {NoFile}]
          /\ Held(Unlink(dir, "claim"), Leftovers, data, live \ dropped)
        BY <2>1, UnlinkKeeps DEF Names
    <2> QED BY <1>3, <1>5, <2>2
<1>6. CASE pc[s] = "recover" /\ Continue(s, "initial", dir) /\ UNCHANGED dropped
    <2>1. /\ Go(s, "initial") /\ dir' = dir /\ UNCHANGED <<stale, strays, lock, prepared>>
        BY <1>6 DEF Continue
    <2>2. Fits("initial", dir, token[s]) /\ ~Exists(dir, "tmp") /\ ~Exists(dir, "claim")
        BY <1>1, <1>6 DEF Fits, Preparing, HoldsClaim
    <2> QED BY <1>1, <1>2, <1>6, <2>1, <2>2, GoKeeps DEF Locked
<1>7. CASE RestoreTakenBack(s)
    <2> DEFINE d == Unlink(Unlink(dir, "claim"), "file")
    <2>1. /\ End(s, "refused", d) /\ dropped' = dropped \cup {data[dir["file"]]}
          /\ dir["file"] = dir["claim"]
        BY <1>7 DEF RestoreTakenBack
    <2>2. d \in [Names -> Inodes \cup {NoFile}] /\ d["tmp"] = dir["tmp"]
        BY <1>1 DEF Unlink, Names
    <2>3. ASSUME NEW i \in Linked(dir, Leftovers) \ {NoFile}, data[i] \in live \ dropped'
          PROVE  i \in Linked(d, Leftovers)
        <3>1. i \in {dir["file"], dir["tmp"], dir["claim"]} \cup Leftovers /\ i # dir["file"]
            BY <1>1, <2>1, <2>3, LinkedNames
        <3>2. Linked(d, Leftovers) = {d["file"], d["tmp"], d["claim"]} \cup Leftovers
            BY <2>2, LinkedNames
        <3> QED BY <2>1, <2>2, <3>1, <3>2
    <2>4. Held(d, Leftovers, data, live \ dropped')
        <3>1. live \ dropped' \subseteq live \ dropped
            BY <2>1
        <3> QED BY <1>1, <2>3, <3>1, HeldStays
    <2> QED BY <1>3, <2>1, <2>2, <2>4
<1> QED BY <1>4, <1>5, <1>6, <1>7 DEF FailBehind

LEMMA FaultsKeep ==
    ASSUME KeptInv, NEW s \in Sessions, Fail(s) \/ Crash(s)
    PROVE  KeptInv'
<1>1. CASE Fail(s)
    <2>1. CASE Raise(s) /\ UNCHANGED dropped
        BY <1>1, <2>1, RaiseKeepsAll DEF Fail, userVars
    <2>2. CASE FailBehind(s)
        BY <1>1, <2>2, BehindKeeps DEF Fail, userVars
    <2> QED BY <1>1, <2>1, <2>2 DEF Fail
<1>2. CASE Crash(s) /\ lock = {s}
    <2>1. End(s, "dead", dir) /\ UNCHANGED <<data, last, token, handle, live, dropped>>
        BY <1>2 DEF Crash, userVars
    <2> QED BY <1>2, <2>1, Holds, EndKeeps DEF Ended
<1>3. CASE Crash(s) /\ lock # {s}
    <2>1. /\ Go(s, "dead") /\ UNCHANGED <<fileVars, lock, prepared, handle, live, token, dropped>>
        BY <1>3 DEF Crash, userVars, fileVars
    <2>2. s \notin lock /\ token' \in [Sessions -> Nat] /\ \A t \in Sessions : token'[t] <= last
        BY <1>3, <2>1 DEF KeptInv, Holder, StoreOK, Dated
    <2> QED BY <2>1, <2>2, AsideKeeps
<1> QED BY <1>1, <1>2, <1>3

LEMMA StartsKeep ==
    ASSUME KeptInv, NEW s \in Sessions, ReadMemory(s) \/ Acquire(s)
    PROVE  KeptInv'
<1>1. CASE ReadMemory(s)
    <2>1. /\ pc[s] = "read" /\ UNCHANGED <<fileVars, lock, prepared, handle, live, dropped>>
          /\ Go(s, "lock") \/ Go(s, "refused")
        BY <1>1 DEF ReadMemory, userVars, faultVars
    <2>2. s \notin lock
        BY <2>1 DEF KeptInv, Holder, Locked
    <2>3. \/ token' = token
          \/ \E v \in Nat : token' = [token EXCEPT ![s] = v] /\ v <= last
        <3>1. ASSUME NEW v \in Versions, Current(v) PROVE v \in Nat /\ v <= last
            BY <3>1 DEF Current, Reads, Single, Exists, Absent, KeptInv, StoreOK, Dated, Names
        <3> QED BY <1>1, <3>1 DEF ReadMemory
    <2>4. /\ token' \in [Sessions -> Nat] /\ \A t \in Sessions : token'[t] <= last
          /\ \A t \in lock : token'[t] = token[t]
        BY <2>2, <2>3 DEF KeptInv, StoreOK, Dated
    <2> QED BY <2>1, <2>2, <2>4, AsideKeeps
<1>2. CASE Acquire(s)
    <2>1. PICK p \in {"preread", "recover"} : pc' = [pc EXCEPT ![s] = p]
        BY <1>2 DEF Acquire, Go
    <2>2. /\ lock = {} /\ lock' = {s}
          /\ UNCHANGED <<dir, stale, strays, data, last, token, handle, live, dropped>>
        BY <1>2 DEF Acquire, userVars, fileVars, entryVars, faultVars
    <2>3. StoreOK' /\ Dated' /\ Owned' /\ Leftovers' = Leftovers
        BY <2>1, <2>2 DEF KeptInv, StoreOK, Dated, Owned, Exists, Leftovers
    <2>4. Fits(p, dir, token[s])'
        BY <2>1 DEF Fits, Preparing
    <2>5. Holder(s)'
        BY <2>1, <2>2, <2>4 DEF KeptInv, StoreOK, Holder, Locked
    <2> QED BY <2>2, <2>3, <2>5 DEF KeptInv
<1> QED BY <1>1, <1>2

\* The editor saves a new file under the name: not over an inode that a write
\* has prepared, nor between a look at the name and the step that relies on it
LEMMA RenameKeeps == ASSUME KeptInv, ~Late, SaveByRename PROVE KeptInv'
<1> DEFINE W == live \ FileContent
<1>1. /\ Write1("file") /\ live' = W \cup {last + 1} /\ ~NameChecked
      /\ UNCHANGED <<lock, pc, token, prepared, handle, dropped>>
    BY DEF SaveByRename, Editor, sessionVars, faultVars
<1>2. /\ W \ dropped \subseteq live \ dropped
      /\ dir["file"] = NoFile \/ data[dir["file"]] \notin W \ dropped
    BY DEF FileContent, Exists
<1>3. /\ Held(dir', Leftovers', data', W \ dropped)
      /\ New \in Inodes /\ New \notin Linked(dir, Leftovers) /\ New \notin Pinned
      /\ dir' \in [Names -> Inodes \cup {NoFile}] /\ dir' = [dir EXCEPT !["file"] = New]
      /\ data' \in [Inodes -> Nat] /\ data' = [data EXCEPT ![New] = last + 1]
      /\ last' = last + 1 /\ UNCHANGED <<stale, strays>> /\ Leftovers' = Leftovers
      /\ New \in Linked(dir', Leftovers) \ {NoFile} /\ data'[New] = last + 1
    BY <1>1, <1>2, WrittenHeld DEF Names
<1>4. Held(dir', Leftovers', data', live' \ dropped')
    <2>1. Held(dir', Leftovers', data', (W \ dropped) \cup {last + 1})
        BY <1>3, HeldMore
    <2> QED BY <1>1, <2>1, HeldStays
<1>5. StoreOK' /\ Dated'
    BY <1>1, <1>3 DEF KeptInv, StoreOK, Dated
<1>6. /\ dir'["file"] = New /\ dir'["tmp"] = dir["tmp"] /\ dir'["claim"] = dir["claim"]
      /\ New \notin {dir["tmp"], dir["claim"]}
    BY <1>3 DEF KeptInv, StoreOK, Names, Linked
<1>7. Owned'
    BY <1>1, <1>6 DEF KeptInv, Owned, Exists
<1>8. ASSUME NEW s \in lock PROVE Holder(s)'
    <2>1. lock = {s} /\ pc[s] \in Locked /\ Fits(pc[s], dir, token[s]) /\ s \in Sessions
          /\ pc[s] \notin {"revive", "undo", "undo2"} /\ token[s] \in Nat /\ token[s] <= last
        BY <1>1, <1>8 DEF KeptInv, Holder, NameChecked, StoreOK, Dated
    <2>2. ASSUME pc[s] \in Preparing
          PROVE  /\ prepared \in Inodes \X Nat /\ prepared[1] # New
                 /\ data'[prepared[1]] = prepared[2]
                 /\ prepared[2] \notin live' /\ prepared[2] > token[s]
        <3>1. /\ prepared \in Inodes \X Nat /\ data[prepared[1]] = prepared[2]
              /\ prepared[2] \notin live /\ prepared[2] > token[s]
            BY <2>1, <2>2 DEF Fits
        <3>2. prepared # NoFile
            BY <3>1, StoreAssumption
        <3>3. prepared[1] # New
            BY <1>3, <3>2 DEF Pinned
        <3>4. prepared[2] <= last /\ last \in Nat
            BY <3>1 DEF KeptInv, Dated, StoreOK
        <3> QED BY <1>1, <1>3, <3>1, <3>3, <3>4 DEF KeptInv, StoreOK
    <2>3. Fits(pc[s], dir, token[s])'
        <3>1. ASSUME pc[s] \in {"link", "untmp"} PROVE dir'["tmp"] = prepared[1]
            BY <1>6, <2>1, <3>1 DEF Fits
        <3>2. ASSUME pc[s] = "link" PROVE dir'["file"] # prepared[1] /\ handle # prepared[1]
            BY <1>6, <2>1, <2>2, <3>2 DEF Fits, Preparing
        <3>3. ASSUME pc[s] = "unclaim"
              PROVE  dir'["claim"] # NoFile /\ data'[dir'["claim"]] = token[s]
            BY <1>3, <1>6, <2>1, <3>3 DEF Fits, Exists, KeptInv, StoreOK, Names
        <3>4. ASSUME pc[s] \in {"post", "unclaim"} PROVE token[s] \notin live'
            BY <1>1, <2>1, <3>4 DEF Fits, KeptInv, StoreOK
        <3> QED BY <1>1, <2>1, <2>2, <3>1, <3>2, <3>3, <3>4 DEF Fits, Exists
    <2> QED BY <1>1, <2>1, <2>3 DEF Holder
<1> QED BY <1>1, <1>4, <1>5, <1>7, <1>8 DEF KeptInv

\* The editor writes to a file, by name or through an open descriptor, unless the
\* lock holder has looked at it for the last time
LEMMA OverwriteKeeps ==
    ASSUME KeptInv, ~Late, NEW i \in Inodes, i = dir["file"] \/ i = handle, Overwrite(i),
           UNCHANGED <<lock, pc, token, prepared, dropped>>, handle' \in {handle, NoFile}
    PROVE  KeptInv'
<1> DEFINE W == live \ {data[i]}
<1>1. /\ ~Unchecked(i) /\ data' = [data EXCEPT ![i] = last + 1] /\ last' = last + 1
      /\ live' = W \cup (IF i \in Linked(dir, Leftovers) THEN {last + 1} ELSE {})
      /\ UNCHANGED <<dir, stale, strays>> /\ Leftovers' = Leftovers /\ Claims' = Claims
    BY DEF Overwrite, entryVars, Leftovers, Claims
<1>2. StoreOK' /\ Dated' /\ Owned' /\ data'[i] = last + 1
    BY <1>1 DEF KeptInv, StoreOK, Dated, Owned
<1>3. Held(dir, Leftovers, data', live' \ dropped')
    <2>1. ASSUME NEW j \in Linked(dir, Leftovers) \ {NoFile}, data[j] \in W \ dropped
          PROVE  j \in Linked(dir, Leftovers) /\ data'[j] = data[j]
        <3>1. j # i /\ j \in Inodes
            BY <2>1 DEF KeptInv, StoreOK, Linked, Leftovers
        <3> QED BY <1>1, <2>1, <3>1 DEF KeptInv, StoreOK
    <2>2. Held(dir, Leftovers, data, live \ dropped)
        BY DEF KeptInv
    <2>3. Held(dir, Leftovers, data', W \ dropped)
        BY <2>1, <2>2, HeldStays
    <2>4. CASE i \in Linked(dir, Leftovers)
        <3>1. i \in Linked(dir, Leftovers) \ {NoFile}
            BY <2>4, DirectoryAssumption
        <3>2. Held(dir, Leftovers, data', (W \ dropped) \cup {last + 1})
            BY <1>2, <2>3, <3>1, HeldMore
        <3> QED BY <1>1, <2>4, <3>2, HeldStays
    <2> QED BY <1>1, <2>3, <2>4
<1>4. ASSUME NEW s \in lock PROVE Holder(s)'
    <2>1. lock = {s} /\ pc[s] \in Locked /\ Fits(pc[s], dir, token[s]) /\ s \in Sessions
          /\ token[s] \in Nat /\ token[s] <= last
        BY <1>4 DEF KeptInv, Holder, StoreOK, Dated
    <2>2. ASSUME pc[s] \in Preparing
          PROVE  /\ prepared \in Inodes \X Nat /\ data'[prepared[1]] = prepared[2]
                 /\ prepared[2] \notin live' /\ prepared[2] > token[s]
        <3>1. /\ prepared \in Inodes \X Nat /\ data[prepared[1]] = prepared[2]
              /\ prepared[2] \notin live /\ prepared[2] > token[s]
            BY <2>1, <2>2 DEF Fits
        <3>2. prepared[1] # i
            BY <1>1, <2>1, <2>2 DEF Fits, Preparing, Unchecked
        <3>3. prepared[2] <= last /\ last \in Nat
            BY <3>1 DEF KeptInv, Dated, StoreOK
        <3> QED BY <1>1, <3>1, <3>2, <3>3 DEF KeptInv, StoreOK
    <2>3. ASSUME pc[s] = "link" PROVE dir["file"] # prepared[1] /\ handle' # prepared[1]
        BY <2>1, <2>2, <2>3, DirectoryAssumption DEF Fits, Preparing
    <2>4. ASSUME pc[s] = "unclaim" PROVE Exists(dir, "claim") /\ data'[dir["claim"]] = token[s]
        BY <1>1, <2>1, <2>4 DEF Fits, Exists, Unchecked, KeptInv, StoreOK, Names
    <2>5. ASSUME pc[s] \in {"post", "unclaim"} PROVE token[s] \notin live'
        BY <1>1, <2>1, <2>5 DEF Fits, KeptInv, StoreOK
    <2>6. Fits(pc[s], dir, token[s])'
        BY <1>1, <2>1, <2>2, <2>3, <2>4, <2>5 DEF Fits, Exists
    <2> QED BY <2>1, <2>6 DEF Holder
<1> QED BY <1>1, <1>2, <1>3, <1>4 DEF KeptInv

LEMMA UserKeeps == ASSUME KeptInv, ~Late, UserStep PROVE KeptInv'
<1>1. CASE SaveByRename
    BY <1>1, RenameKeeps
<1>2. CASE SaveInPlace
    <2>1. dir["file"] \in Inodes
        BY <1>2 DEF SaveInPlace, Exists, KeptInv, StoreOK, Names
    <2> QED BY <1>2, <2>1, OverwriteKeeps DEF SaveInPlace, Editor, sessionVars, faultVars
<1>3. CASE WriteHandle
    <2>1. handle \in Inodes
        BY <1>3 DEF WriteHandle, KeptInv, StoreOK
    <2> QED BY <1>3, <2>1, OverwriteKeeps DEF WriteHandle, Editor, sessionVars, faultVars
<1>4. CASE OpenHandle
    <2>1. /\ Exists(dir, "file") /\ handle' = dir["file"]
          /\ UNCHANGED <<dir, stale, strays, data, last, lock, pc, token, prepared, live, dropped>>
        BY <1>4 DEF OpenHandle, fileVars, entryVars, sessionVars, faultVars
    <2>2. Leftovers' = Leftovers /\ Claims' = Claims
        BY <2>1 DEF Leftovers, Claims
    <2>3. StoreOK' /\ Dated' /\ Owned' /\ Held(dir, Leftovers, data, live \ dropped)'
        BY <2>1, <2>2 DEF KeptInv, StoreOK, Dated, Owned, Names
    <2>4. ASSUME NEW s \in lock PROVE Holder(s)'
        BY <2>1, <2>2, <2>4 DEF KeptInv, Holder, Fits
    <2> QED BY <2>1, <2>3, <2>4 DEF KeptInv
<1>5. CASE Delete
    <2> DEFINE W == live \ FileContent
    <2>1. /\ Exists(dir, "file") /\ dir' = Unlink(dir, "file") /\ live' = W
          /\ UNCHANGED <<stale, strays, data, last, lock, pc, token, prepared, handle, dropped>>
        BY <1>5 DEF Delete, Editor, sessionVars, faultVars
    <2>2. dir \in [Names -> Inodes \cup {NoFile}] /\ Leftovers' = Leftovers
        BY <2>1 DEF KeptInv, StoreOK, Leftovers
    <2>3. /\ dir' \in [Names -> Inodes \cup {NoFile}] /\ dir'["file"] = NoFile
          /\ dir'["tmp"] = dir["tmp"] /\ dir'["claim"] = dir["claim"]
        BY <2>1, <2>2 DEF Unlink, Names
    <2>4. Held(dir', Leftovers, data, W \ dropped)
        <3>1. ASSUME NEW i \in Linked(dir, Leftovers) \ {NoFile}, data[i] \in W \ dropped
              PROVE  i \in Linked(dir', Leftovers)
            <4>1. i # dir["file"]
                BY <2>1, <3>1 DEF FileContent
            <4>2. i \in {dir["file"], dir["tmp"], dir["claim"]} \cup Leftovers
                BY <2>2, LinkedNames
            <4>3. Linked(dir', Leftovers) = {dir'["file"], dir'["tmp"], dir'["claim"]} \cup Leftovers
                BY <2>3, LinkedNames
            <4> QED BY <2>3, <4>1, <4>2, <4>3
        <3>2. Held(dir, Leftovers, data, live \ dropped)
            BY DEF KeptInv
        <3> QED BY <3>1, <3>2, HeldStays
    <2>5. StoreOK' /\ Dated' /\ Owned'
        BY <2>1, <2>3 DEF KeptInv, StoreOK, Dated, Owned, Exists
    <2>6. ASSUME NEW s \in lock PROVE Holder(s)'
        <3>1. lock = {s} /\ pc[s] \in Locked /\ Fits(pc[s], dir, token[s]) /\ pc[s] # "revive"
            BY <2>1, <2>6 DEF KeptInv, Holder, Fits
        <3>2. ASSUME pc[s] \in Preparing
              PROVE  prepared \in Inodes \X Nat /\ dir'["file"] # prepared[1]
            BY <2>3, <3>1, <3>2, DirectoryAssumption DEF Fits
        <3>3. Fits(pc[s], dir, token[s])'
            BY <2>1, <2>3, <3>1, <3>2 DEF Fits, Exists, Preparing
        <3> QED BY <2>1, <3>1, <3>3 DEF Holder
    <2> QED BY <2>1, <2>2, <2>4, <2>5, <2>6 DEF KeptInv
<1> QED BY <1>1, <1>2, <1>3, <1>4, <1>5 DEF UserStep

LEMMA NoEditor == Editing = {} => ~UserStep
BY DEF UserStep, SaveByRename, SaveInPlace, OpenHandle, WriteHandle, Delete, Editor

LEMMA NextKept == ASSUME KeptInv, ~Late \/ Editing = {}, [Next]_vars PROVE KeptInv'
<1>1. ASSUME NEW s \in Sessions, Write(s) PROVE KeptInv'
    BY <1>1, StartsKeep, LooksKeep, MovesKeep, ReviveKeeps, ArchiveKeepsAll, CreateKeeps,
       PublishedKeeps, UndoKeeps, UnclaimKeeps, EndsKeep DEF Write
<1>2. ASSUME UNCHANGED vars PROVE KeptInv'
    <2>1. UNCHANGED <<dir, stale, strays, data, last, lock, pc, token, prepared, handle, live, dropped>>
        BY <1>2 DEF vars, fileVars, entryVars, sessionVars, userVars, faultVars
    <2>2. Leftovers' = Leftovers /\ Claims' = Claims
        BY <2>1 DEF Leftovers, Claims
    <2>3. StoreOK' /\ Dated' /\ Owned' /\ Held(dir, Leftovers, data, live \ dropped)'
        BY <2>1, <2>2 DEF KeptInv, StoreOK, Dated, Owned
    <2>4. ASSUME NEW s \in lock PROVE Holder(s)'
        BY <2>1, <2>2, <2>4 DEF KeptInv, Holder, Fits
    <2> QED BY <2>1, <2>3, <2>4 DEF KeptInv
<1> QED BY <1>1, <1>2, StartsKeep, FaultsKeep, UserKeeps, NoEditor DEF Next, Rest

\* A version that a write or the editor saved, and that nobody who knew it has
\* replaced, can still be read under some name, unless a restoration of it failed
\* once its claim was unlinked (dropped): for every number of sessions, crashes,
\* failing calls and saves, of an editor that knows nothing of the lock (if there
\* is one) and does not save in the moment between the last check of a file and
\* the step that removes or replaces it
THEOREM StoreLosesNothing == ~Late \/ Editing = {} => (Spec => []NothingLost)
<1> SUFFICES ASSUME ~Late \/ Editing = {} PROVE Spec => []NothingLost
    OBVIOUS
<1>1. Init => KeptInv
    BY InitKept
<1>2. KeptInv /\ [Next]_vars => KeptInv'
    BY NextKept
<1>3. KeptInv => NothingLost
    BY DEF KeptInv, Held, NothingLost
<1> QED BY <1>1, <1>2, <1>3, PTL DEF Spec

-----------------------------------------------------------------------------
(* A register *)

\* The inode of a name has no other name
Apart(d, l, n) == d[n] \notin l /\ \A m \in Names \ {n} : d[m] # d[n]

LEMMA NlinkIs ==
    ASSUME NEW d, DOMAIN d = Names, NEW l
    PROVE  /\ \A i \in l : Nlink(d, l, i) = 1 <=> \A n \in Names : d[n] # i
           /\ \A n \in Names : Nlink(d, l, d[n]) = 1 <=> Apart(d, l, n)
<1> DEFINE N(i) == {n \in Names : d[n] = i}
<1>1. IsFiniteSet(Names)
    <2>1. IsFiniteSet({"file"})
        BY FS_Singleton
    <2>2. IsFiniteSet({"file"} \cup {"tmp"})
        BY <2>1, FS_AddElement
    <2>3. IsFiniteSet(({"file"} \cup {"tmp"}) \cup {"claim"})
        BY <2>2, FS_AddElement
    <2>4. Names = ({"file"} \cup {"tmp"}) \cup {"claim"}
        BY DEF Names
    <2> QED BY <2>3, <2>4
<1>2. ASSUME NEW i
      PROVE  /\ Cardinality(N(i)) \in Nat
             /\ Cardinality(N(i)) = 0 <=> N(i) = {}
             /\ Cardinality(N(i)) = 1 <=> \E x : N(i) = {x}
    <2>1. IsFiniteSet(N(i))
        BY <1>1, FS_Subset
    <2> QED BY <2>1, FS_CardinalityType, FS_EmptySet, FS_Singleton
<1>3. ASSUME NEW i
      PROVE  Nlink(d, l, i) = Cardinality(N(i)) + (IF i \in l THEN 1 ELSE 0)
    BY DEF Nlink
<1>4. ASSUME NEW i \in l PROVE Nlink(d, l, i) = 1 <=> \A n \in Names : d[n] # i
    <2>1. Nlink(d, l, i) = Cardinality(N(i)) + 1
        BY <1>3, <1>4
    <2>2. Cardinality(N(i)) \in Nat /\ (Cardinality(N(i)) = 0 <=> N(i) = {})
        BY <1>2
    <2>3. Nlink(d, l, i) = 1 <=> N(i) = {}
        <3> HIDE DEF N
        <3> QED BY <2>1, <2>2
    <2> QED BY <2>3
<1>5. ASSUME NEW n \in Names PROVE Nlink(d, l, d[n]) = 1 <=> Apart(d, l, n)
    <2>1. n \in N(d[n]) /\ Cardinality(N(d[n])) # 0
        BY <1>2
    <2>2. Nlink(d, l, d[n]) = 1 <=> d[n] \notin l /\ Cardinality(N(d[n])) = 1
        BY <1>2, <1>3, <2>1
    <2>3. (\E x : N(d[n]) = {x}) <=> \A m \in Names \ {n} : d[m] # d[n]
        BY <2>1
    <2> QED BY <1>2, <2>2, <2>3 DEF Apart
<1> QED BY <1>4, <1>5

\* What is under the names is ordered: a claim that is left over is older than
\* the file and than the claim of the lock holder, and that one than the file
Ranked(d) ==
    /\ \A i \in stale : \A n \in Names : d[n] # i
    /\ Exists(d, "file") => \A i \in stale : data[i] <= data[d["file"]]
    /\ Exists(d, "claim") =>
           /\ d["claim"] \notin {d["file"], d["tmp"]} \cup Leftovers
           /\ \A i \in stale : data[i] <= data[d["claim"]]
           /\ Exists(d, "file") => data[d["claim"]] <= data[d["file"]]

\* What the lock holder knows at each step: p is where it is, t its token
Knows(p, d, t) ==
    /\ p \notin {"undo", "undo2", "restore", "restore2"}
    /\ p = "initial" => Exists(d, "file") \/ stale = {}
    /\ p = "absent" => ~Exists(d, "file") /\ stale = {} /\ t = Absent
    /\ p = "claim" => /\ Exists(d, "file") /\ Apart(d, Leftovers, "file")
                      /\ data[d["file"]] = t
    /\ p \in {"verify", "confirm", "archive", "final", "create", "link"} => ~Exists(d, "file")
    /\ p \in {"verify", "confirm", "archive", "final", "post", "unclaim"} =>
           Exists(d, "claim") /\ data[d["claim"]] = t
    /\ p \in {"create", "link", "untmp", "published"} =>
           \/ Exists(d, "claim") /\ data[d["claim"]] = t
           \/ ~Exists(d, "claim") /\ stale = {} /\ t = Absent
    /\ p = "link" => d["tmp"] \notin Leftovers
    /\ p \in {"untmp", "published"} => d["file"] = prepared[1] /\ d["file"] \notin Leftovers
    /\ p \in {"post", "unclaim", "prune"} => Exists(d, "file")

Written(d) == \A i \in Linked(d, Leftovers) \ {NoFile} : data[i] >= 1

Quiet == /\ errors = 0 /\ Written(dir) /\ Ranked(dir)
         /\ \A s \in lock : Knows(pc[s], dir, token[s])

\* The newest of a set of inodes
Top(S, D) == IF S = {} THEN Absent ELSE D[CHOOSE i \in S : \A j \in S : D[j] <= D[i]]

Val == IF Exists(dir, "file") THEN data[dir["file"]]
       ELSE Top(stale \cup ({dir["claim"]} \ {NoFile}), data)

LEMMA TopIs ==
    ASSUME NEW D \in [Inodes -> Nat], NEW S, S \subseteq Inodes, NEW i \in S,
           \A j \in S : D[j] <= D[i]
    PROVE  Top(S, D) = D[i]
<1> DEFINE c == CHOOSE k \in S : \A j \in S : D[j] <= D[k]
<1>1. c \in S /\ \A j \in S : D[j] <= D[c]
    OBVIOUS
<1>2. D[c] \in Nat /\ D[i] \in Nat /\ D[i] <= D[c] /\ D[c] <= D[i]
    BY <1>1
<1>3. D[c] = D[i]
    BY <1>2
<1> QED BY <1>3 DEF Top

LEMMA SinglesAre ==
    KeptInv /\ Quiet =>
        /\ Claims = stale
        /\ \A n \in Names : Single(n) <=> Exists(dir, n) /\ Apart(dir, Leftovers, n)
<1> SUFFICES ASSUME KeptInv, Quiet
             PROVE  /\ Claims = stale
                    /\ \A n \in Names : Single(n) <=> Exists(dir, n) /\ Apart(dir, Leftovers, n)
    OBVIOUS
<1>1. DOMAIN dir = Names
    BY DEF KeptInv, StoreOK
<1>2. /\ \A i \in Leftovers : Nlink(dir, Leftovers, i) = 1 <=> \A n \in Names : dir[n] # i
      /\ \A n \in Names : Nlink(dir, Leftovers, dir[n]) = 1 <=> Apart(dir, Leftovers, n)
    BY <1>1, NlinkIs
<1>3. Claims = stale
    BY <1>2 DEF Claims, Leftovers, Quiet, Ranked
<1> QED BY <1>2, <1>3 DEF Single

LEMMA ValueIs == KeptInv /\ Quiet => Value = Val
<1> SUFFICES ASSUME KeptInv, Quiet PROVE Value = Val
    OBVIOUS
<1>1. Claims = stale /\ (Single("claim") <=> Exists(dir, "claim") /\ Apart(dir, Leftovers, "claim"))
    BY SinglesAre DEF Names
<1>2. Exists(dir, "claim") => Nlink(dir, Leftovers, dir["claim"]) = 1
    BY <1>1 DEF Quiet, Ranked, Apart, Names, Single
<1>3. Candidates = stale \cup ({dir["claim"]} \ {NoFile})
    BY <1>1, <1>2 DEF Candidates, Exists
<1> QED BY <1>3 DEF Value, Val, Top

QuietInv == KeptInv /\ Quiet

\* How a step appears to who knows only the register: nothing happens, or the
\* session ends; it takes a draft; its write is accepted
Stays(s) == /\ UNCHANGED <<Val, token>>
            /\ \E p : /\ Go(s, p)
                      /\ Stage(p) = Stage(pc[s]) \/ (p \in Ended /\ pc[s] \notin Ended)
Drafts(s) == /\ pc[s] = "read" /\ Go(s, "lock") /\ UNCHANGED Val
             /\ \E v \in {Val, Absent} : token' = [token EXCEPT ![s] = v]
Accepts(s) == /\ pc[s] = "link" /\ Go(s, "untmp") /\ UNCHANGED token
              /\ Val = token[s] /\ Val' > Val
RegisterStep(s) == Stays(s) \/ Drafts(s) \/ Accepts(s)

\* What is known when session s, which has the lock, takes a step
LEMMA Quietly ==
    ASSUME QuietInv, NEW s \in Sessions, lock = {s}
    PROVE  /\ Fits(pc[s], dir, token[s]) /\ Knows(pc[s], dir, token[s]) /\ pc[s] \in Locked
           /\ Exists(dir, "tmp") => pc[s] \in {"link", "untmp"}
           /\ Exists(dir, "claim") => pc[s] \in HoldsClaim
           /\ dir \in [Names -> Inodes \cup {NoFile}] /\ dir = [n \in Names |-> dir[n]]
           /\ Written(dir) /\ Ranked(dir) /\ errors = 0
BY Holds DEF QuietInv, Quiet, KeptInv, StoreOK

LEMMA GoQuiet ==
    ASSUME QuietInv, NEW s \in Sessions, lock = {s}, NEW p \in Locked, Go(s, p),
           UNCHANGED <<stale, strays, lock, data, token, prepared, errors>>,
           NEW d \in [Names -> Inodes \cup {NoFile}], dir' = d,
           \A n \in Names : d[n] \in {NoFile} \cup {dir[m] : m \in Names},
           Ranked(d), Knows(p, d, token[s])
    PROVE  Quiet'
<1>1. pc' = [pc EXCEPT ![s] = p] /\ pc'[s] = p /\ Leftovers' = Leftovers
    BY DEF Go, QuietInv, KeptInv, StoreOK, Leftovers
<1>2. Written(d)
    BY DEF QuietInv, Quiet, Written, Linked, KeptInv, StoreOK
<1>3. Written(dir)' /\ Ranked(dir)'
    BY <1>1, <1>2 DEF Written, Ranked
<1>4. Knows(pc[s], dir, token[s])'
    BY <1>1 DEF Knows, Apart
<1> QED BY <1>1, <1>3, <1>4 DEF QuietInv, Quiet

\* A write ends: the value stays, and so does the order of what is left
LEMMA EndQuiet ==
    ASSUME QuietInv, NEW s \in Sessions, NEW r \in Ended, pc[s] \notin Ended,
           NEW d \in [Names -> Inodes \cup {NoFile}], End(s, r, d),
           UNCHANGED <<data, token, errors>>,
           d = dir \/ (d = Unlink(dir, "claim") /\ Exists(dir, "file"))
    PROVE  Quiet' /\ Stays(s)
<1>1. /\ dir' = [d EXCEPT !["tmp"] = NoFile, !["claim"] = NoFile] /\ lock' = {}
      /\ stale' = stale \cup ({d["claim"]} \ {NoFile})
      /\ strays' = strays \cup ({d["tmp"]} \ {NoFile})
      /\ Go(s, r)
    BY DEF End
<1>2. /\ dir'["tmp"] = NoFile /\ dir'["claim"] = NoFile /\ dir'["file"] = dir["file"]
      /\ d["file"] = dir["file"] /\ d["tmp"] = dir["tmp"] /\ d["claim"] \in {dir["claim"], NoFile}
      /\ dir' \in [Names -> Inodes \cup {NoFile}] /\ dir \in [Names -> Inodes \cup {NoFile}]
    BY <1>1 DEF Unlink, Names, QuietInv, KeptInv, StoreOK
<1>3. Written(dir) /\ Ranked(dir) /\ stale \subseteq Inodes /\ data \in [Inodes -> Nat]
    BY DEF QuietInv, Quiet, KeptInv, StoreOK
<1>4. Written(dir)'
    <2>1. DOMAIN dir = Names /\ DOMAIN dir' = Names
        BY <1>2
    <2>2. /\ Linked(dir, Leftovers) = {dir["file"], dir["tmp"], dir["claim"]} \cup Leftovers
          /\ Linked(dir', Leftovers') = {dir'["file"], dir'["tmp"], dir'["claim"]} \cup Leftovers'
        BY <2>1, LinkedNames
    <2>3. ASSUME NEW i \in Linked(dir', Leftovers') \ {NoFile}
          PROVE  i \in Linked(dir, Leftovers) \ {NoFile}
        BY <1>1, <1>2, <2>2, <2>3 DEF Leftovers
    <2> QED BY <1>3, <2>3 DEF Written
<1>5. Ranked(dir)'
    <2>1. ASSUME NEW i \in stale' PROVE i \in stale \/ (i = dir["claim"] /\ Exists(dir, "claim"))
        BY <1>1, <1>2 DEF Exists
    <2>2. ASSUME NEW i \in stale', NEW n \in Names PROVE dir'[n] # i
        BY <1>2, <1>3, <2>1, <2>2, DirectoryAssumption DEF Ranked, Names, Exists
    <2>3. ASSUME NEW i \in stale', Exists(dir', "file") PROVE data[i] <= data[dir'["file"]]
        BY <1>2, <1>3, <2>1, <2>3 DEF Ranked, Exists
    <2> QED BY <1>2, <2>2, <2>3 DEF Ranked, Exists
<1>6. Val' = Val
    <2>1. CASE Exists(dir, "file")
        BY <1>2, <2>1 DEF Val, Exists
    <2>2. CASE ~Exists(dir, "file")
        <3>1. d = dir /\ stale' \cup ({dir'["claim"]} \ {NoFile}) = stale \cup ({dir["claim"]} \ {NoFile})
            BY <1>1, <1>2, <2>2
        <3> QED BY <1>2, <2>2, <3>1 DEF Val, Exists
    <2> QED BY <2>1, <2>2
<1>7. Quiet'
    BY <1>1, <1>4, <1>5 DEF QuietInv, Quiet
<1>8. Stays(s)
    BY <1>1, <1>6 DEF Stays
<1> QED BY <1>7, <1>8

LEMMA RefuseQuiet ==
    ASSUME QuietInv, NEW s \in Sessions, lock = {s}, Refuse(s), UNCHANGED token,
           pc[s] \in {"preread", "recover", "initial"}
    PROVE  Quiet' /\ Stays(s)
<1>1. End(s, "refused", dir) /\ UNCHANGED <<data, errors>>
    BY DEF Refuse, Raise
<1>2. dir \in [Names -> Inodes \cup {NoFile}] /\ pc[s] \notin Ended
    BY Quietly DEF Ended
<1> QED BY <1>1, <1>2, EndQuiet DEF Ended

\* A look changes nothing
LEMMA LookQuiet ==
    ASSUME QuietInv, NEW s \in Sessions, lock = {s}, NEW p \in Locked, Go(s, p), Same,
           UNCHANGED token, Knows(p, dir, token[s]), Stage(p) = Stage(pc[s])
    PROVE  Quiet' /\ Stays(s)
<1>1. UNCHANGED <<dir, stale, strays, data, last, lock, prepared, errors>>
    BY DEF Same, fileVars, entryVars
<1>2. Ranked(dir) /\ dir \in [Names -> Inodes \cup {NoFile}]
    BY Quietly
<1>3. Quiet'
    BY <1>1, <1>2, GoQuiet
<1>4. Val' = Val
    BY <1>1 DEF Val
<1> QED BY <1>3, <1>4 DEF Stays

LEMMA LooksQuiet ==
    ASSUME QuietInv, NEW s \in Sessions,
           \/ ReadPrior(s) \/ RecoverLook(s) \/ ReadInitial(s) \/ ConfirmAbsent(s)
           \/ CheckClaim(s) \/ CheckPost(s) \/ UndoLook(s) \/ RestoreUnlink(s)
           \/ RestoreLink(s) \/ UndoUnlink(s)
    PROVE  Quiet' /\ Stays(s)
<1>1. lock = {s} /\ UNCHANGED token
    BY DEF ReadPrior, RecoverLook, ReadInitial, ConfirmAbsent, CheckClaim, UndoLook, CheckPost,
           RestoreUnlink, RestoreLink, UndoUnlink, At
<1>2. /\ Knows(pc[s], dir, token[s]) /\ Written(dir) /\ Ranked(dir)
      /\ dir \in [Names -> Inodes \cup {NoFile}]
      /\ Exists(dir, "tmp") => pc[s] \in {"link", "untmp"}
      /\ Exists(dir, "claim") => pc[s] \in HoldsClaim
    BY <1>1, Quietly
<1>3. \A n \in Names : Single(n) <=> Exists(dir, n) /\ Apart(dir, Leftovers, n)
    BY SinglesAre DEF QuietInv
<1>4. CASE ReadPrior(s)
    <2>1. pc[s] = "preread" /\ (Refuse(s) \/ (Same /\ Go(s, "recover")))
        BY <1>4 DEF ReadPrior, At
    <2>2. Knows("recover", dir, token[s]) /\ Stage("recover") = Stage("preread")
        BY DEF Knows, Stage, Ended
    <2> QED BY <1>1, <2>1, <2>2, LookQuiet, RefuseQuiet DEF Locked
<1>5. CASE RecoverLook(s)
    <2>1. pc[s] = "recover"
        BY <1>5 DEF RecoverLook, At
    <2>2. Stage("initial") = Stage("recover") /\ Stage("revive") = Stage("recover")
        BY DEF Stage, Ended
    <2>3. CASE Refuse(s)
        BY <1>1, <2>1, <2>3, RefuseQuiet
    <2>4. CASE Same /\ Go(s, "revive")
        <3>1. Knows("revive", dir, token[s])
            BY DEF Knows
        <3> QED BY <1>1, <2>1, <2>2, <2>4, <3>1, LookQuiet DEF Locked
    <2>5. CASE Same /\ Go(s, "initial") /\ (Claims = {} \/ Single("file"))
        <3>1. Exists(dir, "file") \/ stale = {}
            BY <2>5, SinglesAre DEF QuietInv, Single
        <3>2. Knows("initial", dir, token[s])
            BY <3>1 DEF Knows
        <3> QED BY <1>1, <2>1, <2>2, <2>5, <3>2, LookQuiet DEF Locked
    <2> QED BY <1>5, <2>3, <2>4, <2>5 DEF RecoverLook
<1>6. CASE ReadInitial(s)
    <2>1. pc[s] = "initial"
        BY <1>6 DEF ReadInitial, At
    <2>2. Stage("absent") = Stage("initial") /\ Stage("claim") = Stage("initial")
        BY DEF Stage, Ended
    <2>3. CASE Refuse(s)
        BY <1>1, <2>1, <2>3, RefuseQuiet
    <2>4. CASE ~Refuse(s)
        <3>1. /\ Current(token[s]) /\ Same
              /\ Go(s, IF token[s] = Absent THEN "absent" ELSE "claim")
            BY <1>6, <2>4 DEF ReadInitial
        <3>2. Exists(dir, "file") => data[dir["file"]] # Absent
            <4>1. ASSUME Exists(dir, "file") PROVE dir["file"] \in Linked(dir, Leftovers) \ {NoFile}
                BY <1>2, <4>1 DEF Linked, Names, Exists
            <4> QED BY <1>2, <4>1 DEF Written, Absent
        <3>3. CASE token[s] = Absent
            <4>1. ~Exists(dir, "file")
                BY <3>1, <3>2, <3>3 DEF Current, Reads, Single
            <4>2. Knows("absent", dir, token[s])
                BY <1>2, <2>1, <3>3, <4>1 DEF Knows
            <4> QED BY <1>1, <2>1, <2>2, <3>1, <3>3, <4>2, LookQuiet DEF Locked
        <3>4. CASE token[s] # Absent
            <4>1. Exists(dir, "file") /\ Apart(dir, Leftovers, "file") /\ data[dir["file"]] = token[s]
                BY <1>3, <3>1, <3>4 DEF Current, Reads, Names
            <4>2. Knows("claim", dir, token[s])
                BY <4>1 DEF Knows
            <4> QED BY <1>1, <2>1, <2>2, <3>1, <3>4, <4>2, LookQuiet DEF Locked
        <3> QED BY <3>3, <3>4
    <2> QED BY <2>3, <2>4
<1>7. CASE ConfirmAbsent(s)
    <2>1. pc[s] = "absent" /\ ~Exists(dir, "file") /\ stale = {} /\ token[s] = Absent
        BY <1>2, <1>7 DEF ConfirmAbsent, At, Knows
    <2>2. Same /\ Go(s, "create")
        BY <1>7, <2>1 DEF ConfirmAbsent
    <2>3. ~Exists(dir, "claim")
        BY <1>2, <2>1 DEF HoldsClaim
    <2>4. Knows("create", dir, token[s]) /\ Stage("create") = Stage("absent")
        BY <2>1, <2>3 DEF Knows, Stage, Ended
    <2> QED BY <1>1, <2>1, <2>2, <2>4, LookQuiet DEF Locked
<1>8. CASE CheckClaim(s) \/ CheckPost(s)
    <2>1. /\ pc[s] \in {"verify", "confirm", "final", "post"}
          /\ Exists(dir, "claim") /\ data[dir["claim"]] = token[s]
        BY <1>2, <1>8 DEF CheckClaim, CheckPost, At, Knows
    <2>2. Apart(dir, Leftovers, "claim")
        BY <1>2, <2>1 DEF Ranked, Apart, Names
    <2>3. Reads("claim", token[s])
        BY <1>3, <2>1, <2>2 DEF Reads, Names
    <2>4. CASE pc[s] = "verify"
        <3>1. Same /\ Go(s, "confirm")
            BY <1>8, <2>3, <2>4 DEF CheckClaim, CheckPost, At
        <3>2. Knows("confirm", dir, token[s]) /\ Stage("confirm") = Stage("verify")
            BY <1>2, <2>1, <2>4 DEF Knows, Stage, Ended
        <3> QED BY <1>1, <2>4, <3>1, <3>2, LookQuiet DEF Locked
    <2>5. CASE pc[s] = "confirm"
        <3>1. Same /\ (Go(s, "archive") \/ Go(s, "final"))
            BY <1>8, <2>3, <2>5 DEF CheckClaim, CheckPost, At
        <3>2. /\ Knows("archive", dir, token[s]) /\ Stage("archive") = Stage("confirm")
              /\ Knows("final", dir, token[s]) /\ Stage("final") = Stage("confirm")
            BY <1>2, <2>1, <2>5 DEF Knows, Stage, Ended
        <3> QED BY <1>1, <2>5, <3>1, <3>2, LookQuiet DEF Locked
    <2>6. CASE pc[s] = "final"
        <3>1. Same /\ Go(s, "create")
            BY <1>8, <2>3, <2>6 DEF CheckClaim, CheckPost, At
        <3>2. Knows("create", dir, token[s]) /\ Stage("create") = Stage("final")
            BY <1>2, <2>1, <2>6 DEF Knows, Stage, Ended
        <3> QED BY <1>1, <2>6, <3>1, <3>2, LookQuiet DEF Locked
    <2>7. CASE pc[s] = "post"
        <3>1. Same /\ Go(s, "unclaim")
            BY <1>8, <2>3, <2>7 DEF CheckClaim, CheckPost, At
        <3>2. Knows("unclaim", dir, token[s]) /\ Stage("unclaim") = Stage("post")
            BY <1>2, <2>1, <2>7 DEF Knows, Stage, Ended
        <3> QED BY <1>1, <2>7, <3>1, <3>2, LookQuiet DEF Locked
    <2> QED BY <2>1, <2>4, <2>5, <2>6, <2>7
<1>9. CASE UndoLook(s) \/ RestoreUnlink(s) \/ RestoreLink(s) \/ UndoUnlink(s)
    BY <1>2, <1>9 DEF UndoLook, RestoreUnlink, RestoreLink, UndoUnlink, At, Knows
<1> QED BY <1>4, <1>5, <1>6, <1>7, <1>8, <1>9

\* The claim is the newest of what is left while the name is free
LEMMA ClaimIsTop ==
    ASSUME QuietInv, ~Exists(dir, "file"), Exists(dir, "claim")
    PROVE  Val = data[dir["claim"]]
<1>1. /\ dir["claim"] \in Inodes /\ stale \subseteq Inodes /\ data \in [Inodes -> Nat]
      /\ \A i \in stale : data[i] <= data[dir["claim"]]
    BY DEF QuietInv, Quiet, Ranked, KeptInv, StoreOK, Exists, Names
<1> DEFINE S == stale \cup ({dir["claim"]} \ {NoFile})
<1>2. S \subseteq Inodes /\ dir["claim"] \in S /\ \A j \in S : data[j] <= data[dir["claim"]]
    BY <1>1, DirectoryAssumption
<1>3. Top(S, data) = data[dir["claim"]]
    BY <1>1, <1>2, TopIs
<1> QED BY <1>3 DEF Val

LEMMA ClaimQuiet == ASSUME QuietInv, NEW s \in Sessions, ClaimExisting(s) PROVE Quiet' /\ Stays(s)
<1> DEFINE d == Rename(dir, "file", "claim")
<1>1. lock = {s} /\ pc[s] = "claim" /\ UNCHANGED token
    BY DEF ClaimExisting, At
<1>2. /\ Knows("claim", dir, token[s]) /\ Ranked(dir)
      /\ dir \in [Names -> Inodes \cup {NoFile}]
      /\ ~Exists(dir, "tmp") /\ ~Exists(dir, "claim")
    BY <1>1, Quietly DEF HoldsClaim
<1>3. Exists(dir, "file") /\ Apart(dir, Leftovers, "file") /\ data[dir["file"]] = token[s]
    BY <1>2 DEF Knows
<1>4. /\ dir' = d /\ Go(s, "verify")
      /\ UNCHANGED <<stale, strays, data, lock, prepared, errors>>
    BY <1>3 DEF ClaimExisting, Changed
<1>5. /\ d \in [Names -> Inodes \cup {NoFile}] /\ d["file"] = NoFile /\ d["tmp"] = NoFile
      /\ d["claim"] = dir["file"]
    BY <1>2 DEF Rename, Names, Exists
<1>6. \A n \in Names : d[n] \in {NoFile} \cup {dir[m] : m \in Names}
    BY <1>5 DEF Names
<1>7. Ranked(d)
    BY <1>2, <1>3, <1>5, DirectoryAssumption DEF Ranked, Exists, Apart, Names, Leftovers, QuietInv,
                                                 KeptInv, StoreOK
<1>8. Knows("verify", d, token[s])
    BY <1>3, <1>5 DEF Knows, Exists
<1>9. Quiet'
    BY <1>1, <1>4, <1>5, <1>6, <1>7, <1>8, GoQuiet DEF Locked
<1>10. Val' = Val
    <2>1. Val = data[dir["file"]]
        BY <1>3 DEF Val
    <2>2. /\ dir["file"] \in Inodes /\ stale \subseteq Inodes /\ data \in [Inodes -> Nat]
          /\ \A i \in stale : data[i] <= data[dir["file"]]
        BY <1>2, <1>3 DEF QuietInv, KeptInv, StoreOK, Ranked, Exists, Names
    <2> DEFINE S == stale \cup ({dir["file"]} \ {NoFile})
    <2>3. S \subseteq Inodes /\ dir["file"] \in S /\ \A j \in S : data[j] <= data[dir["file"]]
        BY <2>2, DirectoryAssumption
    <2>4. Top(S, data) = data[dir["file"]]
        BY <2>2, <2>3, TopIs
    <2> QED BY <1>4, <1>5, <2>1, <2>4 DEF Val, Exists
<1>11. Stage("verify") = Stage("claim")
    BY DEF Stage, Ended
<1> QED BY <1>1, <1>4, <1>9, <1>10, <1>11 DEF Stays

LEMMA ReviveQuiet == ASSUME QuietInv, NEW s \in Sessions, Revive(s) PROVE Quiet' /\ Stays(s)
<1>1. /\ lock = {s} /\ pc[s] = "revive" /\ lock' = {s} /\ pc' = [pc EXCEPT ![s] = "initial"]
      /\ dir' = [dir EXCEPT !["file"] = Newest] /\ stale' = stale \ {Newest} /\ Go(s, "initial")
      /\ UNCHANGED <<strays, data, token, prepared, errors>>
    BY DEF Revive, At, Go
<1>2. /\ Fits("revive", dir, token[s]) /\ Ranked(dir) /\ Written(dir) /\ errors = 0
      /\ dir \in [Names -> Inodes \cup {NoFile}] /\ stale \subseteq Inodes
      /\ data \in [Inodes -> Nat] /\ ~Exists(dir, "tmp") /\ ~Exists(dir, "claim")
    BY <1>1, Quietly DEF HoldsClaim, QuietInv, KeptInv, StoreOK
<1>3. Claims = stale
    BY SinglesAre DEF QuietInv
<1>4. /\ Newest \in stale /\ \A j \in stale : data[j] <= data[Newest]
      /\ ~Exists(dir, "file")
    BY <1>2, <1>3, NewestIsStale DEF Fits, QuietInv
<1>5. /\ dir' \in [Names -> Inodes \cup {NoFile}] /\ dir'["file"] = Newest
      /\ dir'["tmp"] = NoFile /\ dir'["claim"] = NoFile /\ Newest # NoFile
    BY <1>1, <1>2, <1>4, DirectoryAssumption DEF Names, Exists
<1>6. Ranked(dir)'
    BY <1>1, <1>2, <1>4, <1>5, DirectoryAssumption DEF Ranked, Exists, Names
<1>7. Written(dir)'
    <2>1. DOMAIN dir = Names /\ DOMAIN dir' = Names
        BY <1>2, <1>5
    <2>2. /\ Linked(dir, Leftovers) = {dir["file"], dir["tmp"], dir["claim"]} \cup Leftovers
          /\ Linked(dir', Leftovers') = {dir'["file"], dir'["tmp"], dir'["claim"]} \cup Leftovers'
        BY <2>1, LinkedNames
    <2>3. ASSUME NEW i \in Linked(dir', Leftovers') \ {NoFile}
          PROVE  i \in Linked(dir, Leftovers) \ {NoFile}
        BY <1>1, <1>4, <1>5, <2>2, <2>3 DEF Leftovers
    <2> QED BY <1>1, <1>2, <2>3 DEF Written
<1>8. Knows(pc[s], dir, token[s])' /\ Stage("initial") = Stage("revive")
    BY <1>1, <1>5 DEF Knows, Exists, QuietInv, KeptInv, StoreOK, Stage, Ended
<1>9. Quiet'
    BY <1>1, <1>2, <1>6, <1>7, <1>8 DEF Quiet
<1>10. Val' = Val
    <2>1. stale \cup ({dir["claim"]} \ {NoFile}) = stale
        BY <1>2 DEF Exists
    <2>2. Top(stale, data) = data[Newest]
        BY <1>2, <1>4, TopIs
    <2> QED BY <1>1, <1>4, <1>5, <2>1, <2>2 DEF Val, Exists
<1> QED BY <1>1, <1>8, <1>9, <1>10 DEF Stays

LEMMA CreateQuiet == ASSUME QuietInv, NEW s \in Sessions, CreateTemporary(s) PROVE Quiet' /\ Stays(s)
<1>1. /\ lock = {s} /\ pc[s] = "create" /\ lock' = {s} /\ pc' = [pc EXCEPT ![s] = "link"]
      /\ Go(s, "link") /\ Write1("tmp") /\ prepared' = <<New, last + 1>>
      /\ UNCHANGED <<token, errors, live>>
    BY DEF CreateTemporary, At, Go
<1>2. /\ Knows("create", dir, token[s]) /\ Ranked(dir) /\ Written(dir) /\ errors = 0
      /\ ~Exists(dir, "tmp") /\ dir \in [Names -> Inodes \cup {NoFile}]
      /\ stale \subseteq Inodes /\ strays \subseteq Inodes /\ data \in [Inodes -> Nat]
      /\ last \in Nat
    BY <1>1, Quietly DEF QuietInv, KeptInv, StoreOK
<1>3. /\ New \in Inodes /\ New \notin Linked(dir, Leftovers)
      /\ dir' \in [Names -> Inodes \cup {NoFile}] /\ dir' = [dir EXCEPT !["tmp"] = New]
      /\ data' = [data EXCEPT ![New] = last + 1] /\ data' \in [Inodes -> Nat]
      /\ UNCHANGED <<stale, strays>> /\ Leftovers' = Leftovers /\ data'[New] = last + 1
    BY <1>1, <1>2, WrittenHeld DEF QuietInv, Names, Exists
<1>4. /\ Linked(dir, Leftovers) = {dir["file"], dir["tmp"], dir["claim"]} \cup Leftovers
      /\ Linked(dir', Leftovers) = {dir'["file"], dir'["tmp"], dir'["claim"]} \cup Leftovers
    BY <1>2, <1>3, LinkedNames
<1>5. /\ dir'["file"] = dir["file"] /\ dir'["claim"] = dir["claim"] /\ dir'["tmp"] = New
      /\ New \notin Leftovers /\ New # dir["claim"] /\ New # dir["file"]
    BY <1>2, <1>3, <1>4 DEF Names
<1>6. \A i \in Leftovers \cup ({dir["claim"], dir["file"]} \ {NoFile}) : data'[i] = data[i]
    BY <1>2, <1>3, <1>5 DEF Leftovers, Names
<1>7. Written(dir)'
    <2>1. ASSUME NEW i \in Linked(dir', Leftovers') \ {NoFile} PROVE data'[i] >= 1
        <3>1. CASE i = New
            BY <1>2, <1>3, <3>1
        <3>2. CASE i # New
            <4>1. i \in Linked(dir, Leftovers) \ {NoFile}
                  /\ i \in Leftovers \cup ({dir["claim"], dir["file"]} \ {NoFile})
                BY <1>3, <1>4, <1>5, <2>1, <3>2
            <4> QED BY <1>2, <1>6, <4>1 DEF Written
        <3> QED BY <3>1, <3>2
    <2> QED BY <2>1 DEF Written
<1>8. Ranked(dir)'
    <2>1. \A i \in stale : \A n \in Names : dir'[n] # i
        BY <1>2, <1>5 DEF Ranked, Names, Leftovers
    <2>2. ~Exists(dir', "file")
        BY <1>2, <1>5 DEF Knows, Exists
    <2>3. Exists(dir', "claim") => dir["claim"] \notin {dir'["file"], New} \cup Leftovers
        BY <1>2, <1>5 DEF Ranked, Exists
    <2>4. Exists(dir', "claim") => \A i \in stale : data'[i] <= data'[dir["claim"]]
        BY <1>2, <1>5, <1>6 DEF Ranked, Exists, Leftovers
    <2> QED BY <1>3, <1>5, <2>1, <2>2, <2>3, <2>4 DEF Ranked
<1>9. Knows("link", dir, token[s])'
    BY <1>1, <1>2, <1>3, <1>5, <1>6 DEF Knows, Exists
<1>10. Quiet'
    BY <1>1, <1>2, <1>7, <1>8, <1>9 DEF Quiet, QuietInv, KeptInv, StoreOK
<1>11. Val' = Val
    <2> DEFINE S == stale \cup ({dir["claim"]} \ {NoFile})
    <2>1. ~Exists(dir, "file") /\ ~Exists(dir', "file")
        BY <1>2, <1>5 DEF Knows, Exists
    <2>2. CASE Exists(dir, "claim")
        <3>1. Val = data[dir["claim"]]
            BY <2>1, <2>2, ClaimIsTop
        <3>2. /\ dir["claim"] \in S /\ S \subseteq Inodes /\ \A j \in S : data'[j] <= data'[dir["claim"]]
            <4>1. dir["claim"] \in Inodes /\ dir["claim"] # NoFile
                BY <1>2, <2>2 DEF Exists, Names
            <4>2. \A j \in stale : data'[j] = data[j] /\ data[j] <= data[dir["claim"]]
                BY <1>2, <1>6, <2>2 DEF Ranked, Leftovers
            <4>3. data'[dir["claim"]] = data[dir["claim"]] /\ data[dir["claim"]] \in Nat
                BY <1>2, <1>6, <4>1
            <4> QED BY <1>2, <4>1, <4>2, <4>3
        <3>3. Top(S, data') = data'[dir["claim"]]
            BY <1>3, <3>2, TopIs
        <3>4. data'[dir["claim"]] = data[dir["claim"]]
            BY <1>6, <2>2 DEF Exists
        <3> QED BY <1>3, <1>5, <2>1, <3>1, <3>3, <3>4 DEF Val
    <2>3. CASE ~Exists(dir, "claim")
        <3>1. S = {} /\ stale' \cup ({dir'["claim"]} \ {NoFile}) = {}
            BY <1>2, <1>3, <1>5, <2>3 DEF Knows, Exists
        <3> QED BY <2>1, <3>1 DEF Val, Top
    <2> QED BY <2>2, <2>3
<1>12. Stage("link") = Stage("create")
    BY DEF Stage, Ended
<1> QED BY <1>1, <1>10, <1>11, <1>12 DEF Stays

\* The publication: the value was the session's token
LEMMA LinkQuiet == ASSUME QuietInv, NEW s \in Sessions, LinkFile(s) PROVE Quiet' /\ Accepts(s)
<1> DEFINE d == Link(dir, "tmp", "file")
<1>1. lock = {s} /\ pc[s] = "link" /\ UNCHANGED token
    BY DEF LinkFile, At
<1>2. /\ Fits("link", dir, token[s]) /\ Knows("link", dir, token[s]) /\ Ranked(dir)
      /\ dir \in [Names -> Inodes \cup {NoFile}]
      /\ stale \subseteq Inodes /\ data \in [Inodes -> Nat] /\ token[s] \in Nat
    BY <1>1, Quietly DEF QuietInv, KeptInv, StoreOK
<1>3. /\ dir' = d /\ Go(s, "untmp") /\ ~Exists(dir, "file")
      /\ UNCHANGED <<stale, strays, data, lock, prepared, errors>>
    BY <1>2 DEF LinkFile, Changed, Knows
<1>4. /\ prepared \in Inodes \X Nat /\ data[prepared[1]] = prepared[2] /\ prepared[2] > token[s]
      /\ dir["tmp"] = prepared[1] /\ dir["tmp"] \notin Leftovers
    BY <1>2 DEF Fits, Knows, Preparing
<1>5. /\ d \in [Names -> Inodes \cup {NoFile}] /\ d["file"] = prepared[1]
      /\ d["tmp"] = prepared[1] /\ d["claim"] = dir["claim"] /\ prepared[1] # NoFile
    BY <1>2, <1>4, DirectoryAssumption DEF Link, Names
<1>6. \A n \in Names : d[n] \in {NoFile} \cup {dir[m] : m \in Names}
    BY <1>4, <1>5 DEF Names
<1>7. Exists(dir, "claim") => data[dir["claim"]] = token[s] /\ dir["claim"] # prepared[1]
    BY <1>2, <1>4 DEF Knows, Ranked
<1>8. \A i \in stale : data[i] <= token[s]
    BY <1>2, <1>7 DEF Knows, Ranked
<1>9. Ranked(d)
    <2>1. \A i \in stale : \A n \in Names : d[n] # i
        BY <1>2, <1>4, <1>5 DEF Ranked, Names, Leftovers
    <2>2. \A i \in stale : data[i] <= data[prepared[1]]
        BY <1>2, <1>4, <1>8
    <2> QED BY <1>2, <1>4, <1>5, <1>7, <2>1, <2>2 DEF Ranked, Exists
<1>10. Knows("untmp", d, token[s])
    BY <1>2, <1>4, <1>5 DEF Knows, Exists
<1>11. Quiet'
    BY <1>1, <1>3, <1>5, <1>6, <1>9, <1>10, GoQuiet DEF Locked
<1>12. Val = token[s]
    <2>1. CASE Exists(dir, "claim")
        BY <1>3, <1>7, <2>1, ClaimIsTop
    <2>2. CASE ~Exists(dir, "claim")
        <3>1. token[s] = Absent /\ stale \cup ({dir["claim"]} \ {NoFile}) = {}
            BY <1>2, <2>2 DEF Knows, Exists
        <3> QED BY <1>3, <3>1 DEF Val, Top
    <2> QED BY <2>1, <2>2
<1>13. Val' = prepared[2]
    BY <1>3, <1>4, <1>5 DEF Val, Exists
<1> QED BY <1>1, <1>3, <1>4, <1>11, <1>12, <1>13 DEF Accepts

LEMMA UntmpQuiet == ASSUME QuietInv, NEW s \in Sessions, UnlinkTemporary(s) PROVE Quiet' /\ Stays(s)
<1> DEFINE d == Unlink(dir, "tmp")
<1>1. /\ lock = {s} /\ pc[s] = "untmp" /\ UNCHANGED token /\ dir' = d /\ Go(s, "published")
      /\ UNCHANGED <<stale, strays, data, lock, prepared, errors>>
    BY DEF UnlinkTemporary, At, Changed
<1>2. /\ Fits("untmp", dir, token[s]) /\ Knows("untmp", dir, token[s]) /\ Ranked(dir)
      /\ dir \in [Names -> Inodes \cup {NoFile}]
    BY <1>1, Quietly
<1>3. /\ d \in [Names -> Inodes \cup {NoFile}] /\ d["file"] = dir["file"]
      /\ d["tmp"] = NoFile /\ d["claim"] = dir["claim"]
    BY <1>2 DEF Unlink, Names
<1>4. \A n \in Names : d[n] \in {NoFile} \cup {dir[m] : m \in Names}
    BY <1>3 DEF Names
<1>5. Ranked(d)
    BY <1>2, <1>3, DirectoryAssumption DEF Ranked, Exists, Names, QuietInv, KeptInv, StoreOK
<1>6. Knows("published", d, token[s]) /\ Stage("published") = Stage("untmp")
    BY <1>2, <1>3 DEF Knows, Exists, Stage, Ended
<1>7. Quiet'
    BY <1>1, <1>3, <1>4, <1>5, <1>6, GoQuiet DEF Locked
<1>8. Val' = Val
    BY <1>1, <1>3 DEF Val, Exists
<1> QED BY <1>1, <1>6, <1>7, <1>8 DEF Stays

LEMMA PublishQuiet == ASSUME QuietInv, NEW s \in Sessions, CheckPublished(s) PROVE Quiet' /\ Stays(s)
<1>1. lock = {s} /\ pc[s] = "published" /\ UNCHANGED token
    BY DEF CheckPublished, At
<1>2. /\ Fits("published", dir, token[s]) /\ Knows("published", dir, token[s]) /\ Ranked(dir)
      /\ dir \in [Names -> Inodes \cup {NoFile}] /\ ~Exists(dir, "tmp")
    BY <1>1, Quietly
<1>3. /\ prepared[1] \in Inodes /\ data[prepared[1]] = prepared[2]
      /\ dir["file"] = prepared[1] /\ Exists(dir, "file")
    BY <1>2, DirectoryAssumption DEF Fits, Knows, Preparing, Exists
<1>4. Apart(dir, Leftovers, "file")
    BY <1>2, <1>3 DEF Knows, Ranked, Apart, Names, Exists
<1>5. IsPrepared /\ Reads("file", prepared[2])
    BY <1>3, <1>4, SinglesAre DEF IsPrepared, Reads, QuietInv, Names
<1>6. /\ UNCHANGED <<data, errors>>
      /\ IF Exists(dir, "claim") THEN Continue(s, "post", dir) ELSE End(s, "ok", dir)
    BY <1>5 DEF CheckPublished
<1>7. CASE ~Exists(dir, "claim")
    BY <1>1, <1>2, <1>6, <1>7, EndQuiet DEF Ended
<1>8. CASE Exists(dir, "claim")
    <2>1. dir' = dir /\ Go(s, "post") /\ UNCHANGED <<stale, strays, lock, prepared>>
        BY <1>6, <1>8 DEF Continue
    <2>2. Knows("post", dir, token[s]) /\ Stage("post") = Stage("published")
        BY <1>2, <1>3, <1>8 DEF Knows, Stage, Ended
    <2>3. Quiet'
        BY <1>1, <1>2, <1>6, <2>1, <2>2, GoQuiet DEF Locked
    <2>4. Val' = Val
        BY <1>6, <2>1 DEF Val
    <2> QED BY <1>1, <2>1, <2>2, <2>3, <2>4 DEF Stays
<1> QED BY <1>7, <1>8

LEMMA UnclaimQuiet == ASSUME QuietInv, NEW s \in Sessions, UnlinkClaim(s) PROVE Quiet' /\ Stays(s)
<1> DEFINE d == Unlink(dir, "claim")
<1>1. /\ lock = {s} /\ pc[s] = "unclaim" /\ UNCHANGED <<token, data, errors>>
      /\ Continue(s, "prune", d) \/ End(s, "ok", d)
    BY DEF UnlinkClaim, At
<1>2. /\ Knows("unclaim", dir, token[s]) /\ Ranked(dir)
      /\ dir \in [Names -> Inodes \cup {NoFile}]
    BY <1>1, Quietly
<1>3. /\ d \in [Names -> Inodes \cup {NoFile}] /\ d["file"] = dir["file"]
      /\ d["tmp"] = dir["tmp"] /\ d["claim"] = NoFile /\ Exists(dir, "file")
    BY <1>2 DEF Unlink, Names, Knows
<1>4. CASE End(s, "ok", d)
    BY <1>1, <1>3, <1>4, EndQuiet DEF Ended
<1>5. CASE Continue(s, "prune", d)
    <2>1. dir' = d /\ Go(s, "prune") /\ UNCHANGED <<stale, strays, lock, prepared>>
        BY <1>5 DEF Continue
    <2>2. \A n \in Names : d[n] \in {NoFile} \cup {dir[m] : m \in Names}
        BY <1>3 DEF Names
    <2>3. Ranked(d)
        BY <1>2, <1>3, DirectoryAssumption DEF Ranked, Exists, Names, QuietInv, KeptInv, StoreOK
    <2>4. Knows("prune", d, token[s]) /\ Stage("prune") = Stage("unclaim")
        BY <1>3 DEF Knows, Exists, Stage, Ended
    <2>5. Quiet'
        BY <1>1, <1>3, <2>1, <2>2, <2>3, <2>4, GoQuiet DEF Locked
    <2>6. Val' = Val
        BY <1>1, <1>3, <2>1 DEF Val, Exists
    <2> QED BY <1>1, <2>1, <2>4, <2>5, <2>6 DEF Stays
<1> QED BY <1>1, <1>4, <1>5

LEMMA ArchiveQuiet ==
    ASSUME QuietInv, NEW s \in Sessions, ArchivePrior(s)
    PROVE  Quiet' /\ Stays(s)
<1>1. /\ lock = {s} /\ pc[s] = "archive" /\ UNCHANGED token /\ Go(s, "final")
      /\ UNCHANGED <<dir, stale, strays, data, lock, prepared, errors>>
    BY DEF ArchivePrior, At, fileVars, entryVars
<1>2. /\ Knows("archive", dir, token[s]) /\ Ranked(dir)
      /\ dir \in [Names -> Inodes \cup {NoFile}]
    BY <1>1, Quietly
<1>3. Knows("final", dir, token[s]) /\ Stage("final") = Stage("archive")
    BY <1>2 DEF Knows, Stage, Ended
<1>4. Quiet'
    BY <1>1, <1>2, <1>3, GoQuiet DEF Locked
<1>5. Val' = Val
    BY <1>1 DEF Val
<1> QED BY <1>1, <1>3, <1>4, <1>5 DEF Stays

\* The archive is no part of the register
LEMMA PruneQuiet ==
    ASSUME QuietInv, NEW s \in Sessions, Prune(s)
    PROVE  Quiet' /\ (Stays(s) \/ UNCHANGED <<Val, token, pc>>)
<1>1. lock = {s} /\ pc[s] = "prune" /\ UNCHANGED token
    BY DEF Prune, At
<1>2. dir \in [Names -> Inodes \cup {NoFile}]
    BY <1>1, Quietly
<1>3. CASE End(s, "ok", dir) /\ UNCHANGED <<data, errors>>
    BY <1>1, <1>2, <1>3, EndQuiet DEF Ended
<1>4. CASE UNCHANGED <<fileVars, lock, pc, prepared, errors>>
    <2>1. UNCHANGED <<dir, stale, strays, data, lock, pc, prepared, errors, token>>
        BY <1>1, <1>4 DEF fileVars, entryVars
    <2>2. Leftovers' = Leftovers
        BY <2>1 DEF Leftovers
    <2>3. Val' = Val /\ Written(dir)' /\ Ranked(dir)' /\ errors' = 0
        BY <2>1, <2>2 DEF Val, QuietInv, Quiet, Written, Ranked
    <2>4. ASSUME NEW t \in lock PROVE Knows(pc[t], dir, token[t])'
        BY <2>1, <2>2, <2>4 DEF QuietInv, Quiet, Knows, Apart
    <2> QED BY <2>1, <2>3, <2>4 DEF Quiet
<1> QED BY <1>3, <1>4 DEF Prune

\* The step of a session that does not hold the lock
LEMMA AsideQuiet ==
    ASSUME QuietInv, NEW s \in Sessions, s \notin lock, NEW p, Go(s, p),
           UNCHANGED <<entryVars, data, lock, prepared, errors>>,
           \A t \in lock : token'[t] = token[t]
    PROVE  Quiet' /\ Val' = Val
<1>1. UNCHANGED <<dir, stale, strays, data>> /\ Leftovers' = Leftovers
    BY DEF entryVars, Leftovers
<1>2. Val' = Val /\ Written(dir)' /\ Ranked(dir)' /\ errors' = 0
    BY <1>1 DEF Val, QuietInv, Quiet, Written, Ranked
<1>3. ASSUME NEW t \in lock PROVE Knows(pc[t], dir, token[t])'
    <2>1. pc'[t] = pc[t] /\ token'[t] = token[t]
        BY <1>3 DEF Go, QuietInv, KeptInv, StoreOK
    <2> QED BY <1>1, <1>3, <2>1 DEF QuietInv, Quiet, Knows, Apart
<1> QED BY <1>2, <1>3 DEF Quiet

LEMMA StartsQuiet ==
    ASSUME QuietInv, NEW s \in Sessions, ReadMemory(s) \/ Acquire(s) \/ Crash(s)
    PROVE  Quiet' /\ RegisterStep(s)
<1>1. CASE ReadMemory(s)
    <2>1. /\ pc[s] = "read" /\ UNCHANGED <<entryVars, data, lock, prepared, errors>>
          /\ \/ \E v \in Versions : /\ Current(v) /\ token' = [token EXCEPT ![s] = v]
                                    /\ Go(s, "lock")
             \/ Go(s, "refused") /\ token' = token
        BY <1>1 DEF ReadMemory, fileVars, faultVars
    <2>2. s \notin lock
        BY <2>1 DEF QuietInv, KeptInv, Holder, Locked
    <2>3. \A t \in lock : token'[t] = token[t]
        BY <2>1, <2>2 DEF QuietInv, KeptInv, StoreOK
    <2>4. Quiet' /\ Val' = Val
        BY <2>1, <2>2, <2>3, AsideQuiet
    <2>5. ASSUME NEW v, Current(v) PROVE v \in {Val, Absent}
        BY <2>5 DEF Current, Reads, Single, Val
    <2>6. CASE Go(s, "refused") /\ token' = token
        BY <2>1, <2>4, <2>6 DEF RegisterStep, Stays, Ended
    <2>7. CASE \E v \in Versions : /\ Current(v) /\ token' = [token EXCEPT ![s] = v]
                                   /\ Go(s, "lock")
        BY <2>1, <2>4, <2>5, <2>7 DEF RegisterStep, Drafts
    <2> QED BY <2>1, <2>4, <2>6, <2>7
<1>2. CASE Acquire(s)
    <2>1. PICK p \in {"preread", "recover"} : Go(s, p)
        BY <1>2 DEF Acquire
    <2>2. /\ pc[s] = "lock" /\ lock = {} /\ lock' = {s} /\ pc' = [pc EXCEPT ![s] = p]
          /\ UNCHANGED <<dir, stale, strays, data, token, prepared, errors>>
        BY <1>2, <2>1 DEF Acquire, Go, fileVars, entryVars, faultVars
    <2>3. Leftovers' = Leftovers
        BY <2>2 DEF Leftovers
    <2>4. Val' = Val /\ Written(dir)' /\ Ranked(dir)' /\ errors' = 0
        BY <2>2, <2>3 DEF Val, QuietInv, Quiet, Written, Ranked
    <2>5. pc'[s] = p
        BY <2>2 DEF QuietInv, KeptInv, StoreOK
    <2>6. Knows(pc[s], dir, token[s])'
        BY <2>1, <2>5 DEF Knows
    <2>7. Stage(p) = Stage(pc[s])
        BY <2>1, <2>2 DEF Stage, Ended
    <2> QED BY <2>1, <2>2, <2>4, <2>6, <2>7 DEF Quiet, RegisterStep, Stays
<1>3. CASE Crash(s) /\ lock = {s}
    <2>1. End(s, "dead", dir) /\ pc[s] \notin Ended /\ UNCHANGED <<data, token, errors>>
        BY <1>3 DEF Crash
    <2>2. dir \in [Names -> Inodes \cup {NoFile}]
        BY <1>3, Quietly
    <2> QED BY <2>1, <2>2, EndQuiet DEF Ended, RegisterStep
<1>4. CASE Crash(s) /\ lock # {s}
    <2>1. /\ Go(s, "dead") /\ pc[s] \notin Ended
          /\ UNCHANGED <<entryVars, data, lock, prepared, token, errors>>
        BY <1>4 DEF Crash
    <2>2. s \notin lock
        BY <1>4 DEF QuietInv, KeptInv, Holder
    <2>3. Quiet' /\ Val' = Val
        BY <2>1, <2>2, AsideQuiet
    <2> QED BY <2>1, <2>3 DEF RegisterStep, Stays, Ended
<1> QED BY <1>1, <1>2, <1>3, <1>4

LEMMA NextQuiet ==
    ASSUME QuietInv, Editing = {}, [Next]_vars
    PROVE  /\ QuietInv'
           /\ (\E s \in Sessions : RegisterStep(s)) \/ UNCHANGED <<Val, token, pc>>
<1>1. KeptInv'
    BY NextKept DEF QuietInv
<1>2. ASSUME NEW s \in Sessions, Write(s)
      PROVE  Quiet' /\ (RegisterStep(s) \/ UNCHANGED <<Val, token, pc>>)
    BY <1>2, StartsQuiet, LooksQuiet, ReviveQuiet, ClaimQuiet, ArchiveQuiet, CreateQuiet, LinkQuiet,
       UntmpQuiet, PublishQuiet, UnclaimQuiet, PruneQuiet DEF Write, RegisterStep
<1>3. ASSUME NEW s \in Sessions PROVE ~Fail(s)
    BY DEF Fail, QuietInv, Quiet
<1>4. ASSUME UNCHANGED vars PROVE Quiet' /\ UNCHANGED <<Val, token, pc>>
    <2>1. UNCHANGED <<dir, stale, strays, data, lock, pc, token, prepared, errors>>
        BY <1>4 DEF vars, fileVars, entryVars, sessionVars, faultVars
    <2>2. Leftovers' = Leftovers
        BY <2>1 DEF Leftovers
    <2>3. Val' = Val /\ Written(dir)' /\ Ranked(dir)' /\ errors' = 0
        BY <2>1, <2>2 DEF Val, QuietInv, Quiet, Written, Ranked
    <2>4. ASSUME NEW t \in lock PROVE Knows(pc[t], dir, token[t])'
        BY <2>1, <2>2, <2>4 DEF QuietInv, Quiet, Knows, Apart
    <2> QED BY <2>1, <2>3, <2>4 DEF Quiet
<1>5. CASE \E s \in Sessions : Write(s) \/ ReadMemory(s) \/ Crash(s)
    BY <1>1, <1>2, <1>5, StartsQuiet DEF QuietInv
<1>6. CASE UNCHANGED vars
    BY <1>1, <1>4, <1>6 DEF QuietInv
<1> QED BY <1>3, <1>5, <1>6, NoEditor DEF Next, Rest

LEMMA InitQuiet ==
    ASSUME Init, MaxErrors = 0
    PROVE  QuietInv /\ Register!Init
<1>1. KeptInv /\ First \in Inodes /\ First # NoFile
    BY InitKept, DirectoryAssumption DEF First
<1>2. /\ last \in {0, 1} /\ data = [i \in Inodes |-> IF i = First THEN last ELSE 0]
      /\ dir = [n \in Names |-> IF n = "file" /\ last = 1 THEN First ELSE NoFile]
      /\ stale = {} /\ strays = {} /\ lock = {} /\ errors = 0
      /\ token = [s \in Sessions |-> Absent] /\ pc = [s \in Sessions |-> "read"]
    BY DEF Init
<1>3. /\ dir["claim"] = NoFile /\ dir["tmp"] = NoFile /\ Leftovers = {} /\ DOMAIN dir = Names
      /\ dir["file"] = IF last = 1 THEN First ELSE NoFile
    BY <1>2 DEF Names, Leftovers
<1>4. Written(dir) /\ Ranked(dir)
    <2>1. Linked(dir, Leftovers) = {dir["file"], dir["tmp"], dir["claim"]} \cup Leftovers
        BY <1>3, LinkedNames
    <2> QED BY <1>1, <1>2, <1>3, <2>1 DEF Written, Ranked, Exists
<1>5. QuietInv
    BY <1>1, <1>2, <1>4 DEF QuietInv, Quiet
<1>6. Val = last
    <2>1. stale \cup ({dir["claim"]} \ {NoFile}) = {}
        BY <1>2, <1>3
    <2> QED BY <1>1, <1>2, <1>3, <2>1 DEF Val, Top, Exists, Absent
<1>7. Value \in {Absent, Absent + 1}
    BY <1>2, <1>5, <1>6, ValueIs DEF QuietInv, Absent
<1>8. [s \in Sessions |-> Stage(pc[s])] = [s \in Sessions |-> "read"]
    BY <1>2 DEF Stage, Ended
<1> QED BY <1>2, <1>5, <1>7, <1>8 DEF Register!Init

LEMMA StepRefines ==
    ASSUME QuietInv, QuietInv',
           (\E s \in Sessions : RegisterStep(s)) \/ UNCHANGED <<Val, token, pc>>
    PROVE  [Register!Next]_(Register!vars)
<1> DEFINE stages == [s \in Sessions |-> Stage(pc[s])]
<1>1. Value = Val
    BY ValueIs DEF QuietInv
<1>2. (KeptInv /\ Quiet => Value = Val)'
    BY ValueIs, PTL
<1>3. Value' = Val'
    BY <1>2 DEF QuietInv
<1>4. pc = [s \in Sessions |-> pc[s]]
    BY DEF QuietInv, KeptInv, StoreOK
<1>5. ASSUME NEW s \in Sessions, NEW p, Go(s, p) PROVE stages' = [stages EXCEPT ![s] = Stage(p)]
    BY <1>4, <1>5 DEF Go
<1>6. ASSUME NEW s \in Sessions, Stays(s) PROVE [Register!Next]_(Register!vars)
    <2>1. PICK p : Go(s, p) /\ (Stage(p) = Stage(pc[s]) \/ (p \in Ended /\ pc[s] \notin Ended))
        BY <1>6 DEF Stays
    <2>2. UNCHANGED <<Value, token>>
        BY <1>1, <1>3, <1>6 DEF Stays
    <2>3. stages' = [stages EXCEPT ![s] = Stage(p)] /\ stages[s] = Stage(pc[s])
        BY <1>5, <2>1
    <2>4. CASE Stage(p) = Stage(pc[s])
        <3>1. stages' = stages
            BY <2>3, <2>4
        <3> QED BY <2>2, <3>1 DEF Register!vars
    <2>5. CASE p \in Ended /\ pc[s] \notin Ended
        <3>1. Stage(p) = "ended" /\ Stage(pc[s]) # "ended"
            BY <2>5 DEF Stage, Ended
        <3> QED BY <2>2, <2>3, <3>1 DEF Register!Next, Register!End
    <2> QED BY <2>1, <2>4, <2>5
<1>7. ASSUME NEW s \in Sessions, Drafts(s) PROVE [Register!Next]_(Register!vars)
    <2>1. stages[s] = "read" /\ stages' = [stages EXCEPT ![s] = "drafted"]
        BY <1>5, <1>7 DEF Drafts, Stage, Ended
    <2>2. /\ Value' = Value /\ \E v \in {Value, Absent} : token' = [token EXCEPT ![s] = v]
        BY <1>1, <1>3, <1>7 DEF Drafts
    <2> QED BY <2>1, <2>2 DEF Register!Next, Register!Read
<1>8. ASSUME NEW s \in Sessions, Accepts(s) PROVE [Register!Next]_(Register!vars)
    <2>1. stages[s] = "drafted" /\ stages' = [stages EXCEPT ![s] = "accepted"]
        BY <1>5, <1>8 DEF Accepts, Stage, Ended
    <2>2. token[s] = Value /\ Value' > Value /\ token' = token
        BY <1>1, <1>3, <1>8 DEF Accepts
    <2> QED BY <2>1, <2>2 DEF Register!Next, Register!Accept
<1>9. ASSUME UNCHANGED <<Val, token, pc>> PROVE [Register!Next]_(Register!vars)
    BY <1>1, <1>3, <1>9 DEF Register!vars
<1> QED BY <1>6, <1>7, <1>8, <1>9 DEF RegisterStep

\* Without an editor and without failing calls the file is a compare-and-swap
\* register: a write is accepted only if the version it was drafted from is still
\* the current one, whatever sessions there are and wherever they are killed
THEOREM StoreIsRegister ==
    ASSUME Editing = {}, MaxErrors = 0
    PROVE  Spec => IsRegister
<1>1. Init => QuietInv /\ Register!Init
    BY InitQuiet
<1>2. QuietInv /\ [Next]_vars => QuietInv'
    BY NextQuiet
<1>3. QuietInv /\ QuietInv' /\ [Next]_vars => [Register!Next]_(Register!vars)
    BY NextQuiet, StepRefines
<1> QED BY <1>1, <1>2, <1>3, PTL DEF Spec, IsRegister, Register!Spec

-----------------------------------------------------------------------------
(* The file is left *)

\* No call has failed yet, and the editor has not deleted the file
Clean == ~deleted /\ errors = MaxErrors

Sole(n) == Exists(dir, n) /\ Apart(dir, Leftovers, n)

\* A claim of a dead writer that the recovery takes
Waits == \E i \in stale : \A n \in Names : dir[n] # i

\* The file is in place, or a step to come brings it back, or none was ever
\* there.  p is where the lock holder is, or "lock" when nobody holds it.
InReach(p) ==
    \/ Exists(dir, "file")
    \/ Sole("claim") /\ p \in {"verify", "confirm", "archive", "final", "create", "link", "restore"}
    \/ Waits /\ p \in {"lock", "preread", "recover", "revive"}
    \/ /\ live = {} /\ handle = NoFile /\ ~Exists(dir, "claim")
       /\ p \in {"lock", "preread", "recover", "initial", "absent", "create", "link"}

\* Why the claim and the published file pass the checks that link counts are part
\* of, so that no publication is taken back
Unshared(p) ==
    /\ p = "claim" => Sole("file")
    /\ p \in {"link", "untmp", "published"} => prepared[1] \notin Leftovers \cup {dir["claim"]}
    /\ p = "undo" => dir["file"] # prepared[1]
    /\ p # "undo2"

Passes(p) == InReach(p) /\ Unshared(p)

LeftInv == /\ errors \in Nat /\ errors <= MaxErrors
           /\ Clean => /\ lock = {} => InReach("lock")
                       /\ \A s \in lock : Passes(pc[s])

\* What LeavesFile says of a step of s
Left(s) == lock' = {} /\ pc[s] # "preread" /\ pc'[s] # "dead" /\ live' # {} => Exists(dir', "file")

LEMMA SolesAre ==
    ASSUME KeptInv
    PROVE  /\ \A n \in Names : Single(n) <=> Sole(n)
           /\ Waits <=> Claims # {}
           /\ \A i \in Claims : \A n \in Names : dir[n] # i
<1>1. DOMAIN dir = Names
    BY DEF KeptInv, StoreOK
<1>2. /\ \A i \in Leftovers : Nlink(dir, Leftovers, i) = 1 <=> \A n \in Names : dir[n] # i
      /\ \A n \in Names : Nlink(dir, Leftovers, dir[n]) = 1 <=> Apart(dir, Leftovers, n)
    BY <1>1, NlinkIs
<1> QED BY <1>2 DEF Single, Sole, Waits, Claims, Leftovers

LEMMA InitLeft == ASSUME Init PROVE LeftInv
BY StoreAssumption, DirectoryAssumption DEF Init, LeftInv, InReach, Exists, Names, First, Absent

\* The holder goes on
LEMMA GoesOn ==
    ASSUME KeptInv, NEW s \in Sessions, lock = {s}, NEW p, Go(s, p),
           UNCHANGED <<lock, errors, deleted>>, LeftInv, Passes(p)'
    PROVE  LeftInv' /\ Left(s)
<1>1. pc'[s] = p
    BY DEF Go, KeptInv, StoreOK
<1> QED BY <1>1 DEF LeftInv, Left, Clean

\* Its step has only looked
LEMMA LooksOn ==
    ASSUME KeptInv, NEW s \in Sessions, lock = {s}, NEW p, Go(s, p),
           UNCHANGED <<dir, stale, strays, prepared, live, handle>>,
           UNCHANGED <<lock, errors, deleted>>, LeftInv, Passes(p)
    PROVE  LeftInv' /\ Left(s)
<1>1. Leftovers' = Leftovers
    BY DEF Leftovers
<1>2. Passes(p)'
    BY <1>1 DEF Passes, InReach, Unshared, Sole, Waits, Apart, Exists
<1> QED BY <1>2, GoesOn

\* The holder ends, with the file in place
LEMMA EndsWell ==
    ASSUME KeptInv, NEW s \in Sessions, NEW r, NEW d \in [Names -> Inodes \cup {NoFile}],
           End(s, r, d), UNCHANGED <<errors, deleted>>, LeftInv, Exists(d, "file")
    PROVE  LeftInv' /\ Left(s)
<1>1. Exists(dir', "file") /\ lock' = {}
    BY DEF End, Exists, Names
<1> QED BY <1>1 DEF LeftInv, Left, InReach

\* The holder ends, and a claim it has waits for the recovery
LEMMA EndsAnyway ==
    ASSUME KeptInv, NEW s \in Sessions, NEW r, lock = {s}, End(s, r, dir),
           UNCHANGED <<errors, deleted, live, handle>>, LeftInv, Clean
    PROVE  LeftInv'
<1>1. /\ dir' = [dir EXCEPT !["tmp"] = NoFile, !["claim"] = NoFile] /\ lock' = {}
      /\ stale' = stale \cup ({dir["claim"]} \ {NoFile})
    BY DEF End
<1>2. /\ dir'["file"] = dir["file"] /\ dir'["tmp"] = NoFile /\ dir'["claim"] = NoFile
      /\ dir \in [Names -> Inodes \cup {NoFile}] /\ stale \subseteq Inodes
    BY <1>1 DEF KeptInv, StoreOK, Names
<1>3. InReach(pc[s])
    BY DEF LeftInv, Passes
<1>4. CASE Sole("claim")
    <2>1. dir["claim"] \in stale' /\ dir["claim"] # dir["file"] /\ dir["claim"] # NoFile
        BY <1>1, <1>4 DEF Sole, Apart, Exists, Names
    <2>2. Waits'
        BY <1>2, <2>1 DEF Waits, Names
    <2> QED BY <1>1, <2>2 DEF LeftInv, InReach
<1>5. CASE Waits
    <2>1. Waits'
        BY <1>1, <1>2, <1>5, DirectoryAssumption DEF Waits, Names
    <2> QED BY <1>1, <2>1 DEF LeftInv, InReach
<1>6. CASE Exists(dir, "file")
    BY <1>1, <1>2, <1>6 DEF LeftInv, InReach, Exists
<1>7. CASE live = {} /\ handle = NoFile /\ ~Exists(dir, "claim")
    BY <1>1, <1>2, <1>7 DEF LeftInv, InReach, Exists
<1> QED BY <1>3, <1>4, <1>5, <1>6, <1>7 DEF InReach

\* A refusal where the file is in place: what has been claimed is given back later
\* or stays a claim
LEMMA RefusesInPlace ==
    ASSUME KeptInv, NEW s \in Sessions, lock = {s}, Refuse(s), LeftInv, Clean,
           UNCHANGED <<deleted, handle>>, Exists(dir, "file"),
           pc[s] = "restore2" => dir["file"] # dir["claim"],
           pc[s] \in {"untmp", "published"} => dir["file"] # prepared[1]
    PROVE  LeftInv' /\ Left(s)
<1>1. dir \in [Names -> Inodes \cup {NoFile}] /\ pc[s] \in Locked
    BY Holds
<1>2. UNCHANGED <<errors, live>> /\ Raise(s)
    BY DEF Refuse, Raise
<1>3. ASSUME NEW d \in [Names -> Inodes \cup {NoFile}], Exists(d, "file"), NEW r, End(s, r, d)
      PROVE  LeftInv' /\ Left(s)
    BY <1>2, <1>3, EndsWell
<1>4. ASSUME NEW d, Exists(d, "file"), Continue(s, "restore", d) PROVE LeftInv' /\ Left(s)
    <2>1. Passes("restore")'
        BY <1>4 DEF Passes, InReach, Unshared, Exists, Continue
    <2> QED BY <1>2, <1>4, <2>1, GoesOn DEF Continue
<1>5. ASSUME NEW d \in [Names -> Inodes \cup {NoFile}], Exists(d, "file"), Abandon(s, d)
      PROVE  LeftInv' /\ Left(s)
    BY <1>3, <1>4, <1>5 DEF Abandon
<1>6. Unlink(dir, "tmp") \in [Names -> Inodes \cup {NoFile}] /\ Exists(Unlink(dir, "tmp"), "file")
    BY <1>1 DEF Unlink, Exists, Names
<1>7. CASE pc[s] \in {"preread", "recover", "revive", "initial", "absent", "claim",
                      "post", "unclaim", "restore", "prune"}
    BY <1>1, <1>2, <1>3, <1>7 DEF Raise
<1>8. CASE pc[s] \in {"verify", "confirm", "archive", "final"}
    BY <1>2, <1>4, <1>8 DEF Raise
<1>9. CASE pc[s] \in {"create", "link"}
    BY <1>2, <1>5, <1>6, <1>9 DEF Raise
<1>10. CASE pc[s] \in {"untmp", "published"}
    <2>1. Continue(s, "undo", Unlink(dir, "tmp"))
        BY <1>2, <1>10 DEF Raise
    <2>2. dir'["file"] = dir["file"] /\ prepared' = prepared /\ Go(s, "undo") /\ lock' = lock
        BY <1>1, <2>1 DEF Continue, Unlink, Names
    <2>3. Passes("undo")'
        BY <1>10, <2>2 DEF Passes, InReach, Unshared, Exists
    <2> QED BY <1>2, <2>2, <2>3, GoesOn
<1>11. CASE pc[s] \in {"undo", "undo2"}
    BY <1>1, <1>2, <1>5, <1>11 DEF Raise
<1>12. CASE pc[s] = "restore2"
    BY <1>1, <1>2, <1>3, <1>12 DEF Raise
<1> QED BY <1>1, <1>7, <1>8, <1>9, <1>10, <1>11, <1>12 DEF Locked

\* A refusal before anything is claimed, of a file that is not there
LEMMA RefusesNothing ==
    ASSUME KeptInv, NEW s \in Sessions, lock = {s}, Refuse(s), LeftInv, Clean,
           UNCHANGED <<deleted, handle>>, pc[s] \in {"preread", "initial", "absent"}
    PROVE  LeftInv' /\ Left(s)
<1>1. End(s, "refused", dir) /\ UNCHANGED <<errors, live>>
    BY DEF Refuse, Raise
<1>2. LeftInv'
    BY <1>1, EndsAnyway
<1>3. InReach(pc[s])
    BY DEF LeftInv, Passes
<1>4. CASE Exists(dir, "file")
    BY <1>1, <1>4, EndsWell, Holds
<1>5. CASE ~Exists(dir, "file")
    BY <1>1, <1>2, <1>3, <1>5 DEF InReach, Left
<1> QED BY <1>2, <1>4, <1>5

LEMMA LooksLeft ==
    ASSUME KeptInv, NEW s \in Sessions, LeftInv, Clean,
           \/ ReadPrior(s) \/ RecoverLook(s) \/ ReadInitial(s) \/ ConfirmAbsent(s)
           \/ CheckClaim(s) \/ UndoLook(s) \/ CheckPost(s)
    PROVE  LeftInv' /\ Left(s)
<1>1. lock = {s} /\ UNCHANGED <<deleted, handle>>
    BY DEF ReadPrior, RecoverLook, ReadInitial, ConfirmAbsent, CheckClaim, UndoLook, CheckPost,
           At, userVars
<1>2. InReach(pc[s]) /\ Unshared(pc[s])
    BY <1>1 DEF LeftInv, Passes
<1>3. ASSUME Same, NEW p, Go(s, p), Passes(p) PROVE LeftInv' /\ Left(s)
    <2>1. UNCHANGED <<dir, stale, strays, prepared, live, lock, errors>>
        BY <1>3 DEF Same, fileVars, entryVars
    <2> QED BY <1>1, <1>3, <2>1, LooksOn
<1>4. ASSUME Refuse(s), Exists(dir, "file"), pc[s] \notin {"restore2", "untmp", "published"}
      PROVE  LeftInv' /\ Left(s)
    BY <1>1, <1>4, RefusesInPlace
<1>5. ASSUME Refuse(s), pc[s] \in {"preread", "initial", "absent"} PROVE LeftInv' /\ Left(s)
    BY <1>1, <1>5, RefusesNothing
<1>6. /\ Single("file") <=> Sole("file")
      /\ Waits <=> Claims # {}
    BY SolesAre DEF Names
<1>7. CASE ReadPrior(s)
    <2>1. pc[s] = "preread"
        BY <1>7 DEF ReadPrior, At
    <2>2. Passes("recover")
        BY <1>2, <2>1 DEF Passes, InReach, Unshared
    <2> QED BY <1>3, <1>5, <1>7, <2>1, <2>2 DEF ReadPrior
<1>8. CASE RecoverLook(s)
    <2>1. pc[s] = "recover"
        BY <1>8 DEF RecoverLook, At
    <2>2. Claims = {} \/ Exists(dir, "file") => Passes("initial")
        BY <1>2, <1>6, <2>1 DEF Passes, InReach, Unshared
    <2>3. Claims # {} => Passes("revive")
        BY <1>6 DEF Passes, InReach, Unshared
    <2> QED BY <1>3, <1>4, <1>8, <2>1, <2>2, <2>3 DEF RecoverLook, Single
<1>9. CASE ReadInitial(s)
    <2>1. pc[s] = "initial"
        BY <1>9 DEF ReadInitial, At
    <2>2. Passes("absent")
        BY <1>2, <2>1 DEF Passes, InReach, Unshared
    <2>3. Current(token[s]) /\ token[s] # Absent => Passes("claim")
        BY <1>6 DEF Passes, InReach, Unshared, Current, Reads, Sole
    <2> QED BY <1>3, <1>5, <1>9, <2>1, <2>2, <2>3 DEF ReadInitial
<1>10. CASE ConfirmAbsent(s)
    <2>1. pc[s] = "absent"
        BY <1>10 DEF ConfirmAbsent, At
    <2>2. Passes("create")
        BY <1>2, <2>1 DEF Passes, InReach, Unshared
    <2> QED BY <1>3, <1>5, <1>10, <2>1, <2>2 DEF ConfirmAbsent
<1>11. CASE CheckClaim(s)
    <2>1. pc[s] \in {"verify", "confirm", "final"}
        BY <1>11 DEF CheckClaim, At
    <2>2. \A p \in {"confirm", "archive", "final", "create", "restore"} : Passes(p)
        BY <1>2, <2>1 DEF Passes, InReach, Unshared
    <2>3. CASE Refuse(s)
        <3>1. /\ Go(s, "restore") /\ dir' = dir /\ UNCHANGED <<stale, strays, lock, prepared, live, errors>>
            BY <2>1, <2>3 DEF Refuse, Raise, Continue
        <3> QED BY <1>1, <2>2, <3>1, LooksOn
    <2>4. CASE ~Refuse(s)
        <3>1. Same /\ \E p \in {"confirm", "archive", "final", "create"} : Go(s, p)
            BY <1>11, <2>4 DEF CheckClaim
        <3> QED BY <1>3, <2>2, <3>1
    <2> QED BY <2>3, <2>4
<1>12. CASE UndoLook(s)
    <2>1. pc[s] = "undo"
        BY <1>12 DEF UndoLook, At
    <2>2. ~IsPrepared /\ Exists(dir, "file")
        BY <1>2, <2>1 DEF Unshared, InReach, IsPrepared
    <2> QED BY <1>4, <1>12, <2>1, <2>2 DEF UndoLook
<1>13. CASE CheckPost(s)
    <2>1. pc[s] = "post"
        BY <1>13 DEF CheckPost, At
    <2>2. Exists(dir, "file") /\ Passes("unclaim")
        BY <1>2, <2>1 DEF Unshared, InReach, Passes
    <2> QED BY <1>3, <1>4, <1>13, <2>1, <2>2 DEF CheckPost
<1> QED BY <1>7, <1>8, <1>9, <1>10, <1>11, <1>12, <1>13

LEMMA MovesLeft ==
    ASSUME KeptInv, NEW s \in Sessions, LeftInv, Clean,
           \/ Revive(s) \/ ClaimExisting(s) \/ ArchivePrior(s) \/ CreateTemporary(s)
           \/ LinkFile(s) \/ UnlinkTemporary(s) \/ RestoreLink(s)
    PROVE  LeftInv' /\ Left(s)
<1>1. lock = {s} /\ UNCHANGED <<deleted, handle>>
    BY DEF Revive, ClaimExisting, ArchivePrior, CreateTemporary, LinkFile, UnlinkTemporary,
           RestoreLink, At, userVars
<1>2. /\ InReach(pc[s]) /\ Unshared(pc[s]) /\ Fits(pc[s], dir, token[s])
      /\ dir \in [Names -> Inodes \cup {NoFile}]
      /\ Exists(dir, "tmp") => pc[s] \in {"link", "untmp"}
      /\ Exists(dir, "claim") => pc[s] \in HoldsClaim
    BY <1>1, Holds DEF LeftInv, Passes
<1>3. ASSUME NEW p, Go(s, p), Passes(p)', UNCHANGED <<lock, errors>> PROVE LeftInv' /\ Left(s)
    BY <1>1, <1>3, GoesOn
<1>4. ASSUME Refuse(s), Exists(dir, "file"), pc[s] \notin {"restore2", "untmp", "published"}
      PROVE  LeftInv' /\ Left(s)
    BY <1>1, <1>4, RefusesInPlace
<1>5. \A n \in Names : Single(n) <=> Sole(n)
    BY SolesAre
<1>6. CASE Revive(s)
    <2>1. pc[s] = "revive" /\ dir' = [dir EXCEPT !["file"] = Newest] /\ Go(s, "initial")
          /\ UNCHANGED <<lock, errors>>
        BY <1>6 DEF Revive, At
    <2>2. Claims # {}
        BY <1>2, <2>1 DEF Fits
    <2>3. Newest \in Inodes
        BY <2>2, NewestIsStale DEF KeptInv, StoreOK
    <2>4. Exists(dir', "file")
        BY <1>2, <2>1, <2>3, DirectoryAssumption DEF Exists, Names
    <2>5. Passes("initial")'
        BY <2>4 DEF Passes, InReach, Unshared
    <2> QED BY <1>3, <2>1, <2>5
<1>7. CASE ClaimExisting(s)
    <2>1. pc[s] = "claim"
        BY <1>7 DEF ClaimExisting, At
    <2>2. Exists(dir, "file") /\ Sole("file")
        BY <1>2, <2>1 DEF Unshared, Sole
    <2>3. Changed(Rename(dir, "file", "claim")) /\ Go(s, "verify")
        BY <1>7, <2>2 DEF ClaimExisting
    <2>4. dir' = [dir EXCEPT !["claim"] = dir["file"], !["file"] = NoFile] /\ Leftovers' = Leftovers
        BY <2>3 DEF Changed, Rename, Leftovers
    <2>5. Sole("claim")'
        BY <1>2, <2>2, <2>4 DEF Sole, Apart, Exists, Names
    <2>6. Passes("verify")'
        BY <2>5 DEF Passes, InReach, Unshared
    <2> QED BY <1>3, <2>3, <2>6 DEF Changed
<1>8. CASE ArchivePrior(s)
    <2>1. /\ pc[s] = "archive" /\ Go(s, "final")
          /\ UNCHANGED <<dir, stale, strays, prepared, live, lock, errors>>
        BY <1>8 DEF ArchivePrior, At, fileVars, entryVars
    <2>2. Passes("final")
        BY <1>2, <2>1 DEF Passes, InReach, Unshared
    <2> QED BY <1>1, <2>1, <2>2, LooksOn
<1>9. CASE CreateTemporary(s)
    <2>1. /\ pc[s] = "create" /\ Go(s, "link") /\ dir' = [dir EXCEPT !["tmp"] = New]
          /\ UNCHANGED <<stale, strays, lock, errors, live>> /\ prepared' = <<New, last + 1>>
          /\ Free # {}
        BY <1>9 DEF CreateTemporary, At, Write1, Create
    <2>2. New \in Inodes /\ New \notin Linked(dir, Leftovers) /\ Leftovers' = Leftovers
        BY <2>1, NewIsFree DEF Leftovers
    <2>3. /\ New \notin Leftovers \cup {dir["claim"]} /\ prepared'[1] = New
          /\ dir'["claim"] = dir["claim"] /\ dir'["file"] = dir["file"] /\ dir'["tmp"] = New
        BY <1>2, <2>1, <2>2 DEF Linked, Names
    <2>4. Sole("claim") => Sole("claim")'
        BY <2>2, <2>3 DEF Sole, Apart, Exists, Names
    <2>5. Passes("link")'
        BY <1>1, <1>2, <2>1, <2>2, <2>3, <2>4 DEF Passes, InReach, Unshared, Exists
    <2> QED BY <1>3, <2>1, <2>5
<1>10. CASE LinkFile(s)
    <2>1. pc[s] = "link"
        BY <1>10 DEF LinkFile, At
    <2>2. CASE Exists(dir, "file")
        BY <1>4, <1>10, <2>1, <2>2 DEF LinkFile
    <2>3. CASE ~Exists(dir, "file")
        <3>1. /\ Go(s, "untmp") /\ dir' = [dir EXCEPT !["file"] = dir["tmp"]]
              /\ UNCHANGED <<stale, strays, lock, errors, prepared>> /\ Leftovers' = Leftovers
            BY <1>10, <2>3 DEF LinkFile, Changed, Link, Leftovers
        <3>2. dir["tmp"] = prepared[1] /\ prepared[1] \in Inodes
            BY <1>2, <2>1 DEF Fits, Preparing
        <3>3. Exists(dir', "file") /\ dir'["claim"] = dir["claim"]
            BY <1>2, <3>1, <3>2, DirectoryAssumption DEF Exists, Names
        <3>4. Passes("untmp")'
            BY <1>2, <2>1, <3>1, <3>3 DEF Passes, InReach, Unshared
        <3> QED BY <1>3, <3>1, <3>4
    <2> QED BY <2>2, <2>3
<1>11. CASE UnlinkTemporary(s)
    <2>1. /\ pc[s] = "untmp" /\ Go(s, "published") /\ dir' = [dir EXCEPT !["tmp"] = NoFile]
          /\ UNCHANGED <<stale, strays, lock, errors, prepared>> /\ Leftovers' = Leftovers
        BY <1>11 DEF UnlinkTemporary, At, Changed, Unlink, Leftovers
    <2>2. dir'["file"] = dir["file"] /\ dir'["claim"] = dir["claim"]
        BY <2>1
    <2>3. Passes("published")'
        BY <1>2, <2>1, <2>2 DEF Passes, InReach, Unshared, Exists
    <2> QED BY <1>3, <2>1, <2>3
<1>12. CASE RestoreLink(s)
    <2>1. pc[s] = "restore"
        BY <1>12 DEF RestoreLink, At
    <2>2. CASE Exists(dir, "file")
        BY <1>4, <1>12, <2>1, <2>2 DEF RestoreLink
    <2>3. CASE ~Exists(dir, "file")
        <3>1. Sole("claim")
            BY <1>2, <2>1, <2>3 DEF InReach
        <3>2. /\ Go(s, "restore2") /\ dir' = [dir EXCEPT !["file"] = dir["claim"]]
              /\ UNCHANGED <<lock, errors>>
            BY <1>5, <1>12, <2>3, <3>1 DEF RestoreLink, Changed, Link, Names
        <3>3. Exists(dir', "file")
            BY <1>2, <3>1, <3>2 DEF Exists, Names, Sole
        <3>4. Passes("restore2")'
            BY <3>3 DEF Passes, InReach, Unshared
        <3> QED BY <1>3, <3>2, <3>4
    <2> QED BY <2>2, <2>3
<1> QED BY <1>6, <1>7, <1>8, <1>9, <1>10, <1>11, <1>12

LEMMA EndsLeft ==
    ASSUME KeptInv, NEW s \in Sessions, LeftInv, Clean,
           CheckPublished(s) \/ UndoUnlink(s) \/ UnlinkClaim(s) \/ Prune(s) \/ RestoreUnlink(s)
    PROVE  LeftInv' /\ Left(s)
<1>1. lock = {s} /\ UNCHANGED <<deleted, handle>>
    BY DEF CheckPublished, UndoUnlink, UnlinkClaim, Prune, RestoreUnlink, At, userVars
<1>2. /\ InReach(pc[s]) /\ Unshared(pc[s]) /\ Fits(pc[s], dir, token[s])
      /\ dir \in [Names -> Inodes \cup {NoFile}]
      /\ Exists(dir, "tmp") => pc[s] \in {"link", "untmp"}
    BY <1>1, Holds DEF LeftInv, Passes
<1>3. ASSUME NEW p \in {"post", "prune"}, Continue(s, p, dir'), Exists(dir', "file"), errors' = errors
      PROVE  LeftInv' /\ Left(s)
    <2>1. Passes(p)'
        BY <1>3 DEF Passes, InReach, Unshared
    <2> QED BY <1>1, <1>3, <2>1, GoesOn DEF Continue
<1>4. CASE CheckPublished(s)
    <2>1. pc[s] = "published" /\ Exists(dir, "file")
        BY <1>2, <1>4 DEF CheckPublished, At, InReach
    <2>2. CASE dir["file"] # prepared[1]
        BY <1>1, <1>4, <2>1, <2>2, RefusesInPlace DEF CheckPublished, IsPrepared
    <2>3. CASE dir["file"] = prepared[1]
        <3>0. Sole("file") /\ data[dir["file"]] = prepared[2]
            BY <1>2, <2>1, <2>3 DEF Sole, Apart, Exists, Names, Unshared, Fits, Preparing
        <3>1. errors' = errors /\ (Continue(s, "post", dir) \/ End(s, "ok", dir))
            BY <1>4, <2>3, <3>0, SolesAre DEF CheckPublished, IsPrepared, Reads, Names
        <3>2. CASE Continue(s, "post", dir)
            BY <1>3, <2>1, <3>1, <3>2 DEF Continue
        <3>3. CASE End(s, "ok", dir)
            BY <1>1, <1>2, <2>1, <3>1, <3>3, EndsWell
        <3> QED BY <3>1, <3>2, <3>3
    <2> QED BY <2>2, <2>3
<1>5. CASE UndoUnlink(s)
    BY <1>2, <1>5 DEF UndoUnlink, At, Unshared
<1>6. CASE UnlinkClaim(s)
    <2>1. pc[s] = "unclaim" /\ Exists(dir, "file") /\ errors' = errors
        BY <1>2, <1>6 DEF UnlinkClaim, At, InReach
    <2>2. /\ Unlink(dir, "claim") \in [Names -> Inodes \cup {NoFile}]
          /\ Exists(Unlink(dir, "claim"), "file")
        BY <1>2, <2>1 DEF Unlink, Names, Exists
    <2>3. CASE Continue(s, "prune", Unlink(dir, "claim"))
        <3>1. dir' = Unlink(dir, "claim")
            BY <2>3 DEF Continue
        <3> QED BY <1>3, <2>1, <2>2, <2>3, <3>1
    <2>4. CASE End(s, "ok", Unlink(dir, "claim"))
        BY <1>1, <2>1, <2>2, <2>4, EndsWell
    <2> QED BY <1>6, <2>3, <2>4 DEF UnlinkClaim
<1>7. CASE Prune(s)
    <2>1. pc[s] = "prune" /\ Exists(dir, "file") /\ errors' = errors
        BY <1>2, <1>7 DEF Prune, At, InReach
    <2>2. CASE End(s, "ok", dir)
        BY <1>1, <1>2, <2>1, <2>2, EndsWell
    <2>3. CASE UNCHANGED <<fileVars, lock, pc, prepared, live>>
        <3>1. UNCHANGED <<dir, stale, strays, lock, pc, prepared, live>> /\ Leftovers' = Leftovers
            BY <2>3 DEF fileVars, entryVars, Leftovers
        <3>2. Passes("prune")'
            BY <2>1, <3>1 DEF Passes, InReach, Unshared, Exists
        <3> QED BY <1>1, <2>1, <3>1, <3>2 DEF LeftInv, Left, Clean
    <2> QED BY <1>7, <2>2, <2>3 DEF Prune
<1>8. CASE RestoreUnlink(s)
    <2>1. pc[s] = "restore2" /\ Exists(dir, "file")
        BY <1>2, <1>8 DEF RestoreUnlink, At, InReach
    <2>2. CASE dir["file"] = dir["claim"]
        <3>1. End(s, "refused", Unlink(dir, "claim")) /\ errors' = errors
            BY <1>8, <2>2 DEF RestoreUnlink
        <3>2. /\ Unlink(dir, "claim") \in [Names -> Inodes \cup {NoFile}]
              /\ Exists(Unlink(dir, "claim"), "file")
            BY <1>2, <2>1 DEF Unlink, Names, Exists
        <3> QED BY <1>1, <3>1, <3>2, EndsWell
    <2>3. CASE dir["file"] # dir["claim"]
        BY <1>1, <1>8, <2>1, <2>3, RefusesInPlace DEF RestoreUnlink
    <2> QED BY <2>2, <2>3
<1> QED BY <1>4, <1>5, <1>6, <1>7, <1>8

\* Steps of the sessions that only start, and the death of any
LEMMA StartsLeft ==
    ASSUME KeptInv, NEW s \in Sessions, LeftInv, Clean, ReadMemory(s) \/ Acquire(s) \/ Crash(s)
    PROVE  LeftInv' /\ \A t \in Sessions : lock = {t} => Left(t)
<1>1. UNCHANGED <<errors, deleted, live, handle>>
    BY DEF ReadMemory, Acquire, Crash, faultVars, userVars
<1>2. ASSUME NEW p, s \notin lock, Go(s, p), UNCHANGED <<entryVars, lock, prepared>>
      PROVE  LeftInv' /\ \A t \in Sessions : lock = {t} => Left(t)
    <2>1. UNCHANGED <<dir, stale, strays>> /\ Leftovers' = Leftovers
        BY <1>2 DEF entryVars, Leftovers
    <2>2. \A t \in lock : pc'[t] = pc[t]
        BY <1>2 DEF Go, KeptInv, StoreOK
    <2>3. ASSUME NEW q, InReach(q) PROVE InReach(q)'
        BY <1>1, <2>1, <2>3 DEF InReach, Sole, Waits, Apart, Exists
    <2>4. ASSUME NEW q, Unshared(q) PROVE Unshared(q)'
        BY <1>2, <2>1, <2>4 DEF Unshared, Sole, Apart, Exists
    <2>5. LeftInv'
        <3>1. lock = {} => InReach("lock")'
            BY <2>3 DEF LeftInv
        <3>2. ASSUME NEW t \in lock PROVE Passes(pc[t])'
            <4>1. InReach(pc[t]) /\ Unshared(pc[t])
                BY <3>2 DEF LeftInv, Passes
            <4>2. PICK q : q = pc[t]
                OBVIOUS
            <4>3. InReach(q)' /\ Unshared(q)' /\ pc'[t] = q
                BY <2>2, <2>3, <2>4, <4>1, <4>2
            <4> QED BY <4>3 DEF Passes, InReach, Unshared
        <3> QED BY <1>1, <1>2, <3>1, <3>2 DEF LeftInv
    <2> QED BY <1>2, <2>5 DEF Left
<1>3. CASE ReadMemory(s)
    <2>1. s \notin lock
        BY <1>3 DEF ReadMemory, KeptInv, Holder, Locked
    <2> QED BY <1>2, <1>3, <2>1 DEF ReadMemory, fileVars
<1>4. CASE Acquire(s)
    <2>1. PICK p \in {"preread", "recover"} : Go(s, p)
        BY <1>4 DEF Acquire
    <2>2. /\ lock = {} /\ lock' = {s} /\ UNCHANGED <<dir, stale, strays>> /\ Leftovers' = Leftovers
        BY <1>4 DEF Acquire, fileVars, entryVars, Leftovers
    <2>3. InReach("lock")
        BY <2>2 DEF LeftInv
    <2>4. Passes(p)'
        BY <1>1, <2>2, <2>3 DEF Passes, InReach, Unshared, Waits, Exists
    <2>5. pc'[s] = p
        BY <2>1 DEF Go, KeptInv, StoreOK
    <2> QED BY <1>1, <2>2, <2>4, <2>5 DEF LeftInv
<1>5. CASE Crash(s) /\ lock = {s}
    <2>1. End(s, "dead", dir)
        BY <1>5 DEF Crash
    <2>2. pc'[s] = "dead"
        BY <2>1 DEF End, Go, KeptInv, StoreOK
    <2>3. LeftInv'
        BY <1>1, <1>5, <2>1, EndsAnyway
    <2> QED BY <1>5, <2>2, <2>3 DEF Left
<1>6. CASE Crash(s) /\ lock # {s}
    <2>1. s \notin lock
        BY <1>6 DEF KeptInv, Holder
    <2> QED BY <1>2, <1>6, <2>1 DEF Crash
<1> QED BY <1>3, <1>4, <1>5, <1>6

\* The editor saves or opens a file, which is then in place, or writes to one that a
\* name leads to
LEMMA UserLeft ==
    ASSUME KeptInv, ~Late, LeftInv, Clean, UserStep, Clean'
    PROVE  LeftInv' /\ \A t \in Sessions : lock = {t} => Left(t)
<1>1. UNCHANGED <<lock, pc, prepared, stale, strays, errors>> /\ Leftovers' = Leftovers /\ ~Delete
    BY DEF UserStep, SaveByRename, SaveInPlace, OpenHandle, WriteHandle, Delete, Editor, Overwrite,
           Write1, sessionVars, faultVars, fileVars, entryVars, Clean, Leftovers
<1>2. ASSUME NEW t \in lock PROVE lock = {t} /\ Fits(pc[t], dir, token[t]) /\ InReach(pc[t]) /\ Unshared(pc[t])
    BY <1>2 DEF KeptInv, Holder, LeftInv, Passes
<1>3. dir \in [Names -> Inodes \cup {NoFile}]
    BY DEF KeptInv, StoreOK
<1>4. CASE SaveByRename
    <2>1. /\ Free # {} /\ dir' = [dir EXCEPT !["file"] = New] /\ ~NameChecked
        BY <1>4 DEF SaveByRename, Write1, Create
    <2>2. New \in Inodes /\ New \notin Linked(dir, Leftovers) /\ New \notin Pinned
        BY <2>1, NewIsFree
    <2>3. /\ dir'["file"] = New /\ dir'["claim"] = dir["claim"] /\ dir'["tmp"] = dir["tmp"]
          /\ New # NoFile /\ New \notin Leftovers \cup {dir["claim"], dir["tmp"]}
        BY <1>3, <2>1, <2>2, DirectoryAssumption DEF Linked, Names
    <2>4. Exists(dir', "file") /\ Sole("file")'
        BY <1>1, <2>3 DEF Exists, Sole, Apart, Names
    <2>5. ASSUME NEW t \in lock PROVE Passes(pc[t])'
        <3>1. pc[t] \notin {"undo", "undo2"}
            BY <2>1, <2>5 DEF NameChecked
        <3> QED BY <1>1, <1>2, <2>3, <2>4, <2>5, <3>1 DEF Passes, InReach, Unshared
    <2> QED BY <1>1, <2>4, <2>5 DEF LeftInv, InReach, Left
<1>5. CASE SaveInPlace \/ OpenHandle
    <2>1. dir' = dir /\ Exists(dir, "file")
        BY <1>5 DEF SaveInPlace, OpenHandle, Overwrite, fileVars, entryVars
    <2>2. ASSUME NEW t \in lock PROVE Passes(pc[t])'
        BY <1>1, <1>2, <2>1, <2>2 DEF Passes, InReach, Unshared, Sole, Apart, Exists
    <2> QED BY <1>1, <2>1, <2>2 DEF LeftInv, InReach, Left, Exists
<1>6. CASE WriteHandle
    <2>1. dir' = dir /\ handle # NoFile
        BY <1>6 DEF WriteHandle, Overwrite, entryVars
    <2>2. ASSUME NEW q, InReach(q) PROVE InReach(q)'
        BY <1>1, <2>1, <2>2 DEF InReach, Sole, Waits, Apart, Exists
    <2>3. ASSUME NEW t \in lock PROVE Passes(pc[t])'
        <3>1. PICK q : q = pc[t]
            OBVIOUS
        <3>2. InReach(q)'
            BY <1>2, <2>2, <2>3, <3>1
        <3>3. Unshared(pc[t])'
            BY <1>1, <1>2, <2>1, <2>3 DEF Unshared, Sole, Apart, Exists
        <3> QED BY <1>1, <3>1, <3>2, <3>3 DEF Passes, InReach, Unshared
    <2>4. lock = {} => InReach("lock")'
        BY <2>2 DEF LeftInv
    <2> QED BY <1>1, <2>3, <2>4 DEF LeftInv, Left
<1> QED BY <1>1, <1>4, <1>5, <1>6 DEF UserStep

\* Calls fail at most MaxErrors times, and the editor's deletion is not forgotten
LEMMA CleanBefore ==
    ASSUME LeftInv, [Next]_vars
    PROVE  /\ errors' \in Nat /\ errors' <= MaxErrors
           /\ Clean' => Clean /\ ~\E s \in Sessions : Fail(s)
<1>1. errors \in Nat /\ errors <= MaxErrors /\ MaxErrors \in Nat
    BY StoreAssumption DEF LeftInv
<1>2. CASE \E s \in Sessions : Fail(s)
    BY <1>1, <1>2 DEF Fail, Clean
<1>3. CASE ~\E s \in Sessions : Fail(s)
    <2>1. errors' = errors /\ (deleted => deleted')
        <3>1. ASSUME NEW s \in Sessions, ReadMemory(s) \/ Acquire(s) \/ Crash(s)
              PROVE  errors' = errors /\ (deleted => deleted')
            BY <3>1 DEF ReadMemory, Acquire, Crash, faultVars, userVars
        <3>2. ASSUME NEW s \in Sessions,
                     \/ ReadPrior(s) \/ RecoverLook(s) \/ Revive(s) \/ ReadInitial(s)
                     \/ ConfirmAbsent(s) \/ ClaimExisting(s) \/ CheckClaim(s) \/ ArchivePrior(s)
                     \/ CreateTemporary(s) \/ LinkFile(s) \/ UnlinkTemporary(s)
              PROVE  errors' = errors /\ (deleted => deleted')
            BY <3>2 DEF ReadPrior, RecoverLook, Revive, ReadInitial, ConfirmAbsent, ClaimExisting,
                        CheckClaim, ArchivePrior, CreateTemporary, LinkFile, UnlinkTemporary,
                        At, Same, Changed, Refuse, userVars
        <3>3. ASSUME NEW s \in Sessions,
                     \/ CheckPublished(s) \/ UndoLook(s) \/ UndoUnlink(s) \/ CheckPost(s)
                     \/ UnlinkClaim(s) \/ Prune(s) \/ RestoreLink(s) \/ RestoreUnlink(s)
              PROVE  errors' = errors /\ (deleted => deleted')
            BY <3>3 DEF CheckPublished, UndoLook, UndoUnlink, CheckPost, UnlinkClaim, Prune,
                        RestoreLink, RestoreUnlink, At, Same, Changed, Refuse, userVars
        <3>4. ASSUME UserStep \/ UNCHANGED vars PROVE errors' = errors /\ (deleted => deleted')
            BY <3>4 DEF UserStep, SaveByRename, SaveInPlace, OpenHandle, WriteHandle, Delete, Editor,
                        Overwrite, vars, faultVars, userVars
        <3> QED BY <1>3, <3>1, <3>2, <3>3, <3>4 DEF Next, Write, Rest
    <2> QED BY <1>1, <1>3, <2>1 DEF Clean
<1> QED BY <1>2, <1>3

LEMMA NextLeft ==
    ASSUME KeptInv, LeftInv, ~Late, [Next]_vars
    PROVE  LeftInv' /\ (Clean' => \A t \in Sessions : lock = {t} => Left(t))
<1>1. CASE ~Clean'
    BY <1>1, CleanBefore DEF LeftInv
<1>2. CASE Clean'
    <2>1. Clean /\ ~\E s \in Sessions : Fail(s)
        BY <1>2, CleanBefore
    <2>2. ASSUME NEW s \in Sessions, Write(s), ~Acquire(s)
          PROVE  LeftInv' /\ \A t \in Sessions : lock = {t} => Left(t)
        <3>1. lock = {s}
            BY <2>2 DEF Write, ReadPrior, RecoverLook, Revive, ReadInitial, ConfirmAbsent,
                        ClaimExisting, CheckClaim, ArchivePrior, CreateTemporary, LinkFile,
                        UnlinkTemporary, CheckPublished, UndoLook, UndoUnlink, CheckPost,
                        UnlinkClaim, Prune, RestoreLink, RestoreUnlink, At
        <3>2. LeftInv' /\ Left(s)
            BY <2>1, <2>2, LooksLeft, MovesLeft, EndsLeft DEF Write
        <3> QED BY <3>1, <3>2
    <2>3. ASSUME UNCHANGED vars PROVE LeftInv' /\ \A t \in Sessions : lock = {t} => Left(t)
        <3>1. UNCHANGED <<dir, stale, strays, prepared, live, handle, lock, pc, errors, deleted>>
              /\ Leftovers' = Leftovers
            BY <2>3 DEF vars, fileVars, entryVars, sessionVars, faultVars, userVars, Leftovers
        <3>2. LeftInv'
            BY <3>1 DEF LeftInv, Clean, Passes, InReach, Unshared, Sole, Waits, Apart, Exists
        <3> QED BY <3>1, <3>2 DEF Left
    <2> QED BY <1>2, <2>1, <2>2, <2>3, StartsLeft, UserLeft DEF Next, Write, Rest
<1> QED BY <1>1, <1>2

\* A write that ends, saved or refused, leaves the file in place, and so does what a
\* dead writer had moved: for every number of sessions, crashes and saves, as long as
\* no call has failed and the editor has not deleted the file
THEOREM FileIsLeft == ~Late => (Spec => LeavesFile)
<1> SUFFICES ASSUME ~Late PROVE Spec => LeavesFile
    OBVIOUS
<1>1. Init => KeptInv /\ LeftInv
    BY InitKept, InitLeft
<1>2. KeptInv /\ LeftInv /\ [Next]_vars => KeptInv' /\ LeftInv'
    BY NextKept, NextLeft
<1>3. KeptInv /\ LeftInv /\ [Next]_vars =>
          [\A s \in Sessions :
             lock = {s} /\ lock' = {} /\ pc[s] # "preread" /\ pc'[s] # "dead"
             /\ errors' = MaxErrors
             /\ live' # {} /\ ~deleted'
               => Exists(dir', "file")]_vars
    BY NextLeft DEF Left, Clean
<1> QED BY <1>1, <1>2, <1>3, PTL DEF Spec, LeavesFile
=============================================================================
