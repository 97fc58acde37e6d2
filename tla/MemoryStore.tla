---------------------------- MODULE MemoryStore ----------------------------
(***************************************************************************)
(* memory_io.py of session-memory: a memory file (HANDOFF.md, LESSONS.md,  *)
(* SOLUTIONS.md, or AGENTS.md for a promotion) that several sessions       *)
(* replace by compare-and-swap.  A session reads the file and its token    *)
(* without a lock, drafts a document and writes it under the directory     *)
(* lock: recover a claim a dead writer left, read and compare, move the    *)
(* file to a claim, check the claim, archive it (handoff only), check it   *)
(* again, create the new file without replacing anything, check the claim  *)
(* once more, remove it, prune the archive.                                *)
(*                                                                         *)
(* Sessions may die at any step, a system call may fail, and an editor     *)
(* that knows nothing of the lock may save or delete the file.  Documents  *)
(* are versions, numbered in the order of their writing, which is also the *)
(* order of their modification times.                                      *)
(***************************************************************************)
EXTENDS Directory, Sequences

CONSTANTS Sessions,   \* each reads once and writes once
          Kinds,      \* of file: "handoff", "lessons" (or solutions), "promotion"
          Keep,       \* how many archives are kept: 5 in the code
          Editing,    \* what the editor does: "rename", "inplace", "handle", "delete"
          Late,       \* whether it may save between the last check of a file and
                      \* the removal or replacement that relies on it
          MaxEdits, MaxErrors, MaxCrashes  \* bounds

ASSUME StoreAssumption ==
    /\ Kinds # {} /\ Kinds \subseteq {"handoff", "lessons", "promotion"}
    /\ Keep \in Nat \ {0} /\ Late \in BOOLEAN
    /\ MaxEdits \in Nat /\ MaxErrors \in Nat /\ MaxCrashes \in Nat
    /\ NoFile \notin Inodes \X Nat

VARIABLES
    kind,     \* of the file
    dir,      \* the file, and the temporary and the claim of the lock holder
    stale,    \* inodes under claim names that nobody remembers
    strays,   \* inodes under temporary names that nobody remembers
    data,     \* the version each inode holds
    last,     \* the last version written
    archived, \* the versions ever archived, oldest first
    kept,     \* which of these archives still exist
    unsafe,   \* whether the archive holds a hard-linked entry
    lock, pc, token,
    prepared, \* the inode and the version the lock holder publishes
    errors, crashes, edits,  \* what the bounds count
    handle, deleted,         \* the editor's open file, and whether it deleted
    live,     \* versions accepted or saved, and not replaced by who knew them
    dropped   \* versions that a failed restoration unlinked with their file

entryVars == <<dir, stale, strays>>
fileVars == <<entryVars, data, last>>
archiveVars == <<kind, archived, kept, unsafe>>
sessionVars == <<lock, pc, token, prepared>>
faultVars == <<errors, crashes, dropped>>
userVars == <<edits, handle, deleted>>
vars == <<fileVars, archiveVars, sessionVars, faultVars, userVars, live>>

Names == {"file", "tmp", "claim"}
Absent == 0
Versions == 0 .. (1 + Cardinality(Sessions) + MaxEdits)

Locked == {"preread", "recover", "revive", "initial", "absent", "claim", "verify",
           "confirm", "archive", "final", "create", "link", "untmp", "published",
           "undo", "undo2", "post", "unclaim", "prune", "restore", "restore2"}
Ended == {"ok", "refused", "dead"}

TypeOK ==
    /\ dir \in [Names -> Inodes \cup {NoFile}]
    /\ stale \subseteq Inodes /\ strays \subseteq Inodes
    /\ data \in [Inodes -> Versions] /\ last \in Versions
    /\ archived \in Seq(Versions) /\ kept \subseteq DOMAIN archived
    /\ unsafe \in BOOLEAN /\ kind \in Kinds
    /\ lock \subseteq Sessions
    /\ pc \in [Sessions -> {"read", "lock"} \cup Locked \cup Ended]
    /\ token \in [Sessions -> Versions]
    /\ prepared \in (Inodes \X Versions) \cup {NoFile}
    /\ errors \in Nat /\ crashes \in Nat /\ edits \in Nat
    /\ handle \in Inodes \cup {NoFile} /\ deleted \in BOOLEAN
    /\ live \subseteq Versions /\ dropped \subseteq Versions

-----------------------------------------------------------------------------
(* Reading *)

Leftovers == strays \cup stale

\* _regular_state refuses a file with another hard link
Single(n) == Exists(dir, n) /\ Nlink(dir, Leftovers, dir[n]) = 1

Reads(n, v) == Single(n) /\ data[dir[n]] = v

\* What _read_at and _snapshot make of the file
Current(v) == Reads("file", v) \/ (v = Absent /\ ~Exists(dir, "file"))

Go(s, p) == pc' = [pc EXCEPT ![s] = p]

\* A step of the session that holds the lock
At(s, p) ==
    lock = {s} /\ pc[s] = p /\ UNCHANGED <<token, crashes, dropped, userVars>>

Same == UNCHANGED <<fileVars, archiveVars, lock, prepared, errors, live>>
Changed(d) == /\ dir' = d
              /\ UNCHANGED <<stale, strays, data, last, archiveVars, lock,
                             prepared, errors, live>>

\* The read command takes no lock
ReadMemory(s) ==
    /\ pc[s] = "read"
    /\ \/ \E v \in Versions : /\ Current(v)
                              /\ token' = [token EXCEPT ![s] = v]
          /\ Go(s, "lock")
       \/ /\ Exists(dir, "file") /\ ~Single("file")
          /\ Go(s, "refused") /\ UNCHANGED token
    /\ UNCHANGED <<fileVars, archiveVars, lock, prepared, faultVars, userVars, live>>

-----------------------------------------------------------------------------
(* How a write ends *)

\* (mutant) the lock is not released
EndLocked(s, r, d) ==
    /\ dir' = [d EXCEPT !["tmp"] = NoFile, !["claim"] = NoFile]
    /\ stale' = stale \cup ({d["claim"]} \ {NoFile})
    /\ strays' = strays \cup ({d["tmp"]} \ {NoFile})
    /\ prepared' = NoFile /\ Go(s, r)
    /\ UNCHANGED lock

\* A claim or a temporary that is still there keeps its name
End(s, r, d) ==
    /\ dir' = [d EXCEPT !["tmp"] = NoFile, !["claim"] = NoFile]
    /\ stale' = stale \cup ({d["claim"]} \ {NoFile})
    /\ strays' = strays \cup ({d["tmp"]} \ {NoFile})
    /\ prepared' = NoFile /\ Go(s, r)
    /\ lock' = {}

Continue(s, p, d) ==
    dir' = d /\ Go(s, p) /\ UNCHANGED <<stale, strays, lock, prepared>>

\* _atomic_create_at failed: a claim is restored, if there is one
Abandon(s, d) ==
    IF Exists(d, "claim") THEN Continue(s, "restore", d) ELSE End(s, "refused", d)

\* What an exception does at each step
Raise(s) ==
    /\ \/ /\ pc[s] \in {"preread", "recover", "revive", "initial", "absent", "claim",
                        "post", "unclaim", "restore"}
          /\ End(s, "refused", dir)
       \/ /\ pc[s] \in {"verify", "confirm", "archive", "final"}
          /\ Continue(s, "restore", dir)
       \/ pc[s] \in {"create", "link"} /\ Abandon(s, Unlink(dir, "tmp"))
       \/ pc[s] \in {"untmp", "published"} /\ Continue(s, "undo", Unlink(dir, "tmp"))
       \/ pc[s] \in {"undo", "undo2"} /\ Abandon(s, dir)
       \/ \* a restore that raced takes the link back and keeps the claim
          /\ pc[s] = "restore2"
          /\ End(s, "refused", IF dir["file"] = dir["claim"] THEN Unlink(dir, "file")
                                                             ELSE dir)
       \/ \* the write has succeeded: pruning only warns
          pc[s] = "prune" /\ End(s, "ok", dir)
    /\ UNCHANGED <<data, last, archiveVars, live>>

Refuse(s) == Raise(s) /\ UNCHANGED errors

-----------------------------------------------------------------------------
(* The steps of a write *)

Acquire(s) ==
    /\ pc[s] = "lock" /\ lock = {}
    /\ lock' = {s}
    /\ Go(s, IF kind = "promotion" THEN "preread" ELSE "recover")
    /\ UNCHANGED <<fileVars, archiveVars, token, prepared, faultVars, userVars, live>>

\* promote reads the target to append to it
ReadPrior(s) ==
    /\ At(s, "preread")
    /\ IF Current(token[s]) THEN Same /\ Go(s, "recover") ELSE Refuse(s)

\* Claims that _recover_stale_claims considers, and the one it takes
Claims == {i \in stale : Nlink(dir, Leftovers, i) = 1}
Newest == CHOOSE i \in Claims : \A j \in Claims : data[j] <= data[i]

RecoverLook(s) ==
    /\ At(s, "recover")
    /\ \/ Claims = {} /\ Same /\ Go(s, "initial")
       \/ Claims # {} /\ Single("file") /\ Same /\ Go(s, "initial")
       \/ Claims # {} /\ ~Exists(dir, "file") /\ Same /\ Go(s, "revive")
       \/ Claims # {} /\ Exists(dir, "file") /\ ~Single("file") /\ Refuse(s)

\* os.rename: it would replace a file that appeared since
Revive(s) ==
    /\ At(s, "revive")
    /\ dir' = [dir EXCEPT !["file"] = Newest] /\ stale' = stale \ {Newest}
    /\ Go(s, "initial")
    /\ UNCHANGED <<strays, data, last, archiveVars, lock, prepared, errors, live>>

\* (mutant) the token is not compared
InitialUnchecked(s) ==
    /\ At(s, "initial")
    /\ Same /\ Go(s, IF Exists(dir, "file") THEN "claim" ELSE "absent")

ReadInitial(s) ==
    /\ At(s, "initial")
    /\ IF Current(token[s])
       THEN Same /\ Go(s, IF token[s] = Absent THEN "absent" ELSE "claim")
       ELSE Refuse(s)

ConfirmAbsent(s) ==
    /\ At(s, "absent")
    /\ IF ~Exists(dir, "file") THEN Same /\ Go(s, "create") ELSE Refuse(s)

ClaimExisting(s) ==
    /\ At(s, "claim")
    /\ IF Exists(dir, "file")
       THEN Changed(Rename(dir, "file", "claim")) /\ Go(s, "verify")
       ELSE Refuse(s)

\* The claim is read and compared three times before the publication
CheckClaim(s) ==
    \/ /\ At(s, "verify")
       /\ IF Reads("claim", token[s]) THEN Same /\ Go(s, "confirm") ELSE Refuse(s)
    \/ /\ At(s, "confirm")
       /\ IF Reads("claim", token[s])
          THEN Same /\ Go(s, IF kind = "handoff" THEN "archive" ELSE "final")
          ELSE Refuse(s)
    \/ /\ At(s, "final")
       /\ IF Reads("claim", token[s]) THEN Same /\ Go(s, "create") ELSE Refuse(s)

Archive(v) == /\ archived' = Append(archived, v)
              /\ kept' = kept \cup {Len(archived) + 1}

\* archive_prior writes the bytes of the confirmed read
ArchivePrior(s) ==
    /\ At(s, "archive")
    /\ Archive(token[s])
    /\ Go(s, "final")
    /\ UNCHANGED <<fileVars, kind, unsafe, lock, prepared, errors, live>>

\* Not reused: an open file and, unless Late, the inode that is being published
\* (its descriptor is closed before the link)
Pinned == {handle} \cup (IF Late \/ prepared = NoFile THEN {} ELSE {prepared[1]})
Free == FreeInodes(dir, Leftovers, Pinned)
New == NewInode(dir, Leftovers, Pinned)

Write1(n) ==
    /\ Free # {} /\ dir' = Create(dir, n, New)
    /\ last' = last + 1 /\ data' = [data EXCEPT ![New] = last + 1]
    /\ UNCHANGED <<stale, strays>>

CreateTemporary(s) ==
    /\ At(s, "create")
    /\ Write1("tmp") /\ prepared' = <<New, last + 1>>
    /\ Go(s, "link")
    /\ UNCHANGED <<archiveVars, lock, errors, live>>

LinkFile(s) ==
    /\ At(s, "link")
    /\ IF ~Exists(dir, "file")
       THEN Changed(Link(dir, "tmp", "file")) /\ Go(s, "untmp")
       ELSE Refuse(s)

UnlinkTemporary(s) ==
    /\ At(s, "untmp")
    /\ Changed(Unlink(dir, "tmp")) /\ Go(s, "published")

IsPrepared == dir["file"] = prepared[1]

\* The published file must be the inode that was prepared, unchanged.  From
\* here on the write counts: it replaces the version it was drafted from.
CheckPublished(s) ==
    /\ At(s, "published")
    /\ IF IsPrepared /\ Reads("file", prepared[2])
       THEN /\ live' = (live \ {token[s]}) \cup {prepared[2]}
            /\ UNCHANGED <<data, last, archiveVars, errors>>
            /\ IF Exists(dir, "claim") THEN Continue(s, "post", dir) ELSE End(s, "ok", dir)
       ELSE Refuse(s)

\* The publication is taken back: the name is compared, then unlinked
UndoLook(s) ==
    /\ At(s, "undo")
    /\ IF IsPrepared THEN Same /\ Go(s, "undo2") ELSE Refuse(s)

UndoUnlink(s) ==
    /\ At(s, "undo2")
    /\ Abandon(s, Unlink(dir, "file"))
    /\ UNCHANGED <<data, last, archiveVars, errors, live>>

\* (mutant) the claim is not read again
PostUnchecked(s) == At(s, "post") /\ Same /\ Go(s, "unclaim")

\* A claim that changed while the new file was published is kept
CheckPost(s) ==
    /\ At(s, "post")
    /\ IF Reads("claim", token[s]) THEN Same /\ Go(s, "unclaim") ELSE Refuse(s)

UnlinkClaim(s) ==
    /\ At(s, "unclaim")
    /\ IF kind = "handoff" THEN Continue(s, "prune", Unlink(dir, "claim"))
                           ELSE End(s, "ok", Unlink(dir, "claim"))
    /\ UNCHANGED <<data, last, archiveVars, errors, live>>

\* (mutant) one archive too many is removed
PruneOneMore(s) ==
    /\ At(s, "prune")
    /\ kept' = {a \in kept : Cardinality({b \in kept : b > a}) < Keep - 1}
    /\ End(s, "ok", dir)
    /\ UNCHANGED <<data, last, kind, archived, unsafe, errors, live>>

\* The archives beyond the newest Keep go one by one, unless one is unsafe
Prune(s) ==
    /\ At(s, "prune")
    /\ LET old == {a \in kept : Cardinality({b \in kept : b > a}) >= Keep} IN
       IF unsafe \/ old = {}
       THEN /\ End(s, "ok", dir)
            /\ UNCHANGED <<data, last, archiveVars, errors, live>>
       ELSE /\ \E a \in old : (\A b \in old : b <= a) /\ kept' = kept \ {a}
            /\ UNCHANGED <<fileVars, kind, archived, unsafe, lock, pc, prepared, errors, live>>

\* (mutant) the claim is left where it is
RestoreNothing(s) ==
    /\ At(s, "restore")
    /\ End(s, "refused", dir)
    /\ UNCHANGED <<data, last, archiveVars, errors, live>>

\* _restore_claim_at: the claim returns unless another file took its place
RestoreLink(s) ==
    /\ At(s, "restore")
    /\ IF Single("claim") /\ ~Exists(dir, "file")
       THEN Changed(Link(dir, "claim", "file")) /\ Go(s, "restore2")
       ELSE Refuse(s)

RestoreUnlink(s) ==
    /\ At(s, "restore2")
    /\ IF dir["file"] = dir["claim"]
       THEN /\ End(s, "refused", Unlink(dir, "claim"))
            /\ UNCHANGED <<data, last, archiveVars, errors, live>>
       ELSE Refuse(s)

Write(s) ==
    \/ Acquire(s) \/ ReadPrior(s) \/ RecoverLook(s) \/ Revive(s) \/ ReadInitial(s)
    \/ ConfirmAbsent(s) \/ ClaimExisting(s) \/ CheckClaim(s) \/ ArchivePrior(s)
    \/ CreateTemporary(s) \/ LinkFile(s) \/ UnlinkTemporary(s) \/ CheckPublished(s)
    \/ UndoLook(s) \/ UndoUnlink(s) \/ CheckPost(s) \/ UnlinkClaim(s) \/ Prune(s)
    \/ RestoreLink(s) \/ RestoreUnlink(s)

-----------------------------------------------------------------------------
(* Errors and crashes *)

\* The look at what has just been restored fails when the claim is gone: the
\* except clause unlinks the name, which was the last
RestoreTakenBack(s) ==
    /\ pc[s] = "restore2" /\ dir["file"] = dir["claim"]
    /\ End(s, "refused", Unlink(Unlink(dir, "claim"), "file"))
    /\ dropped' = dropped \cup {data[dir["file"]]}

\* What fails is a call behind the one the step is named for, and what follows
\* is not what Raise does at the next step: the fsync behind the claim's rename
\* or unlink, the listing in which _recover_stale_claims looks for claims
FailBehind(s) ==
    /\ \/ /\ pc[s] = "claim" /\ Exists(dir, "file")
          /\ End(s, "refused", Rename(dir, "file", "claim")) /\ UNCHANGED dropped
       \/ /\ pc[s] = "unclaim"
          /\ End(s, "refused", Unlink(dir, "claim")) /\ UNCHANGED dropped
       \/ pc[s] = "recover" /\ Continue(s, "initial", dir) /\ UNCHANGED dropped
       \/ RestoreTakenBack(s)
    /\ UNCHANGED <<data, last, archiveVars, live>>

\* A system call fails, or the file changes while it is read
Fail(s) ==
    /\ errors > 0 /\ lock = {s}
    /\ errors' = errors - 1
    /\ \/ Raise(s) /\ UNCHANGED dropped
       \/ FailBehind(s)
    /\ UNCHANGED <<token, crashes, userVars>>

\* SIGKILL, a signal that no except clause catches, or a power failure: the
\* kernel releases the lock, the names stay.  A crash inside archive_prior may
\* leave its entry hard-linked.
Crash(s) ==
    /\ crashes > 0 /\ pc[s] \notin Ended
    /\ crashes' = crashes - 1
    /\ IF lock = {s} THEN End(s, "dead", dir)
                     ELSE Go(s, "dead") /\ UNCHANGED <<entryVars, lock, prepared>>
    /\ \/ UNCHANGED archiveVars
       \/ pc[s] = "archive" /\ Archive(token[s]) /\ unsafe' = TRUE /\ UNCHANGED kind
    /\ UNCHANGED <<data, last, token, errors, dropped, userVars, live>>

-----------------------------------------------------------------------------
(* The editor *)

Editor(e) ==
    /\ e \in Editing /\ edits > 0
    /\ edits' = edits - 1
    /\ UNCHANGED <<archiveVars, sessionVars, faultVars>>

FileContent == IF Exists(dir, "file") THEN {data[dir["file"]]} ELSE {}

\* No check of the lock holder follows on inode i before it is removed
Unchecked(i) ==
    \E s \in lock :
        \/ pc[s] = "unclaim" /\ i = dir["claim"]
        \/ pc[s] \in {"untmp", "published", "undo", "undo2"} /\ i = prepared[1]

\* The lock holder has looked at the name, and will remove or replace what it
\* leads to
NameChecked == \E s \in lock : pc[s] \in {"revive", "undo", "undo2"}

\* A write to an existing file, by name or through an open descriptor
Overwrite(i) ==
    /\ Late \/ ~Unchecked(i)
    /\ data' = [data EXCEPT ![i] = last + 1] /\ last' = last + 1
    /\ live' = (live \ {data[i]})
               \cup (IF i \in Linked(dir, Leftovers) THEN {last + 1} ELSE {})
    /\ UNCHANGED <<entryVars, deleted>>

SaveByRename ==
    /\ Editor("rename") /\ handle = NoFile
    /\ Late \/ ~NameChecked
    /\ Write1("file")
    /\ live' = (live \ FileContent) \cup {last + 1}
    /\ UNCHANGED <<handle, deleted>>

SaveInPlace ==
    /\ Editor("inplace") /\ Exists(dir, "file")
    /\ Overwrite(dir["file"]) /\ UNCHANGED handle

OpenHandle ==
    /\ "handle" \in Editing /\ edits > 0 /\ handle = NoFile
    /\ Exists(dir, "file") /\ handle' = dir["file"]
    /\ UNCHANGED <<fileVars, archiveVars, sessionVars, faultVars, edits, deleted, live>>

WriteHandle ==
    /\ Editor("handle") /\ handle # NoFile
    /\ Overwrite(handle) /\ handle' = NoFile

Delete ==
    /\ Editor("delete") /\ ~deleted /\ handle = NoFile /\ Exists(dir, "file")
    /\ dir' = Unlink(dir, "file")
    /\ deleted' = TRUE /\ live' = live \ FileContent
    /\ UNCHANGED <<stale, strays, data, last, handle>>

UserStep == SaveByRename \/ SaveInPlace \/ OpenHandle \/ WriteHandle \/ Delete

-----------------------------------------------------------------------------
First == CHOOSE i \in Inodes : TRUE

\* The file is missing, or a session of the past wrote version 1
Init ==
    /\ kind \in Kinds
    /\ last \in {0, 1}
    /\ dir = [n \in Names |-> IF n = "file" /\ last = 1 THEN First ELSE NoFile]
    /\ stale = {} /\ strays = {}
    /\ data = [i \in Inodes |-> IF i = First THEN last ELSE 0]
    /\ archived = <<>> /\ kept = {} /\ unsafe = FALSE
    /\ lock = {} /\ pc = [s \in Sessions |-> "read"]
    /\ token = [s \in Sessions |-> Absent] /\ prepared = NoFile
    /\ errors = MaxErrors /\ crashes = MaxCrashes /\ dropped = {}
    /\ edits = MaxEdits /\ handle = NoFile /\ deleted = FALSE
    /\ live = {last} \ {Absent}

Rest == (\A s \in Sessions : pc[s] \in Ended) /\ UNCHANGED vars

Next == \/ \E s \in Sessions : ReadMemory(s) \/ Write(s) \/ Fail(s) \/ Crash(s)
        \/ UserStep \/ Rest

Spec == Init /\ [][Next]_vars

\* The operating system lets every session run, and flock is granted to one
\* of those that wait for it
FairSpec == Spec /\ \A s \in Sessions : WF_vars(Write(s))

-----------------------------------------------------------------------------
(* Properties *)

\* A version that a write or the editor saved, and that nobody who knew it
\* has replaced, can still be read under some name.  The exception is a
\* restoration that fails once the claim is unlinked: it unlinks the file too.
NothingLost ==
    \A v \in live \ dropped :
        \/ \E i \in Linked(dir, Leftovers) \ {NoFile} : data[i] = v
        \/ \E a \in kept : archived[a] = v

\* The helper publishes complete files without overwriting an occupied target
\* (memory-contract.md): only the editor replaces one file by another.
NeverReplaces ==
    [][\/ UserStep
       \/ (Exists(dir, "file") /\ Exists(dir', "file") => dir'["file"] = dir["file"])]_vars

\* A write that ends, saved or refused, leaves the file in place: what it moved
\* to a claim is back or replaced, and so is what a dead writer had moved.  Only
\* a promotion is refused before it looks for what a dead writer left.
LeavesFile ==
    [][\A s \in Sessions :
         lock = {s} /\ lock' = {} /\ pc[s] # "preread" /\ pc'[s] # "dead"
         /\ errors' = MaxErrors
         /\ live' # {} /\ ~deleted'
           => Exists(dir', "file")]_vars

\* handoff-schema.md: the five newest archives are retained.
NewestKept == \A a \in DOMAIN archived : a > Len(archived) - Keep => a \in kept

\* A session that asks for the lock ends its write.
Finishes == \A s \in Sessions : pc[s] = "lock" ~> pc[s] \in Ended

-----------------------------------------------------------------------------
(* Refinement: the version a session would find, were no write under way *)

Candidates == Claims \cup
    {i \in {dir["claim"]} \ {NoFile} : Nlink(dir, Leftovers, i) = 1}

Value == IF Exists(dir, "file") THEN data[dir["file"]]
         ELSE IF Candidates = {} THEN Absent
         ELSE data[CHOOSE i \in Candidates : \A j \in Candidates : data[j] <= data[i]]

Stage(p) == CASE p = "read" -> "read"
              [] p \in Ended -> "ended"
              [] p \in {"untmp", "published", "post", "unclaim", "prune"} -> "accepted"
              [] OTHER -> "drafted"

Register == INSTANCE CasRegister WITH value <- Value, stage <- [s \in Sessions |-> Stage(pc[s])]

\* Without an editor and without failing system calls the file is a
\* compare-and-swap register, crashes of the sessions included.
IsRegister == Register!Spec
=============================================================================
