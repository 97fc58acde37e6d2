----------------------------- MODULE Vocabulary -----------------------------
(***************************************************************************)
(* glossary_file.py of project-vocabulary: several agents propose and      *)
(* apply new versions of CONCEPTS.md.  There is no lock.  An apply brings  *)
(* back the claim of a dead one, compares the target with the digest its   *)
(* user approved, writes a temporary, moves the target to a claim, reads   *)
(* the claim, links the temporary to the target, checks what it installed, *)
(* reads the claim again, and removes claim and temporary.                 *)
(*                                                                         *)
(* A claim counts as dead when its content is older than 60 seconds.  An   *)
(* apply may die at any step, a system call may fail, and an editor may    *)
(* save or delete the target at any time (for one moment see Late).        *)
(* Contents are versions, in the order of their writing.                   *)
(***************************************************************************)
EXTENDS Directory

CONSTANTS Agents,    \* each proposes and applies once
          Editing,   \* what the editor does: "rename", "inplace", "handle", "delete"
          Late,      \* whether it may write to a claim between the last read of it
                     \* and its unlink, through a descriptor it had opened before
          MaxEdits, MaxErrors, MaxCrashes  \* bounds

ASSUME VocabularyAssumption ==
    /\ IsFiniteSet(Agents) /\ Late \in BOOLEAN
    /\ MaxEdits \in Nat /\ MaxErrors \in Nat /\ MaxCrashes \in Nat

VARIABLES
    dir,       \* the target, and each agent's temporary and claim
    data,      \* the version each inode holds
    aged,      \* the inodes whose content is older than 60 seconds
    last,      \* the last version written
    pc,        \* of each agent
    token,     \* expected_current: what the user approved to replace
    candidate, \* the version to install
    picked,    \* the claim an agent's recovery has chosen
    installed, \* the agents that have linked their candidate to the target
    errors, crashes, edits,  \* what the bounds count
    handle, deleted,         \* the editor's open file, and whether it deleted
    live       \* versions in place or saved, and not replaced by who knew them

fileVars == <<dir, data, aged, last>>
agentVars == <<token, candidate, picked, installed>>
boundVars == <<errors, crashes>>
userVars == <<edits, handle, deleted>>
vars == <<fileVars, pc, agentVars, boundVars, userVars, live>>

Target == <<"target", "CONCEPTS.md">>
Tmp(p) == <<"tmp", p>>
Claim(p) == <<"claim", p>>
Names == {Target} \cup {Tmp(p) : p \in Agents} \cup {Claim(p) : p \in Agents}
Missing == 0
Versions == 0 .. (1 + Cardinality(Agents) + MaxEdits)

Ended == {"ok", "refused", "dead"}
Steps == {"propose", "recover", "revive", "read", "create", "claim", "verify", "link",
          "same", "content", "reclaim", "unclaim", "untmp", "return", "drop", "restore"}

TypeOK ==
    /\ dir \in [Names -> Inodes \cup {NoFile}]
    /\ data \in [Inodes -> Versions] /\ aged \subseteq Inodes /\ last \in Versions
    /\ pc \in [Agents -> Steps \cup Ended]
    /\ token \in [Agents -> Versions] /\ candidate \in [Agents -> Versions]
    /\ picked \in [Agents -> Agents \cup {NoFile}] /\ installed \subseteq Agents
    /\ errors \in Nat /\ crashes \in Nat /\ edits \in Nat
    /\ handle \in Inodes \cup {NoFile} /\ deleted \in BOOLEAN /\ live \subseteq Versions

-----------------------------------------------------------------------------
(* Reading and writing *)

Links(n) == Nlink(dir, {}, dir[n])
Reads(n, links, v) == Exists(dir, n) /\ Links(n) = links /\ data[dir[n]] = v

\* target_state: missing, or a regular file with one link
Current(v) == Reads(Target, 1, v) \/ (v = Missing /\ ~Exists(dir, Target))

At(p, s) == pc[p] = s /\ UNCHANGED <<boundVars, userVars>>
Go(p, s) == pc' = [pc EXCEPT ![p] = s]
Same == UNCHANGED <<fileVars, agentVars, live>>
Entries(d) == dir' = d /\ UNCHANGED <<data, aged, last>>
Changed(d) == Entries(d) /\ UNCHANGED <<agentVars, live>>

\* renameat2(RENAME_NOREPLACE), or nothing when it fails
RenameNoReplace(from, to) ==
    IF Exists(dir, from) /\ ~Exists(dir, to) THEN Rename(dir, from, to) ELSE dir

\* An exception inside the try statement of apply leads to its finally clause
Refuse(p) == Same /\ Go(p, "drop")

\* preserve_temporary: the finally clause has nothing to do, a claim is kept
\* because the candidate has been installed
Preserve(p) == Same /\ Go(p, "refused")

-----------------------------------------------------------------------------
(* proposal, then apply *)

\* inspect or proposal; the user approves the two digests it shows
Propose(p) ==
    /\ At(p, "propose")
    /\ \/ /\ \E v \in Versions :
                /\ Current(v) /\ token' = [token EXCEPT ![p] = v]
                /\ \/ last' = last + 1 /\ candidate' = [candidate EXCEPT ![p] = last + 1]
                   \/ v # Missing /\ candidate' = [candidate EXCEPT ![p] = v] /\ UNCHANGED last
          /\ Go(p, "recover")
          /\ UNCHANGED <<dir, data, aged, picked, installed, live>>
       \/ Exists(dir, Target) /\ Links(Target) # 1 /\ Same /\ Go(p, "refused")

\* The claims that _recover_stale_claims takes for those of dead agents
Stale == {q \in Agents : /\ Exists(dir, Claim(q)) /\ Links(Claim(q)) = 1
                         /\ dir[Claim(q)] \in aged}

\* (mutant) nothing is recovered
RecoverNothing(p) == At(p, "recover") /\ Same /\ Go(p, "read")

RecoverLook(p) ==
    /\ At(p, "recover")
    /\ \/ (Stale = {} \/ Exists(dir, Target)) /\ Same /\ Go(p, "read")
       \/ /\ Stale # {} /\ ~Exists(dir, Target)
          /\ \E q \in Stale :
                /\ \A r \in Stale : data[dir[Claim(r)]] <= data[dir[Claim(q)]]
                /\ picked' = [picked EXCEPT ![p] = q]
          /\ Go(p, "revive")
          /\ UNCHANGED <<fileVars, token, candidate, installed, live>>

Revive(p) ==
    /\ At(p, "revive")
    /\ Changed(RenameNoReplace(Claim(picked[p]), Target)) /\ Go(p, "read")

\* There is nothing to do when the candidate is what is in place already
ReadCurrent(p) ==
    /\ At(p, "read")
    /\ Same
    /\ Go(p, IF ~Current(token[p]) THEN "refused"
             ELSE IF candidate[p] = token[p] THEN "ok" ELSE "create")

\* Not reused: the editor's open file
Free == FreeInodes(dir, {}, {handle})
New == NewInode(dir, {}, {handle})
NewFile(n, v) ==
    /\ Free # {} /\ dir' = Create(dir, n, New)
    /\ data' = [data EXCEPT ![New] = v] /\ aged' = aged \ {New}

CreateTemporary(p) ==
    /\ At(p, "create")
    /\ NewFile(Tmp(p), candidate[p])
    /\ Go(p, IF token[p] = Missing THEN "link" ELSE "claim")
    /\ UNCHANGED <<last, agentVars, live>>

ClaimTarget(p) ==
    /\ At(p, "claim")
    /\ IF Exists(dir, Target)
       THEN Changed(Rename(dir, Target, Claim(p))) /\ Go(p, "verify")
       ELSE Refuse(p)

\* A claim that is not what was approved goes back at once
VerifyClaim(p) ==
    /\ At(p, "verify")
    /\ Same
    /\ Go(p, IF ~Exists(dir, Claim(p)) THEN "drop"
             ELSE IF Reads(Claim(p), 1, token[p]) THEN "link" ELSE "return")

ReturnClaim(p) ==
    /\ At(p, "return")
    /\ Changed(RenameNoReplace(Claim(p), Target)) /\ Go(p, "drop")

LinkTarget(p) ==
    /\ At(p, "link")
    /\ IF Exists(dir, Target) THEN Refuse(p)
       ELSE /\ Entries(Link(dir, Tmp(p), Target))
            /\ installed' = installed \cup {p} /\ Go(p, "same")
            /\ UNCHANGED <<token, candidate, picked, live>>

CheckSame(p) ==
    /\ At(p, "same")
    /\ IF dir[Target] = dir[Tmp(p)] THEN Same /\ Go(p, "content") ELSE Preserve(p)

\* From here on the candidate counts
CheckContent(p) ==
    /\ At(p, "content")
    /\ \/ /\ Reads(Target, 2, candidate[p])
          /\ live' = live \cup {candidate[p]}
          /\ Go(p, IF token[p] = Missing THEN "untmp" ELSE "reclaim")
          /\ UNCHANGED <<fileVars, agentVars>>
       \/ Exists(dir, Target) /\ Links(Target) = 2 /\ ~Reads(Target, 2, candidate[p]) /\ Preserve(p)
       \/ ~Exists(dir, Target) /\ Refuse(p)
       \/ Exists(dir, Target) /\ Links(Target) # 2 /\ Refuse(p)

\* (mutant) the claim is not read again
ReclaimNothing(p) == At(p, "reclaim") /\ Same /\ Go(p, "unclaim")

CheckClaim(p) ==
    /\ At(p, "reclaim")
    /\ \/ Reads(Claim(p), 1, token[p]) /\ Same /\ Go(p, "unclaim")
       \/ /\ Exists(dir, Claim(p)) /\ Links(Claim(p)) = 1 /\ ~Reads(Claim(p), 1, token[p])
          /\ Preserve(p)
       \/ ~Exists(dir, Claim(p)) /\ Refuse(p)
       \/ Exists(dir, Claim(p)) /\ Links(Claim(p)) # 1 /\ Refuse(p)

\* What the candidate replaces goes
UnlinkClaim(p) ==
    /\ At(p, "unclaim")
    /\ IF Exists(dir, Claim(p))
       THEN /\ Entries(Unlink(dir, Claim(p))) /\ live' = live \ {token[p]}
            /\ UNCHANGED agentVars /\ Go(p, "untmp")
       ELSE Refuse(p)

UnlinkTemporary(p) ==
    At(p, "untmp") /\ Changed(Unlink(dir, Tmp(p))) /\ Go(p, "ok")

\* The finally clause: the temporary goes, then a claim whose place nothing was
\* installed in
DropTemporary(p) ==
    /\ At(p, "drop")
    /\ Changed(Unlink(dir, Tmp(p)))
    /\ Go(p, IF p \in installed THEN "refused" ELSE "restore")

RestoreClaim(p) ==
    /\ At(p, "restore")
    /\ Changed(RenameNoReplace(Claim(p), Target)) /\ Go(p, "refused")

Apply(p) ==
    \/ Propose(p) \/ RecoverLook(p) \/ Revive(p) \/ ReadCurrent(p) \/ CreateTemporary(p)
    \/ ClaimTarget(p) \/ VerifyClaim(p) \/ ReturnClaim(p) \/ LinkTarget(p)
    \/ CheckSame(p) \/ CheckContent(p) \/ CheckClaim(p) \/ UnlinkClaim(p)
    \/ UnlinkTemporary(p) \/ DropTemporary(p) \/ RestoreClaim(p)

-----------------------------------------------------------------------------
(* Errors, crashes, time and the editor *)

\* An OSError: the recovery and the finally clause swallow it
Fail(p) ==
    /\ errors > 0 /\ errors' = errors - 1
    /\ \/ pc[p] \in {"recover", "revive"} /\ Go(p, "read")
       \/ pc[p] \in {"propose", "read", "restore"} /\ Go(p, "refused")
       \/ pc[p] \in {"create", "claim", "verify", "link", "same", "content", "reclaim",
                     "unclaim", "untmp", "return"} /\ Go(p, "drop")
       \/ pc[p] = "drop" /\ Go(p, IF p \in installed THEN "refused" ELSE "restore")
    /\ UNCHANGED <<fileVars, agentVars, crashes, userVars, live>>

Crash(p) ==
    /\ crashes > 0 /\ pc[p] \notin Ended
    /\ crashes' = crashes - 1 /\ Go(p, "dead")
    /\ UNCHANGED <<fileVars, agentVars, errors, userVars, live>>

Resting == \A p \in Agents : pc[p] \in Ended \cup {"propose", "recover"}

\* A minute passes; no apply takes that long
Minute == /\ Resting /\ aged # Inodes /\ aged' = Inodes
          /\ UNCHANGED <<dir, data, last, pc, agentVars, boundVars, userVars, live>>

Editor(e) == /\ e \in Editing /\ edits > 0 /\ edits' = edits - 1
             /\ UNCHANGED <<pc, agentVars, boundVars>>

TargetContent == IF Exists(dir, Target) THEN {data[dir[Target]]} ELSE {}

\* An apply has read the claim for the last time and is about to unlink it
Unchecked(i) == \E p \in Agents : pc[p] = "unclaim" /\ dir[Claim(p)] = i

\* A write to an existing file, by name or through an open descriptor
Overwrite(i) ==
    /\ Late \/ ~Unchecked(i)
    /\ data' = [data EXCEPT ![i] = last + 1] /\ last' = last + 1 /\ aged' = aged \ {i}
    /\ live' = (live \ {data[i]}) \cup (IF i \in Linked(dir, {}) THEN {last + 1} ELSE {})
    /\ UNCHANGED <<dir, deleted>>

SaveByRename ==
    /\ Editor("rename") /\ handle = NoFile
    /\ NewFile(Target, last + 1) /\ last' = last + 1
    /\ live' = (live \ TargetContent) \cup {last + 1}
    /\ UNCHANGED <<handle, deleted>>

SaveInPlace ==
    /\ Editor("inplace") /\ Exists(dir, Target)
    /\ Overwrite(dir[Target]) /\ UNCHANGED handle

OpenHandle ==
    /\ "handle" \in Editing /\ edits > 0 /\ handle = NoFile
    /\ Exists(dir, Target) /\ handle' = dir[Target]
    /\ UNCHANGED <<fileVars, pc, agentVars, boundVars, edits, deleted, live>>

WriteHandle ==
    /\ Editor("handle") /\ handle # NoFile
    /\ Overwrite(handle) /\ handle' = NoFile

Delete ==
    /\ Editor("delete") /\ ~deleted /\ handle = NoFile /\ Exists(dir, Target)
    /\ dir' = Unlink(dir, Target) /\ deleted' = TRUE /\ live' = live \ TargetContent
    /\ UNCHANGED <<data, aged, last, handle>>

\* The user closes the editor and makes no further change
CloseEditor ==
    /\ edits > 0 /\ edits' = 0 /\ handle' = NoFile
    /\ UNCHANGED <<fileVars, pc, agentVars, boundVars, deleted, live>>

UserStep == CloseEditor \/ SaveByRename \/ SaveInPlace \/ OpenHandle \/ WriteHandle \/ Delete

-----------------------------------------------------------------------------
First == CHOOSE i \in Inodes : TRUE

\* There is no glossary yet, or one that is old or new
Init ==
    /\ last \in {0, 1}
    /\ dir = [n \in Names |-> IF n = Target /\ last = 1 THEN First ELSE NoFile]
    /\ data = [i \in Inodes |-> IF i = First THEN last ELSE 0]
    /\ aged \in {{}, Inodes}
    /\ pc = [p \in Agents |-> "propose"] /\ token = [p \in Agents |-> Missing]
    /\ candidate = [p \in Agents |-> Missing] /\ picked = [p \in Agents |-> NoFile]
    /\ installed = {}
    /\ errors = MaxErrors /\ crashes = MaxCrashes
    /\ edits = MaxEdits /\ handle = NoFile /\ deleted = FALSE
    /\ live = {last} \ {Missing}

Rest == (\A p \in Agents : pc[p] \in Ended) /\ UNCHANGED vars

Next == \/ \E p \in Agents : Apply(p) \/ Fail(p) \/ Crash(p)
        \/ Minute \/ UserStep \/ Rest

Spec == Init /\ [][Next]_vars

-----------------------------------------------------------------------------
(* Properties *)

\* What was in place or saved, and not replaced by who knew it, is readable
\* under some name: SKILL.md promises that a race leaves the concurrent target
\* and recovery files.  It does not hold of a write that comes Late.
NothingLost ==
    \A v \in live : \E n \in Names : Exists(dir, n) /\ data[dir[n]] = v

\* CONCEPTS.md is installed without overwriting a concurrently created path.
NeverReplaces ==
    [][\/ UserStep
       \/ (Exists(dir, Target) /\ Exists(dir', Target) => dir'[Target] = dir[Target])]_vars

\* An apply that starts when every other has ended or died, and the editor is done,
\* leaves a glossary in place if any version was kept, unless a system call fails:
\* what the comment on _recover_stale_claims promises about a writer that was killed.
\* A claim that has a second name, the temporary of another dead writer, is the one
\* that no apply recovers.
LeavesGlossary ==
    \A p \in Agents :
        [](/\ pc[p] = "recover" /\ \A q \in Agents \ {p} : pc[q] \in Ended
           /\ aged = Inodes /\ live # {} /\ edits = 0
           /\ \A q \in Agents : Exists(dir, Claim(q)) => Links(Claim(q)) = 1
           => [](pc[p] \in {"ok", "refused"} /\ errors = MaxErrors => Exists(dir, Target)))
=============================================================================
