--------------------------- MODULE MutationTrial ---------------------------
(***************************************************************************)
(* One mutation trial of test-discipline: mutation_trial.py backs the      *)
(* target file up, replaces it by a mutant, runs a test and restores the   *)
(* original; mutation_backup.py holds the file transactions and a command  *)
(* line of its own, whose "restore" an operator runs after a trial was     *)
(* killed.  The user may save, delete or rewrite the target at any moment, *)
(* and an error, a signal or a crash may strike at any step.               *)
(*                                                                         *)
(* Both atomic_replace and restore swap the target the same way: prepare a *)
(* temporary, move the target to a claim, hash the claim, link the         *)
(* temporary to the free name, hash the claim again, drop the temporary,   *)
(* check the target, drop the claim.  The steps of that swap are operators *)
(* of the phase; "install" is atomic_replace, "restore" is restore called  *)
(* by run_trial and "cli" is restore called by the command line.           *)
(*                                                                         *)
(* Digests are the contents themselves.  A temporary, a claim and a        *)
(* private claim have names drawn at random that nobody else touches; when *)
(* the script loses such a name, its inode joins strays.                   *)
(***************************************************************************)
EXTENDS Directory

CONSTANTS Orig,      \* what the target holds before the trial
          Mutant,    \* what the trial installs
          Edits,     \* what the user may save, each at most once
          Junk,      \* what an unused inode holds
          Faults,    \* kinds of interruption: "ERR", "TERM", "INT", "KILL"
          MaxFaults, \* bound: how many of them strike
          MaxRuns,   \* bound: how many times a script is started
          Handles    \* whether the user's editor keeps the file open: "never",
                     \* "early" (it is done when the claim is hashed for the
                     \* last time) or "late" (it may write after that)

Contents == {Orig, Mutant, Junk} \cup Edits

ASSUME TrialAssumption ==
    /\ Mutant \notin Edits \cup {Orig}
    /\ Junk \notin Edits \cup {Orig, Mutant}
    /\ Orig \notin Edits
    /\ Faults \subseteq {"ERR", "TERM", "INT", "KILL"}
    /\ MaxFaults \in Nat /\ MaxRuns \in Nat /\ Handles \in {"never", "early", "late"}

VARIABLES
    dir,        \* the directory of the target
    strays,     \* inodes under random names that no script remembers
    data,       \* the content of each inode
    pc, phase,  \* the next step, and which swap it belongs to
    original,   \* run_trial's original, whose digest is original_digest
    installed,  \* run_trial's mutant_installed
    err,        \* run_trial's trial_error: "none", "exc" (an Exception) or
                \* "base" (a BaseException that is none, KeyboardInterrupt)
    result,     \* how the script ended
    runs, faults,              \* what the bounds count
    unsaved, handle, deleted,  \* the user: edits still to save, the open
                               \* inode, whether the user deleted the target
    live,       \* what the user saved and did not overwrite or delete
    cut         \* the call whose interruption nothing makes good: "claim" (the
                \* move of the target to its claim, or back) or "finally" (the
                \* start of run_trial's finally clause)

fileVars == <<dir, strays, data>>
trialVars == <<original, installed, err>>
userVars == <<unsaved, handle, deleted, live>>
boundVars == <<runs, faults>>
vars == <<fileVars, pc, phase, trialVars, result, boundVars, userVars, cut>>

Names == {"target", "mutbak", "tmp", "claim", "private"}
Private == {"tmp", "claim", "private"}

BackupSteps == {"bkcopy", "bklink", "bkunlink"}
SwapSteps == {"open", "claim", "hash", "mark", "publish", "recheck", "takeback",
              "takeback2", "relink", "untmp", "check", "unclaim", "unbackup"}
Stopped == {"done", "dead"}
Steps == {"read", "bkdone", "verify", "seen", "test", "discard", "readback", "rerun",
          "xrelink", "xuntmp"} \cup BackupSteps \cup SwapSteps \cup Stopped

TypeOK ==
    /\ dir \in [Names -> Inodes \cup {NoFile}]
    /\ strays \subseteq Inodes
    /\ data \in [Inodes -> Contents]
    /\ pc \in Steps
    /\ phase \in {"install", "restore", "cli"}
    /\ original \in Contents
    /\ installed \in BOOLEAN
    /\ err \in {"none", "exc", "base"}
    /\ result \in {"none", "ok", "refused", "restoreFailed", "killed",
                   "cliOk", "cliRefused"}
    /\ runs \in Nat /\ faults \in Nat
    /\ unsaved \subseteq Edits
    /\ handle \in Inodes \cup {NoFile}
    /\ deleted \in BOOLEAN
    /\ live \subseteq {Orig} \cup Edits
    /\ cut \in {"none", "claim", "finally"}

-----------------------------------------------------------------------------
(* Reading the directory *)

Holds(n, c) == Exists(dir, n) /\ data[dir[n]] = c

\* regular_single_link: the only link to a regular file, or the script refuses
Single(n) == Exists(dir, n) /\ Nlink(dir, strays, dir[n]) = 1

Reads(n, c) == Single(n) /\ data[dir[n]] = c

Free == FreeInodes(dir, strays, {handle})
New == NewInode(dir, strays, {handle})

Create1(n, c) ==
    /\ Free # {}
    /\ dir' = Create(dir, n, New)
    /\ data' = [data EXCEPT ![New] = c]
    /\ UNCHANGED strays

Changed(d) == dir' = d /\ UNCHANGED <<strays, data>>

At(p) == pc = p /\ UNCHANGED <<runs, userVars, cut>>

Goto(p) == pc' = p /\ UNCHANGED <<phase, trialVars, result, faults>>

\* Names that are forgotten, their inodes joining the strays
Forget(d, ns) == [n \in Names |-> IF n \in ns THEN NoFile ELSE d[n]]
Stray(d, s, ns) == s \cup ({d[n] : n \in ns} \ {NoFile})

-----------------------------------------------------------------------------
(* How a script ends, and what an exception does at each step.  d and s are *)
(* the directory and the strays the failing step leaves behind.             *)

End(d, s, r) ==
    /\ dir' = Forget(d, Private) /\ strays' = Stray(d, s, Private)
    /\ pc' = "done" /\ result' = r

\* main: an Exception is reported with exit code 1, KeyboardInterrupt is not caught
Outcome(k) == IF k = "exc" THEN "refused" ELSE "killed"

\* run_trial's except and finally clauses, entered with trial_error k
FinishTrial(k, d, s) ==
    /\ dir' = Forget(d, Private) /\ strays' = Stray(d, s, Private)
    /\ err' = k
    /\ IF installed THEN phase' = "restore" /\ pc' = "open"
                    ELSE phase' = phase /\ pc' = "discard"
    /\ UNCHANGED <<data, original, installed, result>>

\* An exception leaves atomic_replace or restore
LeaveSwap(k, d, s) ==
    \/ phase = "install" /\ FinishTrial(k, d, s)
    \/ /\ phase = "restore"
       /\ End(d, s, IF k = "exc" THEN "restoreFailed" ELSE "killed")
       /\ UNCHANGED <<data, phase, trialVars>>
    \/ /\ phase = "cli"
       /\ End(d, s, IF k = "exc" THEN "cliRefused" ELSE "killed")
       /\ UNCHANGED <<data, phase, trialVars>>

\* The except clause of backup: it catches an Exception only, and removes
\* the published backup when the link to it was the last thing done.
LeaveBackup(k, d, s) ==
    /\ IF k = "exc"
       THEN End(Forget(d, IF pc = "bkunlink" THEN {"tmp", "mutbak"} ELSE {"tmp"}),
                s, "refused")
       ELSE End(d, s, "killed")
    /\ UNCHANGED <<data, phase, trialVars>>

\* The except clauses of atomic_replace and restore catch an Exception only
Raise(k, d, s) ==
    \/ /\ pc \in {"read", "bkdone", "readback", "rerun"}
       /\ End(d, s, Outcome(k)) /\ UNCHANGED <<data, phase, trialVars>>
    \/ pc \in BackupSteps /\ LeaveBackup(k, d, s)
    \/ pc \in {"verify", "seen", "test"} /\ FinishTrial(k, d, s)
    \/ /\ pc \in SwapSteps /\ k = "exc"
       /\ dir' = Forget(d, {"private"}) /\ strays' = Stray(d, s, {"private"})
       /\ pc' = "xrelink" /\ UNCHANGED <<data, phase, trialVars, result>>
    \/ pc \in SwapSteps \cup {"xrelink", "xuntmp"} /\ k = "base" /\ LeaveSwap(k, d, s)
    \/ \* return_claim_if_target_absent swallows what is raised inside it
       /\ pc = "xrelink" /\ k = "exc"
       /\ dir' = d /\ strays' = s /\ pc' = "xuntmp"
       /\ UNCHANGED <<data, phase, trialVars, result>>
    \/ pc = "xuntmp" /\ k = "exc" /\ LeaveSwap(k, d, s)
    \/ \* discard_unused_backup only warns
       /\ pc = "discard"
       /\ End(d, s, Outcome(IF k = "base" THEN k ELSE err))
       /\ UNCHANGED <<data, phase, trialVars>>

Refuse == Raise("exc", dir, strays) /\ UNCHANGED faults

-----------------------------------------------------------------------------
(* backup, and the beginning of run_trial *)

\* read_target, and the text to replace must occur exactly once: it does in
\* Orig, it does not in Mutant, it may in an edit.
ReadTarget ==
    /\ At("read")
    /\ \/ /\ Single("target") /\ ~Holds("target", Mutant)
          /\ original' = data[dir["target"]]
          /\ pc' = "bkcopy"
          /\ UNCHANGED <<fileVars, phase, installed, err, result, faults>>
       \/ ~Reads("target", Orig) /\ Refuse

\* A backup that exists is never overwritten.  The bytes are read through the
\* descriptor opened here: a rename over the target no longer matters, and a
\* write to the opened inode makes the copy fail (a fault) or is copied.
BackupCopy ==
    /\ At("bkcopy")
    /\ IF ~Exists(dir, "mutbak") /\ Single("target")
       THEN Create1("tmp", data[dir["target"]]) /\ Goto("bklink")
       ELSE Refuse

BackupLink ==
    /\ At("bklink")
    /\ IF ~Exists(dir, "mutbak")
       THEN Changed(Link(dir, "tmp", "mutbak")) /\ Goto("bkunlink")
       ELSE Refuse

BackupUnlink ==
    /\ At("bkunlink")
    /\ Changed(Unlink(dir, "tmp")) /\ Goto("bkdone")

\* backup returns: its caller is not yet inside the try statement
BackupReturn ==
    /\ At("bkdone")
    /\ UNCHANGED fileVars /\ Goto("verify")

VerifyBackup ==
    /\ At("verify")
    /\ IF Reads("mutbak", original)
       THEN /\ phase' = "install" /\ pc' = "open"
            /\ UNCHANGED <<fileVars, trialVars, result, faults>>
       ELSE Refuse

-----------------------------------------------------------------------------
(* The swap of atomic_replace and restore.  Expected is the digest that the *)
(* claim must have, Payload what the temporary holds.                       *)

Swapping == phase \in {"restore", "cli"}
Expected == IF Swapping THEN Mutant ELSE original
Payload == IF Swapping THEN data[dir["mutbak"]] ELSE Mutant

\* restore opens and checks the backup before it writes the temporary
OpenTemporary ==
    /\ At("open")
    /\ IF Swapping => Single("mutbak")
       THEN Create1("tmp", Payload) /\ Goto("claim")
       ELSE Refuse

\* claim_target: the target moves to a private name
ClaimTarget ==
    /\ At("claim")
    /\ IF Exists(dir, "target")
       THEN Changed(Rename(dir, "target", "claim")) /\ Goto("hash")
       ELSE Refuse

\* (mutant) the digest of the claim is not compared
HashClaimUnchecked ==
    /\ At("hash")
    /\ UNCHANGED fileVars
    /\ Goto(IF phase = "install" THEN "mark" ELSE "publish")

\* open_sha256_at on the claim: a claim with another digest goes back
HashClaim ==
    /\ At("hash")
    /\ \/ /\ Reads("claim", Expected)
          /\ UNCHANGED fileVars
          /\ Goto(IF phase = "install" THEN "mark" ELSE "publish")
       \/ /\ Single("claim") /\ ~Holds("claim", Expected)
          /\ UNCHANGED fileVars /\ Goto("relink")
       \/ ~Single("claim") /\ Refuse

\* (mutant) the trial does not remember that the mutant may be installed
MarkNothing == At("mark") /\ UNCHANGED fileVars /\ Goto("publish")

\* on_publish fires before the link
MarkInstalled ==
    /\ At("mark")
    /\ installed' = TRUE /\ pc' = "publish"
    /\ UNCHANGED <<fileVars, phase, original, err, result, faults>>

\* publish_no_replace: os.link fails when the target exists
Publish ==
    /\ At("publish")
    /\ IF ~Exists(dir, "target")
       THEN Changed(Link(dir, "tmp", "target")) /\ Goto("recheck")
       ELSE Refuse

\* (mutant) a claim that was written to while the target was published passes
RecheckUnchecked ==
    /\ At("recheck")
    /\ \/ Single("claim") /\ UNCHANGED fileVars /\ Goto("untmp")
       \/ ~Single("claim") /\ Refuse

\* sha256_at on the claim: was it written to while the target was published?
RecheckClaim ==
    /\ At("recheck")
    /\ \/ Reads("claim", Expected) /\ UNCHANGED fileVars /\ Goto("untmp")
       \/ /\ Single("claim") /\ ~Holds("claim", Expected)
          /\ UNCHANGED fileVars /\ Goto("takeback")
       \/ ~Single("claim") /\ Refuse

\* unlink_if_same_inode, first half: the target moves to a private claim
TakeBack ==
    /\ At("takeback")
    /\ IF Exists(dir, "target")
       THEN Changed(Rename(dir, "target", "private")) /\ Goto("takeback2")
       ELSE Refuse

\* second half: it is removed if it is what was published, else put back
\* without replacing a new target
TakeBack2 ==
    /\ At("takeback2")
    /\ IF dir["private"] = dir["tmp"]
       THEN Changed(Unlink(dir, "private")) /\ Goto("relink")
       ELSE /\ IF Exists(dir, "target")
               THEN dir' = Forget(dir, {"private"})
                    /\ strays' = Stray(dir, strays, {"private"})
               ELSE dir' = Rename(dir, "private", "target") /\ UNCHANGED strays
            /\ UNCHANGED <<data, phase, trialVars, result, faults>>
            /\ pc' = "xrelink"

\* relink_claim, then the refusal that follows in both callers
Relink ==
    /\ At("relink")
    /\ Raise("exc", IF Exists(dir, "target") THEN dir
                    ELSE Rename(dir, "claim", "target"), strays)
    /\ UNCHANGED faults

UnlinkTemporary ==
    /\ At("untmp")
    /\ Changed(Unlink(dir, "tmp")) /\ Goto("check")

\* current_sha256 of the published target
CheckTarget ==
    /\ At("check")
    /\ IF Reads("target", Payload)
       THEN UNCHANGED fileVars /\ Goto("unclaim")
       ELSE Refuse

UnlinkClaim ==
    /\ At("unclaim")
    /\ Changed(Unlink(dir, "claim"))
    /\ Goto(IF phase = "install" THEN "seen" ELSE "unbackup")

\* The backup goes last; a restore that follows an error ends the trial with
\* that error
UnlinkBackup ==
    /\ At("unbackup")
    /\ IF phase = "restore" /\ err = "none"
       THEN Changed(Unlink(dir, "mutbak")) /\ Goto("readback")
       ELSE /\ End(Unlink(dir, "mutbak"), strays,
                  IF phase = "cli" THEN "cliOk" ELSE Outcome(err))
            /\ UNCHANGED <<data, phase, trialVars, faults>>

\* (mutant) the claim is not returned
CleanupNothing == At("xrelink") /\ UNCHANGED fileVars /\ Goto("xuntmp")

\* return_claim_if_target_absent
CleanupClaim ==
    /\ At("xrelink")
    /\ Changed(IF Exists(dir, "claim") /\ ~Exists(dir, "target")
               THEN Rename(dir, "claim", "target") ELSE dir)
    /\ Goto("xuntmp")

CleanupTemporary ==
    /\ At("xuntmp")
    /\ LeaveSwap("exc", Unlink(dir, "tmp"), strays)
    /\ UNCHANGED faults

-----------------------------------------------------------------------------
(* The rest of run_trial *)

\* The target is read once more before the test
SeeMutant ==
    /\ At("seen")
    /\ IF Reads("target", Mutant) THEN UNCHANGED fileVars /\ Goto("test")
                                  ELSE Refuse

\* (mutant) no finally clause: the mutant is left where it is
RunTestOnly == At("test") /\ UNCHANGED fileVars /\ Goto("readback")

\* The test ends, with any exit code, and the finally clause starts restore
RunTest ==
    /\ At("test")
    /\ phase' = "restore" /\ pc' = "open"
    /\ UNCHANGED <<fileVars, trialVars, result, faults>>

\* discard_unused_backup: only a backup of what this trial read is removed
Discard ==
    /\ At("discard")
    /\ End(IF Reads("mutbak", original) THEN Unlink(dir, "mutbak") ELSE dir,
           strays, Outcome(err))
    /\ UNCHANGED <<data, phase, trialVars, faults>>

ReadBack ==
    /\ At("readback")
    /\ IF Reads("target", original) THEN UNCHANGED fileVars /\ Goto("rerun")
                                    ELSE Refuse

\* The clean rerun, then exit code 0, 2 or 3 by the two tests' exit codes
RerunClean ==
    /\ At("rerun")
    /\ End(dir, strays, "ok")
    /\ UNCHANGED <<data, phase, trialVars, faults>>

\* atomic_replace and restore
Swap == \/ OpenTemporary \/ ClaimTarget \/ HashClaim \/ MarkInstalled
        \/ Publish \/ RecheckClaim \/ TakeBack \/ TakeBack2 \/ Relink
        \/ UnlinkTemporary \/ CheckTarget \/ UnlinkClaim \/ UnlinkBackup
        \/ CleanupClaim \/ CleanupTemporary

\* What the script does by itself, and its two waits for the test command:
\* subprocess.run has no timeout, and the test may never end
OwnSteps == \/ ReadTarget \/ BackupCopy \/ BackupLink \/ BackupUnlink
            \/ BackupReturn \/ VerifyBackup \/ Swap
            \/ SeeMutant \/ Discard \/ ReadBack

Script == OwnSteps \/ RunTest \/ RerunClean

-----------------------------------------------------------------------------
(* Interruptions.  A step may be cut short after part of its system calls;  *)
(* a name that was drawn in the interrupted call is lost with its frame.    *)

After(d, s) == [d |-> d, s |-> s]

\* unlink_if_identity stopped after its rename, or after its unlink
TornUnlink(n) ==
    IF Exists(dir, n)
    THEN {After(Unlink(dir, n), strays \cup {dir[n]}), After(Unlink(dir, n), strays)}
    ELSE {}

\* claim_target stopped between the rename and the return of the new name
TornClaim ==
    IF Exists(dir, "target")
    THEN {After(Unlink(dir, "target"), strays \cup {dir["target"]})} ELSE {}

\* relink_claim stopped with the claim under its private name, with the
\* target linked and the claim put back, linked with the private name left,
\* or just before it returns
TornRelink ==
    IF ~Exists(dir, "claim") THEN {}
    ELSE {After(Unlink(dir, "claim"), strays \cup {dir["claim"]})}
         \cup IF Exists(dir, "target") THEN {}
              ELSE {After(Link(dir, "claim", "target"), strays),
                    After(Rename(dir, "claim", "target"), strays \cup {dir["claim"]}),
                    After(Rename(dir, "claim", "target"), strays)}

\* return_private_claim and unlink_if_identity on the taken-back target
TornTakeBack2 ==
    IF dir["private"] = dir["tmp"] THEN {After(Unlink(dir, "private"), strays)}
    ELSE IF Exists(dir, "target") THEN {}
         ELSE {After(Link(dir, "private", "target"), strays)}

When(cond, S) == IF cond THEN S ELSE {}

Torn(p) ==
    When(p \in {"bkunlink", "untmp", "xuntmp"}, TornUnlink("tmp"))
      \cup When(p = "unclaim", TornUnlink("claim"))
      \cup When(p \in {"unbackup", "discard"}, TornUnlink("mutbak"))
      \cup When(p \in {"claim", "takeback"}, TornClaim)
      \cup When(p \in {"relink", "xrelink"}, TornRelink)
      \cup When(p = "takeback2", TornTakeBack2)

Whole == {After(dir, strays)}

\* unlink_if_identity puts its private claim back when its stat or its unlink
\* raises an Exception
PutBack ==
    {IF Exists(dir, "target") THEN After(dir, strays)
     ELSE After(Rename(dir, "private", "target"), strays)}

\* What a step may have done when an Exception ends it: a failing system call
\* has no effect of its own, but those before it had theirs (the rename before
\* a failing fsync or os.stat), and so has the handler next to it.
Failed(p) == Whole \cup Torn(p) \cup When(p = "takeback2", PutBack)

Strike(k) ==
    /\ k \in Faults /\ faults > 0 /\ pc \notin Stopped
    /\ faults' = faults - 1
    /\ UNCHANGED <<runs, userVars>>

\* Between the rename of the target to its claim and the os.stat that tells the
\* claim's identity, the except clauses return no claim; nor do they try twice.
Note(t) ==
    cut' = IF /\ ~Exists(t.d, "target")
              /\ \/ pc \in {"claim", "relink"} /\ ~Exists(t.d, "claim")
                 \/ pc = "xrelink"
           THEN "claim" ELSE cut

\* A system call fails, or a file changes while it is read
SystemError ==
    /\ Strike("ERR") /\ pc \notin {"mark", "bkdone"}
    /\ \E t \in Failed(pc) : Raise("exc", t.d, t.s) /\ Note(t)

\* SIGTERM: request_termination raises TerminationRequested, a RuntimeError
Terminate ==
    /\ Strike("TERM")
    /\ \E t \in Failed(pc) : Raise("exc", t.d, t.s) /\ Note(t)

\* SIGINT: KeyboardInterrupt is not an Exception
Interrupt ==
    /\ Strike("INT")
    /\ \E t \in Whole \cup Torn(pc) : Raise("base", t.d, t.s) /\ Note(t)

\* A signal after the finally clause is entered and before its try statement:
\* the target is not restored and no failed restore is reported
FinallyCut(k) ==
    /\ pc = "open" /\ phase = "restore"
    /\ End(dir, strays, Outcome(k)) /\ cut' = "finally"
    /\ UNCHANGED <<data, phase, trialVars>>

CutShort == \/ Strike("TERM") /\ FinallyCut("exc")
            \/ Strike("INT") /\ FinallyCut("base")

\* SIGKILL or a power failure
Kill ==
    /\ Strike("KILL")
    /\ \E t \in Whole \cup Torn(pc) :
          dir' = Forget(t.d, Private) /\ strays' = Stray(t.d, t.s, Private) /\ Note(t)
    /\ pc' = "dead" /\ result' = "killed"
    /\ UNCHANGED <<data, phase, trialVars>>

\* Another trial, or the recovery an operator runs by hand
Start(p, ph) ==
    /\ pc \in Stopped /\ runs < MaxRuns
    /\ runs' = runs + 1
    /\ pc' = p /\ phase' = ph
    /\ installed' = FALSE /\ err' = "none" /\ result' = "none"
    /\ UNCHANGED <<fileVars, original, faults, userVars, cut>>

StartTrial == Start("read", "install")
StartRestore == Start("open", "cli")

-----------------------------------------------------------------------------
(* The user *)

User == UNCHANGED <<pc, phase, trialVars, result, boundVars, cut>>

TargetContent == IF Exists(dir, "target") THEN {data[dir["target"]]} ELSE {}

\* The user does not replace or delete the file an editor holds open
KeepsOpenFile == handle = NoFile \/ handle # dir["target"]

\* An editor that writes a new file and renames it over the target
SaveByRename(e) ==
    /\ User /\ e \in unsaved /\ KeepsOpenFile
    /\ Create1("target", e)
    /\ unsaved' = unsaved \ {e}
    /\ live' = (live \ TargetContent) \cup {e}
    /\ UNCHANGED <<handle, deleted>>

\* An editor that rewrites the file it opens by name
SaveInPlace(e) ==
    /\ User /\ e \in unsaved
    /\ Exists(dir, "target")
    /\ data' = [data EXCEPT ![dir["target"]] = e]
    /\ unsaved' = unsaved \ {e}
    /\ live' = (live \ TargetContent) \cup {e}
    /\ UNCHANGED <<dir, strays, handle, deleted>>

Delete ==
    /\ User /\ ~deleted /\ KeepsOpenFile
    /\ Exists(dir, "target")
    /\ Changed(Unlink(dir, "target"))
    /\ deleted' = TRUE
    /\ live' = live \ TargetContent
    /\ UNCHANGED <<unsaved, handle>>

\* An editor that keeps the file open and writes to it later
OpenHandle ==
    /\ User /\ Handles # "never" /\ unsaved # {} /\ handle = NoFile
    /\ Exists(dir, "target")
    /\ handle' = dir["target"]
    /\ UNCHANGED <<fileVars, unsaved, deleted, live>>

LastHashDone == pc \in {"untmp", "check", "unclaim"} /\ handle = dir["claim"]

WriteHandle(e) ==
    /\ User /\ e \in unsaved /\ handle # NoFile
    /\ Handles = "early" => ~LastHashDone
    /\ data' = [data EXCEPT ![handle] = e]
    /\ unsaved' = unsaved \ {e}
    /\ live' = (live \ {data[handle]})
               \cup (IF handle \in Linked(dir, strays) THEN {e} ELSE {})
    /\ handle' = NoFile
    /\ UNCHANGED <<dir, strays, deleted>>

UserStep == \/ \E e \in Edits : SaveByRename(e) \/ SaveInPlace(e) \/ WriteHandle(e)
            \/ Delete \/ OpenHandle

-----------------------------------------------------------------------------
\* The target is the only file, and holds the original
First == CHOOSE i \in Inodes : TRUE

Init ==
    /\ dir = [n \in Names |-> IF n = "target" THEN First ELSE NoFile]
    /\ strays = {}
    /\ data = [i \in Inodes |-> IF i = First THEN Orig ELSE Junk]
    /\ pc = "read" /\ phase = "install"
    /\ original = Orig /\ installed = FALSE /\ err = "none" /\ result = "none"
    /\ runs = 1 /\ faults = MaxFaults
    /\ unsaved = Edits /\ handle = NoFile /\ deleted = FALSE /\ live = {Orig}
    /\ cut = "none"

Strikes == SystemError \/ Terminate \/ Interrupt \/ CutShort \/ Kill
Starts == StartTrial \/ StartRestore

\* No script runs any more
Rest == pc \in Stopped /\ UNCHANGED vars

Next == Script \/ Strikes \/ Starts \/ UserStep \/ Rest

Spec == Init /\ [][Next]_vars

\* The operating system lets the script run; nobody has to interrupt it, and
\* the test need not end
FairSpec == Spec /\ WF_vars(OwnSteps)

-----------------------------------------------------------------------------
(* Properties *)

\* What the user saved and did not overwrite or delete stays readable under
\* some name, whatever the trial, its errors, signals and crashes do.
NothingLost ==
    \A c \in live : \E i \in Linked(dir, strays) \ {NoFile} : data[i] = c

\* While the target holds the mutant, the backup beside it holds what the
\* trial replaced: at no instant does a crash leave the mutant alone.
MutantHasBackup ==
    Holds("target", Mutant) => Holds("mutbak", original)

\* mutation_trial.py:8-12: exit code 1 without a failed restore means that
\* the target is as the user left it, whatever error or SIGTERM struck: never
\* the mutant, unless the signal cut the finally clause short, and not missing
\* unless the user deleted it or the move of the target to its claim, or back,
\* was cut short.
RefusedUntouched ==
    result = "refused" => /\ Holds("target", Mutant) => cut = "finally"
                          /\ Exists(dir, "target") \/ deleted \/ cut # "none"

\* Only the user replaces one file by another under the target's name: the
\* scripts publish a target by linking it to a free name.
NeverReplaces ==
    [][\/ UserStep
       \/ Exists(dir, "target") /\ Exists(dir', "target")
             => dir'["target"] = dir["target"]]_vars

\* The mutant never stays silently: it leaves the target, or the trial ends
\* with the message that the restore failed, unless the test it waits for never
\* ends or a signal cut the finally clause short.
MutantLeaves ==
    Holds("target", Mutant) ~> \/ ~Holds("target", Mutant) \/ result = "restoreFailed"
                               \/ pc = "test" \/ cut = "finally"
=============================================================================
