----------------------- MODULE MutationTrial_proofs -----------------------
(***************************************************************************)
(* Proofs about MutationTrial, for every value of its constants.           *)
(***************************************************************************)
EXTENDS MutationTrial, FiniteSetTheorems, TLAPS

\* Names drawn at random exist only while the swap that drew them runs
ClaimSteps == {"hash", "mark", "publish", "recheck", "takeback", "takeback2",
               "relink", "untmp", "check", "unclaim", "xrelink", "xuntmp"}
PrivateNames ==
    /\ Exists(dir, "claim") => pc \in ClaimSteps
    /\ Exists(dir, "private") => pc = "takeback2"

\* Which steps belong to which phase
PhaseOfStep ==
    /\ pc \in BackupSteps \cup {"read", "bkdone", "verify", "mark", "seen", "test", "discard"}
         => phase = "install"
    /\ pc \in {"unbackup", "readback", "rerun"} => phase # "install"
    /\ pc \in BackupSteps \cup {"read", "bkdone", "verify", "discard"} => ~installed
    /\ phase = "install" /\ pc = "publish" => installed

\* The backup is a file of its own: nothing the user can write to is linked to
\* it, nor to the temporary it is made from.
Reachable == {dir["target"], dir["claim"], dir["private"], handle}
BackupApart ==
    /\ Exists(dir, "mutbak") => dir["mutbak"] \notin Reachable
    /\ pc \in {"bklink", "bkunlink"} => Exists(dir, "tmp") /\ dir["tmp"] \notin Reachable
    /\ pc \notin {"bklink", "bkunlink"} /\ Exists(dir, "mutbak") => dir["mutbak"] # dir["tmp"]

\* No backup is taken of a mutant
BackupClean ==
    /\ ~Holds("mutbak", Mutant)
    /\ pc \in {"bklink", "bkunlink"} => ~Holds("tmp", Mutant)

\* Until it publishes the mutant, a trial that began on a clean target has none
NoMutant == \A n \in {"target", "claim", "private"} : ~Holds(n, Mutant)
CleanBefore ==
    phase = "install" /\ ~installed /\ pc \notin {"read"} \cup Stopped => NoMutant

\* A published mutant has a backup, and so has one about to be published
Backed == Holds("mutbak", original)
BackedMutant ==
    /\ ~NoMutant => Backed
    /\ phase = "install" /\ pc \in {"open", "claim", "hash", "mark", "publish"} => Backed

\* A restore publishes no mutant, and drops the backup when the mutant is gone
RestoreClean ==
    phase # "install" =>
        /\ pc \in {"claim", "hash", "publish"} => ~Holds("tmp", Mutant)
        /\ pc \in {"unclaim", "unbackup"} => ~Holds("target", Mutant)

BackupInv == /\ PrivateNames /\ PhaseOfStep /\ BackupApart /\ BackupClean
             /\ CleanBefore /\ BackedMutant /\ RestoreClean

-----------------------------------------------------------------------------
(* Type correctness *)

Dirs == [Names -> Inodes \cup {NoFile}]

\* Forgetting names yields a directory, and their inodes are inodes
LEMMA ForgetType ==
    ASSUME NEW d \in Dirs, NEW s \in SUBSET Inodes, NEW ns \in SUBSET Names
    PROVE  Forget(d, ns) \in Dirs /\ Stray(d, s, ns) \in SUBSET Inodes
BY DEF Dirs, Forget, Stray

\* An exception leads to a state of the right type
LEMMA RaiseType ==
    ASSUME TypeOK, NEW k \in {"exc", "base"}, NEW d \in Dirs, NEW s \in SUBSET Inodes,
           Raise(k, d, s), faults' \in Nat, UNCHANGED <<runs, userVars>>,
           cut' \in {"none", "claim", "finally"}
    PROVE  TypeOK'
<1> DEFINE ns == IF pc = "bkunlink" THEN {"tmp", "mutbak"} ELSE {"tmp"}
<1>1. /\ Private \in SUBSET Names /\ {"private"} \in SUBSET Names
      /\ ns \in SUBSET Names
  BY DEF Private, Names
<1>2. /\ Forget(d, Private) \in Dirs /\ Stray(d, s, Private) \in SUBSET Inodes
      /\ Forget(d, {"private"}) \in Dirs /\ Stray(d, s, {"private"}) \in SUBSET Inodes
      /\ Forget(d, ns) \in Dirs
  BY <1>1, ForgetType
<1>3. /\ Forget(Forget(d, ns), Private) \in Dirs
      /\ Stray(Forget(d, ns), s, Private) \in SUBSET Inodes
  BY <1>1, <1>2, ForgetType
<1>4. dir' \in Dirs /\ strays' \in SUBSET Inodes /\ data' = data
  BY <1>2, <1>3 DEF Raise, End, FinishTrial, LeaveSwap, LeaveBackup
<1>5. pc' \in Steps
  BY DEF Raise, End, FinishTrial, LeaveSwap, LeaveBackup, Steps, BackupSteps, SwapSteps, Stopped
<1>6. /\ phase' \in {"install", "restore", "cli"} /\ original' \in Contents
      /\ installed' \in BOOLEAN /\ err' \in {"none", "exc", "base"}
  BY DEF TypeOK, Raise, FinishTrial, LeaveSwap, LeaveBackup, trialVars
<1>7. result' \in {"none", "ok", "refused", "restoreFailed", "killed",
                   "cliOk", "cliRefused"}
  BY DEF TypeOK, Raise, End, FinishTrial, LeaveSwap, LeaveBackup, Outcome
<1> QED
  BY <1>4, <1>5, <1>6, <1>7 DEF TypeOK, Dirs, userVars

\* A refusal is an exception that leaves the directory as it is
LEMMA RefuseType ==
    ASSUME TypeOK, Refuse, UNCHANGED <<runs, userVars, cut>>
    PROVE  TypeOK'
<1>1. dir \in Dirs /\ strays \in SUBSET Inodes /\ faults' \in Nat
      /\ cut' \in {"none", "claim", "finally"}
  BY DEF TypeOK, Dirs, Refuse
<1> QED BY <1>1, RaiseType DEF Refuse

\* A creation gets an inode that nothing is linked to
LEMMA NewInodeFree ==
    ASSUME Free # {}
    PROVE  New \in Inodes /\ New \notin Linked(dir, strays) /\ New # handle
BY DEF Free, New, NewInode, FreeInodes

\* Creating a file, and moving entries about, keep the files' types
LEMMA CreateType ==
    ASSUME TypeOK, NEW n \in Names, NEW c \in Contents, Create1(n, c)
    PROVE  dir' \in Dirs /\ strays' \in SUBSET Inodes /\ data' \in [Inodes -> Contents]
BY NewInodeFree DEF TypeOK, Create1, Create, Dirs

LEMMA EntryType ==
    ASSUME TypeOK, NEW a \in Names, NEW b \in Names
    PROVE  /\ Unlink(dir, a) \in Dirs /\ Link(dir, a, b) \in Dirs
           /\ Rename(dir, a, b) \in Dirs
           /\ dir[a] \in Inodes \cup {NoFile}
BY DEF TypeOK, Dirs, Unlink, Link, Rename

LEMMA NamesType ==
    /\ "target" \in Names /\ "mutbak" \in Names /\ "tmp" \in Names
    /\ "claim" \in Names /\ "private" \in Names
    /\ {Orig, Mutant, Junk} \cup Edits = Contents
BY DEF Names, Contents

\* A script that ends keeps the types
LEMMA EndType ==
    ASSUME NEW d \in Dirs, NEW s \in SUBSET Inodes, NEW r, End(d, s, r)
    PROVE  /\ dir' \in Dirs /\ strays' \in SUBSET Inodes
           /\ pc' = "done" /\ result' = r
<1>1. Private \in SUBSET Names
  BY DEF Private, Names
<1> QED
  BY <1>1, ForgetType DEF End

\* So does a step that is cut short
LEMMA TornType ==
    ASSUME TypeOK, NEW t \in Failed(pc)
    PROVE  t.d \in Dirs /\ t.s \in SUBSET Inodes
<1> DEFINE Good(S) == \A x \in S : x.d \in Dirs /\ x.s \in SUBSET Inodes
<1>1. dir \in Dirs /\ strays \in SUBSET Inodes
  BY DEF TypeOK, Dirs
<1>2. Good(Whole)
  BY <1>1 DEF Whole, After
<1>3. ASSUME NEW n \in Names PROVE Good(TornUnlink(n))
  BY <1>1, EntryType DEF TornUnlink, After, Exists
<1>4. Good(TornClaim)
  BY <1>1, EntryType, NamesType DEF TornClaim, After, Exists
<1>5. Good(TornRelink)
  BY <1>1, EntryType, NamesType DEF TornRelink, After, Exists
<1>6. Good(TornTakeBack2)
  BY <1>1, EntryType, NamesType DEF TornTakeBack2, After, Exists
<1>7. Good(Torn(pc))
  BY <1>3, <1>4, <1>5, <1>6, NamesType DEF Torn, When
<1>8. Good(PutBack)
  BY <1>1, EntryType, NamesType DEF PutBack, After
<1> QED
  BY <1>2, <1>7, <1>8 DEF Failed, When

THEOREM TypeCorrect == Spec => []TypeOK
<1> USE NamesType
<1>1. Init => TypeOK
  <2> SUFFICES ASSUME Init PROVE TypeOK
    OBVIOUS
  <2>1. First \in Inodes
    BY DirectoryAssumption DEF First
  <2>2. dir \in [Names -> Inodes \cup {NoFile}] /\ data \in [Inodes -> Contents]
    BY <2>1 DEF Init
  <2> QED
    BY <2>2, TrialAssumption DEF Init, TypeOK, Steps
<1>2. TypeOK /\ [Next]_vars => TypeOK'
  <2> SUFFICES ASSUME TypeOK, [Next]_vars PROVE TypeOK'
    OBVIOUS
  <2> USE DEF At, Goto, Changed, fileVars, trialVars, userVars, boundVars
  <2>1. CASE ReadTarget
    <3>1. CASE Refuse
      BY <2>1, <3>1, RefuseType DEF ReadTarget
    <3>2. CASE ~Refuse
      BY <2>1, <3>2 DEF ReadTarget, TypeOK, Steps, BackupSteps, Single, Exists
    <3> QED BY <3>1, <3>2
  <2>2. CASE BackupCopy
    <3>1. CASE Refuse
      BY <2>2, <3>1, RefuseType DEF BackupCopy
    <3>2. CASE ~Refuse
      <4>1. Create1("tmp", data[dir["target"]]) /\ data[dir["target"]] \in Contents
        BY <2>2, <3>2 DEF BackupCopy, Single, Exists, TypeOK
      <4>2. /\ dir' \in Dirs /\ strays' \in SUBSET Inodes /\ data' \in [Inodes -> Contents]
        BY <4>1, CreateType
      <4> QED
        BY <2>2, <3>2, <4>2 DEF BackupCopy, TypeOK, Dirs, Steps, BackupSteps
    <3> QED BY <3>1, <3>2
  <2>3. CASE BackupLink
    BY <2>3, EntryType, RefuseType DEF BackupLink, TypeOK, Dirs, Steps, BackupSteps
  <2>4. CASE BackupUnlink
    BY <2>4, EntryType DEF BackupUnlink, TypeOK, Dirs, Steps
  <2>5. CASE BackupReturn
    BY <2>5 DEF BackupReturn, TypeOK, Steps
  <2>6. CASE VerifyBackup
    BY <2>6, RefuseType DEF VerifyBackup, TypeOK, Steps, SwapSteps
  <2>7. CASE OpenTemporary
    <3>1. CASE Refuse
      BY <2>7, <3>1, RefuseType DEF OpenTemporary
    <3>2. CASE ~Refuse
      <4>1. Create1("tmp", Payload) /\ Payload \in Contents
        BY <2>7, <3>2 DEF OpenTemporary, Payload, Single, Exists, TypeOK
      <4>2. /\ dir' \in Dirs /\ strays' \in SUBSET Inodes /\ data' \in [Inodes -> Contents]
        BY <4>1, CreateType
      <4> QED
        BY <2>7, <3>2, <4>2 DEF OpenTemporary, TypeOK, Dirs, Steps, SwapSteps
    <3> QED BY <3>1, <3>2
  <2>8. CASE ClaimTarget
    BY <2>8, EntryType, RefuseType DEF ClaimTarget, TypeOK, Dirs, Steps, SwapSteps
  <2>9. CASE HashClaim
    BY <2>9, RefuseType DEF HashClaim, TypeOK, Steps, SwapSteps
  <2>10. CASE MarkInstalled
    BY <2>10 DEF MarkInstalled, TypeOK, Steps, SwapSteps
  <2>11. CASE Publish
    BY <2>11, EntryType, RefuseType DEF Publish, TypeOK, Dirs, Steps, SwapSteps
  <2>12. CASE RecheckClaim
    BY <2>12, RefuseType DEF RecheckClaim, TypeOK, Steps, SwapSteps
  <2>13. CASE TakeBack
    BY <2>13, EntryType, RefuseType DEF TakeBack, TypeOK, Dirs, Steps, SwapSteps
  <2>14. CASE TakeBack2
    <3>0. /\ dir \in Dirs /\ strays \in SUBSET Inodes
          /\ Unlink(dir, "private") \in Dirs /\ Rename(dir, "private", "target") \in Dirs
          /\ {"private"} \in SUBSET Names
      BY EntryType DEF TypeOK, Dirs
    <3>1. dir' \in Dirs /\ strays' \in SUBSET Inodes /\ data' = data
      BY <2>14, <3>0, ForgetType DEF TakeBack2
    <3> QED
      BY <2>14, <3>1 DEF TakeBack2, TypeOK, Dirs, Steps, SwapSteps
  <2>15. CASE Relink
    <3>1. /\ strays \in SUBSET Inodes /\ dir \in Dirs
          /\ Rename(dir, "claim", "target") \in Dirs
      BY EntryType DEF TypeOK, Dirs
    <3>2. faults' \in Nat /\ UNCHANGED <<runs, userVars>> /\ cut' \in {"none", "claim", "finally"}
      BY <2>15 DEF Relink, TypeOK
    <3> QED
      BY <2>15, <3>1, <3>2, RaiseType DEF Relink
  <2>16. CASE UnlinkTemporary
    BY <2>16, EntryType DEF UnlinkTemporary, TypeOK, Dirs, Steps, SwapSteps
  <2>17. CASE CheckTarget
    BY <2>17, RefuseType DEF CheckTarget, TypeOK, Steps, SwapSteps
  <2>18. CASE UnlinkClaim
    BY <2>18, EntryType DEF UnlinkClaim, TypeOK, Dirs, Steps, SwapSteps
  <2>19. CASE UnlinkBackup
    <3>1. Unlink(dir, "mutbak") \in Dirs /\ strays \in SUBSET Inodes
      BY EntryType DEF TypeOK
    <3>2. dir' \in Dirs /\ strays' \in SUBSET Inodes /\ data' = data
      BY <2>19, <3>1, EndType DEF UnlinkBackup
    <3>3. pc' \in {"readback", "done"} /\ result' \in {result, "cliOk", "refused", "killed"}
      BY <2>19 DEF UnlinkBackup, End, Outcome
    <3> QED
      BY <2>19, <3>2, <3>3 DEF UnlinkBackup, TypeOK, Dirs, Steps, Stopped
  <2>20. CASE CleanupClaim
    BY <2>20, EntryType DEF CleanupClaim, TypeOK, Dirs, Steps
  <2>21. CASE CleanupTemporary
    <3>1. /\ Unlink(dir, "tmp") \in Dirs /\ strays \in SUBSET Inodes
          /\ Raise("exc", Unlink(dir, "tmp"), strays)
      BY <2>21, EntryType DEF CleanupTemporary, Raise, TypeOK
    <3>2. faults' \in Nat /\ UNCHANGED <<runs, userVars>> /\ cut' \in {"none", "claim", "finally"}
      BY <2>21 DEF CleanupTemporary, TypeOK
    <3> QED
      BY <3>1, <3>2, RaiseType
  <2>22. CASE SeeMutant
    BY <2>22, RefuseType DEF SeeMutant, TypeOK, Steps
  <2>23. CASE RunTest
    BY <2>23 DEF RunTest, TypeOK, Steps, SwapSteps
  <2>24. CASE Discard
    <3>1. Unlink(dir, "mutbak") \in Dirs /\ dir \in Dirs /\ strays \in SUBSET Inodes
      BY EntryType DEF TypeOK, Dirs
    <3>2. /\ dir' \in Dirs /\ strays' \in SUBSET Inodes
          /\ pc' = "done" /\ result' = Outcome(err)
      BY <2>24, <3>1, EndType DEF Discard
    <3> QED
      BY <2>24, <3>2 DEF Discard, TypeOK, Dirs, Steps, Stopped, Outcome
  <2>25. CASE ReadBack
    BY <2>25, RefuseType DEF ReadBack, TypeOK, Steps
  <2>26. CASE RerunClean
    <3>1. dir \in Dirs /\ strays \in SUBSET Inodes
      BY DEF TypeOK, Dirs
    <3>2. /\ dir' \in Dirs /\ strays' \in SUBSET Inodes
          /\ pc' = "done" /\ result' = "ok"
      BY <2>26, <3>1, EndType DEF RerunClean
    <3> QED
      BY <2>26, <3>2 DEF RerunClean, TypeOK, Dirs, Steps, Stopped
  <2>27. CASE SystemError \/ Terminate \/ Interrupt
    <3>1. faults' \in Nat /\ UNCHANGED <<runs, userVars>> /\ cut' \in {"none", "claim", "finally"}
      BY <2>27 DEF SystemError, Terminate, Interrupt, Strike, Note, TypeOK
    <3>3. PICK k \in {"exc", "base"}, t \in Failed(pc) : Raise(k, t.d, t.s)
      <4>1. CASE SystemError
        BY <4>1 DEF SystemError
      <4>2. CASE Terminate
        BY <4>2 DEF Terminate
      <4>3. CASE Interrupt
        BY <4>3 DEF Interrupt, Failed
      <4> QED BY <2>27, <4>1, <4>2, <4>3
    <3> QED
      BY <3>1, <3>3, TornType, RaiseType
  <2>32. CASE CutShort
    <3>1. PICK k \in {"exc", "base"} : FinallyCut(k) /\ faults' \in Nat /\ UNCHANGED <<runs, userVars>>
      BY <2>32 DEF CutShort, Strike, TypeOK
    <3>2. dir \in Dirs /\ strays \in SUBSET Inodes
      BY DEF TypeOK, Dirs
    <3>3. /\ dir' \in Dirs /\ strays' \in SUBSET Inodes
          /\ pc' = "done" /\ result' = Outcome(k)
      BY <3>1, <3>2, EndType DEF FinallyCut
    <3> QED
      BY <3>1, <3>3 DEF FinallyCut, TypeOK, Dirs, Steps, Stopped, Outcome
  <2>28. CASE Kill
    <3>1. PICK t \in Failed(pc) :
             dir' = Forget(t.d, Private) /\ strays' = Stray(t.d, t.s, Private)
      BY <2>28 DEF Kill, Failed
    <3>2. dir' \in Dirs /\ strays' \in SUBSET Inodes
      BY <3>1, TornType, ForgetType DEF Private, Names
    <3> QED
      BY <2>28, <3>2 DEF Kill, Strike, Note, TypeOK, Dirs, Steps, Stopped
  <2>29. CASE Starts
    <3>1. pc' \in Steps /\ phase' \in {"install", "cli"}
      BY <2>29 DEF Starts, StartTrial, StartRestore, Start, Steps, SwapSteps
    <3>2. runs' \in Nat /\ installed' = FALSE /\ err' = "none" /\ result' = "none"
      BY <2>29 DEF Starts, StartTrial, StartRestore, Start, TypeOK
    <3> QED
      BY <2>29, <3>1, <3>2 DEF Starts, StartTrial, StartRestore, Start, TypeOK
  <2>30. CASE UserStep
    <3>1. ASSUME NEW e \in Edits, SaveByRename(e) PROVE TypeOK'
      BY <3>1, CreateType DEF SaveByRename, User, TypeOK, Dirs, TargetContent
    <3>2. ASSUME NEW e \in Edits, SaveInPlace(e) PROVE TypeOK'
      BY <3>2 DEF SaveInPlace, User, TypeOK, TargetContent
    <3>3. ASSUME NEW e \in Edits, WriteHandle(e) PROVE TypeOK'
      BY <3>3 DEF WriteHandle, User, TypeOK
    <3>4. CASE Delete
      BY <3>4, EntryType DEF Delete, User, TypeOK, Dirs
    <3>5. CASE OpenHandle
      BY <3>5, EntryType DEF OpenHandle, User, TypeOK
    <3> QED
      BY <2>30, <3>1, <3>2, <3>3, <3>4, <3>5 DEF UserStep
  <2>31. CASE UNCHANGED vars
    BY <2>31 DEF vars, TypeOK
  <2> QED
    BY <2>1, <2>2, <2>3, <2>4, <2>5, <2>6, <2>7, <2>8, <2>9, <2>10, <2>11, <2>12,
       <2>13, <2>14, <2>15, <2>16, <2>17, <2>18, <2>19, <2>20, <2>21, <2>22, <2>23,
       <2>24, <2>25, <2>26, <2>27, <2>28, <2>29, <2>30, <2>31, <2>32
    DEF Next, Script, OwnSteps, Swap, Strikes, Rest
<1> QED
  BY <1>1, <1>2, PTL DEF Spec

\* A file with one link is reached under no other name
LEMMA SingleApart ==
    ASSUME NEW d \in Dirs, NEW s, NEW n \in Names
    PROVE  Exists(d, n) /\ Nlink(d, s, d[n]) = 1 <=>
              /\ d[n] # NoFile /\ d[n] \notin s
              /\ \A m \in Names \ {n} : d[m] # d[n]
<1> DEFINE S == {m \in DOMAIN d : d[m] = d[n]}
<1>1. S \in SUBSET Names /\ n \in S
  BY DEF Dirs
<1>2. IsFiniteSet(Names)
  <2>1. Names = ({} \cup {"target"} \cup {"mutbak"} \cup {"tmp"} \cup {"claim"} \cup {"private"})
    BY DEF Names
  <2> QED BY <2>1, FS_EmptySet, FS_AddElement
<1>3. IsFiniteSet(S)
  BY <1>1, <1>2, FS_Subset
<1>4. Cardinality(S) \in Nat /\ Cardinality(S) # 0 /\ (Cardinality(S) = 1 <=> S = {n})
  <2>1. Cardinality(S) \in Nat /\ Cardinality(S) # 0
    BY <1>1, <1>3, FS_CardinalityType, FS_EmptySet
  <2>2. Cardinality(S) = 1 <=> \E x : S = {x}
    BY <1>3, FS_Singleton
  <2> HIDE DEF S
  <2>3. (\E x : S = {x}) <=> S = {n}
    BY <1>1
  <2> QED
    BY <2>1, <2>2, <2>3
<1>5. S = {n} <=> \A m \in Names \ {n} : d[m] # d[n]
  BY <1>1 DEF Dirs
<1> HIDE DEF S
<1>6. Nlink(d, s, d[n]) = 1 <=> Cardinality(S) = 1 /\ d[n] \notin s
  BY <1>4 DEF Nlink, S
<1> QED
  BY <1>4, <1>5, <1>6 DEF Exists

LEMMA SingleNow ==
    ASSUME TypeOK, NEW n \in Names, Single(n)
    PROVE  dir[n] # NoFile /\ dir[n] \notin strays /\ \A m \in Names \ {n} : dir[m] # dir[n]
<1>1. dir \in Dirs /\ Exists(dir, n) /\ Nlink(dir, strays, dir[n]) = 1
  BY DEF TypeOK, Dirs, Single
<1> QED
  BY <1>1, SingleApart

-----------------------------------------------------------------------------
(* The backup outlives the mutant *)

\* What a step that is cut short may have done to the entries
Near(d) ==
    /\ d \in Dirs
    /\ \/ d["target"] \in {dir["target"], dir["claim"], NoFile}
       \/ pc = "takeback2" /\ d["target"] = dir["private"]
    /\ \A n \in Private : d[n] \in {dir[n], NoFile}
    /\ \/ d["mutbak"] = dir["mutbak"]
       \/ pc \in {"unbackup", "discard"} /\ d["mutbak"] = NoFile

LEMMA TornNear ==
    ASSUME TypeOK, NEW t \in Failed(pc)
    PROVE  Near(t.d) /\ t.s \in SUBSET Inodes
<1>1. t.d \in Dirs /\ t.s \in SUBSET Inodes
  BY TornType
<1>2. CASE t \in Whole
  BY <1>1, <1>2 DEF Whole, After, Near
<1>3. CASE t \in Torn(pc)
  <2> USE DEF After, Unlink, Link, Rename, Exists, Near, Private
  <2> dir \in [Names -> Inodes \cup {NoFile}]
    BY DEF TypeOK
  <2>1. CASE \E n \in Private : t \in TornUnlink(n)
    BY <1>1, <2>1, NamesType DEF TornUnlink
  <2>2. CASE pc \in {"unbackup", "discard"} /\ t \in TornUnlink("mutbak")
    BY <1>1, <2>2, NamesType DEF TornUnlink
  <2>3. CASE t \in TornClaim
    BY <1>1, <2>3, NamesType DEF TornClaim
  <2>4. CASE t \in TornRelink
    BY <1>1, <2>4, NamesType DEF TornRelink
  <2>5. CASE pc = "takeback2" /\ t \in TornTakeBack2
    BY <1>1, <2>5, NamesType DEF TornTakeBack2
  <2> QED
    BY <1>3, <2>1, <2>2, <2>3, <2>4, <2>5 DEF Torn, When
<1>4. CASE pc = "takeback2" /\ t \in PutBack
  <2> dir \in [Names -> Inodes \cup {NoFile}]
    BY DEF TypeOK
  <2> QED
    BY <1>1, <1>4, NamesType DEF PutBack, After, Rename, Exists, Near, Private
<1> QED
  BY <1>2, <1>3, <1>4 DEF Failed, When

\* An exception keeps the invariant: it forgets private names, and it drops
\* the backup only when there is no mutant.
LEMMA RaiseBackup ==
    ASSUME TypeOK, BackupInv, NEW k \in {"exc", "base"}, NEW d, NEW s \in SUBSET Inodes,
           Near(d), Raise(k, d, s), UNCHANGED userVars
    PROVE  BackupInv'
<1> DEFINE dropped == pc = "bkunlink" /\ k = "exc"
<1> dir \in [Names -> Inodes \cup {NoFile}] /\ d \in [Names -> Inodes \cup {NoFile}]
  BY DEF TypeOK, Near, Dirs
<1>1. /\ data' = data /\ original' = original /\ installed' = installed /\ handle' = handle
      /\ pc' \in {"done", "open", "discard", "xrelink", "xuntmp"}
  BY DEF Raise, End, FinishTrial, LeaveSwap, LeaveBackup, userVars, trialVars
<1>2. /\ dir' \in [Names -> Inodes \cup {NoFile}]
      /\ dir'["target"] = d["target"]
      /\ \A n \in Private : dir'[n] \in {d[n], NoFile}
      /\ dir'["mutbak"] = IF dropped THEN NoFile ELSE d["mutbak"]
  BY DEF Raise, End, FinishTrial, LeaveSwap, LeaveBackup, Forget, Names, Private,
         BackupSteps, SwapSteps
<1>3. /\ pc' \in {"done", "open", "discard"} => \A n \in Private : dir'[n] = NoFile
      /\ pc' \in {"xrelink", "xuntmp"} => dir'["private"] = NoFile
      /\ pc' \in {"xrelink", "xuntmp"} => pc \in SwapSteps \cup {"xrelink"}
  BY DEF Raise, End, FinishTrial, LeaveSwap, LeaveBackup, Forget, Names, Private,
         BackupSteps, SwapSteps, BackupInv, PrivateNames, Exists, Near
<1>4. /\ pc' = "open" => phase' = "restore"
      /\ pc' = "discard" => phase' = "install" /\ phase = "install" /\ ~installed
      /\ pc' # "open" => phase' = phase
      /\ pc' = "discard" => pc \notin {"read"} \cup Stopped
  BY DEF Raise, End, FinishTrial, LeaveSwap, LeaveBackup, BackupInv, PhaseOfStep,
         BackupSteps, SwapSteps, Stopped
<1>5. NoMutant => NoMutant'
  BY <1>1, <1>2 DEF NoMutant, Holds, Exists, Near, Private
<1>6. PrivateNames'
  BY <1>1, <1>3 DEF PrivateNames, Exists, ClaimSteps, Private
<1>7. PhaseOfStep'
  BY <1>1, <1>4 DEF PhaseOfStep, BackupSteps
<1>8. BackupApart'
  BY <1>1, <1>2, <1>3 DEF BackupApart, BackupInv, Reachable, Exists, Near, Private, SwapSteps
<1>9. BackupClean'
  BY <1>1, <1>2 DEF BackupClean, BackupInv, Holds, Exists, Near
<1>10. CleanBefore'
  <2>1. SUFFICES ASSUME phase' = "install", ~installed', pc' \notin {"read"} \cup Stopped
                 PROVE  NoMutant'
    BY DEF CleanBefore
  <2>2. phase = "install" /\ ~installed /\ pc \notin {"read"} \cup Stopped
    BY <2>1, <1>1, <1>3, <1>4 DEF Stopped, SwapSteps
  <2> QED
    BY <2>2, <1>5 DEF BackupInv, CleanBefore
<1>11. BackedMutant'
  <2>1. SUFFICES ASSUME ~NoMutant PROVE Backed'
    BY <1>1, <1>4, <1>5 DEF BackedMutant
  <2>2. Backed
    BY <2>1 DEF BackupInv, BackedMutant
  <2>3. ~dropped
    BY <2>1 DEF BackupInv, CleanBefore, PhaseOfStep, BackupSteps, Stopped
  <2>4. pc # "discard"
    BY <2>1 DEF BackupInv, CleanBefore, PhaseOfStep, Stopped
  <2>5. pc # "unbackup"
    BY <2>1 DEF BackupInv, RestoreClean, PhaseOfStep, PrivateNames, NoMutant, Holds, ClaimSteps
  <2> QED
    BY <1>1, <1>2, <2>2, <2>3, <2>4, <2>5 DEF Backed, Holds, Exists, Near
<1>12. RestoreClean'
  BY <1>1 DEF RestoreClean
<1> QED
  BY <1>6, <1>7, <1>8, <1>9, <1>10, <1>11, <1>12 DEF BackupInv

LEMMA RefuseBackup ==
    ASSUME TypeOK, BackupInv, Refuse, UNCHANGED userVars
    PROVE  BackupInv'
<1>1. Near(dir) /\ strays \in SUBSET Inodes
  BY DEF Near, TypeOK, Dirs
<1> QED
  BY <1>1, RaiseBackup DEF Refuse

\* No entry leads to the inode of a new file, and no editor has it open
LEMMA NewApart ==
    ASSUME TypeOK, Free # {}
    PROVE  New \in Inodes /\ New # handle /\ \A n \in Names : dir[n] # New
BY NewInodeFree DEF TypeOK, Linked

\* Every step of backup, of the swap and of the rest of run_trial
LEMMA ScriptBackup ==
    ASSUME TypeOK, BackupInv, Script
    PROVE  BackupInv'
<1> USE NamesType
<1> dir \in [Names -> Inodes \cup {NoFile}] /\ data \in [Inodes -> Contents]
  BY DEF TypeOK
<1> USE DEF At, Goto, Changed, fileVars, trialVars, userVars
<1> USE DEF BackupInv, PrivateNames, PhaseOfStep, BackupApart, BackupClean, CleanBefore,
            BackedMutant, RestoreClean, NoMutant, Backed, Holds, Exists, Reachable,
            ClaimSteps, BackupSteps, Stopped
<1>0. CASE Refuse
  BY <1>0, RefuseBackup DEF Script, OwnSteps, Swap, ReadTarget, BackupCopy, BackupLink, BackupUnlink,
     BackupReturn, VerifyBackup, OpenTemporary, ClaimTarget, HashClaim, MarkInstalled,
     Publish, RecheckClaim, TakeBack, TakeBack2, Relink, UnlinkTemporary, CheckTarget,
     UnlinkClaim, UnlinkBackup, CleanupClaim, CleanupTemporary, SeeMutant, RunTest,
     Discard, ReadBack, RerunClean
<1>1. CASE ReadTarget /\ ~Refuse
  BY <1>1 DEF ReadTarget
<1>2. CASE BackupCopy /\ ~Refuse
  BY <1>2, NewApart DEF BackupCopy, Create1, Create, Single
<1>3. CASE BackupLink /\ ~Refuse
  BY <1>3 DEF BackupLink, Link
<1>4. CASE BackupUnlink
  BY <1>4 DEF BackupUnlink, Unlink
<1>5. CASE BackupReturn
  BY <1>5 DEF BackupReturn
<1>6. CASE VerifyBackup /\ ~Refuse
  BY <1>6 DEF VerifyBackup, Reads, Single
<1>7. CASE OpenTemporary /\ ~Refuse
  <2>1. /\ Free # {} /\ pc = "open" /\ pc' = "claim"
        /\ dir' = [dir EXCEPT !["tmp"] = New] /\ data' = [data EXCEPT ![New] = Payload]
        /\ UNCHANGED <<phase, original, installed, handle>>
        /\ Swapping => Exists(dir, "mutbak")
    BY <1>7 DEF OpenTemporary, Single, Create1, Create
  <2>2. /\ New \in Inodes /\ New # handle /\ New # NoFile
        /\ \A n \in Names : dir[n] # New
    BY <2>1, NewApart, DirectoryAssumption
  <2>3. /\ \A n \in Names \ {"tmp"} : dir'[n] = dir[n]
        /\ dir'["tmp"] = New /\ data'[New] = Payload
        /\ \A i \in Inodes \ {New} : data'[i] = data[i]
    BY <2>1, <2>2
  <2>4. \A n \in Names \ {"tmp"}, c \in Contents : Holds(n, c)' <=> Holds(n, c)
    BY <2>2, <2>3
  <2>5. Mutant \in Contents /\ original \in Contents /\ UNCHANGED original
    BY <2>1 DEF TypeOK, Contents
  <2>6. NoMutant' <=> NoMutant
    BY <2>4, <2>5
  <2>7. (Backed' <=> Backed) /\ (Holds("mutbak", Mutant)' <=> Holds("mutbak", Mutant))
    BY <2>1, <2>4, <2>5
  <2>8. RestoreClean'
    <3>1. phase # "install" => Payload # Mutant
      BY <2>1 DEF Payload, Swapping, TypeOK
    <3> QED
      BY <2>1, <2>2, <2>3, <3>1
  <2>9. PrivateNames' /\ PhaseOfStep'
    BY <2>1, <2>3
  <2>10. BackupApart' /\ BackupClean'
    BY <2>1, <2>2, <2>3, <2>7
  <2>11. CleanBefore' /\ BackedMutant'
    BY <2>1, <2>6, <2>7
  <2> QED
    BY <2>8, <2>9, <2>10, <2>11
<1>8. CASE ClaimTarget /\ ~Refuse
  BY <1>8 DEF ClaimTarget, Rename
<1>9. CASE HashClaim /\ ~Refuse
  BY <1>9 DEF HashClaim
<1>10. CASE MarkInstalled
  BY <1>10 DEF MarkInstalled
<1>11. CASE Publish /\ ~Refuse
  <2>1. /\ pc = "publish" /\ pc' = "recheck" /\ ~Exists(dir, "target")
        /\ dir' = [dir EXCEPT !["target"] = dir["tmp"]]
        /\ UNCHANGED <<data, phase, original, installed, handle>>
    BY <1>11 DEF Publish, Link
  <2>2. Backed' <=> Backed
    BY <2>1
  <2>3. phase # "install" => (NoMutant => NoMutant')
    BY <2>1
  <2>4. PrivateNames' /\ PhaseOfStep' /\ RestoreClean' /\ BackupClean'
    BY <2>1
  <2>5. BackupApart'
    BY <2>1
  <2>6. CleanBefore' /\ BackedMutant'
    BY <2>1, <2>2, <2>3
  <2> QED
    BY <2>4, <2>5, <2>6
<1>12. CASE RecheckClaim /\ ~Refuse
  BY <1>12 DEF RecheckClaim
<1>13. CASE TakeBack /\ ~Refuse
  BY <1>13 DEF TakeBack, Rename
<1>14. CASE TakeBack2
  BY <1>14 DEF TakeBack2, Forget, Rename, Unlink
<1>15. CASE Relink
  <2>1. Near(IF Exists(dir, "target") THEN dir ELSE Rename(dir, "claim", "target"))
    BY <1>15, EntryType DEF Near, Rename, Private, Dirs
  <2> QED
    BY <1>15, <2>1, RaiseBackup DEF Relink, TypeOK
<1>16. CASE UnlinkTemporary
  BY <1>16 DEF UnlinkTemporary, Unlink
<1>17. CASE CheckTarget /\ ~Refuse
  BY <1>17 DEF CheckTarget, Reads, Payload, Swapping, TypeOK
<1>18. CASE UnlinkClaim
  BY <1>18 DEF UnlinkClaim, Unlink, TypeOK
<1>19. CASE UnlinkBackup
  BY <1>19 DEF UnlinkBackup, End, Forget, Unlink, Private
<1>20. CASE CleanupClaim
  BY <1>20 DEF CleanupClaim, Rename
<1>21. CASE CleanupTemporary
  <2>1. Near(Unlink(dir, "tmp")) /\ Raise("exc", Unlink(dir, "tmp"), strays)
    BY <1>21, EntryType DEF CleanupTemporary, Raise, Near, Unlink, Private
  <2> QED
    BY <1>21, <2>1, RaiseBackup DEF CleanupTemporary, TypeOK
<1>22. CASE SeeMutant /\ ~Refuse
  BY <1>22 DEF SeeMutant
<1>23. CASE RunTest
  BY <1>23 DEF RunTest
<1>24. CASE Discard
  BY <1>24 DEF Discard, End, Forget, Unlink, Private
<1>25. CASE ReadBack /\ ~Refuse
  BY <1>25 DEF ReadBack
<1>26. CASE RerunClean
  BY <1>26 DEF RerunClean, End, Forget, Private
<1> QED
  BY <1>0, <1>1, <1>2, <1>3, <1>4, <1>5, <1>6, <1>7, <1>8, <1>9, <1>10, <1>11, <1>12, <1>13,
     <1>14, <1>15, <1>16, <1>17, <1>18, <1>19, <1>20, <1>21, <1>22, <1>23, <1>24, <1>25, <1>26
  DEF Script, OwnSteps, Swap

\* A crash forgets private names, and the backup only where it is being
\* removed: no mutant is left then.
LEMMA KillBackup ==
    ASSUME TypeOK, BackupInv, Kill \/ CutShort
    PROVE  BackupInv'
<1>0. After(dir, strays) \in Whole /\ After(dir, strays).d = dir
  BY DEF Whole, After
<1>1. PICK t \in Failed(pc) : dir' = Forget(t.d, Private)
  <2>1. CASE Kill
    BY <2>1 DEF Kill, Failed
  <2>2. CASE CutShort
    <3>1. dir' = Forget(After(dir, strays).d, Private)
      BY <1>0, <2>2 DEF CutShort, FinallyCut, End
    <3> QED
      BY <1>0, <3>1 DEF Failed
  <2> QED
    BY <2>1, <2>2
<1>2. Near(t.d)
  BY TornNear
<1>3. /\ pc' \in Stopped /\ UNCHANGED <<data, phase, original, installed, handle>>
  BY DEF Kill, CutShort, FinallyCut, End, Strike, trialVars, userVars, Stopped
<1>4. /\ dir' \in [Names -> Inodes \cup {NoFile}]
      /\ \A n \in Private : dir'[n] = NoFile
      /\ dir'["target"] = t.d["target"] /\ dir'["mutbak"] = t.d["mutbak"]
  BY <1>1, <1>2 DEF Near, Dirs, Forget, Private, Names
<1>5. NoMutant => NoMutant'
  BY <1>2, <1>3, <1>4 DEF NoMutant, Holds, Exists, Near, Private
<1>6. PrivateNames' /\ PhaseOfStep' /\ RestoreClean' /\ CleanBefore'
  BY <1>3, <1>4 DEF PrivateNames, PhaseOfStep, RestoreClean, CleanBefore, Exists,
     Private, BackupSteps, Stopped
<1>7. BackupApart'
  BY <1>2, <1>3, <1>4 DEF BackupApart, BackupInv, Reachable, Exists, Near, Private, Stopped
<1>8. BackupClean'
  BY <1>2, <1>3, <1>4 DEF BackupClean, BackupInv, Holds, Exists, Near, Stopped
<1>9. BackedMutant'
  <2>1. SUFFICES ASSUME ~NoMutant PROVE Backed'
    BY <1>3, <1>5 DEF BackedMutant, Stopped
  <2>2. Backed
    BY <2>1 DEF BackupInv, BackedMutant
  <2>3. pc \notin {"discard", "unbackup"}
    BY <2>1 DEF BackupInv, CleanBefore, PhaseOfStep, RestoreClean, PrivateNames,
       NoMutant, Holds, ClaimSteps, Stopped
  <2> QED
    BY <1>2, <1>3, <1>4, <2>2, <2>3 DEF Backed, Holds, Exists, Near
<1> QED
  BY <1>6, <1>7, <1>8, <1>9 DEF BackupInv

\* A script starts with none of its names drawn
LEMMA StartBackup ==
    ASSUME BackupInv, Starts
    PROVE  BackupInv'
<1>1. /\ pc \in Stopped /\ ~installed'
      /\ \/ pc' = "read" /\ phase' = "install"
         \/ pc' = "open" /\ phase' = "cli"
      /\ UNCHANGED <<dir, data, original, handle>>
  BY DEF Starts, StartTrial, StartRestore, Start, fileVars, userVars
<1> QED
  BY <1>1 DEF BackupInv, PrivateNames, PhaseOfStep, BackupApart, BackupClean, CleanBefore,
     BackedMutant, RestoreClean, NoMutant, Backed, Holds, Exists, Reachable,
     ClaimSteps, BackupSteps, Stopped

\* The user reaches the target, never the backup, and saves no mutant
LEMMA UserBackup ==
    ASSUME TypeOK, BackupInv, UserStep
    PROVE  BackupInv'
<1> USE NamesType, TrialAssumption, DirectoryAssumption
<1> dir \in [Names -> Inodes \cup {NoFile}] /\ data \in [Inodes -> Contents]
    /\ handle \in Inodes \cup {NoFile}
  BY DEF TypeOK
<1> USE DEF User, trialVars
<1> DEFINE Same == UNCHANGED <<pc, phase, original, installed>>
           Keep == Same /\ PrivateNames' /\ BackupApart' /\ BackupClean'
                   /\ (NoMutant => NoMutant') /\ (Backed => Backed')
                   /\ (phase # "install" /\ pc \in {"claim", "hash", "publish"}
                         => (~Holds("tmp", Mutant) => ~Holds("tmp", Mutant)'))
                   /\ (~Holds("target", Mutant) => ~Holds("target", Mutant)')
<1>1. Keep => BackupInv'
  BY DEF BackupInv, PhaseOfStep, CleanBefore, BackedMutant, RestoreClean
<1>2. ASSUME NEW e \in Edits, SaveByRename(e) PROVE Keep
  <2>1. /\ Free # {} /\ dir' = [dir EXCEPT !["target"] = New]
        /\ data' = [data EXCEPT ![New] = e] /\ UNCHANGED handle /\ Same
    BY <1>2 DEF SaveByRename, Create1, Create
  <2>2. /\ New \in Inodes /\ New # handle /\ New # NoFile
        /\ \A n \in Names : dir[n] # New
    BY <2>1, NewApart
  <2>3. \A n \in Names \ {"target"}, c \in Contents : Holds(n, c)' <=> Holds(n, c)
    BY <2>1, <2>2 DEF Holds, Exists
  <2>4. ~Holds("target", Mutant)'
    BY <2>1, <2>2 DEF Holds
  <2>5. PrivateNames'
    BY <2>1 DEF BackupInv, PrivateNames, Exists
  <2>6. BackupApart'
    BY <2>1, <2>2 DEF BackupInv, BackupApart, Reachable, Exists
  <2>7. BackupClean' /\ (NoMutant => NoMutant') /\ (Backed => Backed')
    BY <2>1, <2>3, <2>4 DEF BackupInv, BackupClean, NoMutant, Backed, TypeOK
  <2> QED
    BY <2>1, <2>3, <2>4, <2>5, <2>6, <2>7
<1>3. ASSUME NEW e \in Edits, NEW i \in Inodes, i \in {dir["target"], handle},
             data' = [data EXCEPT ![i] = e], handle' \in {handle, NoFile},
             UNCHANGED dir, Same
      PROVE  Keep
  <2>1. \A n \in Names : Holds(n, Mutant)' => Holds(n, Mutant)
    BY <1>3 DEF Holds, Exists
  <2>2. PrivateNames' /\ BackupApart'
    BY <1>3 DEF BackupInv, PrivateNames, BackupApart, Reachable, Exists
  <2>3. Backed => Backed'
    BY <1>3 DEF BackupInv, BackupApart, Reachable, Backed, Holds, Exists
  <2> QED
    BY <1>3, <2>1, <2>2, <2>3 DEF BackupInv, BackupClean, NoMutant
<1>4. ASSUME NEW e \in Edits, SaveInPlace(e) PROVE Keep
  BY <1>3, <1>4 DEF SaveInPlace, Exists
<1>5. ASSUME NEW e \in Edits, WriteHandle(e) PROVE Keep
  BY <1>3, <1>5 DEF WriteHandle
<1>6. CASE Delete
  <2>1. dir' = [dir EXCEPT !["target"] = NoFile] /\ UNCHANGED <<data, handle>> /\ Same
    BY <1>6 DEF Delete, Changed, Unlink
  <2>2. \A n \in Names, c \in Contents : Holds(n, c)' => Holds(n, c)
    BY <2>1 DEF Holds, Exists
  <2>3. \A n \in Names \ {"target"}, c \in Contents : Holds(n, c) => Holds(n, c)'
    BY <2>1 DEF Holds, Exists
  <2>4. PrivateNames' /\ BackupApart'
    BY <2>1 DEF BackupInv, PrivateNames, BackupApart, Reachable, Exists
  <2>5. BackupClean' /\ (NoMutant => NoMutant') /\ (Backed => Backed')
    BY <2>1, <2>2, <2>3 DEF BackupInv, BackupClean, NoMutant, Backed, TypeOK
  <2> QED
    BY <1>1, <2>1, <2>2, <2>4, <2>5 DEF Contents
<1>7. CASE OpenHandle
  <2>1. handle' = dir["target"] /\ UNCHANGED <<dir, data>> /\ Same
    BY <1>7 DEF OpenHandle, fileVars
  <2>2. \A n \in Names, c \in Contents : Holds(n, c)' <=> Holds(n, c)
    BY <2>1 DEF Holds, Exists
  <2>3. PrivateNames' /\ BackupApart'
    BY <2>1 DEF BackupInv, PrivateNames, BackupApart, Reachable, Exists
  <2>4. BackupClean' /\ (NoMutant => NoMutant') /\ (Backed => Backed')
    BY <2>1, <2>2 DEF BackupInv, BackupClean, NoMutant, Backed, TypeOK
  <2> QED
    BY <1>1, <2>1, <2>2, <2>3, <2>4 DEF Contents
<1> QED
  BY <1>1, <1>2, <1>4, <1>5, <1>6, <1>7 DEF UserStep

\* The backup outlives the mutant, whatever interrupts the trial
THEOREM BackupInvariant == Spec => []BackupInv
<1> USE NamesType
<1>1. Init => BackupInv
  BY TrialAssumption, DirectoryAssumption
  DEF Init, BackupInv, PrivateNames, PhaseOfStep, BackupApart, BackupClean, CleanBefore,
      BackedMutant, RestoreClean, NoMutant, Backed, Holds, Exists, First,
      BackupSteps, Stopped, Names
<1>2. TypeOK /\ BackupInv /\ [Next]_vars => BackupInv'
  <2> SUFFICES ASSUME TypeOK, BackupInv, [Next]_vars PROVE BackupInv'
    OBVIOUS
  <2> dir \in [Names -> Inodes \cup {NoFile}] /\ data \in [Inodes -> Contents]
    BY DEF TypeOK
  <2>1. CASE Script
    BY <2>1, ScriptBackup
  <2>2. CASE SystemError \/ Terminate \/ Interrupt
    <3>2. PICK k \in {"exc", "base"}, t \in Failed(pc) : Raise(k, t.d, t.s)
      BY <2>2 DEF SystemError, Terminate, Interrupt, Failed
    <3>3. UNCHANGED userVars
      BY <2>2 DEF SystemError, Terminate, Interrupt, Strike
    <3> QED
      BY <3>2, <3>3, TornNear, RaiseBackup
  <2>3. CASE Kill \/ CutShort
    BY <2>3, KillBackup
  <2>4. CASE Starts
    BY <2>4, StartBackup
  <2>5. CASE UserStep
    BY <2>5, UserBackup
  <2>6. CASE UNCHANGED vars
    BY <2>6
    DEF vars, fileVars, trialVars, userVars, BackupInv, PrivateNames, PhaseOfStep,
        BackupApart, BackupClean, CleanBefore, BackedMutant, RestoreClean, NoMutant,
        Backed, Holds, Exists, Reachable
  <2> QED
    BY <2>1, <2>2, <2>3, <2>4, <2>5, <2>6 DEF Next, Strikes, Rest
<1> QED
  BY <1>1, <1>2, TypeCorrect, PTL DEF Spec

\* While the target holds the mutant, the backup beside it holds what the
\* trial replaced.
THEOREM MutantBacked == Spec => []MutantHasBackup
<1>1. BackupInv => MutantHasBackup
  BY DEF BackupInv, BackedMutant, NoMutant, Backed, MutantHasBackup
<1> QED
  BY <1>1, BackupInvariant, PTL

-----------------------------------------------------------------------------
(* Publishing never replaces *)

\* Entries that leave an existing target in place, or take it away
Kept(d) == Exists(dir, "target") => d["target"] \in {dir["target"], NoFile}

LEMMA TornKept ==
    ASSUME TypeOK, NEW t \in Failed(pc)
    PROVE  Kept(t.d)
<1> dir \in [Names -> Inodes \cup {NoFile}]
  BY DEF TypeOK
<1> USE NamesType DEF After, Unlink, Rename, Exists, Kept
<1>1. CASE t \in Whole
  BY <1>1 DEF Whole
<1>2. CASE \E n \in Names : t \in TornUnlink(n)
  BY <1>2 DEF TornUnlink
<1>3. CASE t \in TornClaim
  BY <1>3 DEF TornClaim
<1>4. CASE t \in TornRelink
  BY <1>4 DEF TornRelink
<1>5. CASE t \in TornTakeBack2
  BY <1>5 DEF TornTakeBack2
<1>6. CASE t \in PutBack
  BY <1>6 DEF PutBack
<1> QED
  BY <1>1, <1>2, <1>3, <1>4, <1>5, <1>6 DEF Failed, Torn, When

LEMMA RaiseKept ==
    ASSUME NEW k, NEW d, NEW s, Kept(d), Raise(k, d, s)
    PROVE  Kept(dir')
<1>1. dir'["target"] = d["target"]
  BY DEF Raise, End, FinishTrial, LeaveSwap, LeaveBackup, Forget, Names, Private
<1> QED
  BY <1>1 DEF Kept

\* Only the user replaces one file by another under the target's name.
THEOREM TargetNeverReplaced == Spec => NeverReplaces
<1> USE NamesType
<1>1. TypeOK /\ [Next]_vars =>
        [\/ UserStep
         \/ Exists(dir, "target") /\ Exists(dir', "target")
               => dir'["target"] = dir["target"]]_vars
  <2> SUFFICES ASSUME TypeOK, Next, ~UserStep PROVE Kept(dir')
    BY DEF Kept, Exists
  <2> dir \in [Names -> Inodes \cup {NoFile}]
    BY DEF TypeOK
  <2> Kept(dir)
    BY DEF Kept
  <2>1. CASE Refuse
    BY <2>1, RaiseKept DEF Refuse
  <2>2. CASE Relink
    <3>1. Kept(IF Exists(dir, "target") THEN dir ELSE Rename(dir, "claim", "target"))
      BY DEF Kept
    <3> QED
      BY <2>2, <3>1, RaiseKept DEF Relink
  <2>3. CASE CleanupTemporary
    <3>1. Kept(Unlink(dir, "tmp")) /\ Raise("exc", Unlink(dir, "tmp"), strays)
      BY <2>3 DEF CleanupTemporary, At, Raise, Kept, Unlink, Exists
    <3> QED
      BY <3>1, RaiseKept
  <2>4. CASE BackupCopy \/ OpenTemporary
    <3>1. CASE ~Refuse
      BY <2>4, <3>1 DEF BackupCopy, OpenTemporary, Create1, Create, Kept
    <3> QED BY <2>1, <3>1
  <2>5. CASE ReadTarget \/ BackupReturn \/ VerifyBackup \/ HashClaim \/ MarkInstalled
             \/ RecheckClaim \/ CheckTarget \/ SeeMutant \/ RunTest \/ ReadBack
    <3>1. CASE ~Refuse
      BY <2>5, <3>1 DEF ReadTarget, BackupReturn, VerifyBackup, HashClaim, MarkInstalled,
         RecheckClaim, CheckTarget, SeeMutant, RunTest, ReadBack, fileVars
    <3> QED BY <2>1, <3>1
  <2>6. CASE BackupLink \/ BackupUnlink \/ ClaimTarget \/ Publish \/ TakeBack
             \/ UnlinkTemporary \/ UnlinkClaim \/ CleanupClaim
    <3>1. CASE ~Refuse
      BY <2>6, <3>1 DEF BackupLink, BackupUnlink, ClaimTarget, Publish, TakeBack,
         UnlinkTemporary, UnlinkClaim, CleanupClaim, Changed, Link, Unlink, Rename,
         Exists, Kept
    <3> QED BY <2>1, <3>1
  <2>7. CASE TakeBack2
    BY <2>7 DEF TakeBack2, Changed, Forget, Unlink, Rename, Exists, Kept, Names
  <2>8. CASE UnlinkBackup \/ Discard \/ RerunClean
    BY <2>8 DEF UnlinkBackup, Discard, RerunClean, Changed, End, Forget, Unlink, Kept,
       Names, Private
  <2>9. CASE SystemError \/ Terminate \/ Interrupt
    <3>1. PICK k \in {"exc", "base"} : \E d, s : Kept(d) /\ Raise(k, d, s)
      BY <2>9, TornKept DEF SystemError, Terminate, Interrupt, Failed
    <3>2. PICK d, s : Kept(d) /\ Raise(k, d, s)
      BY <3>1
    <3> QED BY <3>2, RaiseKept
  <2>10. CASE Kill \/ CutShort
    <3>1. PICK t \in Failed(pc) : dir' = Forget(t.d, Private)
      <4>1. After(dir, strays) \in Whole /\ After(dir, strays).d = dir
        BY DEF Whole, After
      <4>2. CASE Kill
        BY <4>2 DEF Kill, Failed
      <4>3. CASE CutShort
        <5>1. dir' = Forget(After(dir, strays).d, Private)
          BY <4>1, <4>3 DEF CutShort, FinallyCut, End
        <5> QED
          BY <4>1, <5>1 DEF Failed
      <4> QED
        BY <2>10, <4>2, <4>3
    <3> QED
      BY <3>1, TornKept DEF Kept, Forget, Names, Private
  <2>11. CASE Starts \/ Rest
    BY <2>11 DEF Starts, StartTrial, StartRestore, Start, Rest, fileVars, vars
  <2> QED
    BY <2>2, <2>3, <2>4, <2>5, <2>6, <2>7, <2>8, <2>9, <2>10, <2>11
    DEF Next, Script, OwnSteps, Swap, Strikes
<1> QED
  BY <1>1, TypeCorrect, PTL DEF Spec, NeverReplaces
-----------------------------------------------------------------------------
(* Nothing is lost, when no editor writes through a descriptor it opened    *)
(* before: Handles = "never".                                               *)

\* What is live is held under one of the names ns, or by a stray
Held(d, s, ns) ==
    \A c \in live : \/ \E n \in ns : d[n] # NoFile /\ data[d[n]] = c
                    \/ \E i \in s : data[i] = c

\* The names the user's bytes pass through, and those that are not dropped
\* with a temporary
Path == {"target", "claim", "private"}
Lasting == Path \cup {"mutbak"}

\* An edit that is not saved yet is nowhere
UnsavedNowhere ==
    /\ \A i \in Inodes : data[i] \notin unsaved
    /\ original \notin unsaved /\ live \cap unsaved = {}

\* The backup of a running trial holds what the trial replaces
SwapBacked ==
    phase = "install" /\ pc \in SwapSteps \cup {"xrelink", "xuntmp", "seen", "test"} => Backed

\* A claim that was hashed keeps its content until it is dropped
ClaimKept ==
    pc \in {"mark", "publish", "recheck", "untmp", "check", "unclaim"} =>
        /\ Holds("claim", Expected)
        /\ dir["claim"] \notin {dir["target"], dir["tmp"]}

\* A trial that may drop its backup, and a restore that is about to, has the
\* user's bytes elsewhere
Unpublished == phase = "install" /\ ~installed /\ pc \notin {"read", "bkcopy"} \cup Stopped
BackupSpare ==
    Unpublished \/ (phase # "install" /\ pc \in {"unclaim", "unbackup"})
       => Held(dir, strays, Path)

\* The mutant is marked before it is published
Marked == phase = "install" /\ pc \in {"recheck", "untmp", "check", "unclaim"} => installed

LostInv ==
    /\ handle = NoFile /\ pc \notin {"takeback", "takeback2"}
    /\ UnsavedNowhere /\ SwapBacked /\ ClaimKept /\ BackupSpare /\ Marked
    /\ Held(dir, strays, Lasting)

\* Forgetting a name leaves its inode a stray
LEMMA ForgetHeld ==
    ASSUME NEW d \in Dirs, NEW s \in SUBSET Inodes, NEW fs \in SUBSET Names,
           NEW ns \in SUBSET Names, Held(d, s, ns)
    PROVE  Held(Forget(d, fs), Stray(d, s, fs), ns)
BY DEF Held, Forget, Stray, Dirs

\* A step that is cut short loses nothing: what it drops is held elsewhere
LEMMA TornHeld ==
    ASSUME TypeOK, BackupInv, LostInv, NEW t \in Failed(pc)
    PROVE  /\ Held(t.d, t.s, Lasting)
           /\ Unpublished => Held(t.d, t.s, Path)
<1> dir \in [Names -> Inodes \cup {NoFile}] /\ strays \in SUBSET Inodes
    /\ live \subseteq {Orig} \cup Edits
  BY DEF TypeOK
<1> USE NamesType
<1> DEFINE ok(u) == Held(u.d, u.s, Lasting) /\ (Unpublished => Held(u.d, u.s, Path))
<1>0. Held(dir, strays, Lasting) /\ (Unpublished => Held(dir, strays, Path))
  BY DEF LostInv, BackupSpare
<1>1. CASE t \in Whole
  BY <1>0, <1>1 DEF Whole, After
<1>2. CASE t \in TornUnlink("tmp")
  BY <1>0, <1>2 DEF TornUnlink, After, Unlink, Held, Lasting, Path
<1>3. CASE pc = "unclaim" /\ t \in TornUnlink("claim")
  <2>0. t.d = Unlink(dir, "claim") /\ strays \subseteq t.s
    BY <1>3 DEF TornUnlink, After
  <2>1. Holds("claim", Expected) /\ ~Unpublished
    BY <1>3 DEF LostInv, ClaimKept, Marked, Unpublished
  <2>2. CASE phase = "install"
    <3>1. Backed /\ Expected = original
      BY <1>3, <2>2 DEF LostInv, SwapBacked, SwapSteps, Expected, Swapping
    <3> QED
      BY <1>0, <2>0, <2>1, <3>1 DEF Held, Unlink, Lasting, Path, Backed, Holds, Exists
  <2>3. CASE phase # "install"
    <3>1. Mutant \notin live /\ Expected = Mutant
      BY <2>3, TrialAssumption DEF Expected, Swapping, TypeOK
    <3> QED
      BY <1>0, <2>0, <2>1, <3>1 DEF Held, Unlink, Lasting, Path, Holds, Exists
  <2> QED BY <2>2, <2>3
<1>4. CASE pc \in {"unbackup", "discard"} /\ t \in TornUnlink("mutbak")
  <2>1. Held(dir, strays, Path)
    BY <1>4 DEF BackupInv, PhaseOfStep, LostInv, BackupSpare, Unpublished, Stopped
  <2> QED
    BY <1>4, <2>1 DEF TornUnlink, After, Unlink, Held, Lasting, Path
<1>5. CASE pc = "claim" /\ t \in TornClaim
  BY <1>0, <1>5 DEF TornClaim, After, Unlink, Exists, Held, Lasting, Path
<1>6. CASE t \in TornRelink
  BY <1>0, <1>6 DEF TornRelink, After, Unlink, Link, Rename, Exists, Held, Lasting, Path
<1> QED
  BY <1>1, <1>2, <1>3, <1>4, <1>5, <1>6 DEF Failed, Torn, When, LostInv

\* Nor does an exception: the except clauses forget names, and the one of
\* backup removes the backup while the target still holds what it copied.
LEMMA RaiseLost ==
    ASSUME TypeOK, BackupInv, LostInv, NEW k \in {"exc", "base"}, NEW d, NEW s \in SUBSET Inodes,
           Near(d), Held(d, s, Lasting), Unpublished => Held(d, s, Path),
           Raise(k, d, s), UNCHANGED userVars
    PROVE  LostInv'
<1> USE NamesType
<1> d \in Dirs
  BY DEF Near
<1>0. /\ Private \in SUBSET Names /\ {"private"} \in SUBSET Names
      /\ Lasting \in SUBSET Names /\ Path \in SUBSET Names
  BY DEF Private, Names, Lasting, Path
<1>1. /\ UNCHANGED <<data, original, installed, handle, unsaved, live>>
      /\ pc' \in {"done", "open", "discard", "xrelink", "xuntmp"}
  BY DEF Raise, End, FinishTrial, LeaveSwap, LeaveBackup, userVars, trialVars
<1>2. /\ pc' = "open" => phase' # "install"
      /\ pc' # "open" => phase' = phase
      /\ pc' \in {"discard", "xrelink", "xuntmp"} => pc \notin {"read", "bkcopy"} \cup Stopped
      /\ pc' \in {"xrelink", "xuntmp"} => pc \in SwapSteps \cup {"xrelink"}
  BY DEF Raise, End, FinishTrial, LeaveSwap, LeaveBackup, BackupInv, PhaseOfStep,
         BackupSteps, SwapSteps, Stopped
<1>3. CASE pc = "bkunlink" /\ k = "exc"
  <2> DEFINE g == Forget(d, {"tmp", "mutbak"})
  <2>1. g \in Dirs /\ Held(g, s, Path)
    <3>1. Held(d, s, Path)
      BY <1>3 DEF BackupInv, PhaseOfStep, BackupSteps, Unpublished, Stopped
    <3> QED
      BY <3>1 DEF Held, Path, Forget, Dirs, Names
  <2>2. dir' = Forget(g, Private) /\ strays' = Stray(g, s, Private) /\ pc' = "done"
    BY <1>3 DEF Raise, LeaveBackup, End, BackupSteps, SwapSteps
  <2>3. Held(dir', strays', Path)
    BY <1>0, <2>1, <2>2, ForgetHeld
  <2> HIDE DEF g
  <2>4. Held(dir, strays, Lasting)'
    BY <1>1, <2>3 DEF Held, Lasting
  <2> QED
    BY <1>1, <2>2, <2>4 DEF LostInv, UnsavedNowhere, SwapBacked, ClaimKept, BackupSpare,
       Unpublished, Marked, SwapSteps, Stopped
<1>4. CASE ~(pc = "bkunlink" /\ k = "exc")
  <2>1. PICK g \in Dirs, fs \in SUBSET Names :
           /\ dir' = Forget(g, fs) /\ strays' = Stray(g, s, fs)
           /\ \A n \in Lasting : g[n] = d[n]
    <3>1. Forget(d, {"tmp"}) \in Dirs /\ \A n \in Lasting : Forget(d, {"tmp"})[n] = d[n]
      BY DEF Forget, Dirs, Names, Lasting, Path
    <3>2. Forget(d, {}) = d /\ Stray(d, s, {}) = s
      BY DEF Forget, Stray, Dirs
    <3>3. CASE pc \in BackupSteps /\ k = "exc"
      BY <1>0, <1>4, <3>1, <3>3 DEF Raise, LeaveBackup, End, BackupSteps, SwapSteps
    <3>4. CASE pc = "xrelink" /\ k = "exc"
      BY <3>2, <3>4 DEF Raise, BackupSteps, SwapSteps
    <3>5. CASE ~(pc \in BackupSteps /\ k = "exc") /\ ~(pc = "xrelink" /\ k = "exc")
      <4>1. \E fs \in {Private, {"private"}} :
              dir' = Forget(d, fs) /\ strays' = Stray(d, s, fs)
        BY <3>5 DEF Raise, LeaveBackup, LeaveSwap, FinishTrial, End, SwapSteps, BackupSteps
      <4>2. PICK fs \in {Private, {"private"}} :
              dir' = Forget(d, fs) /\ strays' = Stray(d, s, fs)
        BY <4>1
      <4>3. fs \in SUBSET Names
        BY <1>0, <4>2
      <4> QED
        BY <4>2, <4>3
    <3> QED BY <3>3, <3>4, <3>5
  <2>2. Held(g, s, Lasting) /\ (Unpublished => Held(g, s, Path))
    BY <2>1 DEF Held, Lasting
  <2>3. Held(dir', strays', Lasting) /\ (Unpublished => Held(dir', strays', Path))
    BY <1>0, <2>1, <2>2, ForgetHeld
  <2>4. Held(dir, strays, Lasting)' /\ (Unpublished => Held(dir, strays, Path)')
    BY <1>1, <2>3 DEF Held
  <2>5. SwapBacked'
    <3>1. SUFFICES ASSUME phase' = "install", pc' \in {"xrelink", "xuntmp"} PROVE Backed'
      BY <1>1, <1>2 DEF SwapBacked, SwapSteps
    <3>2. Backed /\ phase = "install" /\ pc \in SwapSteps \cup {"xrelink"}
      BY <3>1, <1>2 DEF LostInv, SwapBacked
    <3>3. dir'["mutbak"] = d["mutbak"]
      BY <3>1, <3>2 DEF Raise, LeaveSwap, FinishTrial, End, Forget, SwapSteps, BackupSteps,
         Private, Names
    <3>4. d["mutbak"] = dir["mutbak"]
      BY <3>2 DEF Near, BackupInv, PhaseOfStep, SwapSteps
    <3> QED
      BY <1>1, <3>2, <3>3, <3>4 DEF Backed, Holds, Exists
  <2>6. BackupSpare'
    <3>1. Unpublished' => Unpublished
      BY <1>1, <1>2 DEF Unpublished, Stopped
    <3> QED
      BY <1>1, <2>4, <3>1 DEF BackupSpare
  <2> QED
    BY <1>1, <2>4, <2>5, <2>6 DEF LostInv, UnsavedNowhere, ClaimKept, Marked
<1> QED
  BY <1>3, <1>4

LEMMA RefuseLost ==
    ASSUME TypeOK, BackupInv, LostInv, Refuse, UNCHANGED userVars
    PROVE  LostInv'
<1>1. Near(dir) /\ strays \in SUBSET Inodes
  BY DEF Near, TypeOK, Dirs
<1>2. Held(dir, strays, Lasting) /\ (Unpublished => Held(dir, strays, Path))
  BY DEF LostInv, BackupSpare
<1> QED
  BY <1>1, <1>2, RaiseLost DEF Refuse

\* Every step of backup, of the swap and of the rest of run_trial
LEMMA ScriptLost ==
    ASSUME TypeOK, BackupInv, LostInv, Script
    PROVE  LostInv'
<1> USE NamesType
<1> dir \in [Names -> Inodes \cup {NoFile}] /\ data \in [Inodes -> Contents]
    /\ strays \in SUBSET Inodes /\ live \subseteq {Orig} \cup Edits
  BY DEF TypeOK
<1>a. Single("claim") => dir["claim"] \notin {NoFile, dir["target"], dir["tmp"]}
  BY SingleNow
<1> USE DEF At, Goto, Changed, fileVars, trialVars, userVars
<1> USE DEF LostInv, UnsavedNowhere, SwapBacked, ClaimKept, BackupSpare, Unpublished, Marked,
            Held, Lasting, Path, Stopped, SwapSteps
<1>0. CASE Refuse
  BY <1>0, RefuseLost DEF Script, OwnSteps, Swap, ReadTarget, BackupCopy, BackupLink, BackupUnlink,
     BackupReturn, VerifyBackup, OpenTemporary, ClaimTarget, HashClaim, MarkInstalled,
     Publish, RecheckClaim, TakeBack, TakeBack2, Relink, UnlinkTemporary, CheckTarget,
     UnlinkClaim, UnlinkBackup, CleanupClaim, CleanupTemporary, SeeMutant, RunTest,
     Discard, ReadBack, RerunClean
<1>1. CASE ReadTarget /\ ~Refuse
  BY <1>1 DEF ReadTarget, Single, Exists
<1>2. CASE (BackupCopy \/ OpenTemporary) /\ ~Refuse
  <2>1. /\ Free # {} /\ dir' = [dir EXCEPT !["tmp"] = New]
        /\ \E c \in {Mutant} \cup {data[dir[n]] : n \in {m \in Names : dir[m] # NoFile}} :
              data' = [data EXCEPT ![New] = c]
        /\ UNCHANGED <<strays, phase, original, installed, handle, unsaved, live>>
        /\ \/ pc = "open" /\ pc' = "claim"
           \/ pc = "bkcopy" /\ pc' = "bklink" /\ dir["mutbak"] = NoFile
    BY <1>2 DEF BackupCopy, OpenTemporary, Payload, Single, Exists, Create1, Create, Swapping
  <2>2. /\ New \in Inodes /\ \A n \in Names : dir[n] # New
        /\ New \notin strays /\ New # NoFile
    BY <2>1, NewApart, NewInodeFree, DirectoryAssumption DEF Linked
  <2>3. UnsavedNowhere'
    BY <2>1, <2>2, TrialAssumption DEF TypeOK
  <2>4. Held(dir, strays, Lasting)' /\ (Held(dir, strays, Path) => Held(dir, strays, Path)')
    BY <2>1, <2>2
  <2>5. SwapBacked'
    BY <2>1, <2>2 DEF Backed, Holds, Exists
  <2>6. BackupSpare'
    BY <2>1, <2>4
  <2> QED
    BY <2>1, <2>3, <2>4, <2>5, <2>6
<1>3. CASE (BackupLink \/ BackupUnlink) /\ ~Refuse
  BY <1>3 DEF BackupLink, BackupUnlink, Link, Unlink, Exists, BackupInv, PhaseOfStep,
     BackupSteps
<1>4. CASE BackupReturn
  BY <1>4 DEF BackupReturn
<1>5. CASE VerifyBackup /\ ~Refuse
  <2>1. /\ pc = "verify" /\ pc' = "open" /\ phase' = "install" /\ Reads("mutbak", original)
        /\ UNCHANGED <<dir, strays, data, original, installed, handle, unsaved, live>>
    BY <1>5 DEF VerifyBackup
  <2>2. SwapBacked'
    BY <2>1 DEF Reads, Single, Backed, Holds, Exists
  <2>3. Held(dir, strays, Lasting)' /\ BackupSpare'
    BY <2>1 DEF BackupInv, PhaseOfStep
  <2> QED
    BY <2>1, <2>2, <2>3
<1>6. CASE ClaimTarget /\ ~Refuse
  <2>1. /\ pc = "claim" /\ pc' = "hash" /\ dir["claim"] = NoFile
        /\ dir' = [dir EXCEPT !["claim"] = dir["target"], !["target"] = NoFile]
        /\ UNCHANGED <<strays, data, phase, original, installed, handle, unsaved, live>>
    BY <1>6 DEF ClaimTarget, Rename, Exists, BackupInv, PrivateNames, ClaimSteps
  <2>2. Held(dir, strays, Lasting)' /\ (Held(dir, strays, Path) => Held(dir, strays, Path)')
    BY <2>1
  <2>3. SwapBacked'
    BY <2>1 DEF Backed, Holds, Exists
  <2> QED
    BY <2>1, <2>2, <2>3
<1>7. CASE HashClaim /\ ~Refuse
  <2>0. UNCHANGED <<dir, strays, data, phase, original, installed, handle, unsaved, live>>
    BY <1>7 DEF HashClaim
  <2>1. SwapBacked'
    BY <1>7, <2>0 DEF HashClaim, Backed, Holds, Exists
  <2>2. ClaimKept'
    <3>1. SUFFICES ASSUME pc' \in {"mark", "publish"} PROVE ClaimKept'
      BY <1>7 DEF HashClaim
    <3>2. Reads("claim", Expected)
      BY <1>7, <3>1 DEF HashClaim
    <3> QED
      BY <1>a, <2>0, <3>2 DEF Reads, Holds, Exists, Expected, Swapping
  <2>3. Held(dir, strays, Lasting)' /\ BackupSpare'
    BY <1>7, <2>0 DEF HashClaim
  <2> QED
    BY <1>7, <2>0, <2>1, <2>2, <2>3 DEF HashClaim
<1>8. CASE MarkInstalled
  BY <1>8 DEF MarkInstalled, Holds, Exists, Expected, Swapping, Backed
<1>9. CASE Publish /\ ~Refuse
  <2>1. /\ pc = "publish" /\ pc' = "recheck" /\ dir["target"] = NoFile
        /\ dir' = [dir EXCEPT !["target"] = dir["tmp"]]
        /\ UNCHANGED <<strays, data, phase, original, installed, handle, unsaved, live>>
    BY <1>9 DEF Publish, Link, Exists
  <2>2. Held(dir, strays, Lasting)' /\ (Held(dir, strays, Path) => Held(dir, strays, Path)')
    BY <2>1
  <2>3. SwapBacked' /\ ClaimKept'
    BY <2>1 DEF Backed, Holds, Exists, Expected, Swapping
  <2>4. Marked'
    BY <2>1 DEF BackupInv, PhaseOfStep
  <2> QED
    BY <2>1, <2>2, <2>3, <2>4
<1>10. CASE RecheckClaim /\ ~Refuse
  <2>1. /\ pc = "recheck" /\ pc' = "untmp"
        /\ UNCHANGED <<dir, strays, data, phase, original, installed, handle, unsaved, live>>
    BY <1>10 DEF RecheckClaim
  <2>2. SwapBacked' /\ ClaimKept' /\ Held(dir, strays, Lasting)' /\ BackupSpare'
    BY <2>1 DEF Backed, Holds, Exists, Expected, Swapping
  <2> QED
    BY <2>1, <2>2
<1>11. CASE UnlinkTemporary \/ (CheckTarget /\ ~Refuse)
  <2>1. /\ \/ pc = "untmp" /\ pc' = "check"
           \/ pc = "check" /\ pc' = "unclaim" /\ Reads("target", Payload)
        /\ \A n \in Names \ {"tmp"} : dir'[n] = dir[n]
        /\ dir'["tmp"] \in {dir["tmp"], NoFile}
        /\ UNCHANGED <<strays, data, phase, original, installed, handle, unsaved, live>>
    BY <1>11 DEF UnlinkTemporary, CheckTarget, Unlink
  <2>2. Held(dir, strays, Lasting)' /\ (Held(dir, strays, Path) => Held(dir, strays, Path)')
    BY <2>1
  <2>3. SwapBacked'
    BY <2>1 DEF Backed, Holds, Exists
  <2>4. ClaimKept'
    BY <2>1, DirectoryAssumption DEF Holds, Exists, Expected, Swapping
  <2>5. BackupSpare'
    <3>1. CASE phase # "install" /\ pc' = "unclaim"
      <4>1. Holds("target", data[dir["mutbak"]])
        BY <2>1, <3>1 DEF Reads, Single, Holds, Payload, Swapping, TypeOK
      <4>2. Held(dir, strays, Path)
        BY <4>1 DEF Holds, Exists
      <4> QED
        BY <2>2, <4>2
    <3>2. CASE phase = "install" \/ pc' # "unclaim"
      BY <2>1, <2>2, <3>2
    <3> QED
      BY <3>1, <3>2
  <2> QED
    BY <2>1, <2>2, <2>3, <2>4, <2>5
<1>12. CASE UnlinkClaim
  <2>1. /\ pc = "unclaim" /\ dir' = [dir EXCEPT !["claim"] = NoFile]
        /\ pc' = (IF phase = "install" THEN "seen" ELSE "unbackup")
        /\ UNCHANGED <<strays, data, phase, original, installed, handle, unsaved, live>>
    BY <1>12 DEF UnlinkClaim, Unlink
  <2>2. Holds("claim", Expected) /\ ~Unpublished
    BY <2>1
  <2>3. SwapBacked'
    BY <2>1 DEF Backed, Holds, Exists
  <2>4. CASE phase = "install"
    <3>1. Backed /\ Expected = original
      BY <2>1, <2>4 DEF Expected, Swapping
    <3>2. Held(dir, strays, Lasting)'
      BY <2>1, <2>2, <3>1 DEF Backed, Holds, Exists
    <3> QED
      BY <2>1, <2>2, <2>3, <2>4, <3>2
  <2>5. CASE phase # "install"
    <3>1. Mutant \notin live /\ Expected = Mutant
      BY <2>5, TrialAssumption DEF Expected, Swapping, TypeOK
    <3>2. Held(dir, strays, Path)'
      BY <2>1, <2>2, <2>5, <3>1 DEF Holds, Exists
    <3> QED
      BY <2>1, <2>3, <2>5, <3>2
  <2> QED
    BY <2>4, <2>5
<1>13. CASE UnlinkBackup \/ Discard \/ RerunClean
  <2>1. PICK d \in Dirs : /\ \A n \in Names \ {"mutbak"} : d[n] = dir[n]
                          /\ d["mutbak"] \in {dir["mutbak"], NoFile}
                          /\ d["mutbak"] # dir["mutbak"] => Held(dir, strays, Path)
                          /\ \/ dir' = d /\ strays' = strays
                             \/ dir' = Forget(d, Private) /\ strays' = Stray(d, strays, Private)
    <3>1. dir \in Dirs /\ Unlink(dir, "mutbak") \in Dirs
      BY EntryType DEF Dirs
    <3>2. CASE UnlinkBackup
      <4>1. Held(dir, strays, Path)
        BY <3>2 DEF UnlinkBackup, BackupInv, PhaseOfStep
      <4> QED
        BY <3>1, <3>2, <4>1 DEF UnlinkBackup, End, Unlink
    <3>3. CASE Discard
      <4>1. Held(dir, strays, Path)
        BY <3>3 DEF Discard, BackupInv, PhaseOfStep
      <4> QED
        BY <3>1, <3>3, <4>1 DEF Discard, End, Unlink
    <3>4. CASE RerunClean
      BY <3>1, <3>4 DEF RerunClean, End
    <3> QED
      BY <1>13, <3>2, <3>3, <3>4
  <2>2. Held(d, strays, Lasting)
    BY <2>1
  <2>3. Held(dir', strays', Lasting)
    <3>1. /\ strays \subseteq strays'
          /\ \A n \in Lasting : dir'[n] = d[n] \/ d[n] = NoFile \/ d[n] \in strays'
      BY <2>1 DEF Forget, Stray, Private, Names, Dirs
    <3> QED
      BY <2>2, <3>1
  <2>4. /\ pc' \in {"readback", "done"}
        /\ UNCHANGED <<data, phase, original, installed, handle, unsaved, live>>
        /\ pc' = "readback" => phase # "install"
    BY <1>13 DEF UnlinkBackup, Discard, RerunClean, End
  <2> QED
    BY <2>3, <2>4
<1>14. CASE CleanupClaim
  <2>1. /\ pc = "xrelink" /\ pc' = "xuntmp"
        /\ \/ dir' = dir
           \/ /\ dir["target"] = NoFile
              /\ dir' = [dir EXCEPT !["target"] = dir["claim"], !["claim"] = NoFile]
        /\ UNCHANGED <<strays, data, phase, original, installed, handle, unsaved, live>>
    BY <1>14 DEF CleanupClaim, Rename, Exists
  <2>2. Held(dir, strays, Lasting)' /\ (Held(dir, strays, Path) => Held(dir, strays, Path)')
    BY <2>1
  <2>3. SwapBacked'
    BY <2>1 DEF Backed, Holds, Exists
  <2> QED
    BY <2>1, <2>2, <2>3
<1>15. CASE Relink
  <2> DEFINE d == IF Exists(dir, "target") THEN dir ELSE Rename(dir, "claim", "target")
  <2>1. Near(d)
    BY <1>15, EntryType DEF Near, Rename, Private, Dirs
  <2>2. Held(d, strays, Lasting) /\ (Unpublished => Held(d, strays, Path))
    BY DEF Rename, Exists
  <2>3. Raise("exc", d, strays)
    BY <1>15 DEF Relink
  <2> HIDE DEF d
  <2> QED
    BY <1>15, <2>1, <2>2, <2>3, RaiseLost DEF Relink
<1>16. CASE CleanupTemporary
  <2>1. Near(Unlink(dir, "tmp")) /\ Raise("exc", Unlink(dir, "tmp"), strays)
    BY <1>16, EntryType DEF CleanupTemporary, Raise, Near, Unlink, Private
  <2>2. /\ Held(Unlink(dir, "tmp"), strays, Lasting)
        /\ Unpublished => Held(Unlink(dir, "tmp"), strays, Path)
    BY DEF Unlink
  <2> QED
    BY <1>16, <2>1, <2>2, RaiseLost DEF CleanupTemporary
<1>17. CASE (SeeMutant \/ RunTest \/ ReadBack) /\ ~Refuse
  <2>1. /\ UNCHANGED <<dir, strays, data, original, installed, handle, unsaved, live>>
        /\ \/ pc = "seen" /\ pc' = "test" /\ phase' = phase
           \/ pc = "test" /\ pc' = "open" /\ phase' = "restore"
           \/ pc = "readback" /\ pc' = "rerun" /\ phase' = phase
    BY <1>17 DEF SeeMutant, RunTest, ReadBack
  <2>2. Held(dir, strays, Lasting)' /\ (Held(dir, strays, Path) => Held(dir, strays, Path)')
    BY <2>1
  <2>3. SwapBacked'
    BY <2>1 DEF Backed, Holds, Exists
  <2> QED
    BY <2>1, <2>2, <2>3 DEF BackupInv, PhaseOfStep
<1>18. CASE TakeBack \/ TakeBack2
  BY <1>18 DEF TakeBack, TakeBack2
<1> QED
  BY <1>0, <1>1, <1>2, <1>3, <1>4, <1>5, <1>6, <1>7, <1>8, <1>9, <1>10, <1>11, <1>12, <1>13,
     <1>14, <1>15, <1>16, <1>17, <1>18 DEF Script, OwnSteps, Swap

\* The user loses only what the user overwrites or deletes
LEMMA UserLost ==
    ASSUME TypeOK, BackupInv, LostInv, Handles = "never", UserStep
    PROVE  LostInv'
<1> USE NamesType, TrialAssumption, DirectoryAssumption
<1> dir \in [Names -> Inodes \cup {NoFile}] /\ data \in [Inodes -> Contents]
    /\ strays \in SUBSET Inodes /\ live \subseteq {Orig} \cup Edits /\ unsaved \subseteq Edits
  BY DEF TypeOK
<1> USE DEF User, trialVars
<1>0. handle = NoFile /\ pc \notin {"takeback", "takeback2"} /\ UnsavedNowhere
  BY DEF LostInv
<1>1. ASSUME UNCHANGED <<strays, pc, phase, original, installed, handle>>, UnsavedNowhere',
             \A n \in Names \ {"target"} : dir'[n] = dir[n],
             \A n \in Names \ {"target"} : dir[n] # NoFile /\ dir[n] # dir["target"]
                                              => data'[dir[n]] = data[dir[n]],
             dir["mutbak"] # NoFile => data'[dir["mutbak"]] = data[dir["mutbak"]],
             dir'["target"] # NoFile => \/ dir'["target"] = dir["target"]
                                        \/ \A n \in Names : dir'["target"] # dir[n],
             \A ns \in SUBSET Names : "target" \in ns /\ Held(dir, strays, ns)
                                        => Held(dir, strays, ns)'
      PROVE  LostInv'
  <2>1. Path \in SUBSET Names /\ Lasting \in SUBSET Names /\ "target" \in Path /\ "target" \in Lasting
    BY DEF Path, Lasting
  <2>2. Held(dir, strays, Lasting)' /\ (Held(dir, strays, Path) => Held(dir, strays, Path)')
    BY <1>1, <2>1 DEF LostInv
  <2>3. SwapBacked'
    BY <1>1 DEF LostInv, SwapBacked, Backed, Holds, Exists
  <2>4. ClaimKept'
    BY <1>1 DEF LostInv, ClaimKept, Holds, Exists, Expected, Swapping
  <2>5. BackupSpare' /\ Marked'
    BY <1>1, <2>2 DEF LostInv, BackupSpare, Unpublished, Marked
  <2> QED
    BY <1>0, <1>1, <2>2, <2>3, <2>4, <2>5 DEF LostInv
<1>2. ASSUME NEW e \in Edits, SaveByRename(e) PROVE LostInv'
  <2>1. /\ Free # {} /\ dir' = [dir EXCEPT !["target"] = New] /\ e \in unsaved
        /\ data' = [data EXCEPT ![New] = e] /\ unsaved' = unsaved \ {e}
        /\ live' = (live \ TargetContent) \cup {e}
        /\ UNCHANGED <<strays, pc, phase, original, installed, handle>>
    BY <1>2 DEF SaveByRename, Create1, Create
  <2>2. /\ New \in Inodes /\ New # NoFile /\ New \notin strays /\ \A n \in Names : dir[n] # New
    BY <2>1, NewApart, NewInodeFree DEF Linked
  <2>3. UnsavedNowhere'
    BY <1>0, <2>1, <2>2 DEF UnsavedNowhere
  <2>4. ASSUME NEW ns \in SUBSET Names, "target" \in ns, Held(dir, strays, ns)
        PROVE  Held(dir, strays, ns)'
    BY <2>1, <2>2, <2>4 DEF Held, TargetContent, Exists
  <2> QED
    BY <1>1, <2>1, <2>2, <2>3, <2>4
<1>3. ASSUME NEW e \in Edits, SaveInPlace(e) PROVE LostInv'
  <2>1. /\ dir["target"] # NoFile /\ e \in unsaved /\ dir["target"] \in Inodes
        /\ data' = [data EXCEPT ![dir["target"]] = e] /\ unsaved' = unsaved \ {e}
        /\ live' = (live \ {data[dir["target"]]}) \cup {e}
        /\ UNCHANGED <<dir, strays, pc, phase, original, installed, handle>>
    BY <1>3 DEF SaveInPlace, TargetContent, Exists
  <2>2. dir["mutbak"] # NoFile => dir["mutbak"] # dir["target"]
    BY DEF BackupInv, BackupApart, Reachable, Exists
  <2>3. UnsavedNowhere'
    BY <1>0, <2>1 DEF UnsavedNowhere
  <2>4. ASSUME NEW ns \in SUBSET Names, "target" \in ns, Held(dir, strays, ns)
        PROVE  Held(dir, strays, ns)'
    BY <2>1, <2>4 DEF Held
  <2> QED
    BY <1>1, <2>1, <2>2, <2>3, <2>4
<1>4. CASE Delete
  <2>1. /\ dir' = [dir EXCEPT !["target"] = NoFile]
        /\ live' = live \ {data[dir["target"]]}
        /\ UNCHANGED <<strays, data, unsaved, pc, phase, original, installed, handle>>
    BY <1>4 DEF Delete, Changed, Unlink, TargetContent, Exists
  <2>2. UnsavedNowhere'
    BY <1>0, <2>1 DEF UnsavedNowhere
  <2>3. ASSUME NEW ns \in SUBSET Names, "target" \in ns, Held(dir, strays, ns)
        PROVE  Held(dir, strays, ns)'
    BY <2>1, <2>3 DEF Held
  <2> QED
    BY <1>1, <2>1, <2>2, <2>3
<1>5. CASE OpenHandle \/ \E e \in Edits : WriteHandle(e)
  BY <1>0, <1>5 DEF OpenHandle, WriteHandle
<1> QED
  BY <1>2, <1>3, <1>4, <1>5 DEF UserStep

\* Whatever the trial, its errors, signals and crashes do, what the user saved
\* and did not overwrite or delete stays readable under some name.  An editor
\* that writes through a descriptor it opened before is left out: the claim
\* may be dropped while it still writes to it.
THEOREM NothingIsLost ==
    ASSUME Handles = "never"
    PROVE  Spec => []NothingLost
<1> USE NamesType
<1>1. Init => LostInv
  <2> SUFFICES ASSUME Init PROVE LostInv
    OBVIOUS
  <2>1. First \in Inodes /\ First # NoFile
    BY DirectoryAssumption DEF First
  <2>2. dir["target"] = First /\ data[First] = Orig /\ live = {Orig} /\ "target" \in Lasting
    BY <2>1 DEF Init, Lasting, Path
  <2>3. Held(dir, strays, Lasting)
    BY <2>1, <2>2 DEF Held
  <2>4. UnsavedNowhere
    BY <2>1, TrialAssumption DEF Init, UnsavedNowhere
  <2> QED
    BY <2>3, <2>4 DEF Init, LostInv, SwapBacked, ClaimKept, BackupSpare, Unpublished, Marked,
       SwapSteps
<1>2. TypeOK /\ BackupInv /\ LostInv /\ [Next]_vars => LostInv'
  <2> SUFFICES ASSUME TypeOK, BackupInv, LostInv, [Next]_vars PROVE LostInv'
    OBVIOUS
  <2>0. After(dir, strays) \in Whole /\ After(dir, strays).d = dir
        /\ After(dir, strays).s = strays
    BY DEF Whole, After
  <2>1. CASE Script
    BY <2>1, ScriptLost
  <2>2. CASE SystemError \/ Terminate \/ Interrupt
    <3>1. PICK k \in {"exc", "base"}, t \in Failed(pc) : Raise(k, t.d, t.s)
      BY <2>2 DEF SystemError, Terminate, Interrupt, Failed
    <3>2. UNCHANGED userVars
      BY <2>2 DEF SystemError, Terminate, Interrupt, Strike
    <3> QED
      BY <3>1, <3>2, TornNear, TornHeld, RaiseLost
  <2>3. CASE Kill \/ CutShort
    <3>1. PICK t \in Failed(pc) :
             dir' = Forget(t.d, Private) /\ strays' = Stray(t.d, t.s, Private)
      <4>1. CASE Kill
        BY <4>1 DEF Kill, Failed
      <4>2. CASE CutShort
        <5>1. /\ dir' = Forget(After(dir, strays).d, Private)
              /\ strays' = Stray(After(dir, strays).d, After(dir, strays).s, Private)
          BY <2>0, <4>2 DEF CutShort, FinallyCut, End
        <5> QED
          BY <2>0, <5>1 DEF Failed
      <4> QED
        BY <2>3, <4>1, <4>2
    <3>2. /\ pc' \in Stopped
          /\ UNCHANGED <<data, phase, original, installed, handle, unsaved, live>>
      BY <2>3 DEF Kill, CutShort, FinallyCut, End, Strike, trialVars, userVars, Stopped
    <3>3. /\ t.d \in Dirs /\ t.s \in SUBSET Inodes /\ Held(t.d, t.s, Lasting)
          /\ Private \in SUBSET Names /\ Lasting \in SUBSET Names
      BY TornType, TornHeld DEF Private, Lasting, Path
    <3>4. Held(dir', strays', Lasting)
      BY <3>1, <3>3, ForgetHeld
    <3>5. Held(dir, strays, Lasting)'
      BY <3>2, <3>4 DEF Held
    <3> QED
      BY <3>2, <3>5 DEF LostInv, UnsavedNowhere, SwapBacked, ClaimKept, BackupSpare, Unpublished,
         Marked, SwapSteps, Stopped
  <2>4. CASE Starts \/ Rest
    <3>1. /\ pc' \in {"read", "open"} \cup Stopped /\ (pc' = "open" => phase' = "cli")
          /\ UNCHANGED <<dir, strays, data, original, handle, unsaved, live>>
      BY <2>4 DEF Starts, StartTrial, StartRestore, Start, Rest, vars, fileVars, userVars,
         trialVars, Stopped
    <3>2. Held(dir, strays, Lasting)'
      BY <3>1 DEF LostInv, Held
    <3> QED
      BY <3>1, <3>2 DEF LostInv, UnsavedNowhere, SwapBacked, ClaimKept, BackupSpare, Unpublished,
         Marked, SwapSteps, Stopped
  <2>5. CASE UserStep
    BY <2>5, UserLost
  <2>6. CASE UNCHANGED vars
    <3>1. UNCHANGED <<dir, strays, data, pc, phase, original, installed, handle, unsaved, live>>
      BY <2>6 DEF vars, fileVars, trialVars, userVars
    <3>2. ASSUME NEW ns PROVE Held(dir, strays, ns)' <=> Held(dir, strays, ns)
      BY <3>1 DEF Held
    <3>4. Held(dir, strays, Lasting)' /\ BackupSpare'
      BY <3>1, <3>2 DEF LostInv, BackupSpare, Unpublished
    <3>3. SwapBacked' /\ ClaimKept'
      BY <3>1 DEF LostInv, SwapBacked, ClaimKept, Backed, Holds, Exists, Expected, Swapping
    <3> QED
      BY <3>1, <3>3, <3>4 DEF LostInv, UnsavedNowhere, Marked
  <2> QED
    BY <2>1, <2>2, <2>3, <2>4, <2>5, <2>6 DEF Next, Strikes
<1>3. TypeOK /\ LostInv => NothingLost
  <2> SUFFICES ASSUME TypeOK, LostInv, NEW c \in live
               PROVE  \E i \in Linked(dir, strays) \ {NoFile} : data[i] = c
    BY DEF NothingLost
  <2>1. Held(dir, strays, Lasting) /\ DOMAIN dir = Names /\ Lasting \subseteq Names
        /\ NoFile \notin strays
    BY DirectoryAssumption DEF LostInv, TypeOK, Lasting, Path
  <2> QED
    BY <2>1 DEF Held, Linked
<1> QED
  BY <1>1, <1>2, <1>3, TypeCorrect, BackupInvariant, PTL DEF Spec

-----------------------------------------------------------------------------
(* A refusal leaves the target alone, in the first trial in its directory *)

\* No refusal, and no clean rerun, comes while the mutant is about
RefusedClean ==
    /\ runs = 1 /\ phase # "cli"
    /\ result # "none" => pc \in Stopped
    /\ pc \in {"read", "readback", "rerun"} => NoMutant
    /\ result = "refused" => NoMutant \/ cut = "finally"

\* The target exists unless the user deleted it or it was lost with its claim;
\* while it does not, the claim is at hand
Present == Exists(dir, "target") \/ deleted \/ cut # "none"

PresentInv ==
    /\ pc \in {"claim", "hash", "mark", "publish"} => Exists(dir, "tmp")
    /\ pc \in {"recheck", "takeback", "untmp", "check", "unclaim", "seen", "test", "unbackup",
               "readback", "rerun"} => Present
    /\ result = "refused" => Present
    /\ pc = "takeback2" => Exists(dir, "private")
    /\ phase = "install" =>
         /\ pc \in BackupSteps \cup {"read", "bkdone", "verify", "open", "claim", "xuntmp"}
              => Present
         /\ pc = "discard" /\ err # "base" => Present
         /\ pc \in {"hash", "mark", "publish", "recheck", "takeback", "takeback2", "relink"}
              => Exists(dir, "claim")
         /\ pc = "xrelink" /\ ~Present => Exists(dir, "claim")

\* The user saves no mutant, and does not forget a deletion
LEMMA UserPresent ==
    ASSUME TypeOK, UserStep
    PROVE  /\ UNCHANGED <<pc, phase, trialVars, result, runs, cut, strays>>
           /\ NoMutant => NoMutant'
           /\ Present => Present'
           /\ \A n \in Names \ {"target"} : dir'[n] = dir[n]
<1> USE NamesType, TrialAssumption, DirectoryAssumption
<1> dir \in [Names -> Inodes \cup {NoFile}] /\ data \in [Inodes -> Contents]
    /\ handle \in Inodes \cup {NoFile}
  BY DEF TypeOK
<1> USE DEF User, boundVars
<1>1. ASSUME NEW e \in Edits, SaveByRename(e) PROVE Free # {} /\ dir' = [dir EXCEPT !["target"] = New]
          /\ data' = [data EXCEPT ![New] = e] /\ UNCHANGED <<strays, deleted>>
  BY <1>1 DEF SaveByRename, Create1, Create
<1>2. ASSUME NEW e \in Edits, SaveInPlace(e) \/ WriteHandle(e)
      PROVE  /\ UNCHANGED <<dir, strays, deleted>>
             /\ \E i \in Inodes : data' = [data EXCEPT ![i] = e]
  BY <1>2 DEF SaveInPlace, WriteHandle, Exists
<1>3. CASE \E e \in Edits : SaveByRename(e)
  <2>1. PICK e \in Edits : SaveByRename(e)
    BY <1>3
  <2>2. New \in Inodes /\ New # NoFile /\ \A n \in Names : dir[n] # New
    BY <1>1, <2>1, NewApart
  <2> QED
    BY <1>1, <2>1, <2>2 DEF SaveByRename, NoMutant, Present, Holds, Exists
<1>4. CASE \E e \in Edits : SaveInPlace(e) \/ WriteHandle(e)
  <2>1. PICK e \in Edits : SaveInPlace(e) \/ WriteHandle(e)
    BY <1>4
  <2> QED
    BY <1>2, <2>1 DEF SaveInPlace, WriteHandle, NoMutant, Present, Holds, Exists
<1>5. CASE Delete
  BY <1>5 DEF Delete, Changed, Unlink, NoMutant, Present, Holds, Exists
<1>6. CASE OpenHandle
  BY <1>6 DEF OpenHandle, fileVars, NoMutant, Present, Holds, Exists
<1> QED
  BY <1>3, <1>4, <1>5, <1>6 DEF UserStep

\* An exception refuses only where no mutant has been published
LEMMA RaiseClean ==
    ASSUME TypeOK, BackupInv, RefusedClean, NEW k \in {"exc", "base"}, NEW d,
           NEW s \in SUBSET Inodes, Near(d), Raise(k, d, s), UNCHANGED runs, pc \notin Stopped
    PROVE  RefusedClean'
<1>1. /\ pc' \in {"done", "open", "discard", "xrelink", "xuntmp"}
      /\ phase' \in {phase, "restore"} /\ UNCHANGED data
      /\ pc' # "done" => result' = result
  BY DEF Raise, End, FinishTrial, LeaveSwap, LeaveBackup, trialVars
<1>2. /\ dir'["target"] = d["target"]
      /\ \A n \in Private : dir'[n] \in {d[n], NoFile}
  BY DEF Near, Dirs, Raise, End, FinishTrial, LeaveSwap, LeaveBackup, Forget, Names, Private,
         BackupSteps, SwapSteps
<1>3. NoMutant => NoMutant'
  BY <1>1, <1>2 DEF NoMutant, Holds, Exists, Near, Private
<1>4. result # "refused"
  BY DEF RefusedClean
<1>5. result' = "refused" =>
        pc \in {"read", "bkdone", "readback", "rerun", "discard"} \cup BackupSteps
  BY <1>4 DEF Raise, End, FinishTrial, LeaveSwap, LeaveBackup, Outcome, SwapSteps
<1>6. pc \in {"read", "bkdone", "readback", "rerun", "discard"} \cup BackupSteps => NoMutant
  BY DEF RefusedClean, BackupInv, CleanBefore, PhaseOfStep, BackupSteps, Stopped
<1> QED
  BY <1>1, <1>3, <1>4, <1>5, <1>6 DEF RefusedClean, Stopped

LEMMA ScriptClean ==
    ASSUME TypeOK, BackupInv, RefusedClean, Script
    PROVE  RefusedClean'
<1> USE NamesType
<1> dir \in [Names -> Inodes \cup {NoFile}] /\ data \in [Inodes -> Contents]
  BY DEF TypeOK
<1> USE DEF At, Goto, Changed, fileVars, trialVars
<1>0. Near(dir) /\ strays \in SUBSET Inodes
  BY DEF Near, TypeOK, Dirs
<1>1. CASE Refuse
  <2>1. pc \notin Stopped /\ UNCHANGED runs
    BY <1>1 DEF Script, OwnSteps, Swap, ReadTarget, BackupCopy, BackupLink, BackupUnlink,
     BackupReturn, VerifyBackup, OpenTemporary, ClaimTarget, HashClaim, MarkInstalled,
     Publish, RecheckClaim, TakeBack, TakeBack2, Relink, UnlinkTemporary, CheckTarget,
     UnlinkClaim, UnlinkBackup, CleanupClaim, CleanupTemporary, SeeMutant, RunTest,
     Discard, ReadBack, RerunClean, Stopped
  <2> QED
    BY <1>0, <1>1, <2>1, RaiseClean DEF Refuse
<1>2. CASE Relink
  <2>1. Near(IF Exists(dir, "target") THEN dir ELSE Rename(dir, "claim", "target"))
    BY <1>2, EntryType DEF Near, Rename, Private, Dirs, Relink
  <2> QED
    BY <1>0, <1>2, <2>1, RaiseClean DEF Relink, Stopped
<1>3. CASE CleanupTemporary
  <2>1. Near(Unlink(dir, "tmp")) /\ Raise("exc", Unlink(dir, "tmp"), strays)
    BY <1>3, EntryType DEF CleanupTemporary, Raise, Near, Unlink, Private
  <2> QED
    BY <1>0, <1>3, <2>1, RaiseClean DEF CleanupTemporary, Stopped
<1>4. CASE UnlinkBackup
  <2>1. NoMutant
    BY <1>4 DEF UnlinkBackup, BackupInv, RestoreClean, PhaseOfStep, PrivateNames, NoMutant, Holds,
       ClaimSteps
  <2>2. NoMutant' /\ runs' = runs /\ phase' = phase
    BY <1>4, <2>1 DEF UnlinkBackup, End, Unlink, Forget, Private, Names, NoMutant, Holds, Exists
  <2>3. pc' \in {"readback", "done"} /\ (pc' = "readback" => result' = result)
    BY <1>4 DEF UnlinkBackup, End
  <2> QED
    BY <1>4, <2>2, <2>3 DEF RefusedClean, Stopped, UnlinkBackup
<1>5. CASE Discard \/ RerunClean
  <2>1. PICK d \in {dir, Unlink(dir, "mutbak")} : End(d, strays, result')
    BY <1>5 DEF Discard, RerunClean, End
  <2>2. NoMutant
    BY <1>5 DEF Discard, RerunClean, RefusedClean, BackupInv, CleanBefore, PhaseOfStep, Stopped
  <2>3. NoMutant'
    BY <1>5, <2>1, <2>2 DEF Discard, RerunClean, End, Unlink, Forget, Private, Names, NoMutant,
       Holds, Exists
  <2> QED
    BY <1>5, <2>1, <2>3 DEF Discard, RerunClean, RefusedClean, End, Stopped
<1>6. CASE ReadBack /\ ~Refuse
  BY <1>6 DEF ReadBack, RefusedClean, Stopped, NoMutant, Holds, Exists
<1>7. CASE ~Refuse /\ ~Relink /\ ~CleanupTemporary /\ ~UnlinkBackup /\ ~Discard /\ ~RerunClean
           /\ ~ReadBack
  <2>1. /\ pc' \notin {"read", "readback", "rerun"} /\ pc \notin Stopped /\ UNCHANGED <<runs, result>>
        /\ phase' \in {phase, "install", "restore"}
    BY <1>7 DEF Script, OwnSteps, Swap, ReadTarget, BackupCopy, BackupLink, BackupUnlink,
     BackupReturn, VerifyBackup, OpenTemporary, ClaimTarget, HashClaim, MarkInstalled,
     Publish, RecheckClaim, TakeBack, TakeBack2, UnlinkTemporary, CheckTarget,
     UnlinkClaim, CleanupClaim, SeeMutant, RunTest, Stopped
  <2> QED
    BY <2>1 DEF RefusedClean
<1> QED
  BY <1>1, <1>2, <1>3, <1>4, <1>5, <1>6, <1>7 DEF Script, OwnSteps, Swap

LEMMA RefusedCleanly ==
    ASSUME MaxRuns = 1
    PROVE  Spec => []RefusedClean
<1> USE NamesType
<1>1. Init => RefusedClean
  BY TrialAssumption, DirectoryAssumption
  DEF Init, RefusedClean, NoMutant, Holds, Exists, First, Names
<1>2. TypeOK /\ BackupInv /\ RefusedClean /\ [Next]_vars => RefusedClean'
  <2> SUFFICES ASSUME TypeOK, BackupInv, RefusedClean, [Next]_vars PROVE RefusedClean'
    OBVIOUS
  <2>1. CASE Script
    BY <2>1, ScriptClean
  <2>2. CASE SystemError \/ Terminate \/ Interrupt
    <3>2. PICK k \in {"exc", "base"}, t \in Failed(pc) : Raise(k, t.d, t.s)
      BY <2>2 DEF SystemError, Terminate, Interrupt, Failed
    <3>3. UNCHANGED runs /\ pc \notin Stopped
      BY <2>2 DEF SystemError, Terminate, Interrupt, Strike
    <3> QED
      BY <3>2, <3>3, TornNear, RaiseClean
  <2>3. CASE Kill \/ CutShort
    <3>1. /\ result' = "killed" \/ cut' = "finally"
          /\ pc' \in Stopped /\ UNCHANGED <<runs, phase>>
      BY <2>3 DEF Kill, CutShort, FinallyCut, End, Strike, Outcome, Stopped
    <3> QED
      BY <3>1 DEF RefusedClean, Stopped
  <2>4. CASE Starts \/ Rest
    BY <2>4 DEF Starts, StartTrial, StartRestore, Start, Rest, vars, boundVars, fileVars,
       RefusedClean, NoMutant, Holds, Exists
  <2>5. CASE UserStep
    BY <2>5, UserPresent DEF RefusedClean
  <2>6. CASE UNCHANGED vars
    BY <2>6 DEF vars, fileVars, boundVars, RefusedClean, NoMutant, Holds, Exists
  <2> QED
    BY <2>1, <2>2, <2>3, <2>4, <2>5, <2>6 DEF Next, Strikes
<1> QED
  BY <1>1, <1>2, TypeCorrect, BackupInvariant, PTL DEF Spec

\* A trial that is refused leaves no mutant in the target, whatever strikes it
\* and however often, unless a signal cuts its finally clause short.
THEOREM RefusedHasNoMutant ==
    ASSUME MaxRuns = 1
    PROVE  Spec => [](result = "refused" /\ Holds("target", Mutant) => cut = "finally")
<1>1. RefusedClean => (result = "refused" /\ Holds("target", Mutant) => cut = "finally")
  BY DEF RefusedClean, NoMutant
<1>2. Spec => []RefusedClean
  BY RefusedCleanly
<1> QED
  BY <1>1, <1>2, PTL

\* A swap that fails puts the claim back, unless that is cut short
LEMMA RaisePresent ==
    ASSUME TypeOK, BackupInv, RefusedClean, PresentInv, NEW k \in {"exc", "base"}, NEW d \in Dirs,
           NEW s, Raise(k, d, s), UNCHANGED <<deleted, runs>>, pc \notin Stopped,
           k = "exc" /\ Present /\ pc \notin SwapSteps \cup {"xrelink"}
             => d["target"] # NoFile \/ deleted \/ cut' # "none",
           k = "exc" /\ phase = "install" /\ pc \in SwapSteps \cup {"xrelink"}
             => \/ d["target"] # NoFile \/ deleted \/ cut' # "none"
                \/ pc # "xrelink" /\ d["claim"] # NoFile
    PROVE  PresentInv'
<1>1. /\ pc' \in {"done", "open", "discard", "xrelink", "xuntmp"}
      /\ pc' = "open" => phase' = "restore"
      /\ pc' # "open" => phase' = phase
      /\ pc' = "discard" => phase' = "install"
      /\ pc' \in {"xrelink", "xuntmp"} => pc \in SwapSteps \cup {"xrelink"} /\ k = "exc"
      /\ pc' = "xuntmp" => pc = "xrelink"
      /\ pc' # "done" => result' = result
  BY DEF Raise, End, FinishTrial, LeaveSwap, LeaveBackup, BackupInv, PhaseOfStep,
         BackupSteps, SwapSteps, trialVars
<1>2. /\ dir'["target"] = d["target"]
      /\ pc' \in {"xrelink", "xuntmp"} => dir'["claim"] = d["claim"]
  BY DEF Dirs, Raise, End, FinishTrial, LeaveSwap, LeaveBackup, Forget, Names, Private,
         BackupSteps, SwapSteps
<1>3. k = "exc" /\ Present /\ pc \notin SwapSteps \cup {"xrelink"} => Present'
  BY <1>2 DEF Present, Exists
<1>4. result # "refused"
  BY DEF RefusedClean
<1>5. result' = "refused" => Present'
  <2>1. result' = "refused" =>
           /\ k = "exc"
           /\ \/ pc \in {"read", "bkdone", "readback", "rerun"} \cup BackupSteps
              \/ pc = "discard" /\ err # "base"
    BY <1>4 DEF Raise, End, FinishTrial, LeaveSwap, LeaveBackup, Outcome, SwapSteps, BackupSteps
  <2> QED
    BY <1>3, <2>1 DEF PresentInv, BackupInv, PhaseOfStep, BackupSteps, SwapSteps
<1>6. pc' = "discard" /\ err' # "base" => Present'
  <2>1. SUFFICES ASSUME pc' = "discard", err' # "base" PROVE Present'
    OBVIOUS
  <2>2. phase = "install" /\ pc \in {"verify", "seen", "test", "xuntmp"} /\ k = "exc"
    BY <2>1 DEF Raise, End, FinishTrial, LeaveSwap, LeaveBackup, BackupSteps, SwapSteps,
       BackupInv, PhaseOfStep
  <2> QED
    BY <1>3, <2>2 DEF PresentInv, SwapSteps
<1>7. phase' = "install" /\ pc' = "xuntmp" => Present'
  BY <1>1, <1>2 DEF Present, Exists
<1>8. phase' = "install" /\ pc' = "xrelink" /\ ~Present' => Exists(dir', "claim")
  BY <1>1, <1>2 DEF Present, Exists
<1> QED
  BY <1>1, <1>5, <1>6, <1>7, <1>8 DEF PresentInv, BackupSteps, Exists

LEMMA ScriptPresent ==
    ASSUME TypeOK, BackupInv, RefusedClean, PresentInv, Script
    PROVE  PresentInv'
<1> USE NamesType
<1> dir \in [Names -> Inodes \cup {NoFile}] /\ dir \in Dirs
  BY DEF TypeOK, Dirs
<1> USE DEF At, Goto, Changed, fileVars, trialVars, userVars
<1>0. CASE Refuse /\ \/ ReadTarget \/ BackupCopy \/ BackupLink \/ VerifyBackup \/ OpenTemporary
                     \/ ClaimTarget \/ HashClaim \/ Publish \/ RecheckClaim \/ TakeBack
                     \/ CheckTarget \/ SeeMutant \/ ReadBack
  <2>1. /\ pc \notin Stopped \cup {"xrelink", "relink", "takeback2", "untmp", "mark", "unclaim",
                                   "unbackup"}
        /\ UNCHANGED <<deleted, runs, cut>>
    BY <1>0 DEF Refuse, Raise, ReadTarget, BackupCopy, BackupLink, VerifyBackup, OpenTemporary,
       ClaimTarget, HashClaim, Publish, RecheckClaim, TakeBack, CheckTarget, SeeMutant, ReadBack,
       Stopped, SwapSteps, BackupSteps
  <2>2. phase = "install" /\ pc \in SwapSteps => Present \/ Exists(dir, "claim")
    BY <2>1 DEF PresentInv, SwapSteps
  <2>3. Raise("exc", dir, strays) /\ pc \notin Stopped
    BY <1>0, <2>1 DEF Refuse
  <2>4. phase = "install" /\ pc \in SwapSteps \cup {"xrelink"}
          => \/ dir["target"] # NoFile \/ deleted \/ cut' # "none"
             \/ pc # "xrelink" /\ dir["claim"] # NoFile
    BY <2>1, <2>2 DEF Present, Exists
  <2>5. Present => dir["target"] # NoFile \/ deleted \/ cut' # "none"
    BY <2>1 DEF Present, Exists
  <2> QED
    BY <2>1, <2>3, <2>4, <2>5, RaisePresent
<1>a. result # "refused"
  BY DEF RefusedClean, Stopped, Script, OwnSteps, Swap, ReadTarget, BackupCopy, BackupLink, BackupUnlink,
     BackupReturn, VerifyBackup, OpenTemporary, ClaimTarget, HashClaim, MarkInstalled,
     Publish, RecheckClaim, TakeBack, TakeBack2, Relink, UnlinkTemporary, CheckTarget,
     UnlinkClaim, UnlinkBackup, CleanupClaim, CleanupTemporary, SeeMutant, RunTest,
     Discard, ReadBack, RerunClean
<1> USE DEF PresentInv, Present, Exists
<1>1. CASE ReadTarget /\ ~Refuse
  BY <1>1 DEF ReadTarget, BackupSteps
<1>2. CASE (BackupCopy \/ OpenTemporary) /\ ~Refuse
  <2>1. /\ Free # {} /\ dir' = [dir EXCEPT !["tmp"] = New]
        /\ UNCHANGED <<strays, phase, deleted, err, cut, result>>
        /\ \/ pc = "open" /\ pc' = "claim"
           \/ pc = "bkcopy" /\ pc' = "bklink"
    BY <1>2 DEF BackupCopy, OpenTemporary, Create1, Create
  <2>2. New # NoFile /\ \A n \in Names : dir[n] # New
    BY <2>1, NewApart, DirectoryAssumption
  <2> QED
    BY <2>1, <2>2 DEF BackupSteps
<1>3. CASE BackupUnlink \/ BackupReturn \/ ((BackupLink \/ VerifyBackup) /\ ~Refuse)
  BY <1>3 DEF BackupLink, BackupUnlink, BackupReturn, VerifyBackup, Link, Unlink, BackupSteps,
     BackupInv, PhaseOfStep
<1>4. CASE ClaimTarget /\ ~Refuse
  <2>1. /\ pc = "claim" /\ pc' = "hash" /\ dir["target"] # NoFile
        /\ dir' = [dir EXCEPT !["claim"] = dir["target"], !["target"] = NoFile]
        /\ UNCHANGED <<strays, phase, deleted, err, cut, result>>
    BY <1>4 DEF ClaimTarget, Rename
  <2> QED
    BY <1>a, <2>1 DEF BackupSteps
<1>5. CASE MarkInstalled \/ ((HashClaim \/ RecheckClaim \/ CheckTarget \/ SeeMutant \/ ReadBack)
                               /\ ~Refuse)
  <2>1. /\ UNCHANGED <<dir, strays, phase, deleted, err, cut, result>>
        /\ \/ pc = "hash" /\ pc' \in {"mark", "publish"}
           \/ pc = "hash" /\ pc' = "relink"
           \/ pc = "mark" /\ pc' = "publish"
           \/ pc = "recheck" /\ pc' \in {"untmp", "takeback"}
           \/ pc = "check" /\ pc' = "unclaim"
           \/ pc = "seen" /\ pc' = "test"
           \/ pc = "readback" /\ pc' = "rerun"
    BY <1>5 DEF HashClaim, MarkInstalled, RecheckClaim, CheckTarget, SeeMutant, ReadBack
  <2> QED
    BY <1>a, <2>1 DEF BackupSteps, BackupInv, PhaseOfStep
<1>6. CASE (Publish \/ TakeBack) /\ ~Refuse
  <2>1. /\ UNCHANGED <<strays, phase, deleted, err, cut, result>>
        /\ \/ /\ pc = "publish" /\ pc' = "recheck"
              /\ dir' = [dir EXCEPT !["target"] = dir["tmp"]]
           \/ /\ pc = "takeback" /\ pc' = "takeback2" /\ dir["target"] # NoFile
              /\ dir' = [dir EXCEPT !["private"] = dir["target"], !["target"] = NoFile]
    BY <1>6 DEF Publish, TakeBack, Link, Rename
  <2> QED
    BY <1>a, <2>1 DEF BackupSteps
<1>7. CASE TakeBack2
  <2>1. PICK d \in Dirs : /\ pc = "takeback2" /\ UNCHANGED <<phase, deleted, err, cut, result>>
                          /\ dir' = d /\ d["claim"] = dir["claim"]
                          /\ pc' = "relink" \/ (pc' = "xrelink" /\ d["target"] # NoFile)
    BY <1>7, EntryType, ForgetType DEF TakeBack2, Forget, Unlink, Rename, Dirs, Names
  <2> QED
    BY <1>a, <2>1 DEF BackupSteps
<1>8. CASE UnlinkTemporary \/ UnlinkClaim \/ CleanupClaim
  <2>1. /\ UNCHANGED <<strays, phase, deleted, err, cut, result>>
        /\ \/ pc = "untmp" /\ pc' = "check" /\ dir' = [dir EXCEPT !["tmp"] = NoFile]
           \/ /\ pc = "unclaim" /\ pc' \in {"seen", "unbackup"}
              /\ dir' = [dir EXCEPT !["claim"] = NoFile]
           \/ /\ pc = "xrelink" /\ pc' = "xuntmp"
              /\ IF dir["claim"] # NoFile /\ dir["target"] = NoFile
                 THEN dir' = [dir EXCEPT !["target"] = dir["claim"], !["claim"] = NoFile]
                 ELSE dir' = dir
    BY <1>8 DEF UnlinkTemporary, UnlinkClaim, CleanupClaim, Unlink, Rename
  <2> QED
    BY <1>a, <2>1 DEF BackupSteps
<1>9. CASE UnlinkBackup \/ Discard \/ RerunClean
  <2>1. dir'["target"] = dir["target"] /\ UNCHANGED <<phase, deleted, cut>>
    BY <1>9 DEF UnlinkBackup, Discard, RerunClean, End, Unlink, Forget, Private
  <2>2. /\ pc' \in {"readback", "done"}
        /\ pc' = "readback" => phase # "install" /\ pc = "unbackup"
        /\ result' = "refused" => pc = "unbackup" \/ (pc = "discard" /\ err # "base")
    BY <1>9, <1>a DEF UnlinkBackup, Discard, RerunClean, End, Outcome
  <2>3. Present' <=> Present
    BY <2>1
  <2>4. result' = "refused" \/ pc' = "readback" => Present
    BY <2>2 DEF BackupInv, PhaseOfStep
  <2> HIDE DEF Present, Exists
  <2> QED
    BY <2>1, <2>2, <2>3, <2>4 DEF BackupSteps
<1>10. CASE RunTest
  BY <1>10, <1>a DEF RunTest, BackupSteps
<1> HIDE DEF PresentInv, Present, Exists
<1>11. CASE Relink
  <2> DEFINE d == IF Exists(dir, "target") THEN dir ELSE Rename(dir, "claim", "target")
  <2>1. d \in Dirs /\ Raise("exc", d, strays) /\ pc = "relink" /\ UNCHANGED <<deleted, runs, cut>>
    BY <1>11, EntryType DEF Relink
  <2>2. d["target"] # NoFile \/ phase # "install"
    BY <2>1 DEF Rename, PresentInv, Exists
  <2> HIDE DEF d
  <2> QED
    BY <2>1, <2>2, RaisePresent DEF Stopped, SwapSteps
<1>12. CASE CleanupTemporary
  <2>1. Unlink(dir, "tmp") \in Dirs /\ Raise("exc", Unlink(dir, "tmp"), strays)
    BY <1>12, EntryType DEF CleanupTemporary, Raise
  <2>2. Unlink(dir, "tmp")["target"] = dir["target"]
    BY DEF Unlink
  <2> QED
    BY <1>12, <2>1, <2>2, RaisePresent DEF CleanupTemporary, Present, Exists, SwapSteps, Stopped
<1> QED
  BY <1>0, <1>1, <1>2, <1>3, <1>4, <1>5, <1>6, <1>7, <1>8, <1>9, <1>10, <1>11, <1>12 DEF Script, OwnSteps, Swap

\* What the user does leaves the claim alone
LEMMA UserKeepsPresent ==
    ASSUME TypeOK, PresentInv, UserStep
    PROVE  PresentInv'
<1>1. /\ UNCHANGED <<pc, phase, err, result, cut>> /\ (Present => Present')
      /\ \A n \in Names \ {"target"} : dir'[n] = dir[n]
  BY UserPresent DEF trialVars
<1>2. \A n \in Names \ {"target"} : Exists(dir, n) <=> Exists(dir', n)
  BY <1>1 DEF Exists
<1> QED
  BY <1>1, <1>2, NamesType DEF PresentInv, Names

\* A swap that is struck leaves the target, or its claim, or the strike is
\* noted
LEMMA StruckPresent ==
    ASSUME TypeOK, BackupInv, PresentInv, phase = "install", pc \in SwapSteps \cup {"xrelink"},
           NEW t \in Failed(pc), Note(t)
    PROVE  \/ t.d["target"] # NoFile \/ deleted \/ cut' # "none"
           \/ pc # "xrelink" /\ t.d["claim"] # NoFile
<1> USE NamesType, DirectoryAssumption
<1> dir \in [Names -> Inodes \cup {NoFile}]
  BY DEF TypeOK
<1> USE DEF After, Unlink, Link, Rename, Exists
<1>0. cut # "none" => cut' # "none"
  BY DEF Note
<1>1. CASE pc \in {"claim", "xrelink"}
  <2>1. pc = "xrelink" => t.d["target"] # NoFile \/ cut' # "none"
    BY DEF Note
  <2>2. CASE pc = "claim" /\ t \in Whole
    BY <1>0, <2>2 DEF Whole, PresentInv, Present
  <2>3. CASE pc = "claim" /\ t \in TornClaim
    <3>1. t.d["target"] = NoFile /\ t.d["claim"] = dir["claim"]
      BY <2>3 DEF TornClaim
    <3>2. dir["claim"] = NoFile
      BY <2>3 DEF BackupInv, PrivateNames, ClaimSteps
    <3> QED
      BY <2>3, <3>1, <3>2 DEF Note
  <2> QED
    BY <1>1, <2>1, <2>2, <2>3 DEF Failed, Torn, When
<1>2. CASE pc = "relink"
  <2>1. t.d["target"] # NoFile \/ t.d["claim"] # NoFile \/ cut' # "none"
    BY <1>2 DEF Note
  <2> QED
    BY <1>2, <2>1
<1>3. CASE pc \in {"hash", "mark", "publish", "recheck", "takeback", "takeback2"}
  <2>1. dir["claim"] # NoFile
    BY <1>3 DEF PresentInv
  <2>2. t \in Whole \cup TornClaim \cup TornTakeBack2 \cup PutBack
    BY <1>3 DEF Failed, Torn, When
  <2>3. t.d["claim"] = dir["claim"]
    BY <2>2 DEF Whole, TornClaim, TornTakeBack2, PutBack
  <2> QED
    BY <1>3, <2>1, <2>3
<1>4. CASE pc \in {"open", "untmp", "check", "unclaim", "unbackup"}
  <2>1. Present /\ pc # "unbackup"
    BY <1>4 DEF PresentInv, BackupInv, PhaseOfStep
  <2>2. t \in Whole \cup TornUnlink("tmp") \cup TornUnlink("claim")
    BY <1>4, <2>1 DEF Failed, Torn, When
  <2>3. t.d["target"] = dir["target"]
    BY <2>2 DEF Whole, TornUnlink
  <2> QED
    BY <1>0, <2>1, <2>3 DEF Present
<1> QED
  BY <1>1, <1>2, <1>3, <1>4 DEF SwapSteps

\* A trial that is refused leaves the target as the user left it, whatever
\* errors and signals strike it and however often, but for the two calls that
\* the property names.
THEOREM RefusedIsUntouched ==
    ASSUME MaxRuns = 1
    PROVE  Spec => []RefusedUntouched
<1> USE NamesType
<1> DEFINE Inv == RefusedClean /\ PresentInv
<1>1. Init => Inv
  BY TrialAssumption, DirectoryAssumption
  DEF Init, RefusedClean, NoMutant, Holds, Exists, First, Names, PresentInv, Present, BackupSteps
<1>2. TypeOK /\ BackupInv /\ Inv /\ RefusedClean' /\ [Next]_vars => Inv'
  <2> SUFFICES ASSUME TypeOK, BackupInv, RefusedClean, PresentInv, [Next]_vars
               PROVE  PresentInv'
    OBVIOUS
  <2>2. CASE Script
    BY <2>2, ScriptPresent
  <2>3. CASE SystemError \/ Terminate
    <3>1. PICK t \in Failed(pc) : Raise("exc", t.d, t.s) /\ Note(t)
      BY <2>3 DEF SystemError, Terminate
    <3>2. pc \notin Stopped /\ UNCHANGED <<deleted, runs>> /\ t.d \in Dirs
      BY <2>3, TornType DEF SystemError, Terminate, Strike, userVars
    <3>3. Present /\ pc \notin SwapSteps \cup {"xrelink"}
             => t.d["target"] # NoFile \/ deleted \/ cut' # "none"
      <4>1. SUFFICES ASSUME Present, pc \notin SwapSteps \cup {"xrelink"}
                     PROVE  t.d["target"] # NoFile \/ deleted \/ cut' # "none"
        OBVIOUS
      <4>2. t \in Whole \cup TornUnlink("tmp") \cup TornUnlink("mutbak")
        BY <4>1 DEF Failed, Torn, When, SwapSteps
      <4>3. t.d["target"] = dir["target"]
        BY <4>2 DEF Whole, TornUnlink, After, Unlink, Exists, TypeOK
      <4> QED
        BY <3>1, <4>1, <4>3 DEF Present, Exists, Note
    <3>4. phase = "install" /\ pc \in SwapSteps \cup {"xrelink"}
             => \/ t.d["target"] # NoFile \/ deleted \/ cut' # "none"
                \/ pc # "xrelink" /\ t.d["claim"] # NoFile
      BY <3>1, StruckPresent
    <3> QED
      BY <3>1, <3>2, <3>3, <3>4, RaisePresent
  <2>4. CASE Interrupt
    <3>1. PICK t \in Failed(pc) : Raise("base", t.d, t.s)
      BY <2>4 DEF Interrupt, Failed
    <3>2. t.d \in Dirs /\ UNCHANGED <<deleted, runs>> /\ pc \notin Stopped
      BY <2>4, TornType DEF Interrupt, Strike, userVars
    <3> QED
      BY <3>1, <3>2, RaisePresent
  <2>5. CASE Kill \/ CutShort
    <3>1. pc' \in Stopped /\ (result' = "killed" \/ cut' = "finally")
      BY <2>5 DEF Kill, CutShort, FinallyCut, End, Strike, Outcome, Stopped
    <3> QED
      BY <3>1 DEF PresentInv, Present, BackupSteps, Stopped
  <2>6. CASE Starts
    BY <2>6 DEF Starts, StartTrial, StartRestore, Start, RefusedClean
  <2>7. CASE UserStep
    BY <2>7, UserKeepsPresent
  <2>8. CASE Rest \/ UNCHANGED vars
    <3>1. UNCHANGED <<dir, pc, phase, err, result, cut, deleted>>
      BY <2>8 DEF Rest, vars, fileVars, trialVars, boundVars, userVars
    <3> QED
      BY <3>1 DEF PresentInv, Present, Exists
  <2> QED
    BY <2>2, <2>3, <2>4, <2>5, <2>6, <2>7, <2>8 DEF Next, Strikes
<1>3. Inv => RefusedUntouched
  BY DEF RefusedClean, NoMutant, PresentInv, Present, RefusedUntouched
<1> HIDE DEF Inv
<1>4. Spec => []RefusedClean
  BY RefusedCleanly
<1> QED
  BY <1>1, <1>2, <1>3, <1>4, TypeCorrect, BackupInvariant, PTL DEF Spec
=============================================================================
