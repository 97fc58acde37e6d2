------------------------ MODULE AgentPrograms_proofs ------------------------
(***************************************************************************)
(* What holds of the programs around a coding agent, for every value of     *)
(* their constants.                                                        *)
(*                                                                         *)
(* AgentBridge, for every number of jobs, paths, processes, attempts, edits *)
(* and commits: its type, and the four safety properties.  The inductive    *)
(* invariant says in which phase a job may be at all, that a base which is  *)
(* still HEAD has HEAD's files, what a scan of /proc that has found nothing *)
(* yet may have missed, and what each look at the tree still says of the    *)
(* files that no one else has touched since.                               *)
(*                                                                         *)
(* Tracer, for every number of sessions, events, starts and faults: where   *)
(* the last row of an id is, and which spans are still open.                *)
(*                                                                         *)
(* SessionImport, for every number of sessions, processes and records: what *)
(* the collector has is of a log, and complete after an undisturbed import. *)
(* What a mapping gathers only grows with the log, by induction on it.      *)
(***************************************************************************)
EXTENDS AgentBridge, TraceClients, FiniteSetTheorems, SequenceTheorems,
        WellFoundedInduction, TLAPS

-----------------------------------------------------------------------------
(* The bridge *)

\* A patch gives some of the paths a content

Patches == UNION {[D -> Changes] : D \in SUBSET Paths}
Statuses == {"none", "completed", "provider_failed", "timed_out", "cancelled",
             "process_cleanup_failed", "workspace_changed", "scope_violation"}
Results == [status : Statuses, patch : Patches, changed : SUBSET Paths]

\* The type, with the three functions of patches and status codes
Typed == /\ TypeOK
         /\ result \in [Jobs -> Results]
         /\ out \in [Jobs -> Patches]
         /\ before = [j \in Jobs |-> before[j]]

\* The parts of TypeOK that steps disturb
PcOK == pc \in [Jobs -> {"idle"} \cup Running \cup Ended]
ProcsOK == procs \in [Jobs -> [Pids -> {"none", "group", "detached"}]]
OutcomeOK == outcome \in [Jobs -> {"completed", "provider_failed", "timed_out", "cancelled",
                                 "process_cleanup_failed"}]
SweepOK == sweep \in [Jobs -> [left : 0 .. PROCESS_SWEEP_ATTEMPTS, next : 1 .. MaxPid + 1,
                              found : SUBSET Pids]]
ResultOK == result \in [Jobs -> Results]
ApcOK == apc \in [Jobs -> {"idle", "head", "status", "check", "read", "write",
                          "applied", "no_changes", "refused", "cut"}]

\* A function from paths to contents is a patch
LEMMA PatchIs ==
    ASSUME NEW D \in SUBSET Paths, NEW f \in [D -> Changes]
    PROVE  f \in Patches
BY DEF Patches

\* The empty patch is one
LEMMA NoPatchIs == NoPatch \in Patches
<1>1. NoPatch \in [{} -> Changes]
    BY DEF NoPatch
<1> QED BY <1>1, PatchIs

\* The first state has its type
LEMMA InitTyped == ASSUME Init PROVE Typed
<1>1. Absent \in Changes /\ {} \in Changes
    BY DEF Changes
<1>2. FirstTree \in Files
    BY <1>1 DEF FirstTree, Files
<1>3. NoResult \in Results
    <2>1. "none" \in Statuses
        BY DEF Statuses
    <2> QED BY <2>1, NoPatchIs DEF NoResult, Results
<1> QED
    BY <1>2, <1>3, NoPatchIs, BridgeAssumption DEF Init, Typed, TypeOK, Ended, Running, Pids, Providers

\* What a provider or a survivor writes is a content
LEMMA WritingsAre ==
    ASSUME TypeOK, NEW j \in Jobs, NEW p \in Paths
    PROVE  Writings(j, p) \subseteq Changes
<1>1. baseTree[j][p] \in Changes
    BY DEF TypeOK, Files
<1>2. {j} \in Changes /\ Absent \in Changes
    BY DEF Changes
<1> QED BY <1>1, <1>2 DEF Writings

\* git diff makes a patch
LEMMA BuildPatchIs ==
    ASSUME TypeOK, NEW j \in Jobs
    PROVE  build_patch(j) \in Patches
<1> DEFINE D == Differs(j) \cap (Tracked(j) \cup untracked[j])
<1>1. D \in SUBSET Paths
    BY DEF Differs
<1>2. build_patch(j) \in [D -> Changes]
    BY <1>1 DEF build_patch, TypeOK, Files
<1> QED BY <1>1, <1>2, PatchIs

\* git apply writes contents
LEMMA MergedIs ==
    ASSUME Typed, NEW j \in Jobs, CanApply(j)
    PROVE  [p \in DOMAIN Patch(j) |-> Merged(j, p)] \in Patches
<1>1. Patch(j) \in Patches
    BY DEF Typed, Results, Patch
<1>2. PICK D \in SUBSET Paths : Patch(j) \in [D -> Changes]
    BY <1>1 DEF Patches
<1>3. ASSUME NEW p \in D PROVE Merged(j, p) \in Changes
    <2>1. Patch(j)[p] \in Changes /\ tree[p] \in Changes /\ baseTree[j][p] \in Changes
        BY <1>2 DEF Typed, TypeOK, Files
    <2>2. CASE tree[p] = baseTree[j][p]
        BY <2>1, <2>2 DEF Merged
    <2>3. CASE tree[p] # baseTree[j][p]
        <3>1. tree[p] # Absent /\ Patch(j)[p] # Absent
            BY <1>2, <2>3 DEF CanApply, MayApply
        <3>2. tree[p] \in SUBSET (Jobs \cup 1 .. MaxEdits) /\ Patch(j)[p] \in SUBSET (Jobs \cup 1 .. MaxEdits)
            BY <2>1, <3>1 DEF Changes
        <3> QED BY <2>3, <3>2 DEF Merged, Changes
    <2> QED BY <2>2, <2>3
<1> QED BY <1>2, <1>3, PatchIs

\* No step leaves the type
LEMMA NextTyped == ASSUME Typed, [Next]_vars PROVE Typed'
<1> USE DEF At, Go, Set
<1>a. PcOK /\ ProcsOK /\ SweepOK /\ OutcomeOK /\ ResultOK /\ ApcOK
    BY DEF Typed, TypeOK, PcOK, ProcsOK, SweepOK, OutcomeOK, ResultOK, ApcOK
<1>b. /\ head \in Nat /\ headTree \in Files /\ tree \in Files /\ edits \in 0 .. MaxEdits
      /\ mode \in [Jobs -> {"consult", "delegate"}] /\ provider \in [Jobs -> Providers \cup {"none"}]
      /\ base \in [Jobs -> Nat] /\ baseTree \in [Jobs -> Files] /\ clone \in [Jobs -> Files]
      /\ forkers \in [Jobs -> SUBSET Pids] /\ changed \in [Jobs -> SUBSET Paths]
      /\ untracked \in [Jobs -> SUBSET Paths] /\ touched \in [Jobs -> SUBSET Paths]
      /\ applies \in [Jobs -> 0 .. MaxApplies] /\ out \in [Jobs -> Patches]
    BY DEF Typed, TypeOK
<1>1. ASSUME NEW j \in Jobs, Start(j) PROVE Typed'
    <2>1. PcOK'
        BY <1>a, <1>1 DEF PcOK, Start, Ended, Running
    <2>2. base' \in [Jobs -> Nat] /\ baseTree' \in [Jobs -> Files]
        BY <1>b, <1>1 DEF Start
    <2>3. provider' \in [Jobs -> Providers \cup {"none"}]
        BY <1>b, <1>1 DEF Start
    <2> QED BY <1>1, <2>1, <2>2, <2>3
        DEF Typed, TypeOK, repoVars, jobVars, procVars, workVars, applyVars, PcOK, Start
<1>2. ASSUME NEW j \in Jobs, FirstStatus(j) PROVE Typed'
    BY <1>2
    DEF Typed, TypeOK, repoVars, jobVars, procVars, workVars, applyVars, FirstStatus, Ended, Running
<1>3. ASSUME NEW j \in Jobs, clone_repository(j) PROVE Typed'
    BY <1>3
    DEF Typed, TypeOK, repoVars, jobVars, procVars, workVars, applyVars, clone_repository, Ended, Running
<1>4. ASSUME NEW j \in Jobs, run_process(j) PROVE Typed'
    <2>1. OutcomeOK'
        BY <1>a, <1>4 DEF OutcomeOK, run_process, run_provider
    <2>2. clone' \in [Jobs -> Files] /\ provider' \in [Jobs -> Providers \cup {"none"}]
        BY ZenonT(30), <1>b, <1>4 DEF run_process
    <2>3. ProcsOK'
        BY <1>a, <1>4 DEF ProcsOK, run_process
    <2>4. SweepOK'
        <3> DEFINE s == [left |-> PROCESS_SWEEP_ATTEMPTS, next |-> 1, found |-> {}]
        <3>1. s \in [left : 0 .. PROCESS_SWEEP_ATTEMPTS, next : 1 .. MaxPid + 1, found : SUBSET Pids]
            <4>1. sweep[j] \in [left : 0 .. PROCESS_SWEEP_ATTEMPTS, next : 1 .. MaxPid + 1, found : SUBSET Pids]
                BY <1>a DEF SweepOK
            <4>2. PROCESS_SWEEP_ATTEMPTS \in 0 .. PROCESS_SWEEP_ATTEMPTS /\ 1 \in 1 .. MaxPid + 1
                BY BridgeAssumption
            <4> QED BY <4>1, <4>2
        <3>2. sweep' = [sweep EXCEPT ![j] = s]
            BY <1>a, <1>4 DEF SweepOK, run_process
        <3> QED BY <1>a, <3>1, <3>2 DEF SweepOK
    <2>5. PcOK'
        BY <1>a, <1>4 DEF PcOK, run_process, Running
    <2> QED BY <1>4, <2>1, <2>2, <2>3, <2>4, <2>5
        DEF Typed, TypeOK, repoVars, jobVars, procVars, workVars, applyVars, OutcomeOK, PcOK, ProcsOK, SweepOK, run_process
<1>5. ASSUME NEW j \in Jobs, StartScan(j) PROVE Typed'
    <2>1. SweepOK'
        <3> DEFINE s == [left |-> sweep[j].left, next |-> 1, found |-> {}]
        <3>1. s \in [left : 0 .. PROCESS_SWEEP_ATTEMPTS, next : 1 .. MaxPid + 1, found : SUBSET Pids]
            <4>1. sweep[j] \in [left : 0 .. PROCESS_SWEEP_ATTEMPTS, next : 1 .. MaxPid + 1, found : SUBSET Pids]
                BY <1>a DEF SweepOK
            <4>2. 1 \in 1 .. MaxPid + 1
                BY BridgeAssumption
            <4> QED BY <4>1, <4>2
        <3>2. sweep' = [sweep EXCEPT ![j] = s]
            BY <1>a, <1>5 DEF SweepOK, StartScan
        <3> QED BY <1>a, <3>1, <3>2 DEF SweepOK
    <2>2. PcOK'
        BY <1>a, <1>5 DEF PcOK, StartScan, Running
    <2> QED BY <1>5, <2>1, <2>2
        DEF Typed, TypeOK, repoVars, jobVars, procVars, workVars, applyVars, PcOK, SweepOK, StartScan, Sweeping
<1>6. ASSUME NEW j \in Jobs, ReadProcess(j) PROVE Typed'
    <2>1. SweepOK'
        <3> DEFINE s == [left |-> sweep[j].left, next |-> sweep[j].next + 1,
                           found |-> sweep[j].found \cup ({sweep[j].next} \cap Alive(j))]
        <3>1. s \in [left : 0 .. PROCESS_SWEEP_ATTEMPTS, next : 1 .. MaxPid + 1, found : SUBSET Pids]
            <4>1. sweep[j] \in [left : 0 .. PROCESS_SWEEP_ATTEMPTS, next : 1 .. MaxPid + 1, found : SUBSET Pids]
                BY <1>a DEF SweepOK
            <4>2. sweep[j].next + 1 \in 1 .. MaxPid + 1 /\ sweep[j].found \cup ({sweep[j].next} \cap Alive(j)) \in SUBSET Pids
                BY <1>6, <4>1, BridgeAssumption DEF ReadProcess, Alive
            <4> QED BY <4>1, <4>2
        <3>2. sweep' = [sweep EXCEPT ![j] = s]
            BY <1>a, <1>6 DEF SweepOK, ReadProcess
        <3> QED BY <1>a, <3>1, <3>2 DEF SweepOK
    <2> QED BY <1>6, <2>1
        DEF Typed, TypeOK, repoVars, jobVars, procVars, workVars, applyVars, SweepOK, ReadProcess, Sweeping
<1>7. ASSUME NEW j \in Jobs, terminate_marked_descendants(j) PROVE Typed'
    <2>1. ProcsOK'
        BY <1>a, <1>7 DEF ProcsOK, terminate_marked_descendants
    <2>2. SweepOK'
        BY <1>a, BridgeAssumption, <1>7 DEF SweepOK, terminate_marked_descendants
    <2>3. OutcomeOK'
        BY <1>a, <1>7 DEF OutcomeOK, terminate_marked_descendants
    <2>4. PcOK'
        BY <1>a, <1>7 DEF PcOK, terminate_marked_descendants, Running
    <2> QED BY <1>7, <2>1, <2>2, <2>3, <2>4
        DEF Typed, TypeOK, repoVars, jobVars, procVars, workVars, applyVars, OutcomeOK, PcOK, ProcsOK, SweepOK, terminate_marked_descendants, Sweeping
<1>8. ASSUME NEW j \in Jobs, Classify(j) PROVE Typed'
    <2>1. ResultOK'
        <3>1. [status |-> outcome[j], patch |-> NoPatch, changed |-> {}] \in Results
            BY <1>a, NoPatchIs DEF OutcomeOK, Results, Statuses
        <3> QED BY <1>a, <1>8, <3>1 DEF ResultOK, Classify, Report, Work
    <2>2. PcOK'
        BY <1>a, <1>8 DEF PcOK, Classify, Work, Ended, Running
    <2> QED BY <1>8, <2>1, <2>2
        DEF Typed, TypeOK, repoVars, jobVars, procVars, workVars, applyVars, PcOK, ResultOK, Classify, Work
<1>9. ASSUME NEW j \in Jobs, PostStatus(j) PROVE Typed'
    BY <1>9
    DEF Typed, TypeOK, repoVars, jobVars, procVars, workVars, applyVars, PostStatus, Work, Ended, Running
<1>10. ASSUME NEW j \in Jobs, PostHead(j) PROVE Typed'
    BY <1>10, NoPatchIs
    DEF Typed, TypeOK, repoVars, jobVars, procVars, workVars, applyVars, PostHead, Report, Results, Statuses, Work, Ended, Running
<1>11. ASSUME NEW j \in Jobs, ListTracked(j) PROVE Typed'
    BY <1>11
    DEF Typed, TypeOK, repoVars, jobVars, procVars, workVars, applyVars, ListTracked, Differs, Work, Ended, Running
<1>12. ASSUME NEW j \in Jobs, ListUntracked(j) PROVE Typed'
    <2>1. changed' \in [Jobs -> SUBSET Paths] /\ untracked' \in [Jobs -> SUBSET Paths]
        BY <1>b, <1>12 DEF ListUntracked, Differs
    <2>2. ResultOK'
        BY <1>a, <1>12, <2>1, NoPatchIs DEF ResultOK, ListUntracked, Report, Results, Statuses
    <2>3. PcOK'
        BY <1>a, <1>12 DEF PcOK, ListUntracked, Work, Ended, Running
    <2> QED BY <1>12, <2>1, <2>2, <2>3
        DEF Typed, TypeOK, repoVars, jobVars, procVars, workVars, applyVars, PcOK, ResultOK, ListUntracked, Work
<1>13. ASSUME NEW j \in Jobs, AddUntracked(j) PROVE Typed'
    BY <1>13
    DEF Typed, TypeOK, repoVars, jobVars, procVars, workVars, applyVars, AddUntracked, Work, Ended, Running
<1>14. ASSUME NEW j \in Jobs, DiffAndPersist(j) PROVE Typed'
    <2>1. build_patch(j) \in Patches
        BY BuildPatchIs DEF Typed
    <2>2. ResultOK'
        <3>1. /\ [status |-> "completed", patch |-> build_patch(j), changed |-> changed[j]] \in Results
              /\ [status |-> "scope_violation", patch |-> NoPatch, changed |-> changed[j]] \in Results
            BY <1>b, <2>1, NoPatchIs DEF Results, Statuses
        <3> QED BY <1>a, <1>14, <3>1 DEF ResultOK, DiffAndPersist, Report
    <2>3. PcOK'
        BY <1>a, <1>14 DEF PcOK, DiffAndPersist, Work, Ended
    <2> QED BY <1>14, <2>2, <2>3
        DEF Typed, TypeOK, repoVars, jobVars, procVars, workVars, applyVars, PcOK, ResultOK, DiffAndPersist, Work
<1>15. ASSUME NEW j \in Jobs, ApplyHead(j) PROVE Typed'
    BY <1>15
    DEF Typed, TypeOK, repoVars, jobVars, procVars, workVars, applyVars, ApplyHead, ApplyGo
<1>16. ASSUME NEW j \in Jobs, ApplyStatus(j) PROVE Typed'
    BY <1>16
    DEF Typed, TypeOK, repoVars, jobVars, procVars, workVars, applyVars, ApplyStatus, Looks, ApplyGo
<1>17. ASSUME NEW j \in Jobs, ApplyCheck(j) PROVE Typed'
    <2>1. ApcOK'
        BY <1>a, <1>17 DEF ApcOK, ApplyCheck, Looks, ApplyGo
    <2> QED BY <1>17, <2>1
        DEF Typed, TypeOK, repoVars, jobVars, procVars, workVars, applyVars, ApcOK, ApplyCheck, Looks, ApplyGo
<1>18. ASSUME NEW j \in Jobs, ApplyRead(j) PROVE Typed'
    <2>1. ApcOK'
        BY <1>a, <1>18 DEF ApcOK, ApplyRead, Looks, ApplyGo
    <2>2. out' \in [Jobs -> Patches]
        BY <1>b, <1>18, MergedIs DEF ApplyRead, Looks
    <2> QED BY <1>18, <2>1, <2>2
        DEF Typed, TypeOK, repoVars, jobVars, procVars, workVars, applyVars, ApcOK, ApplyRead, Looks, ApplyGo
<1>19. ASSUME NEW j \in Jobs, ApplyWrite(j) PROVE Typed'
    <2>1. PICK p \in DOMAIN out[j] :
              /\ tree' = [tree EXCEPT ![p] = out[j][p]]
              /\ out' = Set(out, j, [q \in DOMAIN out[j] \ {p} |-> out[j][q]])
              /\ Touch(j, {p})
        BY <1>b, <1>19 DEF ApplyWrite
    <2>2. PICK D \in SUBSET Paths : out[j] \in [D -> Changes]
        BY <1>b DEF Patches
    <2>3. tree' \in Files
        BY <1>b, <2>1, <2>2 DEF Files
    <2>4. [q \in DOMAIN out[j] \ {p} |-> out[j][q]] \in Patches
        <3> DEFINE E == DOMAIN out[j] \ {p}
        <3>1. E \in SUBSET Paths /\ [q \in E |-> out[j][q]] \in [E -> Changes]
            BY <1>b, <2>2
        <3> QED BY <3>1, PatchIs
    <2>5. out' \in [Jobs -> Patches]
        BY <1>b, <2>1, <2>4
    <2>6. touched' \in [Jobs -> SUBSET Paths]
        BY <1>b, <2>1, <2>2 DEF Touch
    <2>7. ApcOK'
        BY <1>a, <1>19 DEF ApcOK, ApplyWrite, ApplyGo
    <2> QED BY <1>19, <2>3, <2>5, <2>6, <2>7
        DEF Typed, TypeOK, repoVars, jobVars, procVars, workVars, applyVars, ApcOK, ApplyWrite, ApplyGo
<1>20. ASSUME NEW j \in Jobs, GitFails(j) \/ Die(j) PROVE Typed'
    <2>1. PcOK'
        BY <1>a, <1>20 DEF PcOK, GitFails, Die, Ended
    <2> QED BY <1>20, <2>1
        DEF Typed, TypeOK, repoVars, jobVars, procVars, workVars, applyVars, PcOK, GitFails, Die
<1>21. ASSUME NEW j \in Jobs, BeginApply(j) PROVE Typed'
    BY <1>21, BridgeAssumption
    DEF Typed, TypeOK, repoVars, jobVars, procVars, workVars, applyVars, BeginApply, ApplyGo
<1>22. ASSUME NEW j \in Jobs, ApplyCut(j) PROVE Typed'
    BY <1>22
    DEF Typed, TypeOK, repoVars, jobVars, procVars, workVars, applyVars, ApplyCut, Looks, ApplyGo
<1>23. ASSUME NEW j \in Jobs, Fork(j) PROVE Typed'
    <2>1. ProcsOK'
        BY <1>a, <1>23 DEF ProcsOK, Fork
    <2>2. forkers' \in [Jobs -> SUBSET Pids]
        BY <1>b, <1>23 DEF Fork, Alive
    <2> QED BY <1>23, <2>1, <2>2
        DEF Typed, TypeOK, repoVars, jobVars, procVars, workVars, applyVars, ProcsOK, Fork, Quiet
<1>24. ASSUME NEW j \in Jobs, Exit(j) PROVE Typed'
    BY <1>24
    DEF Typed, TypeOK, repoVars, jobVars, procVars, workVars, applyVars, Exit, Quiet, Alive
<1>25. ASSUME NEW j \in Jobs, WriteClone(j) PROVE Typed'
    BY <1>25, WritingsAre
    DEF Typed, TypeOK, repoVars, jobVars, procVars, workVars, applyVars, WriteClone, Quiet, Files
<1>26. ASSUME Edit PROVE Typed'
    <2>1. edits' \in 0 .. MaxEdits
        BY <1>b, <1>26, BridgeAssumption DEF Edit
    <2>2. ASSUME NEW p \in Paths PROVE (tree[p] \ Absent) \cup {edits'} \in Changes
        <3>1. tree[p] \in Changes /\ edits' \in 1 .. MaxEdits
            BY <1>b, <1>26, <2>1, BridgeAssumption DEF Edit, Files
        <3> QED BY <3>1 DEF Changes
    <2>3. Absent \in Changes
        BY <1>b DEF Changes
    <2>4. tree' \in Files
        BY ZenonT(30), <1>b, <1>26, <2>2, <2>3 DEF Edit, Files
    <2>5. touched' \in [Jobs -> SUBSET Paths]
        BY <1>b, <1>26, BridgeAssumption DEF Edit
    <2> QED BY <1>26, <2>1, <2>4, <2>5
        DEF Typed, TypeOK, repoVars, jobVars, procVars, workVars, applyVars, Edit
<1>27. ASSUME Commit PROVE Typed'
    BY <1>27
    DEF Typed, TypeOK, repoVars, jobVars, procVars, workVars, applyVars, Commit
<1>28. ASSUME UNCHANGED vars PROVE Typed'
    BY <1>28
    DEF Typed, TypeOK, repoVars, jobVars, procVars, workVars, applyVars, vars
<1> QED
    BY <1>1, <1>2, <1>3, <1>4, <1>5, <1>6, <1>7, <1>8, <1>9, <1>10, <1>11, <1>12, <1>13,
       <1>14, <1>15, <1>16, <1>17, <1>18, <1>19, <1>20, <1>21, <1>22, <1>23, <1>24, <1>25,
       <1>26, <1>27, <1>28 DEF Next, execute_run, execute_apply, Others

\* Every variable of the two commands keeps its type: statuses, phases and the
\* counters of the sweep stay within what agent_bridge.py names
THEOREM TypeCorrect == Spec => []TypeOK
<1>1. Typed => TypeOK
    BY DEF Typed
<1> QED BY <1>1, InitTyped, NextTyped, PTL DEF Spec
-----------------------------------------------------------------------------
(* The parts of the inductive invariant *)

\* Where a job is determines what may be known of it
Phases == \A j \in Jobs :
    /\ apc[j] # "idle" => pc[j] = "done"
    /\ apc[j] \notin {"idle", "refused"} => mode[j] = "delegate" /\ result[j].status = "completed"
    /\ pc[j] \in {"post", "head"} => mode[j] = "consult"
    /\ pc[j] \in {"tracked", "untracked", "add", "diff"} => mode[j] = "delegate"
    /\ result[j].status = "completed" => pc[j] = "done"
    /\ pc[j] \in {"idle", "status", "clone"} => Alive(j) = {}

\* A base that is still HEAD has HEAD's files
Commits == \A j \in Jobs : base[j] <= head /\ (base[j] = head => baseTree[j] = headTree)

\* While /proc is read and nothing was found, a process behind the reader was
\* forked by one that is ahead of it, unless one of those has ended
Chased == \A j \in Jobs :
    /\ pc[j] = "scan" /\ ~handed[j] /\ sweep[j].found = {}
    => \A p \in Alive(j) : p < sweep[j].next =>
          \E q \in forkers[j] \cap Alive(j) : q >= sweep[j].next

\* What the second look of a consultation has shown
Looked == \A j \in Jobs : pc[j] = "head" =>
    \A p \in Paths \ (DOMAIN before[j] \cup touched[j] \cup changed[j]) : tree[p] = headTree[p]

\* What the looks of apply have shown, and what git apply has written so far
Shown == \A j \in Jobs :
    /\ apc[j] = "status" => \A p \in Paths \ touched[j] : headTree[p] = baseTree[j][p]
    /\ apc[j] \in {"check", "read"} => \A p \in Paths \ touched[j] : tree[p] = baseTree[j][p]
    /\ apc[j] = "write" =>
          /\ DOMAIN out[j] \subseteq DOMAIN Patch(j)
          /\ \A p \in Paths \ touched[j] :
                IF p \in DOMAIN out[j] THEN out[j][p] = Patch(j)[p]
                ELSE tree[p] = IF p \in DOMAIN Patch(j) THEN Patch(j)[p] ELSE baseTree[j][p]

\* No step leaves the phases
LEMMA NextPhases ==
    ASSUME Typed, Phases, [Next]_vars
    PROVE  Phases'
<1> USE DEF At, Go, Set
<1>a. /\ pc \in [Jobs -> {"idle"} \cup Running \cup Ended] /\ result \in [Jobs -> Results]
      /\ procs \in [Jobs -> [Pids -> {"none", "group", "detached"}]]
      /\ apc \in [Jobs -> {"idle", "head", "status", "check", "read", "write",
                          "applied", "no_changes", "refused", "cut"}]
    BY DEF Typed, TypeOK
<1>1. ASSUME NEW j \in Jobs, Start(j) PROVE Phases'
    BY <1>a, <1>1 DEF Phases, Alive, Pids, Start, repoVars, jobVars, procVars,
        workVars, applyVars
<1>2. ASSUME NEW j \in Jobs, FirstStatus(j) PROVE Phases'
    BY <1>a, <1>2 DEF Phases, Alive, Pids, FirstStatus, repoVars, jobVars, procVars,
        workVars, applyVars
<1>3. ASSUME NEW j \in Jobs, clone_repository(j) PROVE Phases'
    BY <1>a, <1>3 DEF Phases, Alive, Pids, clone_repository, repoVars, jobVars,
        procVars, workVars, applyVars
<1>4. ASSUME NEW j \in Jobs, run_process(j) PROVE Phases'
    <2>1. /\ pc[j] = "provider" /\ pc' = [pc EXCEPT ![j] = "sweep"]
          /\ UNCHANGED <<apc, mode, result>>
        BY <1>4 DEF run_process, repoVars, applyVars
    <2>2. ASSUME NEW k \in Jobs \ {j} PROVE Alive(k)' = Alive(k)
        BY <1>a, <1>4 DEF run_process, Alive
    <2> QED BY <1>a, <2>1, <2>2 DEF Phases
<1>5. ASSUME NEW j \in Jobs, terminate_marked_descendants(j) PROVE Phases'
    BY <1>a, <1>5 DEF Phases, Alive, Pids, terminate_marked_descendants, Sweeping,
        repoVars, jobVars, procVars, workVars, applyVars
<1>6. ASSUME NEW j \in Jobs, Classify(j) PROVE Phases'
    <2>1. /\ pc[j] = "classify" /\ UNCHANGED <<apc, mode, procs>>
          /\ pc' = [pc EXCEPT ![j] = pc'[j]] /\ result' = [result EXCEPT ![j] = result'[j]]
        BY <1>a, <1>6 DEF Classify, Work, Report, applyVars, procVars
    <2>2. \/ pc'[j] = "cancelled" /\ result' = result
          \/ pc'[j] = "post" /\ mode[j] = "consult" /\ result' = result
          \/ pc'[j] = "tracked" /\ mode[j] = "delegate" /\ result' = result
          \/ pc'[j] = "done"
        BY <1>a, <1>6 DEF Classify, Work
    <2> QED BY <1>a, <2>1, <2>2 DEF Phases, Alive
<1>7. ASSUME NEW j \in Jobs, ListUntracked(j) PROVE Phases'
    BY <1>a, <1>7 DEF Phases, Alive, Pids, ListUntracked, Report, Work, repoVars,
        jobVars, procVars, workVars, applyVars
<1>8. ASSUME NEW j \in Jobs, DiffAndPersist(j) PROVE Phases'
    BY <1>a, <1>8 DEF Phases, Alive, Pids, DiffAndPersist, Report, Work, repoVars,
        jobVars, procVars, workVars, applyVars
<1>9. ASSUME NEW j \in Jobs, ApplyHead(j) PROVE Phases'
    <2>1. /\ UNCHANGED <<pc, mode, result, procs>> /\ apc[j] \notin {"idle", "refused"}
          /\ apc' = [apc EXCEPT ![j] = apc'[j]]
        BY <1>a, <1>9 DEF ApplyHead, ApplyAt, ApplyGo, jobVars, procVars, workVars
    <2> QED BY <1>a, <2>1 DEF Phases, Alive
<1>10. ASSUME NEW j \in Jobs, ApplyStatus(j) PROVE Phases'
    <2>1. /\ UNCHANGED <<pc, mode, result, procs>> /\ apc[j] \notin {"idle", "refused"}
          /\ apc' = [apc EXCEPT ![j] = apc'[j]]
        BY <1>a, <1>10 DEF ApplyStatus, ApplyAt, ApplyGo, Looks, jobVars, procVars, workVars
    <2> QED BY <1>a, <2>1 DEF Phases, Alive
<1>11. ASSUME NEW j \in Jobs, ApplyCheck(j) PROVE Phases'
    <2>1. /\ UNCHANGED <<pc, mode, result, procs>> /\ apc[j] \notin {"idle", "refused"}
          /\ apc' = [apc EXCEPT ![j] = apc'[j]]
        BY <1>a, <1>11 DEF ApplyCheck, ApplyAt, ApplyGo, Looks, jobVars, procVars, workVars
    <2> QED BY <1>a, <2>1 DEF Phases, Alive
<1>12. ASSUME NEW j \in Jobs, ApplyRead(j) PROVE Phases'
    <2>1. /\ UNCHANGED <<pc, mode, result, procs>> /\ apc[j] \notin {"idle", "refused"}
          /\ apc' = [apc EXCEPT ![j] = apc'[j]]
        BY <1>a, <1>12 DEF ApplyRead, ApplyAt, ApplyGo, Looks, jobVars, procVars, workVars
    <2> QED BY <1>a, <2>1 DEF Phases, Alive
<1>13. ASSUME NEW j \in Jobs, ApplyWrite(j) PROVE Phases'
    <2>1. /\ UNCHANGED <<pc, mode, result, procs>> /\ apc[j] \notin {"idle", "refused"}
          /\ apc' = [apc EXCEPT ![j] = apc'[j]]
        BY <1>a, <1>13 DEF ApplyWrite, ApplyAt, ApplyGo, jobVars, procVars, workVars
    <2> QED BY <1>a, <2>1 DEF Phases, Alive
<1>14. ASSUME NEW j \in Jobs, BeginApply(j) PROVE Phases'
    BY <1>a, <1>14 DEF Phases, Alive, Pids, BeginApply, ApplyGo, repoVars, jobVars,
        procVars, workVars, applyVars
<1>15. ASSUME NEW j \in Jobs, ApplyCut(j) PROVE Phases'
    BY <1>a, <1>15 DEF Phases, Alive, Pids, ApplyCut, ApplyGo, Looks, repoVars,
        jobVars, procVars, workVars, applyVars
<1>16. ASSUME NEW j \in Jobs, Fork(j) PROVE Phases'
    BY <1>a, <1>16 DEF Phases, Alive, Pids, Fork, Quiet, repoVars, jobVars, procVars,
        workVars, applyVars
<1>17. ASSUME NEW j \in Jobs, Exit(j) PROVE Phases'
    BY <1>a, <1>17 DEF Phases, Alive, Pids, Exit, Quiet, repoVars, jobVars, procVars,
        workVars, applyVars
<1>18. ASSUME NEW j \in Jobs, WriteClone(j) PROVE Phases'
    BY <1>a, <1>18 DEF Phases, Alive, Pids, WriteClone, Quiet, repoVars, jobVars,
        procVars, workVars, applyVars
<1>19. ASSUME NEW j \in Jobs, PostStatus(j) \/ PostHead(j) \/ ListTracked(j) \/
                AddUntracked(j)
      PROVE  Phases'
    BY <1>a, <1>19 DEF Phases, Alive, Pids, PostStatus, PostHead, ListTracked,
        AddUntracked, Report, Work, repoVars, jobVars, procVars, workVars, applyVars
<1>20. ASSUME NEW j \in Jobs, StartScan(j) \/ ReadProcess(j)
      PROVE  Phases'
    BY <1>a, <1>20 DEF Phases, Alive, Pids, StartScan, ReadProcess, Sweeping,
        repoVars, jobVars, procVars, workVars, applyVars
<1>21. ASSUME NEW j \in Jobs, GitFails(j) \/ Die(j)
      PROVE  Phases'
    BY <1>a, <1>21 DEF Phases, Alive, Pids, GitFails, Die, repoVars, jobVars,
        procVars, workVars, applyVars
<1>22. ASSUME Edit PROVE Phases'
    BY <1>a, <1>22 DEF Phases, Alive, Pids, Edit,
        repoVars, jobVars, procVars, workVars, applyVars
<1>23. ASSUME Commit PROVE Phases'
    BY <1>a, <1>23 DEF Phases, Alive, Pids, Commit,
        repoVars, jobVars, procVars, workVars, applyVars
<1>24. ASSUME UNCHANGED vars PROVE Phases'
    BY <1>a, <1>24 DEF Phases, Alive, Pids, vars,
        repoVars, jobVars, procVars, workVars, applyVars
<1> QED BY <1>1, <1>2, <1>3, <1>4, <1>5, <1>6, <1>7, <1>8, <1>9, <1>10, <1>11, <1>12,
       <1>13, <1>14, <1>15, <1>16, <1>17, <1>18, <1>19, <1>20, <1>21, <1>22, <1>23,
       <1>24
    DEF Next, execute_run, execute_apply, Others

\* HEAD moves forward only, so a base that is HEAD has HEAD's files
LEMMA NextCommits ==
    ASSUME Typed, Commits, [Next]_vars
    PROVE  Commits'
<1> USE DEF At, Go, Set
<1>a. /\ head \in Nat /\ base \in [Jobs -> Nat] /\ baseTree \in [Jobs -> Files]
    BY DEF Typed, TypeOK
<1>1. ASSUME NEW j \in Jobs, Start(j) PROVE Commits'
    BY <1>a, <1>1 DEF Commits, Start, repoVars, jobVars, procVars, workVars, applyVars
<1>2. ASSUME NEW j \in Jobs, FirstStatus(j) \/ clone_repository(j) \/
                run_process(j) \/ GitFails(j) \/ Die(j)
      PROVE  Commits'
    BY <1>a, <1>2 DEF Commits, FirstStatus, clone_repository, run_process, GitFails,
        Die, repoVars, jobVars, procVars, workVars, applyVars
<1>3. ASSUME NEW j \in Jobs, StartScan(j) \/ ReadProcess(j) \/
                terminate_marked_descendants(j)
      PROVE  Commits'
    BY <1>a, <1>3 DEF Commits, StartScan, ReadProcess, terminate_marked_descendants,
        Sweeping, repoVars, jobVars, procVars, workVars, applyVars
<1>4. ASSUME NEW j \in Jobs, Classify(j) \/ PostStatus(j) \/ PostHead(j) \/
                ListTracked(j) \/ ListUntracked(j) \/ AddUntracked(j) \/
                DiffAndPersist(j)
      PROVE  Commits'
    BY <1>a, <1>4 DEF Commits, Classify, PostStatus, PostHead, ListTracked,
        ListUntracked, AddUntracked, DiffAndPersist, Report, Work, repoVars, jobVars,
        procVars, workVars, applyVars
<1>5. ASSUME NEW j \in Jobs, ApplyHead(j) \/ ApplyStatus(j) \/ ApplyCheck(j)
      PROVE  Commits'
    BY <1>a, <1>5 DEF Commits, ApplyHead, ApplyStatus, ApplyCheck, ApplyGo, Looks,
        repoVars, jobVars, procVars, workVars, applyVars
<1>6. ASSUME NEW j \in Jobs, ApplyRead(j) \/ ApplyWrite(j) \/ BeginApply(j) \/
                ApplyCut(j)
      PROVE  Commits'
    BY <1>a, <1>6 DEF Commits, ApplyRead, ApplyWrite, BeginApply, ApplyCut, ApplyGo,
        Looks, repoVars, jobVars, procVars, workVars, applyVars
<1>7. ASSUME NEW j \in Jobs, Fork(j) \/ Exit(j) \/ WriteClone(j)
      PROVE  Commits'
    BY <1>a, <1>7 DEF Commits, Fork, Exit, WriteClone, Quiet, repoVars, jobVars,
        procVars, workVars, applyVars
<1>8. ASSUME Edit PROVE Commits'
    BY <1>a, <1>8 DEF Commits, Edit, repoVars, jobVars, procVars, workVars, applyVars
<1>9. ASSUME Commit PROVE Commits'
    BY <1>a, <1>9 DEF Commits, Commit,
        repoVars, jobVars, procVars, workVars, applyVars
<1>10. ASSUME UNCHANGED vars PROVE Commits'
    BY <1>a, <1>10 DEF Commits, vars, repoVars, jobVars, procVars, workVars, applyVars
<1> QED BY <1>1, <1>2, <1>3, <1>4, <1>5, <1>6, <1>7, <1>8, <1>9, <1>10
    DEF Next, execute_run, execute_apply, Others

\* No step breaks what a scan may have missed
LEMMA NextChased ==
    ASSUME Typed, Chased, [Next]_vars
    PROVE  Chased'
<1> USE DEF At, Go, Set
<1>a. /\ pc \in [Jobs -> {"idle"} \cup Running \cup Ended]
      /\ procs \in [Jobs -> [Pids -> {"none", "group", "detached"}]]
      /\ sweep \in [Jobs -> [left : 0 .. PROCESS_SWEEP_ATTEMPTS, next : 1 .. MaxPid + 1,
                            found : SUBSET Pids]]
      /\ forkers \in [Jobs -> SUBSET Pids] /\ handed \in [Jobs -> BOOLEAN]
    BY DEF Typed, TypeOK
<1>1. ASSUME NEW j \in Jobs, run_process(j) PROVE Chased'
    <2>1. /\ pc' = [pc EXCEPT ![j] = "sweep"] /\ UNCHANGED <<forkers, handed>>
          /\ \A k \in Jobs \ {j} : sweep'[k] = sweep[k] /\ Alive(k)' = Alive(k)
        BY <1>a, <1>1 DEF run_process, Alive
    <2> QED BY <1>a, <2>1 DEF Chased
<1>2. ASSUME NEW j \in Jobs, StartScan(j) PROVE Chased'
    <2>1. /\ pc' = [pc EXCEPT ![j] = "scan"] /\ procs' = procs
          /\ sweep' = [sweep EXCEPT ![j] = [left |-> sweep[j].left, next |-> 1, found |-> {}]]
          /\ forkers' = [forkers EXCEPT ![j] = {}] /\ handed' = [handed EXCEPT ![j] = FALSE]
        BY <1>2 DEF StartScan
    <2>2. \A p \in Pids : ~(p < 1)
        BY BridgeAssumption DEF Pids
    <2> QED BY <1>a, <2>1, <2>2 DEF Chased, Alive
<1>3. ASSUME NEW j \in Jobs, ReadProcess(j) PROVE Chased'
    <2>1. /\ UNCHANGED <<pc, procs, forkers, handed>> /\ pc[j] = "scan" /\ sweep[j].next \in Nat
          /\ sweep'[j].next = sweep[j].next + 1
          /\ sweep'[j].found = sweep[j].found \cup ({sweep[j].next} \cap Alive(j))
          /\ \A k \in Jobs \ {j} : sweep'[k] = sweep[k]
        BY <1>a, <1>3, BridgeAssumption DEF ReadProcess
    <2>2. ASSUME NEW k \in Jobs PROVE Alive(k)' = Alive(k) /\ Alive(k) \subseteq Nat
        BY <2>1, BridgeAssumption DEF Alive, Pids
    <2>3. ASSUME NEW p \in Alive(j), p < sweep'[j].next, ~handed[j], sweep'[j].found = {}
          PROVE  \E q \in forkers[j] \cap Alive(j) : q >= sweep'[j].next
        <3>1. sweep[j].found = {} /\ sweep[j].next \notin Alive(j)
            BY <2>1, <2>3
        <3>2. p < sweep[j].next
            BY <2>1, <2>2, <2>3, <3>1
        <3>3. PICK q \in forkers[j] \cap Alive(j) : q >= sweep[j].next
            BY <2>1, <2>3, <3>1, <3>2 DEF Chased
        <3>4. q >= sweep'[j].next
            BY <2>1, <2>2, <3>1, <3>3
        <3> QED BY <3>4
    <2> QED BY ZenonT(30), <1>a, <2>1, <2>2, <2>3 DEF Chased
<1>4. ASSUME NEW j \in Jobs, terminate_marked_descendants(j) PROVE Chased'
    <2>1. /\ pc'[j] # "scan" /\ UNCHANGED <<forkers, handed>>
          /\ \A k \in Jobs \ {j} : /\ pc'[k] = pc[k] /\ sweep'[k] = sweep[k]
                                  /\ Alive(k)' = Alive(k)
        BY <1>a, <1>4 DEF terminate_marked_descendants, Alive
    <2> QED BY <2>1 DEF Chased
<1>5. ASSUME NEW j \in Jobs, Fork(j) PROVE Chased'
    <2>1. UNCHANGED <<pc, sweep, handed>>
        BY <1>5 DEF Fork, Quiet
    <2>2. PICK q \in Pids \ Alive(j), kind \in {"group", "detached"} :
              procs' = [procs EXCEPT ![j][q] = kind]
        BY <1>5 DEF Fork
    <2>3. Alive(j)' = Alive(j) \cup {q} /\ \A k \in Jobs \ {j} : Alive(k)' = Alive(k)
        BY <1>a, <2>2 DEF Alive
    <2>4. CASE pc[j] # "scan"
        <3>1. \A k \in Jobs \ {j} : forkers'[k] = forkers[k]
            BY <1>a, <1>5 DEF Fork
        <3> QED BY <2>1, <2>3, <2>4, <3>1 DEF Chased
    <2>5. CASE pc[j] = "scan"
        <3>1. PICK r \in Alive(j) : forkers' = [forkers EXCEPT ![j] = @ \cup {r}]
            BY <1>5, <2>5 DEF Fork
        <3>2. /\ forkers'[j] = forkers[j] \cup {r}
              /\ \A k \in Jobs \ {j} : forkers'[k] = forkers[k]
            BY <1>a, <3>1
        <3>3. Alive(j) \subseteq Nat /\ sweep[j].next \in Nat
            BY <1>a, BridgeAssumption DEF Alive, Pids
        <3>4. ASSUME ~handed[j], sweep[j].found = {}
              PROVE  \/ \E s \in forkers'[j] \cap Alive(j)' : s >= sweep[j].next
                     \/ \A p \in Alive(j) : ~(p < sweep[j].next)
            BY <2>3, <2>5, <3>2, <3>4 DEF Chased
        <3>5. ASSUME \A p \in Alive(j) : ~(p < sweep[j].next)
              PROVE  \E s \in forkers'[j] \cap Alive(j)' : s >= sweep[j].next
            BY <2>3, <3>2, <3>3, <3>5
        <3> QED BY <2>1, <2>3, <3>2, <3>4, <3>5 DEF Chased
    <2> QED BY <2>4, <2>5
<1>6. ASSUME NEW j \in Jobs, Exit(j) PROVE Chased'
    <2>1. UNCHANGED <<pc, sweep>>
        BY <1>6 DEF Exit, Quiet
    <2>2. PICK p \in Alive(j) :
              /\ procs' = [procs EXCEPT ![j][p] = "none"]
              /\ handed' = [handed EXCEPT ![j] = @ \/ (At(j, "scan") /\ p \in forkers[j])]
              /\ forkers' = [forkers EXCEPT ![j] = @ \ {p}]
        BY <1>6 DEF Exit
    <2>3. Alive(j)' = Alive(j) \ {p} /\ \A k \in Jobs \ {j} : Alive(k)' = Alive(k)
        BY <1>a, <2>2 DEF Alive
    <2>4. /\ pc[j] = "scan" /\ ~handed'[j] => ~handed[j] /\ p \notin forkers[j]
          /\ forkers'[j] = forkers[j] \ {p}
          /\ \A k \in Jobs \ {j} : handed'[k] = handed[k] /\ forkers'[k] = forkers[k]
        BY <1>a, <2>2
    <2> QED BY <2>1, <2>3, <2>4 DEF Chased
<1>7. ASSUME NEW j \in Jobs, WriteClone(j) PROVE Chased'
    BY <1>a, <1>7 DEF Chased, Alive, WriteClone, Quiet, repoVars, jobVars, procVars,
        workVars, applyVars
<1>8. ASSUME NEW j \in Jobs, Start(j) \/ FirstStatus(j) \/ clone_repository(j) \/
                GitFails(j) \/ Die(j)
      PROVE  Chased'
    BY <1>a, <1>8 DEF Chased, Alive, Start, FirstStatus, clone_repository, GitFails,
        Die, repoVars, jobVars, procVars, workVars, applyVars
<1>9. ASSUME NEW j \in Jobs, Classify(j) \/ PostStatus(j) \/ PostHead(j) \/
                ListTracked(j)
      PROVE  Chased'
    BY <1>a, <1>9 DEF Chased, Alive, Classify, PostStatus, PostHead, ListTracked,
        Report, Work, repoVars, jobVars, procVars, workVars, applyVars
<1>10. ASSUME NEW j \in Jobs, ListUntracked(j) \/ AddUntracked(j) \/ DiffAndPersist(j)
      PROVE  Chased'
    BY <1>a, <1>10 DEF Chased, Alive, ListUntracked, AddUntracked, DiffAndPersist,
        Report, Work, repoVars, jobVars, procVars, workVars, applyVars
<1>11. ASSUME NEW j \in Jobs, ApplyHead(j) \/ ApplyStatus(j) \/ ApplyCheck(j)
      PROVE  Chased'
    BY <1>a, <1>11 DEF Chased, Alive, ApplyHead, ApplyStatus, ApplyCheck, ApplyGo,
        Looks, repoVars, jobVars, procVars, workVars, applyVars
<1>12. ASSUME NEW j \in Jobs, ApplyRead(j) \/ ApplyWrite(j) \/ BeginApply(j) \/
                ApplyCut(j)
      PROVE  Chased'
    BY <1>a, <1>12 DEF Chased, Alive, ApplyRead, ApplyWrite, BeginApply, ApplyCut,
        ApplyGo, Looks, repoVars, jobVars, procVars, workVars, applyVars
<1>13. ASSUME Edit PROVE Chased'
    BY <1>a, <1>13 DEF Chased, Alive, Edit,
        repoVars, jobVars, procVars, workVars, applyVars
<1>14. ASSUME Commit PROVE Chased'
    BY <1>a, <1>14 DEF Chased, Alive, Commit,
        repoVars, jobVars, procVars, workVars, applyVars
<1>15. ASSUME UNCHANGED vars PROVE Chased'
    BY <1>a, <1>15 DEF Chased, Alive, vars,
        repoVars, jobVars, procVars, workVars, applyVars
<1> QED BY <1>1, <1>2, <1>3, <1>4, <1>5, <1>6, <1>7, <1>8, <1>9, <1>10, <1>11, <1>12,
       <1>13, <1>14, <1>15
    DEF Next, execute_run, execute_apply, Others

\* What git status says of a path
LEMMA PorcelainIs ==
    ASSUME NEW p \in Paths
    PROVE  p \in DOMAIN porcelain <=> tree[p] # headTree[p]
BY DEF porcelain

LEMMA CleanIs == porcelain = NoPatch => \A p \in Paths : tree[p] = headTree[p]
BY PorcelainIs DEF NoPatch

\* What is touched after the second look is noted
LEMMA NextLooked ==
    ASSUME Typed, Phases, Looked, [Next]_vars
    PROVE  Looked'
<1> USE DEF At, Go, Set
<1>a. /\ pc \in [Jobs -> {"idle"} \cup Running \cup Ended]
      /\ changed \in [Jobs -> SUBSET Paths] /\ touched \in [Jobs -> SUBSET Paths]
      /\ tree \in Files /\ headTree \in Files /\ out \in [Jobs -> Patches]
      /\ before = [j \in Jobs |-> before[j]]
      /\ apc \in [Jobs -> {"idle", "head", "status", "check", "read", "write",
                          "applied", "no_changes", "refused", "cut"}]
    BY DEF Typed, TypeOK
<1>1. ASSUME NEW j \in Jobs, Start(j) PROVE Looked'
    BY <1>a, <1>1 DEF Looked, Start, repoVars, jobVars, procVars, workVars, applyVars
<1>2. ASSUME NEW j \in Jobs, FirstStatus(j) PROVE Looked'
    <2>1. /\ pc'[j] # "head" /\ UNCHANGED <<tree, headTree, touched, changed>>
          /\ \A k \in Jobs \ {j} : pc'[k] = pc[k] /\ before'[k] = before[k]
        BY <1>a, <1>2 DEF FirstStatus, repoVars, workVars
    <2> QED BY <2>1 DEF Looked
<1>3. ASSUME NEW j \in Jobs, PostStatus(j) PROVE Looked'
    <2>1. /\ pc' = [pc EXCEPT ![j] = "head"] /\ UNCHANGED <<tree, headTree, before>>
          /\ touched' = [touched EXCEPT ![j] = {}]
          /\ \A k \in Jobs \ {j} : changed'[k] = changed[k]
        BY <1>3 DEF PostStatus, Work, repoVars
    <2>2. changed'[j] = {p \in Paths :
              ({p} \cap DOMAIN porcelain # {}) # ({p} \cap DOMAIN before[j] # {})
              \/ (p \in DOMAIN porcelain /\ porcelain[p] # before[j][p])}
        BY <1>a, <1>3 DEF PostStatus
    <2>3. ASSUME NEW p \in Paths \ (DOMAIN before[j] \cup changed'[j])
          PROVE  tree[p] = headTree[p]
        BY <2>2, <2>3, PorcelainIs
    <2> QED BY <1>a, <2>1, <2>3 DEF Looked
<1>4. ASSUME NEW j \in Jobs, ApplyHead(j) PROVE Looked'
    <2>1. /\ UNCHANGED <<tree, headTree, pc, before, changed>> /\ apc[j] = "head"
          /\ \A k \in Jobs \ {j} : touched'[k] = touched[k]
        BY <1>a, <1>4 DEF ApplyHead, ApplyAt, ApplyGo, jobVars, workVars
    <2>2. pc[j] # "head"
        BY <2>1 DEF Phases
    <2> QED BY <2>1, <2>2 DEF Looked
<1>5. ASSUME NEW j \in Jobs, ApplyWrite(j) PROVE Looked'
    <2>1. PICK p \in DOMAIN out[j] :
              /\ tree' = [tree EXCEPT ![p] = out[j][p]]
              /\ out' = Set(out, j, [q \in DOMAIN out[j] \ {p} |-> out[j][q]])
              /\ Touch(j, {p})
        BY <1>a, <1>5 DEF ApplyWrite
    <2>2. p \in Paths
        BY <1>a, <2>1 DEF Patches
    <2>3. /\ \A q \in Paths \ {p} : tree'[q] = tree[q]
          /\ \A k \in Jobs \ {j} : touched'[k] = touched[k] \cup {p}
          /\ touched'[j] = touched[j] /\ tree'[p] = out[j][p]
        BY <1>a, <2>1, <2>2 DEF Touch, Files
    <2>4. /\ UNCHANGED <<headTree, pc, before, changed>> /\ apc[j] = "write"
        BY <1>5 DEF ApplyWrite, ApplyAt, ApplyGo, jobVars, workVars
    <2>5. pc[j] # "head"
        BY <2>4 DEF Phases
    <2> QED BY <1>a, <2>2, <2>3, <2>4, <2>5 DEF Looked
<1>6. ASSUME NEW j \in Jobs, clone_repository(j) \/ run_process(j) \/ GitFails(j) \/
                Die(j)
      PROVE  Looked'
    BY <1>a, <1>6 DEF Looked, clone_repository, run_process, GitFails, Die, repoVars,
        jobVars, procVars, workVars, applyVars
<1>7. ASSUME NEW j \in Jobs, StartScan(j) \/ ReadProcess(j) \/
                terminate_marked_descendants(j)
      PROVE  Looked'
    BY <1>a, <1>7 DEF Looked, StartScan, ReadProcess, terminate_marked_descendants,
        Sweeping, repoVars, jobVars, procVars, workVars, applyVars
<1>8. ASSUME NEW j \in Jobs, Classify(j) \/ PostHead(j) \/ ListTracked(j)
      PROVE  Looked'
    BY <1>a, <1>8 DEF Looked, Classify, PostHead, ListTracked, Report, Work, repoVars,
        jobVars, procVars, workVars, applyVars
<1>9. ASSUME NEW j \in Jobs, ListUntracked(j) \/ AddUntracked(j) \/ DiffAndPersist(j)
      PROVE  Looked'
    BY <1>a, <1>9 DEF Looked, ListUntracked, AddUntracked, DiffAndPersist, Report,
        Work, repoVars, jobVars, procVars, workVars, applyVars
<1>10. ASSUME NEW j \in Jobs, ApplyStatus(j) \/ ApplyCheck(j)
      PROVE  Looked'
    BY <1>a, <1>10 DEF Looked, ApplyStatus, ApplyCheck, ApplyGo, Looks, repoVars,
        jobVars, procVars, workVars, applyVars
<1>11. ASSUME NEW j \in Jobs, ApplyRead(j) \/ BeginApply(j) \/ ApplyCut(j)
      PROVE  Looked'
    BY <1>a, <1>11 DEF Looked, ApplyRead, BeginApply, ApplyCut, ApplyGo, Looks,
        repoVars, jobVars, procVars, workVars, applyVars
<1>12. ASSUME NEW j \in Jobs, Fork(j) \/ Exit(j) \/ WriteClone(j)
      PROVE  Looked'
    BY <1>a, <1>12 DEF Looked, Fork, Exit, WriteClone, Quiet, repoVars, jobVars,
        procVars, workVars, applyVars
<1>13. ASSUME Edit PROVE Looked'
    <2>1. PICK p \in Paths : /\ \A q \in Paths \ {p} : tree'[q] = tree[q]
                           /\ \A k \in Jobs : touched'[k] = touched[k] \cup {p}
        BY <1>a, <1>13 DEF Edit, Files
    <2>2. UNCHANGED <<headTree, pc, before, changed>>
        BY <1>13 DEF Edit, jobVars, workVars
    <2> QED BY <2>1, <2>2 DEF Looked
<1>14. ASSUME Commit PROVE Looked'
    <2>1. headTree' = tree /\ UNCHANGED <<tree, pc, before, changed>>
        BY <1>14 DEF Commit, jobVars, workVars
    <2> QED BY <2>1 DEF Looked
<1>15. ASSUME UNCHANGED vars PROVE Looked'
    BY <1>a, <1>15 DEF Looked, vars, repoVars, jobVars, procVars, workVars, applyVars
<1> QED BY <1>1, <1>2, <1>3, <1>4, <1>5, <1>6, <1>7, <1>8, <1>9, <1>10, <1>11, <1>12,
       <1>13, <1>14, <1>15
    DEF Next, execute_run, execute_apply, Others

\* What is touched after apply has looked is noted
LEMMA NextShown ==
    ASSUME Typed, Phases, Commits, Shown, [Next]_vars
    PROVE  Shown'
<1> USE DEF At, Go, Set
<1>a. /\ pc \in [Jobs -> {"idle"} \cup Running \cup Ended]
      /\ changed \in [Jobs -> SUBSET Paths] /\ touched \in [Jobs -> SUBSET Paths]
      /\ tree \in Files /\ headTree \in Files /\ out \in [Jobs -> Patches]
      /\ before = [j \in Jobs |-> before[j]]
      /\ apc \in [Jobs -> {"idle", "head", "status", "check", "read", "write",
                          "applied", "no_changes", "refused", "cut"}]
      /\ result \in [Jobs -> Results] /\ baseTree \in [Jobs -> Files]
    BY DEF Typed, TypeOK
<1>1. ASSUME NEW j \in Jobs, Start(j) PROVE Shown'
    <2>1. UNCHANGED <<tree, headTree, result, out, apc, touched>> /\ pc[j] = "idle"
          /\ \A k \in Jobs \ {j} : baseTree'[k] = baseTree[k]
        BY <1>a, <1>1 DEF Start, repoVars, workVars, applyVars
    <2>2. apc[j] = "idle"
        BY <2>1 DEF Phases
    <2> QED BY <2>1, <2>2 DEF Shown, Patch
<1>2. ASSUME NEW j \in Jobs, run_process(j) PROVE Shown'
    <2>1. UNCHANGED <<tree, headTree, baseTree, result, out, apc, touched>>
        BY <1>2 DEF run_process, repoVars, applyVars
    <2> QED BY <2>1 DEF Shown, Patch
<1>3. ASSUME NEW j \in Jobs, Classify(j) PROVE Shown'
    <2>1. UNCHANGED <<tree, headTree, baseTree, out, apc>> /\ pc[j] # "done"
          /\ \A k \in Jobs \ {j} : result'[k] = result[k] /\ touched'[k] = touched[k]
        BY <1>a, <1>3 DEF Classify, Work, Report, repoVars, applyVars
    <2>2. apc[j] = "idle"
        BY <2>1 DEF Phases
    <2> QED BY <2>1, <2>2 DEF Shown, Patch
<1>4. ASSUME NEW j \in Jobs, PostStatus(j) PROVE Shown'
    <2>1. UNCHANGED <<tree, headTree, baseTree, out, apc>> /\ pc[j] # "done"
          /\ \A k \in Jobs \ {j} : result'[k] = result[k] /\ touched'[k] = touched[k]
        BY <1>a, <1>4 DEF PostStatus, Work, repoVars, applyVars
    <2>2. apc[j] = "idle"
        BY <2>1 DEF Phases
    <2> QED BY <2>1, <2>2 DEF Shown, Patch
<1>5. ASSUME NEW j \in Jobs, PostHead(j) PROVE Shown'
    <2>1. UNCHANGED <<tree, headTree, baseTree, out, apc>> /\ pc[j] # "done"
          /\ \A k \in Jobs \ {j} : result'[k] = result[k] /\ touched'[k] = touched[k]
        BY <1>a, <1>5 DEF PostHead, Work, Report, repoVars, applyVars
    <2>2. apc[j] = "idle"
        BY <2>1 DEF Phases
    <2> QED BY <2>1, <2>2 DEF Shown, Patch
<1>6. ASSUME NEW j \in Jobs, ListUntracked(j) PROVE Shown'
    <2>1. UNCHANGED <<tree, headTree, baseTree, out, apc>> /\ pc[j] # "done"
          /\ \A k \in Jobs \ {j} : result'[k] = result[k] /\ touched'[k] = touched[k]
        BY <1>a, <1>6 DEF ListUntracked, Work, Report, repoVars, applyVars
    <2>2. apc[j] = "idle"
        BY <2>1 DEF Phases
    <2> QED BY <2>1, <2>2 DEF Shown, Patch
<1>7. ASSUME NEW j \in Jobs, DiffAndPersist(j) PROVE Shown'
    <2>1. UNCHANGED <<tree, headTree, baseTree, out, apc>> /\ pc[j] # "done"
          /\ \A k \in Jobs \ {j} : result'[k] = result[k] /\ touched'[k] = touched[k]
        BY <1>a, <1>7 DEF DiffAndPersist, Work, Report, repoVars, applyVars
    <2>2. apc[j] = "idle"
        BY <2>1 DEF Phases
    <2> QED BY <2>1, <2>2 DEF Shown, Patch
<1>8. ASSUME NEW j \in Jobs, ApplyHead(j) PROVE Shown'
    <2>1. /\ UNCHANGED <<tree, headTree, baseTree, result, out>>
          /\ touched' = [touched EXCEPT ![j] = {}]
          /\ apc' = [apc EXCEPT ![j] = IF head = base[j] THEN "status" ELSE "refused"]
        BY <1>8 DEF ApplyHead, ApplyGo, jobVars, workVars
    <2>2. head = base[j] => headTree = baseTree[j]
        BY DEF Commits
    <2>3. \A k \in Jobs \ {j} : touched'[k] = touched[k] /\ apc'[k] = apc[k]
        BY <1>a, <2>1
    <2> QED BY <1>a, <2>1, <2>2, <2>3 DEF Shown, Patch
<1>9. ASSUME NEW j \in Jobs, ApplyStatus(j) PROVE Shown'
    <2>1. /\ UNCHANGED <<tree, headTree, baseTree, result, out, touched>> /\ apc[j] = "status"
          /\ apc' = [apc EXCEPT ![j] = apc'[j]] /\ apc'[j] \in {"refused", "no_changes", "check"}
          /\ apc'[j] # "refused" => porcelain = NoPatch
        BY <1>a, <1>9 DEF ApplyStatus, ApplyAt, Looks, ApplyGo, jobVars, workVars
    <2> QED BY <1>a, <2>1, CleanIs DEF Shown, Patch
<1>10. ASSUME NEW j \in Jobs, ApplyCheck(j) PROVE Shown'
    <2>1. /\ UNCHANGED <<tree, headTree, baseTree, result, out, touched>> /\ apc[j] = "check"
          /\ apc' = [apc EXCEPT ![j] = apc'[j]] /\ apc'[j] \in {"refused", "read"}
        BY <1>a, <1>10 DEF ApplyCheck, ApplyAt, Looks, ApplyGo, jobVars, workVars
    <2> QED BY <1>a, <2>1 DEF Shown, Patch
<1>11. ASSUME NEW j \in Jobs, ApplyRead(j) PROVE Shown'
    <2>1. CASE ~MustApply(j) /\ Looks(j, "refused")
        BY <1>a, <2>1 DEF Looks, ApplyGo, jobVars, workVars, Shown, Patch
    <2>2. CASE ApplyGo(j, "write")
        <3>1. out' = Set(out, j, [p \in DOMAIN Patch(j) |-> Merged(j, p)]) /\ tree' = tree
              /\ touched' = touched /\ apc[j] = "read"
            BY <1>a, <1>11, <2>2 DEF ApplyRead, ApplyAt, Looks, ApplyGo
        <3>2. UNCHANGED <<headTree, baseTree, result>> /\ apc' = [apc EXCEPT ![j] = "write"]
            BY <2>2 DEF ApplyGo, jobVars, workVars
        <3>3. out'[j] = [p \in DOMAIN Patch(j) |-> Merged(j, p)]
              /\ \A k \in Jobs \ {j} : out'[k] = out[k] /\ apc'[k] = apc[k]
            BY <1>a, <3>1, <3>2
        <3>4. \A p \in Paths \ touched[j] : tree[p] = baseTree[j][p]
            BY <3>1 DEF Shown
        <3>5. \A p \in Paths \ touched[j] :
                  IF p \in DOMAIN out'[j] THEN out'[j][p] = Patch(j)[p]
                  ELSE tree[p] = IF p \in DOMAIN Patch(j) THEN Patch(j)[p] ELSE baseTree[j][p]
            BY <3>3, <3>4 DEF Merged
        <3> QED BY SMTT(30), <1>a, <3>1, <3>2, <3>3, <3>5 DEF Shown, Patch
    <2> QED BY <1>11, <2>1, <2>2 DEF ApplyRead
<1>12. ASSUME NEW j \in Jobs, ApplyWrite(j) PROVE Shown'
    <2>1. PICK p \in DOMAIN out[j] :
              /\ tree' = [tree EXCEPT ![p] = out[j][p]]
              /\ out' = Set(out, j, [q \in DOMAIN out[j] \ {p} |-> out[j][q]])
              /\ Touch(j, {p})
        BY <1>a, <1>12 DEF ApplyWrite
    <2>2. p \in Paths
        BY <1>a, <2>1 DEF Patches
    <2>3. /\ \A q \in Paths \ {p} : tree'[q] = tree[q]
          /\ \A k \in Jobs \ {j} : touched'[k] = touched[k] \cup {p}
          /\ touched'[j] = touched[j] /\ tree'[p] = out[j][p]
        BY <1>a, <2>1, <2>2 DEF Touch, Files
    <2>4. /\ UNCHANGED <<headTree, baseTree, result>> /\ apc[j] = "write"
          /\ apc' = [apc EXCEPT ![j] = apc'[j]] /\ apc'[j] \in {"applied", "write"}
        BY <1>a, <1>12 DEF ApplyWrite, ApplyAt, ApplyGo, jobVars, workVars
    <2>5. /\ DOMAIN out'[j] = DOMAIN out[j] \ {p}
          /\ \A q \in DOMAIN out[j] \ {p} : out'[j][q] = out[j][q]
          /\ \A k \in Jobs \ {j} : out'[k] = out[k]
        BY <1>a, <2>1
    <2>6. ASSUME NEW q \in Paths \ touched[j]
          PROVE  IF q \in DOMAIN out'[j] THEN out'[j][q] = Patch(j)[q]
                 ELSE tree'[q] = IF q \in DOMAIN Patch(j) THEN Patch(j)[q] ELSE baseTree[j][q]
        BY <2>1, <2>3, <2>4, <2>5 DEF Shown
    <2> QED BY <1>a, <2>2, <2>3, <2>4, <2>5, <2>6 DEF Shown, Patch
<1>13. ASSUME NEW j \in Jobs, BeginApply(j) PROVE Shown'
    BY <1>a, <1>13 DEF Shown, Patch, BeginApply, ApplyGo, repoVars, jobVars, procVars,
        workVars, applyVars
<1>14. ASSUME NEW j \in Jobs, ApplyCut(j) PROVE Shown'
    <2>1. /\ UNCHANGED <<tree, headTree, baseTree, result, out, touched>>
          /\ apc' = [apc EXCEPT ![j] = apc'[j]] /\ apc'[j] \in {"refused", "cut"}
        BY <1>a, <1>14 DEF ApplyCut, Looks, ApplyGo, jobVars, workVars
    <2> QED BY <1>a, <2>1 DEF Shown, Patch
<1>15. ASSUME NEW j \in Jobs, FirstStatus(j) \/ clone_repository(j)
      PROVE  Shown'
    BY <1>a, <1>15 DEF Shown, Patch, FirstStatus, clone_repository, repoVars, jobVars,
        procVars, workVars, applyVars
<1>16. ASSUME NEW j \in Jobs, GitFails(j) \/ Die(j)
      PROVE  Shown'
    BY <1>a, <1>16 DEF Shown, Patch, GitFails, Die, repoVars, jobVars, procVars,
        workVars, applyVars
<1>17. ASSUME NEW j \in Jobs, StartScan(j) \/ ReadProcess(j) \/
                terminate_marked_descendants(j)
      PROVE  Shown'
    BY <1>a, <1>17 DEF Shown, Patch, StartScan, ReadProcess,
        terminate_marked_descendants, Sweeping, repoVars, jobVars, procVars, workVars,
        applyVars
<1>18. ASSUME NEW j \in Jobs, ListTracked(j) \/ AddUntracked(j)
      PROVE  Shown'
    BY <1>a, <1>18 DEF Shown, Patch, ListTracked, AddUntracked, Work, repoVars,
        jobVars, procVars, workVars, applyVars
<1>19. ASSUME NEW j \in Jobs, Fork(j) \/ Exit(j) \/ WriteClone(j)
      PROVE  Shown'
    BY <1>a, <1>19 DEF Shown, Patch, Fork, Exit, WriteClone, Quiet, repoVars, jobVars,
        procVars, workVars, applyVars
<1>20. ASSUME Edit PROVE Shown'
    <2>1. PICK p \in Paths : /\ \A q \in Paths \ {p} : tree'[q] = tree[q]
                           /\ \A k \in Jobs : touched'[k] = touched[k] \cup {p}
        BY <1>a, <1>20 DEF Edit, Files
    <2>2. UNCHANGED <<headTree, baseTree, result, out, apc>>
        BY <1>20 DEF Edit, jobVars, workVars, applyVars
    <2> QED BY <2>1, <2>2 DEF Shown, Patch
<1>21. ASSUME Commit PROVE Shown'
    <2>1. headTree' = tree /\ UNCHANGED <<tree, baseTree, result, out, apc>>
        BY <1>21 DEF Commit, jobVars, workVars, applyVars
    <2>2. \A k \in Jobs : touched'[k] = touched[k] \cup {p \in Paths : tree[p] # headTree[p]}
        BY <1>21 DEF Commit
    <2> QED BY <2>1, <2>2 DEF Shown, Patch
<1>22. ASSUME UNCHANGED vars PROVE Shown'
    BY <1>a, <1>22 DEF Shown, Patch, vars,
        repoVars, jobVars, procVars, workVars, applyVars
<1> QED BY <1>1, <1>2, <1>3, <1>4, <1>5, <1>6, <1>7, <1>8, <1>9, <1>10, <1>11, <1>12,
       <1>13, <1>14, <1>15, <1>16, <1>17, <1>18, <1>19, <1>20, <1>21, <1>22
    DEF Next, execute_run, execute_apply, Others

\* Only DiffAndPersist hands a patch over, and it looks at the patch itself
LEMMA NextInScope ==
    ASSUME Typed, Phases, PatchInScope, [Next]_vars
    PROVE  PatchInScope'
<1> USE DEF At, Go, Set
<1>a. /\ pc \in [Jobs -> {"idle"} \cup Running \cup Ended] /\ result \in [Jobs -> Results]
      /\ changed \in [Jobs -> SUBSET Paths]
    BY DEF Typed, TypeOK
<1>1. ASSUME NEW j \in Jobs, Classify(j) PROVE PatchInScope'
    <2>1. /\ mode' = mode /\ \A k \in Jobs \ {j} : result'[k] = result[k]
          /\ result'[j] = result[j] \/ result'[j].status # "completed"
        BY <1>a, <1>1 DEF Classify, Work, Report
    <2> QED BY <2>1 DEF PatchInScope, Patch
<1>2. ASSUME NEW j \in Jobs, PostHead(j) PROVE PatchInScope'
    <2>1. /\ mode' = mode /\ \A k \in Jobs \ {j} : result'[k] = result[k]
          /\ mode[j] = "consult"
        BY <1>a, <1>2 DEF PostHead, Work, Report, Phases
    <2> QED BY <2>1 DEF PatchInScope, Patch
<1>3. ASSUME NEW j \in Jobs, ListUntracked(j) PROVE PatchInScope'
    BY <1>a, <1>3 DEF PatchInScope, Patch, ListUntracked, Report, Work, repoVars,
        jobVars, procVars, workVars, applyVars
<1>4. ASSUME NEW j \in Jobs, DiffAndPersist(j) PROVE PatchInScope'
    <2>1. /\ mode' = mode /\ \A k \in Jobs \ {j} : result'[k] = result[k]
          /\ \/ /\ result'[j] = [status |-> "completed", patch |-> build_patch(j), changed |-> changed[j]]
                /\ DOMAIN build_patch(j) \subseteq Allowed /\ DOMAIN build_patch(j) = changed[j]
             \/ result'[j].status = "scope_violation"
        BY <1>a, <1>4
        DEF DiffAndPersist, Work, Report, path_allowed, patch_target_paths
    <2> QED BY <2>1 DEF PatchInScope, Patch
<1>5. ASSUME NEW j \in Jobs, Start(j) \/ FirstStatus(j) \/ clone_repository(j) \/
                GitFails(j) \/ Die(j)
      PROVE  PatchInScope'
    BY <1>a, <1>5 DEF PatchInScope, Patch, Start, FirstStatus, clone_repository,
        GitFails, Die, repoVars, jobVars, procVars, workVars, applyVars
<1>6. ASSUME NEW j \in Jobs, StartScan(j) \/ ReadProcess(j) \/
                terminate_marked_descendants(j)
      PROVE  PatchInScope'
    BY <1>a, <1>6 DEF PatchInScope, Patch, StartScan, ReadProcess,
        terminate_marked_descendants, Sweeping, repoVars, jobVars, procVars, workVars,
        applyVars
<1>7. ASSUME NEW j \in Jobs, run_process(j) PROVE PatchInScope'
    BY <1>a, <1>7 DEF PatchInScope, Patch, run_process, repoVars, jobVars, procVars,
        workVars, applyVars
<1>8. ASSUME NEW j \in Jobs, PostStatus(j) \/ ListTracked(j) \/ AddUntracked(j)
      PROVE  PatchInScope'
    BY <1>a, <1>8 DEF PatchInScope, Patch, PostStatus, ListTracked, AddUntracked,
        Work, repoVars, jobVars, procVars, workVars, applyVars
<1>9. ASSUME NEW j \in Jobs, ApplyHead(j) \/ ApplyStatus(j) \/ ApplyCheck(j)
      PROVE  PatchInScope'
    BY <1>a, <1>9 DEF PatchInScope, Patch, ApplyHead, ApplyStatus, ApplyCheck,
        ApplyGo, Looks, repoVars, jobVars, procVars, workVars, applyVars
<1>10. ASSUME NEW j \in Jobs, ApplyRead(j) \/ ApplyWrite(j) \/ BeginApply(j) \/
                ApplyCut(j)
      PROVE  PatchInScope'
    BY <1>a, <1>10 DEF PatchInScope, Patch, ApplyRead, ApplyWrite, BeginApply,
        ApplyCut, ApplyGo, Looks, repoVars, jobVars, procVars, workVars, applyVars
<1>11. ASSUME NEW j \in Jobs, Fork(j) \/ Exit(j) \/ WriteClone(j)
      PROVE  PatchInScope'
    BY <1>a, <1>11 DEF PatchInScope, Patch, Fork, Exit, WriteClone, Quiet, repoVars,
        jobVars, procVars, workVars, applyVars
<1>12. ASSUME Edit PROVE PatchInScope'
    BY <1>a, <1>12 DEF PatchInScope, Patch, Edit,
        repoVars, jobVars, procVars, workVars, applyVars
<1>13. ASSUME Commit PROVE PatchInScope'
    BY <1>a, <1>13 DEF PatchInScope, Patch, Commit,
        repoVars, jobVars, procVars, workVars, applyVars
<1>14. ASSUME UNCHANGED vars PROVE PatchInScope'
    BY <1>a, <1>14 DEF PatchInScope, Patch, vars,
        repoVars, jobVars, procVars, workVars, applyVars
<1> QED BY <1>1, <1>2, <1>3, <1>4, <1>5, <1>6, <1>7, <1>8, <1>9, <1>10, <1>11, <1>12,
       <1>13, <1>14
    DEF Next, execute_run, execute_apply, Others

\* The last file that git apply writes completes the tree
LEMMA NextApplied ==
    ASSUME Typed, Phases, Shown, AppliedTree, [Next]_vars
    PROVE  AppliedTree'
<1> USE DEF At, Go, Set
<1>a. /\ pc \in [Jobs -> {"idle"} \cup Running \cup Ended]
      /\ changed \in [Jobs -> SUBSET Paths] /\ touched \in [Jobs -> SUBSET Paths]
      /\ tree \in Files /\ headTree \in Files /\ out \in [Jobs -> Patches]
      /\ before = [j \in Jobs |-> before[j]]
      /\ apc \in [Jobs -> {"idle", "head", "status", "check", "read", "write",
                          "applied", "no_changes", "refused", "cut"}]
      /\ result \in [Jobs -> Results] /\ baseTree \in [Jobs -> Files]
    BY DEF Typed, TypeOK
<1>1. ASSUME NEW j \in Jobs, Start(j) PROVE AppliedTree'
    <2>1. UNCHANGED <<tree, headTree, result, out, apc, touched>> /\ pc[j] = "idle"
          /\ \A k \in Jobs \ {j} : baseTree'[k] = baseTree[k]
        BY <1>a, <1>1 DEF Start, repoVars, workVars, applyVars
    <2>2. apc[j] = "idle"
        BY <2>1 DEF Phases
    <2> QED BY <2>1, <2>2 DEF AppliedTree, Patch
<1>2. ASSUME NEW j \in Jobs, run_process(j) PROVE AppliedTree'
    BY <1>a, <1>2 DEF AppliedTree, Patch, run_process, repoVars, jobVars, procVars,
        workVars, applyVars
<1>3. ASSUME NEW j \in Jobs, Classify(j) PROVE AppliedTree'
    <2>1. UNCHANGED <<tree, headTree, baseTree, out, apc>> /\ pc[j] # "done"
          /\ \A k \in Jobs \ {j} : result'[k] = result[k] /\ touched'[k] = touched[k]
        BY <1>a, <1>3 DEF Classify, Work, Report, repoVars, applyVars
    <2>2. apc[j] = "idle"
        BY <2>1 DEF Phases
    <2> QED BY <2>1, <2>2 DEF AppliedTree, Patch
<1>4. ASSUME NEW j \in Jobs, PostStatus(j) PROVE AppliedTree'
    <2>1. UNCHANGED <<tree, headTree, baseTree, out, apc>> /\ pc[j] # "done"
          /\ \A k \in Jobs \ {j} : result'[k] = result[k] /\ touched'[k] = touched[k]
        BY <1>a, <1>4 DEF PostStatus, Work, repoVars, applyVars
    <2>2. apc[j] = "idle"
        BY <2>1 DEF Phases
    <2> QED BY <2>1, <2>2 DEF AppliedTree, Patch
<1>5. ASSUME NEW j \in Jobs, PostHead(j) PROVE AppliedTree'
    <2>1. UNCHANGED <<tree, headTree, baseTree, out, apc>> /\ pc[j] # "done"
          /\ \A k \in Jobs \ {j} : result'[k] = result[k] /\ touched'[k] = touched[k]
        BY <1>a, <1>5 DEF PostHead, Work, Report, repoVars, applyVars
    <2>2. apc[j] = "idle"
        BY <2>1 DEF Phases
    <2> QED BY <2>1, <2>2 DEF AppliedTree, Patch
<1>6. ASSUME NEW j \in Jobs, ListUntracked(j) PROVE AppliedTree'
    <2>1. UNCHANGED <<tree, headTree, baseTree, out, apc>> /\ pc[j] # "done"
          /\ \A k \in Jobs \ {j} : result'[k] = result[k] /\ touched'[k] = touched[k]
        BY <1>a, <1>6 DEF ListUntracked, Work, Report, repoVars, applyVars
    <2>2. apc[j] = "idle"
        BY <2>1 DEF Phases
    <2> QED BY <2>1, <2>2 DEF AppliedTree, Patch
<1>7. ASSUME NEW j \in Jobs, DiffAndPersist(j) PROVE AppliedTree'
    <2>1. UNCHANGED <<tree, headTree, baseTree, out, apc>> /\ pc[j] # "done"
          /\ \A k \in Jobs \ {j} : result'[k] = result[k] /\ touched'[k] = touched[k]
        BY <1>a, <1>7 DEF DiffAndPersist, Work, Report, repoVars, applyVars
    <2>2. apc[j] = "idle"
        BY <2>1 DEF Phases
    <2> QED BY <2>1, <2>2 DEF AppliedTree, Patch
<1>8. ASSUME NEW j \in Jobs, ApplyHead(j) PROVE AppliedTree'
    <2>1. /\ UNCHANGED <<tree, baseTree, result>> /\ apc'[j] # "applied"
          /\ \A k \in Jobs \ {j} : apc'[k] = apc[k] /\ touched'[k] = touched[k]
        BY <1>a, <1>8 DEF ApplyHead, ApplyGo, jobVars, workVars
    <2> QED BY <2>1 DEF AppliedTree, Patch
<1>9. ASSUME NEW j \in Jobs, ApplyStatus(j) PROVE AppliedTree'
    <2>1. /\ UNCHANGED <<tree, baseTree, result>> /\ apc'[j] # "applied"
          /\ \A k \in Jobs \ {j} : apc'[k] = apc[k] /\ touched'[k] = touched[k]
        BY <1>a, <1>9 DEF ApplyStatus, Looks, ApplyGo, jobVars, workVars
    <2> QED BY <2>1 DEF AppliedTree, Patch
<1>10. ASSUME NEW j \in Jobs, ApplyCheck(j) PROVE AppliedTree'
    <2>1. /\ UNCHANGED <<tree, baseTree, result>> /\ apc'[j] # "applied"
          /\ \A k \in Jobs \ {j} : apc'[k] = apc[k] /\ touched'[k] = touched[k]
        BY <1>a, <1>10 DEF ApplyCheck, Looks, ApplyGo, jobVars, workVars
    <2> QED BY <2>1 DEF AppliedTree, Patch
<1>11. ASSUME NEW j \in Jobs, ApplyRead(j) PROVE AppliedTree'
    <2>1. /\ UNCHANGED <<tree, baseTree, result>> /\ apc'[j] # "applied"
          /\ \A k \in Jobs \ {j} : apc'[k] = apc[k] /\ touched'[k] = touched[k]
        BY <1>a, <1>11 DEF ApplyRead, Looks, ApplyGo, jobVars, workVars
    <2> QED BY <2>1 DEF AppliedTree, Patch
<1>12. ASSUME NEW j \in Jobs, ApplyWrite(j) PROVE AppliedTree'
    <2>1. PICK p \in DOMAIN out[j] :
              /\ tree' = [tree EXCEPT ![p] = out[j][p]]
              /\ out' = Set(out, j, [q \in DOMAIN out[j] \ {p} |-> out[j][q]])
              /\ Touch(j, {p})
        BY <1>a, <1>12 DEF ApplyWrite
    <2>2. p \in Paths
        BY <1>a, <2>1 DEF Patches
    <2>3. /\ \A q \in Paths \ {p} : tree'[q] = tree[q]
          /\ \A k \in Jobs \ {j} : touched'[k] = touched[k] \cup {p}
          /\ touched'[j] = touched[j] /\ tree'[p] = out[j][p]
        BY <1>a, <2>1, <2>2 DEF Touch, Files
    <2>4. /\ UNCHANGED <<baseTree, result>> /\ apc[j] = "write"
          /\ apc' = [apc EXCEPT ![j] = apc'[j]]
          /\ apc'[j] = IF DOMAIN out'[j] = {} THEN "applied" ELSE "write"
        BY <1>a, <1>12 DEF ApplyWrite, ApplyAt, ApplyGo, jobVars, workVars
    <2>5. DOMAIN out'[j] = DOMAIN out[j] \ {p}
        BY <1>a, <2>1
    <2>6. ASSUME apc'[j] = "applied", NEW q \in Paths \ touched[j]
          PROVE  tree'[q] = IF q \in DOMAIN Patch(j) THEN Patch(j)[q] ELSE baseTree[j][q]
        <3>1. DOMAIN out[j] \subseteq {p}
            BY <2>4, <2>5, <2>6
        <3> QED BY <2>1, <2>3, <2>4, <2>6, <3>1 DEF Shown
    <2> QED BY <1>a, <2>2, <2>3, <2>4, <2>6 DEF AppliedTree, Patch
<1>13. ASSUME NEW j \in Jobs, BeginApply(j) PROVE AppliedTree'
    BY <1>a, <1>13 DEF AppliedTree, Patch, BeginApply, ApplyGo, repoVars, jobVars,
        procVars, workVars, applyVars
<1>14. ASSUME NEW j \in Jobs, ApplyCut(j) PROVE AppliedTree'
    <2>1. /\ UNCHANGED <<tree, baseTree, result>> /\ apc'[j] # "applied"
          /\ \A k \in Jobs \ {j} : apc'[k] = apc[k] /\ touched'[k] = touched[k]
        BY <1>a, <1>14 DEF ApplyCut, Looks, ApplyGo, jobVars, workVars
    <2> QED BY <2>1 DEF AppliedTree, Patch
<1>15. ASSUME NEW j \in Jobs, FirstStatus(j) \/ clone_repository(j)
      PROVE  AppliedTree'
    BY <1>a, <1>15 DEF AppliedTree, Patch, FirstStatus, clone_repository, repoVars,
        jobVars, procVars, workVars, applyVars
<1>16. ASSUME NEW j \in Jobs, GitFails(j) \/ Die(j)
      PROVE  AppliedTree'
    BY <1>a, <1>16 DEF AppliedTree, Patch, GitFails, Die, repoVars, jobVars, procVars,
        workVars, applyVars
<1>17. ASSUME NEW j \in Jobs, StartScan(j) \/ ReadProcess(j) \/
                terminate_marked_descendants(j)
      PROVE  AppliedTree'
    BY <1>a, <1>17 DEF AppliedTree, Patch, StartScan, ReadProcess,
        terminate_marked_descendants, Sweeping, repoVars, jobVars, procVars, workVars,
        applyVars
<1>18. ASSUME NEW j \in Jobs, ListTracked(j) \/ AddUntracked(j)
      PROVE  AppliedTree'
    BY <1>a, <1>18 DEF AppliedTree, Patch, ListTracked, AddUntracked, Work, repoVars,
        jobVars, procVars, workVars, applyVars
<1>19. ASSUME NEW j \in Jobs, Fork(j) \/ Exit(j) \/ WriteClone(j)
      PROVE  AppliedTree'
    BY <1>a, <1>19 DEF AppliedTree, Patch, Fork, Exit, WriteClone, Quiet, repoVars,
        jobVars, procVars, workVars, applyVars
<1>20. ASSUME Edit PROVE AppliedTree'
    <2>1. PICK p \in Paths : /\ \A q \in Paths \ {p} : tree'[q] = tree[q]
                           /\ \A k \in Jobs : touched'[k] = touched[k] \cup {p}
        BY <1>a, <1>20 DEF Edit, Files
    <2>2. UNCHANGED <<baseTree, result, apc>>
        BY <1>20 DEF Edit, jobVars, workVars, applyVars
    <2> QED BY <2>1, <2>2 DEF AppliedTree, Patch
<1>21. ASSUME Commit PROVE AppliedTree'
    BY <1>a, <1>21 DEF AppliedTree, Patch, Commit,
        repoVars, jobVars, procVars, workVars, applyVars
<1>22. ASSUME UNCHANGED vars PROVE AppliedTree'
    BY <1>a, <1>22 DEF AppliedTree, Patch, vars,
        repoVars, jobVars, procVars, workVars, applyVars
<1> QED BY <1>1, <1>2, <1>3, <1>4, <1>5, <1>6, <1>7, <1>8, <1>9, <1>10, <1>11, <1>12,
       <1>13, <1>14, <1>15, <1>16, <1>17, <1>18, <1>19, <1>20, <1>21, <1>22
    DEF Next, execute_run, execute_apply, Others

\* A consultation completes at the base, with nothing changed
LEMMA NextConsult ==
    ASSUME Typed, Phases, Commits, Looked, ConsultSeen, [Next]_vars
    PROVE  ConsultSeen'
<1> USE DEF At, Go, Set
<1>a. /\ pc \in [Jobs -> {"idle"} \cup Running \cup Ended]
      /\ changed \in [Jobs -> SUBSET Paths] /\ touched \in [Jobs -> SUBSET Paths]
      /\ tree \in Files /\ headTree \in Files /\ out \in [Jobs -> Patches]
      /\ before = [j \in Jobs |-> before[j]]
      /\ apc \in [Jobs -> {"idle", "head", "status", "check", "read", "write",
                          "applied", "no_changes", "refused", "cut"}]
      /\ result \in [Jobs -> Results] /\ baseTree \in [Jobs -> Files]
      /\ outcome \in [Jobs -> {"completed", "provider_failed", "timed_out", "cancelled",
                              "process_cleanup_failed"}]
    BY DEF Typed, TypeOK
<1>1. ASSUME NEW j \in Jobs, Start(j) PROVE ConsultSeen'
    <2>1. UNCHANGED <<tree, mode, before, touched, result>> /\ pc[j] = "idle"
          /\ \A k \in Jobs \ {j} : baseTree'[k] = baseTree[k]
        BY <1>a, <1>1 DEF Start, repoVars, workVars
    <2>2. result[j].status # "completed"
        BY <2>1 DEF Phases
    <2> QED BY <2>1, <2>2 DEF ConsultSeen
<1>2. ASSUME NEW j \in Jobs, FirstStatus(j) PROVE ConsultSeen'
    <2>1. UNCHANGED <<tree, baseTree, mode, touched, result>> /\ pc[j] = "status"
          /\ \A k \in Jobs \ {j} : before'[k] = before[k]
        BY <1>a, <1>2 DEF FirstStatus, repoVars, workVars
    <2>2. result[j].status # "completed"
        BY <2>1 DEF Phases
    <2> QED BY <2>1, <2>2 DEF ConsultSeen
<1>3. ASSUME NEW j \in Jobs, clone_repository(j) PROVE ConsultSeen'
    BY <1>a, <1>3 DEF ConsultSeen, clone_repository, repoVars, jobVars, procVars,
        workVars, applyVars
<1>4. ASSUME NEW j \in Jobs, run_process(j) PROVE ConsultSeen'
    <2>1. UNCHANGED <<tree, baseTree, result, mode, before, touched>>
        BY <1>4 DEF run_process, repoVars
    <2> QED BY <2>1 DEF ConsultSeen
<1>5. ASSUME NEW j \in Jobs, Classify(j) PROVE ConsultSeen'
    <2>1. /\ UNCHANGED <<tree, baseTree, mode, before, touched>>
          /\ \A k \in Jobs \ {j} : result'[k] = result[k]
          /\ result'[j] = result[j] \/ result'[j].status # "completed"
        BY <1>a, <1>5 DEF Classify, Work, Report, repoVars
    <2> QED BY <2>1 DEF ConsultSeen
<1>6. ASSUME NEW j \in Jobs, PostStatus(j) PROVE ConsultSeen'
    <2>1. UNCHANGED <<tree, baseTree, mode, before, result>> /\ pc[j] = "post"
          /\ \A k \in Jobs \ {j} : touched'[k] = touched[k]
        BY <1>a, <1>6 DEF PostStatus, Work, repoVars
    <2>2. result[j].status # "completed"
        BY <2>1 DEF Phases
    <2> QED BY <2>1, <2>2 DEF ConsultSeen
<1>7. ASSUME NEW j \in Jobs, PostHead(j) PROVE ConsultSeen'
    <2>1. /\ UNCHANGED <<tree, baseTree, mode, before, touched>> /\ pc[j] = "head"
          /\ \A k \in Jobs \ {j} : result'[k] = result[k]
          /\ result'[j].status = "completed" => head = base[j] /\ changed[j] = {}
        BY <1>a, <1>7 DEF PostHead, Work, Report, repoVars
    <2>2. ASSUME result'[j].status = "completed",
                 NEW p \in Paths \ (DOMAIN before[j] \cup touched[j])
          PROVE  tree[p] = baseTree[j][p]
        <3>1. headTree = baseTree[j]
            BY <2>1, <2>2 DEF Commits
        <3>2. tree[p] = headTree[p]
            BY <2>1, <2>2 DEF Looked
        <3> QED BY <3>1, <3>2
    <2> QED BY <2>1, <2>2 DEF ConsultSeen
<1>8. ASSUME NEW j \in Jobs, ListUntracked(j) PROVE ConsultSeen'
    <2>1. /\ UNCHANGED <<tree, baseTree, mode, before, touched>>
          /\ \A k \in Jobs \ {j} : result'[k] = result[k]
          /\ result'[j] = result[j] \/ result'[j].status # "completed"
        BY <1>a, <1>8 DEF ListUntracked, Work, Report, repoVars
    <2> QED BY <2>1 DEF ConsultSeen
<1>9. ASSUME NEW j \in Jobs, DiffAndPersist(j) PROVE ConsultSeen'
    <2>1. /\ UNCHANGED <<tree, baseTree, mode, before, touched>> /\ mode[j] = "delegate"
          /\ \A k \in Jobs \ {j} : result'[k] = result[k]
        BY <1>a, <1>9 DEF DiffAndPersist, Work, Report, repoVars, Phases
    <2> QED BY <2>1 DEF ConsultSeen
<1>10. ASSUME NEW j \in Jobs, ApplyHead(j) PROVE ConsultSeen'
    <2>1. /\ UNCHANGED <<tree, baseTree, result, mode, before>> /\ apc[j] = "head"
          /\ \A k \in Jobs \ {j} : touched'[k] = touched[k]
        BY <1>a, <1>10 DEF ApplyHead, ApplyAt, ApplyGo, jobVars, workVars
    <2>2. mode[j] = "delegate"
        BY <2>1 DEF Phases
    <2> QED BY <2>1, <2>2 DEF ConsultSeen
<1>11. ASSUME NEW j \in Jobs, ApplyWrite(j) PROVE ConsultSeen'
    <2>1. PICK p \in DOMAIN out[j] :
              /\ tree' = [tree EXCEPT ![p] = out[j][p]]
              /\ out' = Set(out, j, [q \in DOMAIN out[j] \ {p} |-> out[j][q]])
              /\ Touch(j, {p})
        BY <1>a, <1>11 DEF ApplyWrite
    <2>2. p \in Paths
        BY <1>a, <2>1 DEF Patches
    <2>3. /\ \A q \in Paths \ {p} : tree'[q] = tree[q]
          /\ \A k \in Jobs \ {j} : touched'[k] = touched[k] \cup {p}
          /\ touched'[j] = touched[j] /\ tree'[p] = out[j][p]
        BY <1>a, <2>1, <2>2 DEF Touch, Files
    <2>4. UNCHANGED <<baseTree, result, mode, before>> /\ apc[j] = "write"
        BY <1>11 DEF ApplyWrite, ApplyAt, ApplyGo, jobVars, workVars
    <2>5. mode[j] = "delegate"
        BY <2>4 DEF Phases
    <2> QED BY <2>2, <2>3, <2>4, <2>5 DEF ConsultSeen
<1>12. ASSUME NEW j \in Jobs, GitFails(j) \/ Die(j)
      PROVE  ConsultSeen'
    BY <1>a, <1>12 DEF ConsultSeen, GitFails, Die, repoVars, jobVars, procVars,
        workVars, applyVars
<1>13. ASSUME NEW j \in Jobs, StartScan(j) \/ ReadProcess(j) \/
                terminate_marked_descendants(j)
      PROVE  ConsultSeen'
    BY <1>a, <1>13 DEF ConsultSeen, StartScan, ReadProcess,
        terminate_marked_descendants, Sweeping, repoVars, jobVars, procVars, workVars,
        applyVars
<1>14. ASSUME NEW j \in Jobs, ListTracked(j) \/ AddUntracked(j)
      PROVE  ConsultSeen'
    BY <1>a, <1>14 DEF ConsultSeen, ListTracked, AddUntracked, Work, repoVars,
        jobVars, procVars, workVars, applyVars
<1>15. ASSUME NEW j \in Jobs, ApplyStatus(j) \/ ApplyCheck(j)
      PROVE  ConsultSeen'
    BY <1>a, <1>15 DEF ConsultSeen, ApplyStatus, ApplyCheck, ApplyGo, Looks, repoVars,
        jobVars, procVars, workVars, applyVars
<1>16. ASSUME NEW j \in Jobs, ApplyRead(j) \/ BeginApply(j) \/ ApplyCut(j)
      PROVE  ConsultSeen'
    BY <1>a, <1>16 DEF ConsultSeen, ApplyRead, BeginApply, ApplyCut, ApplyGo, Looks,
        repoVars, jobVars, procVars, workVars, applyVars
<1>17. ASSUME NEW j \in Jobs, Fork(j) \/ Exit(j) \/ WriteClone(j)
      PROVE  ConsultSeen'
    BY <1>a, <1>17 DEF ConsultSeen, Fork, Exit, WriteClone, Quiet, repoVars, jobVars,
        procVars, workVars, applyVars
<1>18. ASSUME Edit PROVE ConsultSeen'
    <2>1. PICK p \in Paths : /\ \A q \in Paths \ {p} : tree'[q] = tree[q]
                           /\ \A k \in Jobs : touched'[k] = touched[k] \cup {p}
        BY <1>a, <1>18 DEF Edit, Files
    <2>2. UNCHANGED <<baseTree, result, mode, before>>
        BY <1>18 DEF Edit, jobVars, workVars
    <2> QED BY <2>1, <2>2 DEF ConsultSeen
<1>19. ASSUME Commit PROVE ConsultSeen'
    BY <1>a, <1>19 DEF ConsultSeen, Commit,
        repoVars, jobVars, procVars, workVars, applyVars
<1>20. ASSUME UNCHANGED vars PROVE ConsultSeen'
    BY <1>a, <1>20 DEF ConsultSeen, vars,
        repoVars, jobVars, procVars, workVars, applyVars
<1> QED BY <1>1, <1>2, <1>3, <1>4, <1>5, <1>6, <1>7, <1>8, <1>9, <1>10, <1>11, <1>12,
       <1>13, <1>14, <1>15, <1>16, <1>17, <1>18, <1>19, <1>20
    DEF Next, execute_run, execute_apply, Others

\* A scan that has found nothing has missed only what was handed over
LEMMA NextSurvivors ==
    ASSUME Typed, Phases, Chased, SurvivorsHandedOver, [Next]_vars
    PROVE  SurvivorsHandedOver'
<1> USE DEF At, Go, Set
<1>a. /\ pc \in [Jobs -> {"idle"} \cup Running \cup Ended]
      /\ procs \in [Jobs -> [Pids -> {"none", "group", "detached"}]]
      /\ sweep \in [Jobs -> [left : 0 .. PROCESS_SWEEP_ATTEMPTS, next : 1 .. MaxPid + 1,
                            found : SUBSET Pids]]
      /\ handed \in [Jobs -> BOOLEAN] /\ outcome \in [Jobs -> {"completed",
             "provider_failed", "timed_out", "cancelled", "process_cleanup_failed"}]
    BY DEF Typed, TypeOK
<1>1. ASSUME NEW j \in Jobs, Start(j) PROVE SurvivorsHandedOver'
    <2>1. UNCHANGED <<outcome, handed, procs>> /\ Alive(j) = {}
          /\ \A k \in Jobs \ {j} : pc'[k] = pc[k]
        BY <1>a, <1>1 DEF Start, procVars, Phases
    <2> QED BY <2>1 DEF SurvivorsHandedOver, Alive
<1>2. ASSUME NEW j \in Jobs, FirstStatus(j) PROVE SurvivorsHandedOver'
    <2>1. /\ UNCHANGED <<outcome, handed, procs>>
          /\ pc' = [pc EXCEPT ![j] = pc'[j]]
          /\ pc'[j] \in {"provider", "clone", "dead"} \/ (pc'[j] = "failed" /\ Alive(j) = {})
        BY <1>a, <1>2 DEF FirstStatus, procVars, Phases
    <2>2. \A k \in Jobs : Alive(k)' = Alive(k)
        BY <2>1 DEF Alive
    <2> QED BY <1>a, <2>1, <2>2 DEF SurvivorsHandedOver
<1>3. ASSUME NEW j \in Jobs, clone_repository(j) PROVE SurvivorsHandedOver'
    <2>1. /\ UNCHANGED <<outcome, handed, procs>>
          /\ pc' = [pc EXCEPT ![j] = pc'[j]]
          /\ pc'[j] \in {"provider", "clone", "dead"} \/ (pc'[j] = "failed" /\ Alive(j) = {})
        BY <1>a, <1>3 DEF clone_repository, procVars, Phases
    <2>2. \A k \in Jobs : Alive(k)' = Alive(k)
        BY <2>1 DEF Alive
    <2> QED BY <1>a, <2>1, <2>2 DEF SurvivorsHandedOver
<1>4. ASSUME NEW j \in Jobs, run_process(j) PROVE SurvivorsHandedOver'
    <2>1. /\ pc' = [pc EXCEPT ![j] = "sweep"] /\ handed' = handed
          /\ \A k \in Jobs \ {j} : outcome'[k] = outcome[k] /\ Alive(k)' = Alive(k)
        BY <1>a, <1>4 DEF run_process, Alive
    <2> QED BY <1>a, <2>1 DEF SurvivorsHandedOver
<1>5. ASSUME NEW j \in Jobs, StartScan(j) PROVE SurvivorsHandedOver'
    <2>1. /\ pc' = [pc EXCEPT ![j] = "scan"] /\ UNCHANGED <<outcome, procs>>
          /\ \A k \in Jobs \ {j} : handed'[k] = handed[k]
        BY <1>a, <1>5 DEF StartScan
    <2> QED BY <1>a, <2>1 DEF SurvivorsHandedOver, Alive
<1>6. ASSUME NEW j \in Jobs, ReadProcess(j) PROVE SurvivorsHandedOver'
    <2>1. UNCHANGED <<pc, procs, outcome, handed>>
        BY <1>6 DEF ReadProcess
    <2> QED BY <2>1 DEF SurvivorsHandedOver, Alive
<1>7. ASSUME NEW j \in Jobs, terminate_marked_descendants(j) PROVE SurvivorsHandedOver'
    <2>1. pc[j] = "scan" /\ ~(sweep[j].next <= MaxPid) /\ sweep[j].next \in Nat /\ handed' = handed
        BY <1>a, <1>7, BridgeAssumption DEF terminate_marked_descendants
    <2>2. /\ \A k \in Jobs \ {j} : pc'[k] = pc[k] /\ outcome'[k] = outcome[k]
          /\ \A k \in Jobs : Alive(k)' \subseteq Alive(k)
        <3>1. \A k \in Jobs \ {j} : pc'[k] = pc[k] /\ outcome'[k] = outcome[k]
            BY <1>a, <1>7 DEF terminate_marked_descendants
        <3>2. \/ procs' = procs
              \/ procs' = [procs EXCEPT ![j] =
                              [p \in Pids |-> IF p \in sweep[j].found THEN "none" ELSE procs[j][p]]]
            BY <1>7 DEF terminate_marked_descendants
        <3>3. ProcsOK
            BY <1>a DEF ProcsOK
        <3>4. \A k \in Jobs : \A p \in Pids : procs'[k][p] # "none" => procs[k][p] # "none"
            BY <3>2, <3>3 DEF ProcsOK
        <3> QED BY <3>1, <3>4 DEF Alive
    <2>3. \/ sweep[j].found = {}
          \/ pc'[j] = "sweep"
          \/ outcome'[j] \in {"process_cleanup_failed", "cancelled"}
        BY <1>a, <1>7 DEF terminate_marked_descendants
    <2>4. ASSUME sweep[j].found = {}, Alive(j) # {} PROVE handed[j]
        <3>1. PICK p \in Alive(j) : TRUE
            BY <2>4
        <3>2. \A q \in Alive(j) : q \in Nat /\ q <= MaxPid
            BY BridgeAssumption DEF Alive, Pids
        <3>3. p < sweep[j].next /\ \A q \in Alive(j) : ~(q >= sweep[j].next)
            BY <2>1, <3>1, <3>2, BridgeAssumption
        <3> QED BY <1>a, <2>1, <2>4, <3>1, <3>3 DEF Chased
    <2> QED BY <2>1, <2>2, <2>3, <2>4 DEF SurvivorsHandedOver
<1>8. ASSUME NEW j \in Jobs, Classify(j) PROVE SurvivorsHandedOver'
    <2>1. /\ UNCHANGED <<outcome, handed, procs>>
          /\ \A k \in Jobs \ {j} : pc'[k] = pc[k]
          /\ pc[j] \in {"classify", "post", "head", "tracked", "untracked", "add", "diff"}
        BY <1>a, <1>8 DEF Classify, Work, Report, procVars
    <2>2. \A k \in Jobs : Alive(k)' = Alive(k)
        BY <2>1 DEF Alive
    <2>3. /\ pc[j] \notin {"idle", "status", "clone", "provider", "sweep", "scan", "dead"}
          /\ UNCHANGED <<outcome, handed>>
        BY <2>1
    <2> QED BY <2>1, <2>2, <2>3 DEF SurvivorsHandedOver
<1>9. ASSUME NEW j \in Jobs, PostStatus(j) PROVE SurvivorsHandedOver'
    <2>1. /\ UNCHANGED <<outcome, handed, procs>>
          /\ \A k \in Jobs \ {j} : pc'[k] = pc[k]
          /\ pc[j] \in {"classify", "post", "head", "tracked", "untracked", "add", "diff"}
        BY <1>a, <1>9 DEF PostStatus, Work, procVars
    <2>2. \A k \in Jobs : Alive(k)' = Alive(k)
        BY <2>1 DEF Alive
    <2>3. /\ pc[j] \notin {"idle", "status", "clone", "provider", "sweep", "scan", "dead"}
          /\ UNCHANGED <<outcome, handed>>
        BY <2>1
    <2> QED BY <2>1, <2>2, <2>3 DEF SurvivorsHandedOver
<1>10. ASSUME NEW j \in Jobs, PostHead(j) PROVE SurvivorsHandedOver'
    <2>1. /\ UNCHANGED <<outcome, handed, procs>>
          /\ \A k \in Jobs \ {j} : pc'[k] = pc[k]
          /\ pc[j] \in {"classify", "post", "head", "tracked", "untracked", "add", "diff"}
        BY <1>a, <1>10 DEF PostHead, Work, Report, procVars
    <2>2. \A k \in Jobs : Alive(k)' = Alive(k)
        BY <2>1 DEF Alive
    <2>3. /\ pc[j] \notin {"idle", "status", "clone", "provider", "sweep", "scan", "dead"}
          /\ UNCHANGED <<outcome, handed>>
        BY <2>1
    <2> QED BY <2>1, <2>2, <2>3 DEF SurvivorsHandedOver
<1>11. ASSUME NEW j \in Jobs, ListTracked(j) PROVE SurvivorsHandedOver'
    <2>1. /\ UNCHANGED <<outcome, handed, procs>>
          /\ \A k \in Jobs \ {j} : pc'[k] = pc[k]
          /\ pc[j] \in {"classify", "post", "head", "tracked", "untracked", "add", "diff"}
        BY <1>a, <1>11 DEF ListTracked, Work, procVars
    <2>2. \A k \in Jobs : Alive(k)' = Alive(k)
        BY <2>1 DEF Alive
    <2>3. /\ pc[j] \notin {"idle", "status", "clone", "provider", "sweep", "scan", "dead"}
          /\ UNCHANGED <<outcome, handed>>
        BY <2>1
    <2> QED BY <2>1, <2>2, <2>3 DEF SurvivorsHandedOver
<1>12. ASSUME NEW j \in Jobs, ListUntracked(j) PROVE SurvivorsHandedOver'
    <2>1. /\ UNCHANGED <<outcome, handed, procs>>
          /\ \A k \in Jobs \ {j} : pc'[k] = pc[k]
          /\ pc[j] \in {"classify", "post", "head", "tracked", "untracked", "add", "diff"}
        BY <1>a, <1>12 DEF ListUntracked, Work, Report, procVars
    <2>2. \A k \in Jobs : Alive(k)' = Alive(k)
        BY <2>1 DEF Alive
    <2>3. /\ pc[j] \notin {"idle", "status", "clone", "provider", "sweep", "scan", "dead"}
          /\ UNCHANGED <<outcome, handed>>
        BY <2>1
    <2> QED BY <2>1, <2>2, <2>3 DEF SurvivorsHandedOver
<1>13. ASSUME NEW j \in Jobs, AddUntracked(j) PROVE SurvivorsHandedOver'
    <2>1. /\ UNCHANGED <<outcome, handed, procs>>
          /\ \A k \in Jobs \ {j} : pc'[k] = pc[k]
          /\ pc[j] \in {"classify", "post", "head", "tracked", "untracked", "add", "diff"}
        BY <1>a, <1>13 DEF AddUntracked, Work, procVars
    <2>2. \A k \in Jobs : Alive(k)' = Alive(k)
        BY <2>1 DEF Alive
    <2>3. /\ pc[j] \notin {"idle", "status", "clone", "provider", "sweep", "scan", "dead"}
          /\ UNCHANGED <<outcome, handed>>
        BY <2>1
    <2> QED BY <2>1, <2>2, <2>3 DEF SurvivorsHandedOver
<1>14. ASSUME NEW j \in Jobs, DiffAndPersist(j) PROVE SurvivorsHandedOver'
    <2>1. /\ UNCHANGED <<outcome, handed, procs>>
          /\ \A k \in Jobs \ {j} : pc'[k] = pc[k]
          /\ pc[j] \in {"classify", "post", "head", "tracked", "untracked", "add", "diff"}
        BY <1>a, <1>14 DEF DiffAndPersist, Work, Report, procVars
    <2>2. \A k \in Jobs : Alive(k)' = Alive(k)
        BY <2>1 DEF Alive
    <2>3. /\ pc[j] \notin {"idle", "status", "clone", "provider", "sweep", "scan", "dead"}
          /\ UNCHANGED <<outcome, handed>>
        BY <2>1
    <2> QED BY <2>1, <2>2, <2>3 DEF SurvivorsHandedOver
<1>15. ASSUME NEW j \in Jobs, GitFails(j) PROVE SurvivorsHandedOver'
    <2>1. UNCHANGED <<outcome, handed, procs>>
          /\ \A k \in Jobs \ {j} : pc'[k] = pc[k]
        BY <1>a, <1>15 DEF GitFails, procVars
    <2>2. Alive(j) = {} \/ pc[j] \in {"post", "head", "tracked", "untracked", "add", "diff"}
        BY <1>15 DEF GitFails, Phases
    <2> QED BY <2>1, <2>2 DEF SurvivorsHandedOver, Alive
<1>16. ASSUME NEW j \in Jobs, Die(j) PROVE SurvivorsHandedOver'
    <2>1. /\ UNCHANGED <<outcome, handed, procs>>
          /\ pc' = [pc EXCEPT ![j] = pc'[j]]
          /\ pc'[j] \in {"provider", "clone", "dead"} \/ (pc'[j] = "failed" /\ Alive(j) = {})
        BY <1>a, <1>16 DEF Die, procVars
    <2>2. \A k \in Jobs : Alive(k)' = Alive(k)
        BY <2>1 DEF Alive
    <2> QED BY <1>a, <2>1, <2>2 DEF SurvivorsHandedOver
<1>17. ASSUME NEW j \in Jobs, Fork(j) PROVE SurvivorsHandedOver'
    <2>1. UNCHANGED <<pc, outcome, handed>> /\ pc[j] \in {"provider", "sweep", "scan"}
          /\ \A k \in Jobs \ {j} : Alive(k)' = Alive(k)
        BY <1>a, <1>17 DEF Fork, Quiet, Alive
    <2> QED BY <2>1 DEF SurvivorsHandedOver
<1>18. ASSUME NEW j \in Jobs, Exit(j) PROVE SurvivorsHandedOver'
    <2>1. UNCHANGED <<pc, outcome>> /\ \A k \in Jobs : handed[k] => handed'[k]
        BY <1>a, <1>18 DEF Exit, Quiet
    <2>2. \A k \in Jobs : Alive(k)' \subseteq Alive(k)
        BY <1>a, <1>18 DEF Exit, Alive
    <2> QED BY <2>1, <2>2 DEF SurvivorsHandedOver
<1>19. ASSUME NEW j \in Jobs, WriteClone(j) PROVE SurvivorsHandedOver'
    <2>1. UNCHANGED <<pc, outcome, handed, procs>>
        BY <1>19 DEF WriteClone, Quiet
    <2> QED BY <2>1 DEF SurvivorsHandedOver, Alive
<1>20. ASSUME NEW j \in Jobs, ApplyHead(j) \/ ApplyStatus(j) \/ ApplyCheck(j)
      PROVE  SurvivorsHandedOver'
    BY <1>a, <1>20 DEF SurvivorsHandedOver, Alive, ApplyHead, ApplyStatus, ApplyCheck,
        ApplyGo, Looks, repoVars, jobVars, procVars, workVars, applyVars
<1>21. ASSUME NEW j \in Jobs, ApplyRead(j) \/ ApplyWrite(j) \/ BeginApply(j) \/
                ApplyCut(j)
      PROVE  SurvivorsHandedOver'
    BY <1>a, <1>21 DEF SurvivorsHandedOver, Alive, ApplyRead, ApplyWrite, BeginApply,
        ApplyCut, ApplyGo, Looks, repoVars, jobVars, procVars, workVars, applyVars
<1>22. ASSUME Edit PROVE SurvivorsHandedOver'
    BY <1>a, <1>22 DEF SurvivorsHandedOver, Alive, Edit,
        repoVars, jobVars, procVars, workVars, applyVars
<1>23. ASSUME Commit PROVE SurvivorsHandedOver'
    BY <1>a, <1>23 DEF SurvivorsHandedOver, Alive, Commit,
        repoVars, jobVars, procVars, workVars, applyVars
<1>24. ASSUME UNCHANGED vars PROVE SurvivorsHandedOver'
    BY <1>a, <1>24 DEF SurvivorsHandedOver, Alive, vars,
        repoVars, jobVars, procVars, workVars, applyVars
<1> QED BY <1>1, <1>2, <1>3, <1>4, <1>5, <1>6, <1>7, <1>8, <1>9, <1>10, <1>11, <1>12,
       <1>13, <1>14, <1>15, <1>16, <1>17, <1>18, <1>19, <1>20, <1>21, <1>22, <1>23,
       <1>24
    DEF Next, execute_run, execute_apply, Others

\* The inductive invariant
BridgeInv == /\ Typed /\ Phases /\ Commits /\ Chased /\ Looked /\ Shown
             /\ SurvivorsHandedOver /\ PatchInScope /\ AppliedTree /\ ConsultSeen

\* The invariant holds at first
LEMMA InitInv == ASSUME Init PROVE BridgeInv
<1>1. Typed
    BY InitTyped
<1>2. \A j \in Jobs : /\ pc[j] = "idle" /\ apc[j] = "idle" /\ result[j].status = "none"
                     /\ base[j] = head /\ baseTree[j] = headTree /\ head \in Nat
                     /\ Alive(j) = {}
    BY DEF Init, NoResult, Alive
<1> QED BY <1>1, <1>2 DEF BridgeInv, Phases, Commits, Chased, Looked, Shown,
                          SurvivorsHandedOver, PatchInScope, AppliedTree, ConsultSeen

\* and is kept by every step
LEMMA NextInv == ASSUME BridgeInv, [Next]_vars PROVE BridgeInv'
BY NextTyped, NextPhases, NextCommits, NextChased, NextLooked, NextShown, NextInScope,
   NextApplied, NextConsult, NextSurvivors DEF BridgeInv

\* so it always holds
LEMMA Inductive == Spec => []BridgeInv
BY InitInv, NextInv, PTL DEF Spec

\* What a delegation hands over as a patch (patch_scope_problem, persist_result)
\* stays in scope whatever survivors of the provider write meanwhile
THEOREM PatchesInScope == Spec => []PatchInScope
<1>1. BridgeInv => PatchInScope
    BY DEF BridgeInv
<1> QED BY <1>1, Inductive, PTL

\* An apply that reports "applied" (execute_apply) has made the base with the
\* patch, but for what others have changed since it looked
THEOREM AppliedTreeIsBaseWithPatch == Spec => []AppliedTree
<1>1. BridgeInv => AppliedTree
    BY DEF BridgeInv
<1> QED BY <1>1, Inductive, PTL

\* A consultation that reports "completed" has changed no file that was clean
\* (the two calls of git status and the comparison in execute_run)
THEOREM ConsultationsAreSeen == Spec => []ConsultSeen
<1>1. BridgeInv => ConsultSeen
    BY DEF BridgeInv
<1> QED BY <1>1, Inductive, PTL

\* Repeating the scan of /proc (terminate_marked_descendants) misses a process
\* only when one of its forkers has ended during the scan
THEOREM SurvivorsWereHandedOver == Spec => []SurvivorsHandedOver
<1>1. BridgeInv => SurvivorsHandedOver
    BY DEF BridgeInv
<1> QED BY <1>1, Inductive, PTL

-----------------------------------------------------------------------------
(* Numbers and folds *)

\* A set of numbers with 0 and with every successor has all of them
LEMMA Counted ==
    ASSUME NEW T, 0 \in T, \A n \in Nat : n \in T => n + 1 \in T
    PROVE  Nat \subseteq T
<1> DEFINE Bad == Nat \ T
<1> SUFFICES ASSUME Bad # {} PROVE FALSE
    OBVIOUS
<1>1. IsWellFoundedOn(OpToRel(<, Nat), Nat)
    BY NatLessThanWellFounded
<1>2. PICK n \in Bad : \A m \in Bad : ~(<<m, n>> \in OpToRel(<, Nat))
    BY <1>1, WFMin
<1>3. \A m \in Bad : ~(m < n)
    BY <1>2 DEF OpToRel
<1>4. n \in Nat /\ n # 0 /\ n - 1 \in Nat
    OBVIOUS
<1>5. n - 1 \in T
    BY <1>3, <1>4
<1> QED BY <1>4, <1>5

\* The least and the greatest of some positions
LEMMA LeastOf ==
    ASSUME NEW S, S \subseteq Nat, S # {}
    PROVE  Min(S) \in S /\ \A m \in S : Min(S) <= m
<1>1. IsWellFoundedOn(OpToRel(<, Nat), Nat)
    BY NatLessThanWellFounded
<1>2. PICK n \in S : \A m \in S : ~(<<m, n>> \in OpToRel(<, Nat))
    BY <1>1, WFMin
<1>3. \A m \in S : ~(m < n)
    BY <1>2 DEF OpToRel
<1>4. \A m \in S : n <= m
    BY <1>3
<1> QED BY <1>4 DEF Min

LEMMA GreatestOf ==
    ASSUME NEW n \in Nat, NEW S, S \subseteq 1 .. n, S # {}
    PROVE  Max(S) \in S /\ \A m \in S : Max(S) >= m
<1> DEFINE Rev == {n - m : m \in S}
<1>1. \A m \in S : n - m \in Nat
    OBVIOUS
<1>a. Rev \subseteq Nat /\ Rev # {}
    BY <1>1
<1>2. PICK m \in S : n - m = Min(Rev)
    BY <1>a, LeastOf
<1>3. \A k \in S : m >= k
    <2> SUFFICES ASSUME NEW k \in S PROVE m >= k
        OBVIOUS
    <2>1. n - m <= n - k
        BY <1>a, <1>2, LeastOf
    <2>2. m \in 1 .. n /\ k \in 1 .. n
        OBVIOUS
    <2> QED BY <2>1, <2>2
<1> QED BY <1>3 DEF Max

LEMMA GreatestUpTo ==
    ASSUME NEW n \in Nat, n # 0
    PROVE  Max(1 .. n) = n /\ (1 .. n) \ {n} = 1 .. (n - 1)
<1>1. Max(1 .. n) \in 1 .. n /\ \A m \in 1 .. n : Max(1 .. n) >= m
    BY GreatestOf
<1> QED BY <1>1

\* What FoldLeft looks up for the positions 1 .. n, if a step is a function of values and positions
Folded(g, n, zero, step) ==
    g = [s \in SUBSET (1 .. n) |-> IF s = {} THEN zero ELSE step[<<g[s \ {Max(s)}], Max(s)>>]]

LEMMA FoldExists ==
    ASSUME NEW S, NEW n \in Nat, NEW zero \in S, NEW step \in [S \X (1 .. n) -> S]
    PROVE  \E g \in [SUBSET (1 .. n) -> S] : Folded(g, n, zero, step)
<1> DEFINE Reached(k) == \E g \in [SUBSET (1 .. k) -> S] : Folded(g, k, zero, step)
           Good == {k \in Nat : k <= n => Reached(k)}
<1>1. 0 \in Good
    <2> DEFINE g == [s \in SUBSET (1 .. 0) |-> zero]
    <2>1. g \in [SUBSET (1 .. 0) -> S]
        OBVIOUS
    <2>2. \A s \in SUBSET (1 .. 0) : s = {}
        OBVIOUS
    <2>3. Folded(g, 0, zero, step)
        BY <2>1, <2>2 DEF Folded
    <2> HIDE DEF g
    <2>4. Reached(0)
        BY <2>1, <2>3
    <2> QED BY <2>4
<1>2. ASSUME NEW k \in Nat, k \in Good PROVE k + 1 \in Good
    <2>a. k + 1 \in Nat /\ (k + 1 <= n => k <= n)
        OBVIOUS
    <2> HIDE DEF Reached
    <2> SUFFICES ASSUME k + 1 <= n PROVE Reached(k + 1)
        BY <2>a
    <2>b. Reached(k)
        BY <1>2, <2>a
    <2>1. PICK h \in [SUBSET (1 .. k) -> S] : Folded(h, k, zero, step)
        BY <2>b DEF Reached
    <2> DEFINE g == [s \in SUBSET (1 .. k + 1) |->
                        IF s = {} THEN zero ELSE step[<<h[s \ {Max(s)}], Max(s)>>]]
    <2>2. ASSUME NEW s \in SUBSET (1 .. k + 1), s # {}
          PROVE  Max(s) \in s /\ s \ {Max(s)} \in SUBSET (1 .. k)
        <3>1. Max(s) \in s /\ \A m \in s : Max(s) >= m
            BY <2>2, <2>a, GreatestOf
        <3>2. Max(s) \in 1 .. (k + 1)
            BY <3>1
        <3>3. ASSUME NEW m \in s \ {Max(s)} PROVE m \in 1 .. k
            <4>1. m \in 1 .. (k + 1) /\ Max(s) >= m /\ m # Max(s)
                BY <3>1
            <4> QED BY <3>2, <4>1
        <3> QED BY <3>1, <3>3
    <2>3. g \in [SUBSET (1 .. k + 1) -> S]
        <3> SUFFICES ASSUME NEW s \in SUBSET (1 .. k + 1), s # {} 
                     PROVE step[<<h[s \ {Max(s)}], Max(s)>>] \in S
            OBVIOUS
        <3>1. Max(s) \in s /\ s \ {Max(s)} \in SUBSET (1 .. k)
            BY <2>2
        <3>2. Max(s) \in 1 .. k + 1
            BY <3>1
        <3>a. Max(s) \in 1 .. n
            BY <2>a, <3>2
        <3>3. h[s \ {Max(s)}] \in S /\ Max(s) \in 1 .. n
            BY <3>1, <3>a
        <3> QED BY <3>3
    <2>4. ASSUME NEW s \in SUBSET (1 .. k) PROVE g[s] = h[s]
        <3>1. 1 .. k \subseteq 1 .. (k + 1)
            BY <2>a
        <3>2. h[s] = IF s = {} THEN zero ELSE step[<<h[s \ {Max(s)}], Max(s)>>]
            BY <2>1 DEF Folded
        <3>3. s \in SUBSET (1 .. k + 1)
            BY <3>1
        <3> QED BY <3>2, <3>3
    <2>5. ASSUME NEW s \in SUBSET (1 .. k + 1)
          PROVE  g[s] = IF s = {} THEN zero ELSE step[<<g[s \ {Max(s)}], Max(s)>>]
        <3>1. CASE s = {}
            BY <3>1
        <3>2. CASE s # {}
            <4>1. g[s \ {Max(s)}] = h[s \ {Max(s)}]
                BY <2>2, <2>4, <3>2
            <4> QED BY <3>2, <4>1
        <3> QED BY <3>1, <3>2
    <2>6. Folded(g, k + 1, zero, step)
        BY <2>5 DEF Folded
    <2> HIDE DEF g
    <2> QED BY <2>3, <2>6 DEF Reached
<1> HIDE DEF Good
<1>3. Nat \subseteq Good
    BY <1>1, <1>2, Counted
<1>4. n \in Good
    BY <1>3
<1> HIDE DEF Reached
<1>5. n <= n => Reached(n)
    BY <1>4 DEF Good
<1>6. Reached(n)
    BY <1>5
<1> QED BY <1>6 DEF Reached

-----------------------------------------------------------------------------
(* The tracer *)

Fields == {"input", "output", "skills"}
Rows == [id : Ids, rev : Nat, closed : BOOLEAN, fields : SUBSET Fields]
Queues == [buffer : Seq(Rows), sends : Seq(Seq(Rows)), closed : BOOLEAN]
SpanIds == {SpanId(k) : k \in 1 .. spans}

StateOK ==
    /\ trace \in {TraceId(s) : s \in Sessions} \cup {NoId} /\ fields \subseteq Fields
    /\ events \in 0 .. MaxEvents /\ spans \in 0 .. events
    /\ currentTurn \in SpanIds \cup {NoId} /\ openTools \in [Calls -> SpanIds \cup {NoId}]
    /\ starts \in 0 .. MaxStarts /\ batcher \in 0 .. starts
    /\ batcher # 0 => trace # NoId
RowsOK ==
    /\ last \in [Ids -> Rows] /\ \A i \in Ids : last[i].id = i
    /\ stored \in [Ids -> Rows] /\ \A i \in Ids : stored[i].id = i
    /\ queues \in [Batchers -> Queues] /\ late \subseteq Seq(Rows)
TracerTyped == StateOK /\ RowsOK

\* A row without an end belongs to a span that the tracer still knows is open
Unended == \A i \in Ids \ leaked : last[i].closed \/ (batcher # 0 /\ i \in OpenSpans)
Forgotten == batcher = 0 => OpenSpans = {}

\* A sequence of rows has one of an id; its last one; the last one that a queue will send
Has(rs, i) == \E k \in DOMAIN rs : rs[k].id = i
EndsWith(rs, i, r) ==
    \E k \in DOMAIN rs : rs[k] = r /\ r.id = i /\ \A l \in DOMAIN rs : rs[l].id = i => l <= k
Waits(q, i) == Has(q.buffer, i) \/ \E k \in DOMAIN q.sends : Has(q.sends[k], i)
SendsLast(q, i, r) ==
    \/ EndsWith(q.buffer, i, r)
    \/ /\ ~Has(q.buffer, i)
       /\ \E k \in DOMAIN q.sends : EndsWith(q.sends[k], i, r)
                                    /\ \A l \in DOMAIN q.sends : Has(q.sends[l], i) => l <= k

\* What waits of a row is newer than what the collector has, its last one is the last that was
\* emitted, and it waits in one place
Waiting ==
    \A i \in Ids \ (faulty \cup crossed) :
        /\ \A b \in Batchers : Waits(queues[b], i) =>
              SendsLast(queues[b], i, last[i]) /\ \A c \in Batchers : Waits(queues[c], i) => c = b
        /\ (\A b \in Batchers : ~Waits(queues[b], i)) => stored[i] = last[i]

\* What may still arrive late has failed; a batcher in use is open
LateFailed == \A rs \in late : \A k \in DOMAIN rs : rs[k].id \in faulty
InUse == /\ batcher # 0 => ~queues[batcher].closed
         /\ \A b \in Batchers : queues[b].closed => b <= starts

TracerInv == TracerTyped /\ Unended /\ Forgotten /\ Waiting /\ LateFailed /\ InUse

\* flush and close change when rows are sent, not which or in what order
LEMMA FlushKeeps ==
    ASSUME NEW q \in Queues
    PROVE  /\ flush(q) \in Queues /\ flush(q).closed = q.closed
           /\ \A i : Waits(flush(q), i) <=> Waits(q, i)
           /\ \A i, r : SendsLast(q, i, r) => SendsLast(flush(q), i, r)
<1>1. CASE q.buffer = <<>>
    BY <1>1 DEF flush
<1>2. CASE q.buffer # <<>>
    <2> DEFINE f == flush(q)
               n == Len(q.sends) + 1
    <2>1. /\ q.buffer \in Seq(Rows) /\ q.sends \in Seq(Seq(Rows)) /\ q.closed \in BOOLEAN
          /\ q = [buffer |-> q.buffer, sends |-> q.sends, closed |-> q.closed]
        BY DEF Queues
    <2>2. /\ f.buffer = <<>> /\ f.sends = Append(q.sends, q.buffer) /\ f.closed = q.closed
          /\ f = [buffer |-> <<>>, sends |-> Append(q.sends, q.buffer), closed |-> q.closed]
        BY <1>2, <2>1 DEF flush
    <2> HIDE DEF f
    <2>3. Append(q.sends, q.buffer) \in Seq(Seq(Rows)) /\ <<>> \in Seq(Rows)
        BY <2>1
    <2>4. f \in Queues
        BY <2>1, <2>2, <2>3 DEF Queues
    <2>5. /\ DOMAIN q.sends = 1 .. (n - 1) /\ DOMAIN f.sends = 1 .. n /\ n \in Nat
          /\ f.sends[n] = q.buffer /\ \A k \in 1 .. (n - 1) : f.sends[k] = q.sends[k]
        BY <2>1, <2>2
    <2>6. ASSUME NEW i PROVE ~Has(f.buffer, i) /\ (Waits(f, i) <=> Waits(q, i))
        <3>1. ~Has(f.buffer, i)
            BY <2>2 DEF Has
        <3>2. \A k \in 1 .. n : k = n \/ k \in 1 .. (n - 1)
            BY <2>5
        <3>3. n \in 1 .. n /\ \A k \in 1 .. (n - 1) : k \in 1 .. n
            BY <2>1, <2>5
        <3>4. (\E k \in 1 .. n : Has(f.sends[k], i)) <=> Has(q.buffer, i) \/ \E k \in 1 .. (n - 1) : Has(q.sends[k], i)
            BY <2>5, <3>2, <3>3
        <3> QED BY <2>5, <3>1, <3>4 DEF Waits
    <2>7. ASSUME NEW i, NEW r, SendsLast(q, i, r) PROVE SendsLast(f, i, r)
        <3>1. CASE EndsWith(q.buffer, i, r)
            <4>1. n \in DOMAIN f.sends /\ EndsWith(f.sends[n], i, r) /\ \A l \in DOMAIN f.sends : l <= n
                BY <2>5, <3>1
            <4> QED BY <2>6, <4>1 DEF SendsLast
        <3>2. CASE ~Has(q.buffer, i) /\ ~EndsWith(q.buffer, i, r)
            <4>1. PICK k \in DOMAIN q.sends : EndsWith(q.sends[k], i, r)
                                              /\ \A l \in DOMAIN q.sends : Has(q.sends[l], i) => l <= k
                BY <2>7, <3>2 DEF SendsLast
            <4>2. k \in DOMAIN f.sends /\ EndsWith(f.sends[k], i, r)
                BY <2>5, <4>1
            <4>3. \A l \in DOMAIN f.sends : Has(f.sends[l], i) => l <= k
                BY <2>5, <3>2, <4>1
            <4> QED BY <2>6, <4>2, <4>3 DEF SendsLast
        <3> QED BY <2>7, <3>1, <3>2 DEF SendsLast
    <2> QED BY <2>2, <2>4, <2>6, <2>7 DEF f
<1> QED BY <1>1, <1>2

\* A row that is queued is the last of its id there
LEMMA EnqueueAdds ==
    ASSUME NEW q \in Queues, ~q.closed, NEW row \in Rows
    PROVE  /\ enqueue(q, row) \in Queues /\ ~enqueue(q, row).closed
           /\ \A i : Waits(enqueue(q, row), i) <=> Waits(q, i) \/ i = row.id
           /\ SendsLast(enqueue(q, row), row.id, row)
           /\ \A i, r : i # row.id /\ SendsLast(q, i, r) => SendsLast(enqueue(q, row), i, r)
<1> DEFINE full == [q EXCEPT !.buffer = Append(@, row)]
           n == Len(q.buffer) + 1
<1>1. /\ q.buffer \in Seq(Rows) /\ q.sends \in Seq(Seq(Rows)) /\ q.closed \in BOOLEAN
      /\ q = [buffer |-> q.buffer, sends |-> q.sends, closed |-> q.closed]
    BY DEF Queues
<1>a. full = [buffer |-> Append(q.buffer, row), sends |-> q.sends, closed |-> q.closed]
    <2>1. PICK b, s, c : b = q.buffer /\ s = q.sends /\ c = q.closed
        OBVIOUS
    <2>2. q = [buffer |-> b, sends |-> s, closed |-> c]
        BY <1>1, <2>1
    <2>3. PICK x : x = Append(b, row)
        OBVIOUS
    <2>4. full = [q EXCEPT !.buffer = x]
        BY <2>1, <2>3
    <2>5. full = [buffer |-> x, sends |-> s, closed |-> c]
        BY <2>2, <2>4
    <2> QED BY <2>1, <2>3, <2>5
<1>2. /\ full.buffer = Append(q.buffer, row) /\ full.sends = q.sends /\ full.closed = q.closed
      /\ full = [buffer |-> Append(q.buffer, row), sends |-> q.sends, closed |-> q.closed]
    BY <1>a
<1>e. enqueue(q, row) = IF Len(full.buffer) >= maxBatchSize THEN flush(full) ELSE full
    BY DEF enqueue
<1> HIDE DEF full
<1>3. Append(q.buffer, row) \in Seq(Rows)
    BY <1>1
<1>4. full \in Queues
    BY <1>1, <1>2, <1>3 DEF Queues
<1>5. /\ DOMAIN q.buffer = 1 .. (n - 1) /\ DOMAIN full.buffer = 1 .. n /\ n \in Nat \ {0}
      /\ full.buffer[n] = row /\ \A k \in 1 .. (n - 1) : full.buffer[k] = q.buffer[k]
    BY <1>1, <1>2
<1> HIDE DEF n
<1>6. ASSUME NEW i PROVE (Has(full.buffer, i) <=> Has(q.buffer, i) \/ i = row.id)
                         /\ (Waits(full, i) <=> Waits(q, i) \/ i = row.id)
    <2>1. Has(full.buffer, i) <=> Has(q.buffer, i) \/ i = row.id
        BY <1>5 DEF Has
    <2> QED BY <1>2, <2>1 DEF Waits
<1>7. SendsLast(full, row.id, row)
    BY <1>5 DEF SendsLast, EndsWith
<1>8. ASSUME NEW i, NEW r, i # row.id, SendsLast(q, i, r) PROVE SendsLast(full, i, r)
    <2>1. CASE EndsWith(q.buffer, i, r)
        <3>1. PICK k \in 1 .. (n - 1) : /\ q.buffer[k] = r /\ r.id = i
                                        /\ \A l \in 1 .. (n - 1) : q.buffer[l].id = i => l <= k
            BY <1>5, <2>1 DEF EndsWith
        <3>2. k \in 1 .. n /\ \A l \in 1 .. n : l = n \/ l \in 1 .. (n - 1)
            BY <1>5
        <3>3. full.buffer[k] = r /\ \A l \in 1 .. n : full.buffer[l].id = i => l <= k
            BY <1>5, <1>8, <3>1, <3>2
        <3>4. EndsWith(full.buffer, i, r)
            BY <1>5, <3>1, <3>2, <3>3 DEF EndsWith
        <3> QED BY <3>4 DEF SendsLast
    <2>2. CASE ~EndsWith(q.buffer, i, r)
        BY <1>2, <1>6, <1>8, <2>2 DEF SendsLast
    <2> QED BY <2>1, <2>2
<1>9. /\ flush(full) \in Queues /\ flush(full).closed = full.closed
      /\ \A i : Waits(flush(full), i) <=> Waits(full, i)
      /\ \A i, r : SendsLast(full, i, r) => SendsLast(flush(full), i, r)
    BY <1>4, FlushKeeps
<1>10. CASE enqueue(q, row) = full
    BY <1>2, <1>4, <1>6, <1>7, <1>8, <1>10
<1>11. CASE enqueue(q, row) = flush(full)
    BY <1>2, <1>6, <1>7, <1>8, <1>9, <1>11
<1> QED BY <1>e, <1>10, <1>11

\* What feed queues, row by row
LEMMA QueuedByRow ==
    ASSUME NEW b \in Batchers, queues \in [Batchers -> Queues], ~queues[b].closed, NEW rs \in Seq(Rows)
    PROVE  \E f : /\ f[0] = queues[b] /\ Queued(b, rs) = f[Len(rs)]
                  /\ \A k \in 1 .. Len(rs) : f[k] = enqueue(f[k - 1], rs[k])
<1> DEFINE n == Len(rs)
           S == {q \in Queues : ~q.closed}
           step == [x \in S \X (1 .. n) |-> enqueue(x[1], rs[x[2]])]
           Table(g) == g = [s \in SUBSET (DOMAIN rs) |-> IF s = {} THEN queues[b]
                                                        ELSE enqueue(g[s \ {Max(s)}], rs[Max(s)])]
           t == CHOOSE g : Table(g)
<1>1. DOMAIN rs = 1 .. n /\ n \in Nat /\ \A k \in 1 .. n : rs[k] \in Rows
    OBVIOUS
<1>2. queues[b] \in S
    OBVIOUS
<1>3. step \in [S \X (1 .. n) -> S]
    <2>1. ASSUME NEW q \in S, NEW k \in 1 .. n PROVE enqueue(q, rs[k]) \in S
        BY <1>1, EnqueueAdds
    <2> QED BY <2>1
<1>4. PICK g \in [SUBSET (1 .. n) -> S] : Folded(g, n, queues[b], step)
    BY <1>1, <1>2, <1>3, FoldExists
<1>5. \E h : Table(h)
    <2>1. ASSUME NEW s \in SUBSET (1 .. n), s # {}
          PROVE  step[<<g[s \ {Max(s)}], Max(s)>>] = enqueue(g[s \ {Max(s)}], rs[Max(s)])
        <3>1. Max(s) \in 1 .. n /\ s \ {Max(s)} \in SUBSET (1 .. n)
            BY <1>1, <2>1, GreatestOf
        <3>2. g[s \ {Max(s)}] \in S
            BY <3>1
        <3> QED BY <3>1, <3>2
    <2>2. Table(g)
        BY <1>1, <1>4, <2>1 DEF Folded
    <2> QED BY <2>2
<1>6. Table(t)
    BY <1>5
<1>7. Queued(b, rs) = t[1 .. n]
    BY <1>1 DEF Queued, FoldLeft, MapThenFoldSet
<1> HIDE DEF t
<1>8. t[1 .. 0] = queues[b]
    <2>1. 1 .. 0 = {} /\ {} \in SUBSET (DOMAIN rs)
        OBVIOUS
    <2> QED BY <1>6, <2>1
<1>9. ASSUME NEW k \in 1 .. n PROVE t[1 .. k] = enqueue(t[1 .. (k - 1)], rs[k])
    <2>1. Max(1 .. k) = k /\ (1 .. k) \ {k} = 1 .. (k - 1) /\ 1 .. k # {}
        BY GreatestUpTo
    <2>2. 1 .. k \in SUBSET (DOMAIN rs)
        BY <1>1
    <2>3. t[1 .. k] = enqueue(t[(1 .. k) \ {Max(1 .. k)}], rs[Max(1 .. k)])
        BY <1>6, <2>1, <2>2
    <2> QED BY <2>1, <2>3
<1> DEFINE f == [k \in 0 .. n |-> t[1 .. k]]
<1>10. f[0] = queues[b] /\ Queued(b, rs) = f[n]
    BY <1>1, <1>7, <1>8
<1>11. ASSUME NEW k \in 1 .. n PROVE f[k] = enqueue(f[k - 1], rs[k])
    <2>1. k \in 0 .. n /\ k - 1 \in 0 .. n
        BY <1>1
    <2> QED BY <1>9, <2>1
<1> HIDE DEF f
<1> QED BY <1>10, <1>11

\* All of them are queued, in their order
LEMMA QueuedAdds ==
    ASSUME NEW b \in Batchers, queues \in [Batchers -> Queues], ~queues[b].closed, NEW rs \in Seq(Rows),
           \A k, l \in DOMAIN rs : rs[k].id = rs[l].id => k = l
    PROVE  /\ Queued(b, rs) \in Queues /\ ~Queued(b, rs).closed
           /\ \A i : Waits(Queued(b, rs), i) <=> Waits(queues[b], i) \/ Has(rs, i)
           /\ \A k \in DOMAIN rs : SendsLast(Queued(b, rs), rs[k].id, rs[k])
           /\ \A i, r : ~Has(rs, i) /\ SendsLast(queues[b], i, r) => SendsLast(Queued(b, rs), i, r)
<1> DEFINE n == Len(rs)
<1>1. DOMAIN rs = 1 .. n /\ n \in Nat /\ \A k \in 1 .. n : rs[k] \in Rows
    OBVIOUS
<1>2. PICK f : /\ f[0] = queues[b] /\ Queued(b, rs) = f[n]
               /\ \A k \in 1 .. n : f[k] = enqueue(f[k - 1], rs[k])
    BY QueuedByRow
<1> DEFINE Done(k) ==
             /\ f[k] \in Queues /\ ~f[k].closed
             /\ \A i : Waits(f[k], i) <=> Waits(queues[b], i) \/ \E l \in 1 .. k : rs[l].id = i
             /\ \A l \in 1 .. k : SendsLast(f[k], rs[l].id, rs[l])
             /\ \A i, r : (\A l \in 1 .. k : rs[l].id # i) /\ SendsLast(queues[b], i, r)
                             => SendsLast(f[k], i, r)
           Good == {k \in Nat : k <= n => Done(k)}
<1>3. Done(0)
    BY <1>2
<1>4. ASSUME NEW k \in Nat, k + 1 <= n, Done(k) PROVE Done(k + 1)
    <2>1. k + 1 \in 1 .. n /\ (k + 1) - 1 = k
        BY <1>1, <1>4
    <2>2. rs[k + 1] \in Rows /\ f[k + 1] = enqueue(f[k], rs[k + 1])
        BY <1>1, <1>2, <2>1
    <2> DEFINE row == rs[k + 1]
    <2>3. f[k] \in Queues /\ ~f[k].closed
        BY <1>4
    <2>a. row \in Rows /\ f[k + 1] = enqueue(f[k], row)
        BY <2>2
    <2> HIDE DEF row
    <2>b. /\ enqueue(f[k], row) \in Queues /\ ~enqueue(f[k], row).closed
          /\ \A i : Waits(enqueue(f[k], row), i) <=> Waits(f[k], i) \/ i = row.id
          /\ SendsLast(enqueue(f[k], row), row.id, row)
          /\ \A i, r : i # row.id /\ SendsLast(f[k], i, r) => SendsLast(enqueue(f[k], row), i, r)
        BY <2>3, <2>a, EnqueueAdds
    <2>4. /\ f[k + 1] \in Queues /\ ~f[k + 1].closed
          /\ \A i : Waits(f[k + 1], i) <=> Waits(f[k], i) \/ i = row.id
          /\ SendsLast(f[k + 1], row.id, row)
          /\ \A i, r : i # row.id /\ SendsLast(f[k], i, r) => SendsLast(f[k + 1], i, r)
        BY <2>a, <2>b
    <2>5. 1 .. (k + 1) = (1 .. k) \cup {k + 1} /\ \A l \in 1 .. k : l \in 1 .. n /\ l # k + 1
        BY <1>4, <1>1
    <2>6. \A l \in 1 .. k : rs[l].id # row.id
        BY <1>1, <2>1, <2>5 DEF row
    <2>7. \A i : Waits(f[k + 1], i) <=> Waits(queues[b], i) \/ \E l \in 1 .. (k + 1) : rs[l].id = i
        BY <1>4, <2>4, <2>5 DEF row
    <2>8. \A l \in 1 .. (k + 1) : SendsLast(f[k + 1], rs[l].id, rs[l])
        BY <1>4, <2>4, <2>5, <2>6 DEF row
    <2>9. ASSUME NEW i, NEW r, \A l \in 1 .. (k + 1) : rs[l].id # i, SendsLast(queues[b], i, r)
          PROVE  SendsLast(f[k + 1], i, r)
        BY <1>4, <2>4, <2>5, <2>9 DEF row
    <2> QED BY <2>4, <2>7, <2>8, <2>9
<1> HIDE DEF Done
<1>5. 0 \in Good
    BY <1>3
<1>6. ASSUME NEW k \in Nat, k \in Good PROVE k + 1 \in Good
    BY <1>1, <1>4, <1>6
<1> HIDE DEF Good
<1>7. Nat \subseteq Good
    BY <1>5, <1>6, Counted
<1>8. Done(n)
    BY <1>1, <1>7 DEF Good
<1>9. PICK p : p = f[n]
    OBVIOUS
<1>10. \A i : Has(rs, i) <=> \E l \in 1 .. n : rs[l].id = i
    BY <1>1 DEF Has
<1>11. /\ p \in Queues /\ ~p.closed
       /\ \A i : Waits(p, i) <=> Waits(queues[b], i) \/ \E l \in 1 .. n : rs[l].id = i
       /\ \A l \in 1 .. n : SendsLast(p, rs[l].id, rs[l])
       /\ \A i, r : (\A l \in 1 .. n : rs[l].id # i) /\ SendsLast(queues[b], i, r) => SendsLast(p, i, r)
    BY <1>8, <1>9 DEF Done
<1> HIDE DEF n
<1> QED BY <1>1, <1>2, <1>9, <1>10, <1>11

\* The collector keeps the last row of an id
LEMMA StoringLast ==
    ASSUME NEW rs \in Seq(Rows), NEW i \in Ids
    PROVE  /\ ~Has(rs, i) => Storing(rs)[i] = stored[i]
           /\ Has(rs, i) => EndsWith(rs, i, Storing(rs)[i]) /\ Storing(rs)[i] \in Rows
           /\ \A r : EndsWith(rs, i, r) => Storing(rs)[i] = r
<1> DEFINE mine == {k \in DOMAIN rs : rs[k].id = i}
           n == Len(rs)
<1>1. DOMAIN rs = 1 .. n /\ n \in Nat /\ \A k \in 1 .. n : rs[k] \in Rows
    OBVIOUS
<1>2. Storing(rs)[i] = IF mine = {} THEN stored[i] ELSE rs[CHOOSE k \in mine : \A l \in mine : l <= k]
    BY DEF Storing
<1>3. ASSUME Has(rs, i) PROVE EndsWith(rs, i, Storing(rs)[i]) /\ Storing(rs)[i] \in Rows
    <2> DEFINE last_ == CHOOSE k \in mine : \A l \in mine : l <= k
    <2>1. mine # {} /\ mine \subseteq 1 .. n
        BY <1>1, <1>3 DEF Has
    <2>2. Max(mine) \in mine /\ \A l \in mine : Max(mine) >= l
        BY <1>1, <2>1, GreatestOf
    <2>3. \A l \in mine : l <= Max(mine)
        BY <2>1, <2>2
    <2>4. last_ \in mine /\ \A l \in mine : l <= last_
        BY <2>2, <2>3
    <2>5. Storing(rs)[i] = rs[last_]
        BY <1>2, <2>1
    <2> HIDE DEF last_
    <2> QED BY <1>1, <2>4, <2>5 DEF EndsWith
<1>4. ASSUME NEW r, EndsWith(rs, i, r) PROVE Storing(rs)[i] = r
    <2>1. Has(rs, i)
        BY <1>4 DEF Has, EndsWith
    <2>2. EndsWith(rs, i, Storing(rs)[i])
        BY <1>3, <2>1
    <2> QED BY <1>1, <1>4, <2>2 DEF EndsWith
<1> QED BY <1>2, <1>3, <1>4 DEF Has

\* A send is cut into a request and what is left of it
LEMMA SplitSend ==
    ASSUME NEW S, NEW s \in Seq(S), NEW n \in 0 .. Len(s)
    PROVE  LET chunk == SubSeq(s, 1, n)
               left == SubSeq(s, n + 1, Len(s))
           IN  /\ chunk \in Seq(S) /\ left \in Seq(S) /\ Len(chunk) = n
               /\ \A i : Has(s, i) <=> Has(chunk, i) \/ Has(left, i)
               /\ \A i, r : EndsWith(s, i, r) =>
                     IF Has(left, i) THEN EndsWith(left, i, r) ELSE EndsWith(chunk, i, r)
<1> DEFINE chunk == SubSeq(s, 1, n)
           left == SubSeq(s, n + 1, Len(s))
           m == Len(s)
<1>1. DOMAIN s = 1 .. m /\ m \in Nat /\ n \in Nat /\ n <= m /\ \A k \in 1 .. m : s[k] \in S
    OBVIOUS
<1>2. chunk \in Seq(S) /\ Len(chunk) = n /\ \A k \in 1 .. n : chunk[k] = s[k]
    <2>1. \A k \in 1 .. n : s[k] \in S
        BY <1>1
    <2> QED BY <1>1, <2>1, SubSeqProperties
<1>3. left \in Seq(S) /\ Len(left) = m - n /\ \A k \in 1 .. (m - n) : left[k] = s[k + n]
    <2>1. \A k \in n + 1 .. m : s[k] \in S
        BY <1>1
    <2>2. /\ left \in Seq(S) /\ Len(left) = IF n + 1 <= m THEN m - (n + 1) + 1 ELSE 0
          /\ \A k \in 1 .. m - (n + 1) + 1 : left[k] = s[n + 1 + k - 1]
        BY <1>1, <2>1, SubSeqProperties
    <2>3. m - (n + 1) + 1 = m - n /\ \A k \in 1 .. (m - n) : n + 1 + k - 1 = k + n
        BY <1>1
    <2> HIDE DEF left, m
    <2>4. Len(left) = m - n
        <3>1. CASE n + 1 <= m
            BY <2>2, <2>3, <3>1
        <3>2. CASE ~(n + 1 <= m)
            <4>1. n = m /\ m - n = 0
                BY <1>1, <3>2
            <4> QED BY <2>2, <3>2, <4>1
        <3> QED BY <3>1, <3>2
    <2>5. \A k \in 1 .. (m - n) : left[k] = s[n + 1 + k - 1]
        BY <2>2, <2>3
    <2> QED BY <2>2, <2>3, <2>4, <2>5
<1>4. DOMAIN chunk = 1 .. n /\ DOMAIN left = 1 .. (m - n)
    BY <1>2, <1>3
<1> HIDE DEF chunk, left, m
<1>5. ASSUME NEW i PROVE Has(s, i) <=> Has(chunk, i) \/ Has(left, i)
    <2>1. ASSUME NEW k \in 1 .. m, s[k].id = i PROVE Has(chunk, i) \/ Has(left, i)
        <3>1. CASE k <= n
            <4>1. k \in 1 .. n
                BY <1>1, <3>1
            <4> QED BY <1>2, <1>4, <2>1, <4>1 DEF Has
        <3>2. CASE k > n
            <4>1. k - n \in 1 .. (m - n) /\ (k - n) + n = k
                BY <1>1, <3>2
            <4>2. left[k - n] = s[k]
                BY <1>3, <4>1
            <4> QED BY <1>4, <2>1, <4>1, <4>2 DEF Has
        <3> QED BY <1>1, <3>1, <3>2
    <2>2. \A k \in 1 .. n : k \in 1 .. m
        BY <1>1
    <2>3. \A k \in 1 .. (m - n) : k + n \in 1 .. m
        BY <1>1
    <2> QED BY <1>1, <1>2, <1>3, <1>4, <2>1, <2>2, <2>3 DEF Has
<1>6. ASSUME NEW i, NEW r, EndsWith(s, i, r)
      PROVE  IF Has(left, i) THEN EndsWith(left, i, r) ELSE EndsWith(chunk, i, r)
    <2>1. PICK k \in 1 .. m : s[k] = r /\ r.id = i /\ \A l \in 1 .. m : s[l].id = i => l <= k
        BY <1>1, <1>6 DEF EndsWith
    <2>2. CASE Has(left, i)
        <3>1. PICK j \in 1 .. (m - n) : left[j].id = i
            BY <1>4, <2>2 DEF Has
        <3>2. j + n \in 1 .. m /\ s[j + n].id = i
            BY <1>1, <1>3, <3>1
        <3>3. k - n \in 1 .. (m - n) /\ (k - n) + n = k
            <4>1. j + n <= k
                BY <2>1, <3>2
            <4> QED BY <1>1, <4>1
        <3>4. left[k - n] = r
            BY <1>3, <2>1, <3>3
        <3>5. ASSUME NEW l \in 1 .. (m - n), left[l].id = i PROVE l <= k - n
            <4>1. l + n \in 1 .. m /\ s[l + n].id = i
                BY <1>1, <1>3, <3>5
            <4>2. l + n <= k
                BY <2>1, <4>1
            <4> QED BY <1>1, <4>2
        <3> QED BY <1>4, <2>1, <2>2, <3>3, <3>4, <3>5 DEF EndsWith
    <2>3. CASE ~Has(left, i)
        <3>1. k <= n
            <4> SUFFICES ASSUME k > n PROVE FALSE
                BY <1>1
            <4>1. k - n \in 1 .. (m - n) /\ (k - n) + n = k
                BY <1>1
            <4>2. left[k - n] = s[k]
                BY <1>3, <4>1
            <4> QED BY <1>4, <2>1, <2>3, <4>1, <4>2 DEF Has
        <3>2. k \in 1 .. n /\ chunk[k] = r
            BY <1>1, <1>2, <2>1, <3>1
        <3>3. \A l \in 1 .. n : chunk[l].id = i => l <= k
            <4>1. \A l \in 1 .. n : l \in 1 .. m
                BY <1>1
            <4> QED BY <1>2, <2>1, <4>1
        <3> QED BY <1>4, <2>1, <2>3, <3>2, <3>3 DEF EndsWith
    <2> QED BY <2>2, <2>3
<1> QED BY <1>2, <1>3, <1>5, <1>6 DEF chunk, left, m

\* What a request takes from a queue is the oldest; of the rest the last rows are the same
LEMMA RestKeeps ==
    ASSUME NEW q \in Queues, q.sends # <<>>, NEW chunk \in Seq(Rows), NEW left \in Seq(Rows),
           \A i : Has(q.sends[1], i) <=> Has(chunk, i) \/ Has(left, i),
           \A i, r : EndsWith(q.sends[1], i, r) =>
                        IF Has(left, i) THEN EndsWith(left, i, r) ELSE EndsWith(chunk, i, r)
    PROVE  LET rest == IF left = <<>> THEN Tail(q.sends) ELSE [q.sends EXCEPT ![1] = left]
               p == [q EXCEPT !.sends = rest]
           IN  /\ p \in Queues /\ p.closed = q.closed
               /\ \A i : Waits(q, i) <=> Has(chunk, i) \/ Waits(p, i)
               /\ \A i, r : SendsLast(q, i, r) =>
                     IF Waits(p, i) THEN SendsLast(p, i, r) ELSE EndsWith(chunk, i, r)
<1> DEFINE rest == IF left = <<>> THEN Tail(q.sends) ELSE [q.sends EXCEPT ![1] = left]
           p == [q EXCEPT !.sends = rest]
           m == Len(q.sends)
<1>1. /\ q.buffer \in Seq(Rows) /\ q.sends \in Seq(Seq(Rows)) /\ q.closed \in BOOLEAN
      /\ q = [buffer |-> q.buffer, sends |-> q.sends, closed |-> q.closed]
    BY DEF Queues
<1>2. DOMAIN q.sends = 1 .. m /\ m \in Nat \ {0} /\ \A k \in 1 .. m : q.sends[k] \in Seq(Rows)
    BY <1>1
<1> HIDE DEF rest
<1>b. q = [buffer |-> q.buffer, sends |-> q.sends, closed |-> q.closed]
    BY <1>1
<1>a. p = [buffer |-> q.buffer, sends |-> rest, closed |-> q.closed]
    BY <1>b
<1>3. p.buffer = q.buffer /\ p.sends = rest /\ p.closed = q.closed
    BY <1>a
\* where a send is after the request
<1> DEFINE shift == IF left = <<>> THEN 1 ELSE 0
<1>4. /\ rest \in Seq(Seq(Rows)) /\ DOMAIN rest = 1 .. (m - shift)
      /\ \A k \in 2 .. m : k - shift \in 1 .. (m - shift) /\ rest[k - shift] = q.sends[k]
      /\ left # <<>> => rest[1] = left /\ 1 \in 1 .. (m - shift)
    <2>1. CASE left = <<>>
        <3>1. rest = Tail(q.sends) /\ shift = 1
            BY <2>1 DEF rest
        <3>2. /\ rest \in Seq(Seq(Rows)) /\ Len(rest) = m - 1
              /\ \A i \in 1 .. Len(rest) : rest[i] = q.sends[i + 1]
            BY <1>1, <3>1, HeadTailProperties
        <3>3. DOMAIN rest = 1 .. (m - 1)
            BY <3>2
        <3>4. \A k \in 2 .. m : k - 1 \in 1 .. (m - 1) /\ (k - 1) + 1 = k
            BY <1>2
        <3> QED BY <2>1, <3>1, <3>2, <3>3, <3>4
    <2>2. CASE left # <<>>
        <3>1. rest = [q.sends EXCEPT ![1] = left] /\ shift = 0
            BY <2>2 DEF rest
        <3>2. rest \in Seq(Seq(Rows)) /\ DOMAIN rest = 1 .. m /\ rest[1] = left
            BY <1>1, <1>2, <3>1
        <3>3. \A k \in 2 .. m : rest[k] = q.sends[k] /\ k - 0 = k /\ k \in 1 .. m
            BY <1>1, <1>2, <3>1
        <3>4. m - 0 = m
            BY <1>2
        <3> QED BY <1>2, <2>2, <3>1, <3>2, <3>3, <3>4
    <2> QED BY <2>1, <2>2
<1>c. shift \in {0, 1} /\ (shift = 0 <=> left # <<>>)
    OBVIOUS
<1> HIDE DEF shift
<1>5. p \in Queues
    BY <1>1, <1>a, <1>4 DEF Queues
<1>6. \A i : ~Has(<<>>, i)
    BY DEF Has
\* what is in the sends afterwards
<1>7. ASSUME NEW j \in DOMAIN rest
      PROVE  \/ left # <<>> /\ j = 1
             \/ j + shift \in 2 .. m /\ rest[j] = q.sends[j + shift]
    <2>1. CASE left # <<>> /\ j = 1
        BY <2>1
    <2>2. CASE ~(left # <<>> /\ j = 1)
        <3>1. j \in 1 .. (m - shift) /\ shift \in {0, 1} /\ (shift = 0 => j # 1)
            BY <1>4, <1>c, <2>2
        <3>2. j + shift \in 2 .. m /\ (j + shift) - shift = j
            BY <1>2, <3>1
        <3> QED BY <1>4, <3>2
    <2> QED BY <2>1, <2>2
<1> HIDE DEF p, m
<1>8. ASSUME NEW i PROVE Waits(q, i) <=> Has(chunk, i) \/ Waits(p, i)
    <2>1. ASSUME Has(q.sends[1], i) PROVE Has(chunk, i) \/ Waits(p, i)
        <3>1. CASE Has(left, i)
            BY <1>3, <1>4, <1>6, <3>1 DEF Waits
        <3> QED BY <2>1, <3>1
    <2>2. ASSUME NEW k \in 1 .. m, k # 1, Has(q.sends[k], i) PROVE Waits(p, i)
        <3>1. k \in 2 .. m
            BY <1>2, <2>2
        <3> QED BY <1>3, <1>4, <2>2, <3>1 DEF Waits
    <2>3. ASSUME NEW j \in DOMAIN rest, Has(rest[j], i) PROVE Waits(q, i)
        <3>1. CASE left # <<>> /\ j = 1
            <4>1. Has(q.sends[1], i) /\ 1 \in 1 .. m
                BY <1>2, <1>4, <2>3, <3>1
            <4> QED BY <1>2, <4>1 DEF Waits
        <3>2. CASE j + shift \in 2 .. m /\ rest[j] = q.sends[j + shift]
            <4>1. j + shift \in 1 .. m
                BY <1>2, <3>2
            <4> QED BY <1>2, <2>3, <3>2, <4>1 DEF Waits
        <3> QED BY <1>7, <3>1, <3>2
    <2>4. ASSUME Has(chunk, i) PROVE Waits(q, i)
        <3>1. Has(q.sends[1], i) /\ 1 \in 1 .. m
            BY <1>2, <2>4
        <3> QED BY <1>2, <3>1 DEF Waits
    <2>5. Waits(q, i) => Has(chunk, i) \/ Waits(p, i)
        BY <1>2, <1>3, <2>1, <2>2 DEF Waits
    <2>6. Waits(p, i) => Waits(q, i)
        BY <1>3, <2>3 DEF Waits
    <2> QED BY <2>4, <2>5, <2>6
<1>9. ASSUME NEW i, NEW r, SendsLast(q, i, r)
      PROVE  IF Waits(p, i) THEN SendsLast(p, i, r) ELSE EndsWith(chunk, i, r)
    <2>1. CASE EndsWith(q.buffer, i, r)
        <3>1. Has(p.buffer, i) /\ EndsWith(p.buffer, i, r)
            BY <1>3, <2>1 DEF Has, EndsWith
        <3> QED BY <3>1 DEF Waits, SendsLast
    <2>2. CASE ~EndsWith(q.buffer, i, r)
        <3>1. PICK k \in 1 .. m : EndsWith(q.sends[k], i, r) /\ \A l \in 1 .. m : Has(q.sends[l], i) => l <= k
            BY <1>2, <1>9, <2>2 DEF SendsLast
        <3>2. ~Has(p.buffer, i)
            BY <1>3, <1>9, <2>2 DEF SendsLast
        <3>3. CASE k # 1
            <4>1. k \in 2 .. m
                BY <1>2, <3>3
            <4>2. k - shift \in DOMAIN rest /\ rest[k - shift] = q.sends[k]
                BY <1>4, <4>1
            <4>3. ASSUME NEW l \in DOMAIN rest, Has(rest[l], i) PROVE l <= k - shift
                <5>1. CASE left # <<>> /\ l = 1
                    BY <1>2, <1>c, <4>1, <5>1
                <5>2. CASE l + shift \in 2 .. m /\ rest[l] = q.sends[l + shift]
                    <6>0. l \in 1 .. (m - shift)
                        BY <1>4
                    <6>1. l + shift \in 1 .. m /\ l \in Nat
                        BY <1>2, <1>c, <5>2, <6>0
                    <6>2. l + shift <= k
                        BY <3>1, <4>3, <5>2, <6>1
                    <6> QED BY <1>2, <1>c, <6>1, <6>2
                <5> QED BY <1>7, <5>1, <5>2
            <4>4. SendsLast(p, i, r)
                BY <1>3, <3>1, <3>2, <4>2, <4>3 DEF SendsLast
            <4>5. Has(rest[k - shift], i)
                BY <3>1, <4>2 DEF EndsWith, Has
            <4>6. Waits(p, i)
                BY <1>3, <4>2, <4>5 DEF Waits
            <4> QED BY <4>4, <4>6
        <3>4. CASE k = 1
            <4>1. ASSUME NEW j \in DOMAIN rest, Has(rest[j], i) PROVE left # <<>> /\ j = 1 /\ Has(left, i)
                <5>1. CASE j + shift \in 2 .. m /\ rest[j] = q.sends[j + shift]
                    <6>1. j + shift \in 1 .. m /\ ~(j + shift <= 1)
                        BY <1>2, <5>1
                    <6> QED BY <3>1, <3>4, <4>1, <5>1, <6>1
                <5>2. CASE left # <<>> /\ j = 1
                    BY <1>4, <4>1, <5>2
                <5> QED BY <1>7, <5>1, <5>2
            <4>2. CASE Has(left, i)
                <5>1. left # <<>> /\ 1 \in DOMAIN rest /\ rest[1] = left
                    BY <1>4, <1>6, <4>2
                <5>2. EndsWith(left, i, r)
                    BY <3>1, <3>4, <4>2
                <5>3. \A l \in DOMAIN rest : Has(rest[l], i) => l <= 1
                    BY <4>1
                <5> QED BY <1>3, <3>2, <4>2, <5>1, <5>2, <5>3 DEF SendsLast, Waits
            <4>3. CASE ~Has(left, i)
                <5>1. ~Waits(p, i)
                    BY <1>3, <3>2, <4>1, <4>3 DEF Waits
                <5> QED BY <3>1, <3>4, <4>3, <5>1
            <4> QED BY <4>2, <4>3
        <3> QED BY <3>3, <3>4
    <2> QED BY <2>1, <2>2
<1> QED BY <1>3, <1>5, <1>8, <1>9 DEF p, rest

LEMMA HoldsIs ==
    ASSUME NEW b, queues[b] \in Queues, NEW i
    PROVE  Holds(b, i) <=> Waits(queues[b], i)
<1> DEFINE q == queues[b]
<1>1. q.buffer \in Seq(Rows) /\ q.sends \in Seq(Seq(Rows))
    BY DEF Queues
<1>2. ToSet(q.buffer) = {q.buffer[k] : k \in DOMAIN q.buffer}
    BY DEF ToSet
<1>3. \A k \in DOMAIN q.sends : ToSet(q.sends[k]) = {q.sends[k][l] : l \in DOMAIN q.sends[k]}
    BY DEF ToSet
<1>4. ASSUME Holds(b, i) PROVE Waits(q, i)
    <2>1. PICK r \in Unsent(b) : r.id = i
        BY <1>4 DEF Holds
    <2>2. CASE r \in ToSet(q.buffer)
        BY <1>2, <2>1, <2>2 DEF Waits, Has
    <2>3. CASE \E k \in DOMAIN q.sends : r \in ToSet(q.sends[k])
        BY <1>3, <2>1, <2>3 DEF Waits, Has
    <2> QED BY <2>1, <2>2, <2>3 DEF Unsent
<1>5. ASSUME Waits(q, i) PROVE Holds(b, i)
    <2>1. CASE Has(q.buffer, i)
        BY <1>2, <2>1 DEF Has, Holds, Unsent
    <2>2. CASE \E k \in DOMAIN q.sends : Has(q.sends[k], i)
        <3>1. PICK k \in DOMAIN q.sends : Has(q.sends[k], i)
            BY <2>2
        <3>2. PICK l \in DOMAIN q.sends[k] : q.sends[k][l].id = i
            BY <3>1 DEF Has
        <3>3. q.sends[k][l] \in Unsent(b)
            BY <1>3 DEF Unsent
        <3> QED BY <3>2, <3>3 DEF Holds
    <2> QED BY <1>5, <2>1, <2>2 DEF Waits
<1> QED BY <1>4, <1>5

\* Rows to feed: of different ids
Feedable(rs) == rs \in Seq(Rows) /\ \A k, l \in DOMAIN rs : rs[k].id = rs[l].id => k = l

\* What the history notes of them
LEMMA NotedIs ==
    ASSUME RowsOK, NEW b, NEW rs, Feedable(rs), Noted(b, rs)
    PROVE  /\ last' \in [Ids -> Rows] /\ \A i \in Ids : last'[i].id = i
           /\ \A k \in DOMAIN rs : rs[k].id \in Ids /\ last'[rs[k].id] = rs[k]
           /\ \A i \in Ids : ~Has(rs, i) => last'[i] = last[i]
           /\ crossed \subseteq crossed'
           /\ \A k \in DOMAIN rs : rs[k].id \notin crossed' => \A c \in Batchers \ {b} : ~Holds(c, rs[k].id)
<1>1. \A k \in DOMAIN rs : rs[k] \in Rows /\ rs[k].id \in Ids
    <2>1. \A k \in DOMAIN rs : rs[k] \in Rows
        BY DEF Feedable
    <2>2. \A r \in Rows : r.id \in Ids
        BY DEF Rows
    <2> QED BY <2>1, <2>2
<1>2. ASSUME NEW k \in DOMAIN rs PROVE last'[rs[k].id] = rs[k]
    <2> DEFINE i == rs[k].id
               j == CHOOSE l \in DOMAIN rs : rs[l].id = i
    <2>1. j \in DOMAIN rs /\ rs[j].id = i
        OBVIOUS
    <2>2. j = k
        BY <2>1 DEF Feedable
    <2>3. last'[i] = rs[j]
        BY <1>1 DEF Noted
    <2> HIDE DEF j
    <2> QED BY <2>2, <2>3
<1>3. ASSUME NEW i \in Ids, ~Has(rs, i) PROVE last'[i] = last[i]
    BY <1>3 DEF Noted, Has
<1>4. DOMAIN last' = Ids /\ last' = [i \in Ids |-> last'[i]]
    BY DEF Noted
<1>5. ASSUME NEW i \in Ids PROVE last'[i] \in Rows /\ last'[i].id = i
    <2>1. CASE Has(rs, i)
        <3>1. PICK k \in DOMAIN rs : rs[k].id = i
            BY <2>1 DEF Has
        <3> QED BY <1>1, <1>2, <3>1
    <2>2. CASE ~Has(rs, i)
        BY <1>3, <2>2 DEF RowsOK
    <2> QED BY <2>1, <2>2
<1>6. \A k \in DOMAIN rs : rs[k].id \notin crossed' => \A c \in Batchers \ {b} : ~Holds(c, rs[k].id)
    <2> SUFFICES ASSUME NEW k \in DOMAIN rs, NEW c \in Batchers \ {b}, Holds(c, rs[k].id)
                 PROVE  rs[k].id \in crossed'
        OBVIOUS
    <2>1. rs[k] \in ToSet(rs)
        BY DEF ToSet
    <2> QED BY <2>1 DEF Noted
<1>7. crossed \subseteq crossed'
    BY DEF Noted
<1> QED BY <1>1, <1>2, <1>3, <1>4, <1>5, <1>6, <1>7

\* A batcher that takes new rows, and perhaps closes, keeps order
LEMMA FeedKeeps ==
    ASSUME RowsOK, Waiting, LateFailed, NEW b \in Batchers, ~queues[b].closed,
           NEW rs, Feedable(rs), Noted(b, rs), NEW q,
           q = Queued(b, rs) \/ q = close(Queued(b, rs)),
           queues' = [queues EXCEPT ![b] = q], UNCHANGED <<stored, late, faulty>>
    PROVE  RowsOK' /\ Waiting' /\ LateFailed'
<1> DEFINE new == Queued(b, rs)
<1>1. /\ new \in Queues /\ ~new.closed
      /\ \A i : Waits(new, i) <=> Waits(queues[b], i) \/ Has(rs, i)
      /\ \A k \in DOMAIN rs : SendsLast(new, rs[k].id, rs[k])
      /\ \A i, r : ~Has(rs, i) /\ SendsLast(queues[b], i, r) => SendsLast(new, i, r)
    BY QueuedAdds DEF RowsOK, Feedable
<1> HIDE DEF new
<1>2. /\ q \in Queues
      /\ \A i : Waits(q, i) <=> Waits(new, i)
      /\ \A i, r : SendsLast(new, i, r) => SendsLast(q, i, r)
    <2>1. /\ flush(new) \in Queues
          /\ \A i : Waits(flush(new), i) <=> Waits(new, i)
          /\ \A i, r : SendsLast(new, i, r) => SendsLast(flush(new), i, r)
        BY <1>1, FlushKeeps
    <2>2. CASE q = new
        BY <1>1, <2>2
    <2>3. CASE q = close(new)
        <3> DEFINE f == flush(new)
        <3>1. f = [buffer |-> f.buffer, sends |-> f.sends, closed |-> f.closed]
            BY <2>1 DEF Queues
        <3>2. f.buffer \in Seq(Rows) /\ f.sends \in Seq(Seq(Rows))
            BY <2>1 DEF Queues
        <3>3. q = [f EXCEPT !.closed = TRUE]
            BY <2>3 DEF close
        <3> HIDE DEF f
        <3>4. q = [buffer |-> f.buffer, sends |-> f.sends, closed |-> TRUE]
            BY <3>1, <3>3
        <3>5. q.buffer = f.buffer /\ q.sends = f.sends
            BY <3>4
        <3>6. q \in Queues
            BY <3>2, <3>4 DEF Queues
        <3>7. \A i : Waits(q, i) <=> Waits(f, i)
            BY <3>5 DEF Waits
        <3>8. \A i, r : SendsLast(f, i, r) => SendsLast(q, i, r)
            BY <3>5 DEF SendsLast
        <3> QED BY <2>1, <3>6, <3>7, <3>8 DEF f
    <2> QED BY <2>2, <2>3 DEF new
<1>3. /\ last' \in [Ids -> Rows] /\ \A i \in Ids : last'[i].id = i
      /\ \A k \in DOMAIN rs : rs[k].id \in Ids /\ last'[rs[k].id] = rs[k]
      /\ \A i \in Ids : ~Has(rs, i) => last'[i] = last[i]
      /\ crossed \subseteq crossed'
      /\ \A k \in DOMAIN rs : rs[k].id \notin crossed' => \A c \in Batchers \ {b} : ~Holds(c, rs[k].id)
    BY NotedIs
<1>4. queues' \in [Batchers -> Queues] /\ queues'[b] = q /\ \A c \in Batchers \ {b} : queues'[c] = queues[c]
    BY <1>2 DEF RowsOK
<1>5. RowsOK'
    BY <1>3, <1>4 DEF RowsOK
<1>6. ASSUME NEW i \in Ids, i \notin faulty, i \notin crossed'
      PROVE  /\ \A c \in Batchers : Waits(queues'[c], i) =>
                   SendsLast(queues'[c], i, last'[i]) /\ \A d \in Batchers : Waits(queues'[d], i) => d = c
             /\ (\A c \in Batchers : ~Waits(queues'[c], i)) => stored[i] = last'[i]
    <2>1. i \notin crossed
        BY <1>3, <1>6
    <2>2. CASE Has(rs, i)
        <3>1. PICK k \in DOMAIN rs : rs[k].id = i
            BY <2>2 DEF Has
        <3>2. SendsLast(q, i, last'[i]) /\ Waits(q, i)
            BY <1>1, <1>2, <1>3, <2>2, <3>1
        <3>3. ASSUME NEW c \in Batchers \ {b} PROVE ~Waits(queues'[c], i)
            <4>1. ~Holds(c, i) /\ queues[c] \in Queues
                BY <1>3, <1>6, <3>1 DEF RowsOK
            <4> QED BY <1>4, <4>1, HoldsIs
        <3> QED BY <1>4, <3>2, <3>3
    <2>3. CASE ~Has(rs, i)
        <3>1. last'[i] = last[i]
            BY <1>3, <2>3
        <3>2. \A c \in Batchers : Waits(queues'[c], i) <=> Waits(queues[c], i)
            BY <1>1, <1>2, <1>4, <2>3
        <3>3. \A c \in Batchers : SendsLast(queues[c], i, last[i]) => SendsLast(queues'[c], i, last[i])
            BY <1>1, <1>2, <1>4, <2>3
        <3>4. /\ \A c \in Batchers : Waits(queues[c], i) =>
                   SendsLast(queues[c], i, last[i]) /\ \A d \in Batchers : Waits(queues[d], i) => d = c
              /\ (\A c \in Batchers : ~Waits(queues[c], i)) => stored[i] = last[i]
            BY <1>6, <2>1 DEF Waiting
        <3> QED BY <3>1, <3>2, <3>3, <3>4
    <2> QED BY <2>2, <2>3
<1>7. Waiting'
    BY <1>6 DEF Waiting
<1>8. LateFailed'
    BY DEF LateFailed
<1> QED BY <1>5, <1>7, <1>8

\* What leaves a queue, and reaches the collector or fails, leaves nothing newer behind
LEMMA SentKeeps ==
    ASSUME TracerAssumption, RowsOK, Waiting, LateFailed, NEW b \in Batchers, queues[b].sends # <<>>, Sent(b),
           \/ stored' = Storing(Chunk(b)) /\ UNCHANGED <<late, faulty>>
           \/ /\ UNCHANGED stored /\ faulty' = faulty \cup {r.id : r \in ToSet(Chunk(b))}
              /\ late' = late \/ late' = late \cup {Chunk(b)}
    PROVE  RowsOK' /\ Waiting' /\ LateFailed'
<1> DEFINE q == queues[b]
           first == q.sends[1]
           n == IF Len(first) < MAX_EVENTS_PER_REQUEST THEN Len(first) ELSE MAX_EVENTS_PER_REQUEST
           chunk == SubSeq(first, 1, n)
           left == SubSeq(first, n + 1, Len(first))
           rest == IF left = <<>> THEN Tail(q.sends) ELSE [q.sends EXCEPT ![1] = left]
           p == [q EXCEPT !.sends = rest]
<1>1. q \in Queues /\ q.sends \in Seq(Seq(Rows)) /\ q.sends # <<>>
    BY DEF RowsOK, Queues
<1>2. first \in Seq(Rows)
    BY <1>1
<1>3. n \in 0 .. Len(first)
    BY <1>2 DEF TracerAssumption
<1>4. Chunk(b) = chunk
    BY DEF Chunk
<1> HIDE DEF first, n
<1>5. /\ chunk \in Seq(Rows) /\ left \in Seq(Rows) /\ Len(chunk) = n
      /\ \A i : Has(first, i) <=> Has(chunk, i) \/ Has(left, i)
      /\ \A i, r : EndsWith(first, i, r) =>
                      IF Has(left, i) THEN EndsWith(left, i, r) ELSE EndsWith(chunk, i, r)
    BY <1>2, <1>3, SplitSend
<1>6. Rest(b) = rest
    <2>1. SubSeq(first, Len(Chunk(b)) + 1, Len(first)) = left
        BY <1>4, <1>5
    <2> QED BY <2>1 DEF Rest, first
<1> HIDE DEF chunk, left
<1>7. /\ p \in Queues /\ p.closed = q.closed
      /\ \A i : Waits(q, i) <=> Has(chunk, i) \/ Waits(p, i)
      /\ \A i, r : SendsLast(q, i, r) =>
            IF Waits(p, i) THEN SendsLast(p, i, r) ELSE EndsWith(chunk, i, r)
    BY <1>1, <1>5, RestKeeps DEF first
<1>8. queues' = [queues EXCEPT ![b] = p]
    BY <1>6 DEF Sent
<1>9. UNCHANGED <<last, crossed>>
    BY DEF Sent, history
<1>a. /\ stored' = Storing(chunk) /\ UNCHANGED <<late, faulty>>
      \/ /\ UNCHANGED stored /\ faulty' = faulty \cup {r.id : r \in ToSet(chunk)}
         /\ late' = late \/ late' = late \cup {chunk}
    BY <1>4
<1> HIDE DEF p
<1>10. queues' \in [Batchers -> Queues] /\ queues'[b] = p /\ \A c \in Batchers \ {b} : queues'[c] = queues[c]
    BY <1>7, <1>8 DEF RowsOK
<1>b. \A k \in DOMAIN chunk : chunk[k] \in Rows /\ chunk[k] \in ToSet(chunk)
    BY <1>5 DEF ToSet
<1>11. stored' \in [Ids -> Rows] /\ \A i \in Ids : stored'[i].id = i
    <2>1. CASE stored' = Storing(chunk)
        <3>1. DOMAIN stored' = Ids /\ stored' = [i \in Ids |-> stored'[i]]
            BY <2>1 DEF Storing
        <3>2. ASSUME NEW i \in Ids PROVE stored'[i] \in Rows /\ stored'[i].id = i
            <4>1. CASE Has(chunk, i)
                <5>1. EndsWith(chunk, i, Storing(chunk)[i]) /\ Storing(chunk)[i] \in Rows
                    BY <1>5, <4>1, StoringLast
                <5> QED BY <2>1, <5>1 DEF EndsWith
            <4>2. CASE ~Has(chunk, i)
                <5>1. Storing(chunk)[i] = stored[i]
                    BY <1>5, <4>2, StoringLast
                <5> QED BY <2>1, <5>1 DEF RowsOK
            <4> QED BY <4>1, <4>2
        <3> QED BY <3>1, <3>2
    <2>2. CASE UNCHANGED stored
        BY <2>2 DEF RowsOK
    <2> QED BY <1>a, <2>1, <2>2
<1>12. RowsOK'
    BY <1>5, <1>9, <1>a, <1>10, <1>11 DEF RowsOK
<1>13. LateFailed'
    BY <1>a, <1>b DEF LateFailed
<1>14. ASSUME NEW i \in Ids, i \notin faulty', i \notin crossed
       PROVE  /\ \A c \in Batchers : Waits(queues'[c], i) =>
                    SendsLast(queues'[c], i, last[i]) /\ \A d \in Batchers : Waits(queues'[d], i) => d = c
              /\ (\A c \in Batchers : ~Waits(queues'[c], i)) => stored'[i] = last[i]
    <2>1. i \notin faulty /\ (stored' = Storing(chunk) \/ (stored' = stored /\ ~Has(chunk, i)))
        BY <1>a, <1>b, <1>14 DEF Has
    <2>2. /\ \A c \in Batchers : Waits(queues[c], i) =>
                SendsLast(queues[c], i, last[i]) /\ \A d \in Batchers : Waits(queues[d], i) => d = c
          /\ (\A c \in Batchers : ~Waits(queues[c], i)) => stored[i] = last[i]
        BY <1>14, <2>1 DEF Waiting
    <2>3. CASE Waits(q, i)
        <3>1. SendsLast(q, i, last[i]) /\ \A c \in Batchers \ {b} : ~Waits(queues'[c], i)
            BY <1>10, <2>2, <2>3
        <3>2. IF Waits(p, i) THEN SendsLast(p, i, last[i]) ELSE EndsWith(chunk, i, last[i])
            BY <1>7, <3>1
        <3>3. EndsWith(chunk, i, last[i]) => Has(chunk, i) /\ Storing(chunk)[i] = last[i]
            <4>1. chunk \in Seq(Rows)
                BY <1>5
            <4>2. EndsWith(chunk, i, last[i]) => Storing(chunk)[i] = last[i]
                BY <4>1, StoringLast
            <4>3. EndsWith(chunk, i, last[i]) => Has(chunk, i)
                BY DEF EndsWith, Has
            <4> QED BY <4>2, <4>3
        <3>4. ~Waits(p, i) => stored'[i] = last[i]
            BY <2>1, <3>2, <3>3
        <3> QED BY <1>10, <3>1, <3>2, <3>4
    <2>4. CASE ~Waits(q, i)
        <3>1. ~Waits(p, i) /\ ~Has(chunk, i)
            BY <1>7, <2>4
        <3>2. stored'[i] = stored[i]
            BY <1>5, <2>1, <3>1, StoringLast
        <3>3. \A c \in Batchers : (Waits(queues'[c], i) <=> Waits(queues[c], i)) /\ (Waits(queues[c], i) => queues'[c] = queues[c])
            BY <1>10, <2>4, <3>1
        <3> QED BY <2>2, <3>2, <3>3
    <2> QED BY <2>3, <2>4
<1>15. Waiting'
    BY <1>9, <1>14 DEF Waiting
<1> QED BY <1>12, <1>13, <1>15

\* A request that arrives late has only ids that failed
LEMMA LateKeeps ==
    ASSUME RowsOK, Waiting, LateFailed, ArrivesLate
    PROVE  RowsOK' /\ Waiting' /\ LateFailed'
<1>1. PICK rs \in late : late' = late \ {rs} /\ stored' = Storing(rs)
    BY DEF ArrivesLate
<1>2. rs \in Seq(Rows) /\ \A k \in DOMAIN rs : rs[k].id \in faulty
    BY DEF RowsOK, LateFailed
<1>3. UNCHANGED <<queues, last, crossed, faulty>>
    BY DEF ArrivesLate, history
<1>4. DOMAIN stored' = Ids /\ stored' = [i \in Ids |-> stored'[i]]
    BY <1>1 DEF Storing
<1>5. ASSUME NEW i \in Ids PROVE stored'[i] \in Rows /\ stored'[i].id = i
    <2>1. CASE Has(rs, i)
        <3>1. EndsWith(rs, i, Storing(rs)[i]) /\ Storing(rs)[i] \in Rows
            BY <1>2, <2>1, StoringLast
        <3> QED BY <1>1, <3>1 DEF EndsWith
    <2>2. CASE ~Has(rs, i)
        <3>1. Storing(rs)[i] = stored[i]
            BY <1>2, <2>2, StoringLast
        <3> QED BY <1>1, <3>1 DEF RowsOK
    <2> QED BY <2>1, <2>2
<1>6. \A i \in Ids : i \notin faulty => stored'[i] = stored[i]
    <2> SUFFICES ASSUME NEW i \in Ids, i \notin faulty PROVE stored'[i] = stored[i]
        OBVIOUS
    <2>1. ~Has(rs, i)
        BY <1>2 DEF Has
    <2> QED BY <1>1, <1>2, <2>1, StoringLast
<1>7. RowsOK'
    BY <1>1, <1>3, <1>4, <1>5 DEF RowsOK
<1>8. Waiting'
    BY <1>3, <1>6 DEF Waiting
<1>9. LateFailed'
    BY <1>1, <1>3 DEF LateFailed
<1> QED BY <1>7, <1>8, <1>9

\* A batcher that flushes keeps order
LEMMA TickKeeps ==
    ASSUME RowsOK, Waiting, LateFailed, NEW b \in Batchers, queues' = [queues EXCEPT ![b] = flush(@)],
           UNCHANGED <<stored, late, faulty, last, crossed>>
    PROVE  RowsOK' /\ Waiting' /\ LateFailed'
<1>1. queues[b] \in Queues
    BY DEF RowsOK
<1> DEFINE p == flush(queues[b])
<1>2. /\ p \in Queues
      /\ \A i : Waits(p, i) <=> Waits(queues[b], i)
      /\ \A i, r : SendsLast(queues[b], i, r) => SendsLast(p, i, r)
    BY <1>1, FlushKeeps
<1>a. queues' = [queues EXCEPT ![b] = p]
    OBVIOUS
<1> HIDE DEF p
<1>3. queues' \in [Batchers -> Queues] /\ queues'[b] = p /\ \A c \in Batchers \ {b} : queues'[c] = queues[c]
    BY <1>2, <1>a DEF RowsOK
<1>4. \A c \in Batchers : \A i, r : /\ Waits(queues'[c], i) <=> Waits(queues[c], i)
                                    /\ SendsLast(queues[c], i, r) => SendsLast(queues'[c], i, r)
    BY <1>2, <1>3
<1>5. RowsOK'
    BY <1>3 DEF RowsOK
<1>6. Waiting'
    BY <1>4 DEF Waiting
<1>7. LateFailed'
    BY DEF LateFailed
<1> QED BY <1>5, <1>6, <1>7

\* What was waiting when the process died has failed
LEMMA CutKeeps ==
    ASSUME RowsOK, Waiting, LateFailed, Cut
    PROVE  RowsOK' /\ Waiting' /\ LateFailed'
<1>1. /\ UNCHANGED <<stored, late, last, crossed>>
      /\ faulty' = faulty \cup {r.id : r \in UNION {Unsent(b) : b \in Batchers}}
      /\ queues' = [b \in Batchers |-> [buffer |-> <<>>, sends |-> <<>>, closed |-> queues[b].closed \/ b <= starts]]
    BY DEF Cut
<1>2. ASSUME NEW b \in Batchers
      PROVE  queues'[b] \in Queues /\ queues'[b].buffer = <<>> /\ queues'[b].sends = <<>>
    <2>1. queues'[b] = [buffer |-> <<>>, sends |-> <<>>, closed |-> queues[b].closed \/ b <= starts]
        BY <1>1
    <2>2. (queues[b].closed \/ b <= starts) \in BOOLEAN
        OBVIOUS
    <2>3. <<>> \in Seq(Rows) /\ <<>> \in Seq(Seq(Rows))
        OBVIOUS
    <2>4. queues'[b] \in Queues
        BY <2>1, <2>2, <2>3 DEF Queues
    <2> QED BY <2>1, <2>4
<1>3. queues' \in [Batchers -> Queues]
    BY <1>1, <1>2
<1>4. ASSUME NEW b \in Batchers, NEW i PROVE ~Waits(queues'[b], i)
    BY <1>2 DEF Waits, Has
<1>5. ASSUME NEW i \in Ids, i \notin faulty', i \notin crossed PROVE stored[i] = last[i]
    <2>1. ASSUME NEW b \in Batchers PROVE ~Waits(queues[b], i)
        <3>1. ~Holds(b, i)
            BY <1>1, <1>5 DEF Holds
        <3>2. queues[b] \in Queues
            BY DEF RowsOK
        <3> QED BY <3>1, <3>2, HoldsIs
    <2>2. i \notin faulty
        BY <1>1, <1>5
    <2> QED BY <1>5, <2>1, <2>2 DEF Waiting
<1>6. RowsOK'
    BY <1>1, <1>3 DEF RowsOK
<1>7. Waiting'
    BY <1>1, <1>4, <1>5 DEF Waiting
<1>8. LateFailed'
    BY <1>1 DEF LateFailed
<1> QED BY <1>6, <1>7, <1>8

\* A row of an event
LEMMA RowIs ==
    ASSUME RowsOK, NEW i \in Ids, NEW closed \in BOOLEAN, NEW fs \in SUBSET Fields
    PROVE  Row(i, closed, fs) \in Rows /\ Row(i, closed, fs).id = i /\ Row(i, closed, fs).closed = closed
<1>1. last[i] \in Rows
    BY DEF RowsOK
<1>2. last[i].rev + 1 \in Nat
    BY <1>1 DEF Rows
<1> QED BY <1>2 DEF Row, Rows

LEMMA FeedableRows ==
    /\ \A r \in Rows : Feedable(<<r>>)
    /\ \A r, s \in Rows : r.id # s.id => Feedable(<<r, s>>)
<1>1. ASSUME NEW r \in Rows PROVE Feedable(<<r>>)
    <2> HIDE DEF Rows
    <2> QED BY DEF Feedable
<1>2. ASSUME NEW r \in Rows, NEW s \in Rows, r.id # s.id PROVE Feedable(<<r, s>>)
    <2>1. <<r, s>> \in Seq(Rows) /\ DOMAIN <<r, s>> = {1, 2}
        OBVIOUS
    <2> QED BY <1>2, <2>1 DEF Feedable
<1> QED BY <1>1, <1>2

\* Rows that end what is no longer open, or are of what is open now, keep the invariant
LEMMA EmitKeeps ==
    ASSUME TracerInv, StateOK', NEW b \in Batchers, batcher' = b, ~queues[b].closed,
           NEW rs, Feedable(rs), Emit(b, rs), UNCHANGED <<stored, late, faulty>>,
           leaked \subseteq leaked', starts <= starts',
           \A k \in DOMAIN rs : rs[k].closed \/ rs[k].id \in OpenSpans',
           \A i \in OpenSpans : \/ i \in OpenSpans' \/ i \in leaked'
                                \/ \E k \in DOMAIN rs : rs[k].id = i /\ rs[k].closed
    PROVE  TracerInv'
<1>0. StateOK /\ RowsOK /\ Unended /\ Waiting /\ LateFailed /\ InUse
    BY DEF TracerInv, TracerTyped
<1>1. Noted(b, rs) /\ queues' = [queues EXCEPT ![b] = Queued(b, rs)]
    BY DEF Emit
<1>2. RowsOK' /\ Waiting' /\ LateFailed'
    BY <1>0, <1>1, FeedKeeps
<1>3. /\ \A k \in DOMAIN rs : rs[k].id \in Ids /\ last'[rs[k].id] = rs[k]
      /\ \A i \in Ids : ~Has(rs, i) => last'[i] = last[i]
    BY <1>0, <1>1, NotedIs
<1>4. ~Queued(b, rs).closed /\ DOMAIN queues = Batchers
    BY <1>0, QueuedAdds DEF Feedable, RowsOK
<1>5. queues'[b] = Queued(b, rs) /\ \A c \in Batchers \ {b} : queues'[c] = queues[c]
    BY <1>1, <1>4
<1>6. batcher' # 0
    BY DEF Batchers
<1>7. ASSUME NEW i \in Ids, i \notin leaked' PROVE last'[i].closed \/ i \in OpenSpans'
    <2>1. CASE Has(rs, i)
        BY <1>3, <2>1 DEF Has
    <2>2. CASE ~Has(rs, i)
        <3>1. last'[i] = last[i] /\ i \notin leaked
            BY <1>3, <1>7, <2>2
        <3>2. last[i].closed \/ i \in OpenSpans
            BY <1>0, <3>1 DEF Unended
        <3>3. i \in OpenSpans => i \in OpenSpans'
            BY <1>7, <2>2 DEF Has
        <3> QED BY <3>1, <3>2, <3>3
    <2> QED BY <2>1, <2>2
<1>8. Unended'
    BY <1>6, <1>7 DEF Unended
<1>9. Forgotten'
    BY <1>6 DEF Forgotten
<1>10. InUse'
    <2>1. b \in 0 .. starts' /\ starts \in Nat /\ starts' \in Nat
        BY <1>0 DEF StateOK
    <2>2. ASSUME NEW c \in Batchers, queues'[c].closed PROVE c <= starts'
        <3>1. c # b /\ queues[c].closed
            BY <1>4, <1>5, <2>2
        <3>2. c <= starts /\ c \in Nat
            BY <1>0, <3>1 DEF InUse, Batchers
        <3> QED BY <2>1, <3>2
    <2> QED BY <1>4, <1>5, <2>2 DEF InUse
<1> QED BY <1>2, <1>8, <1>9, <1>10 DEF TracerInv, TracerTyped

\* Where an event finds the tracer
LEMMA AtEvent ==
    ASSUME TracerAssumption, TracerInv, Event
    PROVE  /\ batcher \in Batchers /\ ~queues[batcher].closed
           /\ trace \in Ids /\ SpanIds \subseteq Ids /\ NewSpan \in Ids
           /\ NewSpan # trace /\ NewSpan \notin SpanIds /\ NewSpan # NoId /\ NoId \notin SpanIds
           /\ RowsOK /\ StateOK /\ fields \in SUBSET Fields
           /\ UNCHANGED <<trace, batcher, late, stored, faulty, starts, faults>>
<1>1. StateOK /\ RowsOK /\ InUse
    BY DEF TracerInv, TracerTyped
<1>2. /\ batcher # 0 /\ trace # NoId /\ events < MaxEvents /\ events' = events + 1
      /\ UNCHANGED <<trace, batcher, late, stored, faulty, starts, faults>>
    BY DEF Event
<1>3. batcher \in Batchers
    BY <1>1, <1>2 DEF TracerAssumption, StateOK, Batchers
<1>4. PICK s \in Sessions : trace = TraceId(s)
    BY <1>1, <1>2 DEF StateOK
<1>5. trace \in Ids
    BY <1>4 DEF Ids
<1>6. spans \in Nat /\ spans + 1 \in 1 .. MaxEvents /\ 1 .. spans \subseteq 1 .. MaxEvents
    BY <1>1, <1>2 DEF TracerAssumption, StateOK
<1>7. NewSpan \in Ids /\ SpanIds \subseteq Ids
    BY <1>6 DEF Ids, NewSpan, SpanIds
<1>8. NewSpan # trace /\ NewSpan # NoId /\ NoId \notin SpanIds
    BY <1>4 DEF NewSpan, SpanId, TraceId, NoId, SpanIds
<1>9. NewSpan \notin SpanIds
    <2>1. \A k \in 1 .. spans : k # spans + 1
        BY <1>6
    <2> QED BY <2>1 DEF NewSpan, SpanId, SpanIds
<1> QED BY <1>1, <1>2, <1>3, <1>5, <1>7, <1>8, <1>9 DEF InUse, StateOK

\* Its changes of the state: spans may get a new one
LEMMA EventState ==
    ASSUME TracerAssumption, TracerInv, Event, fields' \subseteq Fields,
           \/ spans' = spans /\ UNCHANGED <<currentTurn, openTools>>
           \/ /\ spans' \in {spans, spans + 1}
              /\ currentTurn' \in SpanIds' \cup {NoId} /\ openTools' \in [Calls -> SpanIds' \cup {NoId}]
    PROVE  StateOK'
<1>1. StateOK
    BY DEF TracerInv, TracerTyped
<1>2. /\ batcher # 0 /\ trace # NoId /\ events < MaxEvents /\ events' = events + 1
      /\ UNCHANGED <<trace, batcher, starts>>
    BY DEF Event
<1>3. events' \in 0 .. MaxEvents /\ spans' \in 0 .. events'
    BY <1>1, <1>2 DEF TracerAssumption, StateOK
<1>4. currentTurn' \in SpanIds' \cup {NoId} /\ openTools' \in [Calls -> SpanIds' \cup {NoId}]
    BY <1>1 DEF StateOK, SpanIds
<1> QED BY <1>1, <1>2, <1>3, <1>4 DEF StateOK

\* After a new span the spans are those from before and the new one
LEMMA OneMore ==
    ASSUME StateOK, spans' = spans + 1
    PROVE  SpanIds' = SpanIds \cup {NewSpan}
<1>1. 1 .. (spans + 1) = (1 .. spans) \cup {spans + 1}
    BY DEF StateOK
<1> QED BY <1>1 DEF SpanIds, NewSpan

LEMMA EventKeeps ==
    ASSUME TracerAssumption, TracerInv, Event, StateOK', NEW rs, Feedable(rs), feed(rs),
           \A k \in DOMAIN rs : rs[k].closed \/ rs[k].id \in OpenSpans',
           \A i \in OpenSpans : i \in OpenSpans' \/ \E k \in DOMAIN rs : rs[k].id = i /\ rs[k].closed
    PROVE  TracerInv'
<1>1. /\ batcher \in Batchers /\ ~queues[batcher].closed /\ StateOK
      /\ UNCHANGED <<trace, batcher, late, stored, faulty, starts, faults>>
    BY AtEvent
<1>2. Emit(batcher, rs) /\ leaked' = leaked
    BY DEF feed
<1>3. starts <= starts'
    BY <1>1 DEF StateOK
<1> QED BY <1>1, <1>2, <1>3, EmitKeeps

LEMMA MessageKeeps ==
    ASSUME TracerAssumption, TracerInv, user_message
    PROVE  TracerInv'
<1>1. /\ Event /\ UNCHANGED <<currentTurn, openTools, spans>>
      /\ fields' = fields \cup {"input"} /\ feed(<<TraceRow(fields')>>)
    BY DEF user_message, Adds
<1>2. PICK fs : fs = fields'
    OBVIOUS
<1>3. trace \in Ids /\ RowsOK /\ fs \in SUBSET Fields
    BY <1>1, <1>2, AtEvent DEF Fields
<1> DEFINE row == Row(trace, TRUE, fs)
<1>4. row \in Rows /\ row.closed
    BY <1>3, RowIs
<1>5. feed(<<row>>)
    BY <1>1, <1>2 DEF TraceRow
<1> HIDE DEF row
<1>6. StateOK'
    BY <1>1, <1>2, <1>3, EventState
<1>7. Feedable(<<row>>)
    BY <1>4, FeedableRows
<1>8. \A i \in OpenSpans : i \in OpenSpans'
    BY <1>1 DEF OpenSpans
<1>9. \A k \in DOMAIN <<row>> : <<row>>[k].closed
    BY <1>4
<1> QED BY <1>1, <1>5, <1>6, <1>7, <1>8, <1>9, EventKeeps

LEMMA TurnEndKeeps ==
    ASSUME TracerAssumption, TracerInv, turn_end
    PROVE  TracerInv'
<1>1. /\ Event /\ UNCHANGED <<fields, openTools, spans>>
      /\ currentTurn # NoId /\ currentTurn' = NoId /\ feed(TurnRow(TRUE))
    BY DEF turn_end
<1>2. RowsOK /\ StateOK /\ SpanIds \subseteq Ids /\ fields \in SUBSET Fields
    BY <1>1, AtEvent
<1>3. currentTurn \in Ids
    BY <1>1, <1>2 DEF StateOK
<1> DEFINE row == Row(currentTurn, TRUE, {})
<1>4. row \in Rows /\ row.closed /\ row.id = currentTurn
    BY <1>2, <1>3, RowIs
<1>5. feed(<<row>>)
    BY <1>1 DEF TurnRow
<1> HIDE DEF row
<1>6. SpanIds' = SpanIds
    BY <1>1 DEF SpanIds
<1>7. StateOK'
    <2>1. currentTurn' \in SpanIds' \cup {NoId} /\ openTools' \in [Calls -> SpanIds' \cup {NoId}]
        BY <1>1, <1>2, <1>6 DEF StateOK
    <2> QED BY <1>1, <1>2, <2>1, EventState
<1>8. Feedable(<<row>>)
    BY <1>4, FeedableRows
<1>9. \A i \in OpenSpans : i \in OpenSpans' \/ i = currentTurn
    BY <1>1 DEF OpenSpans
<1>10. DOMAIN <<row>> = {1} /\ <<row>>[1] = row
    OBVIOUS
<1> QED BY <1>1, <1>4, <1>5, <1>7, <1>8, <1>9, <1>10, EventKeeps

LEMMA PairOf == \A a, b : <<a>> \o <<b>> = <<a, b>>
<1> SUFFICES ASSUME NEW a, NEW b PROVE <<a>> \o <<b>> = <<a, b>>
    OBVIOUS
<1> DEFINE s == <<a>>
           t == <<b>>
           S == {a, b}
<1>1. s \in Seq(S) /\ t \in Seq(S) /\ Len(s) = 1 /\ Len(t) = 1 /\ s[1] = a /\ t[1] = b
    OBVIOUS
<1>4. <<a, b>> \in Seq(S) /\ Len(<<a, b>>) = 2 /\ <<a, b>>[1] = a /\ <<a, b>>[2] = b
    OBVIOUS
<1> HIDE DEF s, t, S
<1>5. /\ s \o t \in Seq(S) /\ Len(s \o t) = Len(s) + Len(t)
      /\ \A i \in 1 .. Len(s) + Len(t) : (s \o t)[i] = IF i <= Len(s) THEN s[i] ELSE t[i - Len(s)]
    BY <1>1, ConcatProperties
<1>2. Len(s \o t) = 2 /\ (s \o t)[1] = a /\ (s \o t)[2] = b
    <2>1. Len(s) + Len(t) = 2 /\ 1 \in 1 .. 2 /\ 2 \in 1 .. 2 /\ 2 - 1 = 1
        BY <1>1
    <2> QED BY <1>1, <1>5, <2>1
<1>3. s \o t = <<a, b>>
    <2>1. \A i \in 1 .. Len(s \o t) : (s \o t)[i] = <<a, b>>[i]
        <3>1. 1 .. Len(s \o t) = {1, 2}
            BY <1>2
        <3> QED BY <1>2, <1>4, <3>1
    <2> QED BY <1>2, <1>4, <1>5, <2>1, SeqEqual
<1> QED BY <1>3 DEF s, t

LEMMA TurnStartKeeps ==
    ASSUME TracerAssumption, TracerInv, turn_start
    PROVE  TracerInv'
<1>1. /\ Event /\ UNCHANGED <<fields, openTools>>
      /\ spans' = spans + 1 /\ currentTurn' = NewSpan
      /\ feed(TurnRow(TRUE) \o <<Row(NewSpan, FALSE, {})>>)
    BY DEF turn_start
<1>2. /\ RowsOK /\ StateOK /\ SpanIds \subseteq Ids /\ NewSpan \in Ids /\ NewSpan \notin SpanIds
      /\ NewSpan # NoId /\ fields \in SUBSET Fields
    BY <1>1, AtEvent
<1>3. SpanIds' = SpanIds \cup {NewSpan}
    BY <1>1, <1>2, OneMore
<1>4. StateOK'
    <2>1. currentTurn' \in SpanIds' \cup {NoId} /\ openTools' \in [Calls -> SpanIds' \cup {NoId}]
        BY <1>1, <1>2, <1>3 DEF StateOK
    <2> QED BY <1>1, <1>2, <2>1, EventState
<1> DEFINE row == Row(NewSpan, FALSE, {})
<1>5. row \in Rows /\ row.id = NewSpan /\ ~row.closed
    BY <1>2, RowIs
<1>6. NewSpan \in OpenSpans'
    BY <1>1, <1>2 DEF OpenSpans
<1>7. \A i \in OpenSpans : i \in OpenSpans' \/ i = currentTurn
    BY <1>1 DEF OpenSpans
<1>8. NoId \notin OpenSpans
    BY DEF OpenSpans
<1>9. CASE currentTurn = NoId
    <2>1. feed(<<>> \o <<row>>)
        BY <1>1, <1>9 DEF TurnRow
    <2> HIDE DEF row
    <2>2. <<>> \o <<row>> = <<row>> /\ DOMAIN <<row>> = {1} /\ <<row>>[1] = row
        OBVIOUS
    <2>3. feed(<<row>>)
        BY <2>1, <2>2
    <2>4. Feedable(<<row>>)
        BY <1>5, FeedableRows
    <2>5. \A i \in OpenSpans : i \in OpenSpans'
        BY <1>7, <1>8, <1>9
    <2>6. \A k \in DOMAIN <<row>> : <<row>>[k].closed \/ <<row>>[k].id \in OpenSpans'
        BY <1>5, <1>6, <2>2
    <2> QED BY <1>1, <1>4, <2>3, <2>4, <2>5, <2>6, EventKeeps
<1>10. CASE currentTurn # NoId
    <2> DEFINE turned == Row(currentTurn, TRUE, {})
    <2>0. currentTurn \in SpanIds /\ currentTurn \in Ids
        BY <1>2, <1>10 DEF StateOK
    <2>1. turned \in Rows /\ turned.id = currentTurn /\ turned.closed
        BY <1>2, <2>0, RowIs
    <2>2. feed(<<turned>> \o <<row>>)
        BY <1>1, <1>10 DEF TurnRow
    <2> HIDE DEF row, turned
    <2>a. <<turned>> \o <<row>> = <<turned, row>>
        BY PairOf
    <2>b. DOMAIN <<turned, row>> = {1, 2}
        OBVIOUS
    <2>3. <<turned>> \o <<row>> = <<turned, row>> /\ DOMAIN <<turned, row>> = {1, 2}
        BY <2>a, <2>b
    <2>4. feed(<<turned, row>>)
        BY <2>2, <2>3
    <2>5. Feedable(<<turned, row>>)
        BY <1>2, <1>5, <2>0, <2>1, FeedableRows
    <2>6. <<turned, row>>[1] = turned /\ <<turned, row>>[2] = row
        OBVIOUS
    <2>7. \A k \in DOMAIN <<turned, row>> : <<turned, row>>[k].closed \/ <<turned, row>>[k].id \in OpenSpans'
        BY <1>5, <1>6, <2>1, <2>3, <2>6
    <2>8. \A i \in OpenSpans : i \in OpenSpans' \/ \E k \in DOMAIN <<turned, row>> :
                                  <<turned, row>>[k].id = i /\ <<turned, row>>[k].closed
        BY <1>7, <2>1, <2>3, <2>6
    <2> QED BY <1>1, <1>4, <2>4, <2>5, <2>7, <2>8, EventKeeps
<1> QED BY <1>9, <1>10

LEMMA AssistantKeeps ==
    ASSUME TracerAssumption, TracerInv, assistant_message
    PROVE  TracerInv'
<1> DEFINE generation == Row(NewSpan, TRUE, {})
<1>1. /\ Event /\ spans' = spans + 1 /\ UNCHANGED <<currentTurn, openTools>>
      /\ \/ fields' = fields \cup {"output"} /\ feed(<<generation, TraceRow(fields')>>)
         \/ fields' = fields /\ feed(<<generation>>)
    BY DEF assistant_message, Adds
<1>2. /\ RowsOK /\ StateOK /\ NewSpan \in Ids /\ NewSpan # trace /\ trace \in Ids /\ fields \in SUBSET Fields
    BY <1>1, AtEvent
<1>3. SpanIds' = SpanIds \cup {NewSpan}
    BY <1>1, <1>2, OneMore
<1>4. PICK fs : fs = fields'
    OBVIOUS
<1>5. fs \in SUBSET Fields
    BY <1>1, <1>2, <1>4 DEF Fields
<1>6. StateOK'
    <2>1. currentTurn' \in SpanIds' \cup {NoId} /\ openTools' \in [Calls -> SpanIds' \cup {NoId}]
        BY <1>1, <1>2, <1>3 DEF StateOK
    <2> QED BY <1>1, <1>4, <1>5, <2>1, EventState
<1>7. generation \in Rows /\ generation.id = NewSpan /\ generation.closed
    BY <1>2, RowIs
<1> DEFINE row == Row(trace, TRUE, fs)
<1>8. row \in Rows /\ row.id = trace /\ row.closed
    BY <1>2, <1>5, RowIs
<1>9. feed(<<generation, row>>) \/ feed(<<generation>>)
    BY <1>1, <1>4 DEF TraceRow
<1> HIDE DEF row, generation
<1>10. \A i \in OpenSpans : i \in OpenSpans'
    BY <1>1 DEF OpenSpans
<1>11. /\ DOMAIN <<generation, row>> = {1, 2} /\ <<generation, row>>[1] = generation
       /\ <<generation, row>>[2] = row
       /\ DOMAIN <<generation>> = {1} /\ <<generation>>[1] = generation
    OBVIOUS
<1>12. Feedable(<<generation, row>>) /\ Feedable(<<generation>>)
    BY <1>2, <1>7, <1>8, FeedableRows
<1>13. CASE feed(<<generation, row>>)
    <2>1. \A k \in DOMAIN <<generation, row>> : <<generation, row>>[k].closed
        BY <1>7, <1>8, <1>11
    <2> QED BY <1>1, <1>6, <1>10, <1>12, <1>13, <2>1, EventKeeps
<1>14. CASE feed(<<generation>>)
    <2>1. \A k \in DOMAIN <<generation>> : <<generation>>[k].closed
        BY <1>7, <1>11
    <2> QED BY <1>1, <1>6, <1>10, <1>12, <1>14, <2>1, EventKeeps
<1> QED BY <1>9, <1>13, <1>14

LEMMA ToolStartKeeps ==
    ASSUME TracerAssumption, TracerInv, tool_start
    PROVE  TracerInv'
<1> DEFINE span == Row(NewSpan, FALSE, {})
<1>1. /\ Event /\ spans' = spans + 1 /\ UNCHANGED currentTurn
      /\ \/ fields' = fields \cup {"skills"} /\ feed(<<TraceRow(fields'), span>>)
         \/ fields' = fields /\ feed(<<span>>)
    BY DEF tool_start
<1>a. PICK c \in Calls : openTools[c] = NoId /\ openTools' = [openTools EXCEPT ![c] = NewSpan]
    BY DEF tool_start
<1>2. /\ RowsOK /\ StateOK /\ NewSpan \in Ids /\ NewSpan # trace /\ trace \in Ids /\ fields \in SUBSET Fields
      /\ NewSpan # NoId
    BY <1>1, AtEvent
<1>3. SpanIds' = SpanIds \cup {NewSpan}
    BY <1>1, <1>2, OneMore
<1>4. PICK fs : fs = fields'
    OBVIOUS
<1>5. fs \in SUBSET Fields
    BY <1>1, <1>2, <1>4 DEF Fields
<1>6. StateOK'
    <2>1. currentTurn' \in SpanIds' \cup {NoId} /\ openTools' \in [Calls -> SpanIds' \cup {NoId}]
        BY <1>1, <1>a, <1>2, <1>3 DEF StateOK
    <2> QED BY <1>1, <1>4, <1>5, <2>1, EventState
<1>7. span \in Rows /\ span.id = NewSpan /\ ~span.closed
    BY <1>2, RowIs
<1> DEFINE row == Row(trace, TRUE, fs)
<1>8. row \in Rows /\ row.id = trace /\ row.closed
    BY <1>2, <1>5, RowIs
<1>9. feed(<<row, span>>) \/ feed(<<span>>)
    BY <1>1, <1>4 DEF TraceRow
<1> HIDE DEF row, span
<1>b. openTools \in [Calls -> SpanIds \cup {NoId}]
    BY <1>2 DEF StateOK
<1>c. openTools'[c] = NewSpan /\ \A d \in Calls \ {c} : openTools'[d] = openTools[d]
    BY <1>a, <1>b
<1>10. \A i \in OpenSpans : i \in OpenSpans'
    BY <1>1, <1>a, <1>c DEF OpenSpans
<1>d. NewSpan \in OpenSpans'
    BY <1>2, <1>c DEF OpenSpans
<1>11. /\ DOMAIN <<row, span>> = {1, 2} /\ <<row, span>>[1] = row /\ <<row, span>>[2] = span
       /\ DOMAIN <<span>> = {1} /\ <<span>>[1] = span
    OBVIOUS
<1>12. Feedable(<<row, span>>) /\ Feedable(<<span>>)
    BY <1>2, <1>7, <1>8, FeedableRows
<1>13. CASE feed(<<row, span>>)
    <2>1. \A k \in DOMAIN <<row, span>> : <<row, span>>[k].closed \/ <<row, span>>[k].id \in OpenSpans'
        BY <1>7, <1>8, <1>d, <1>11
    <2> QED BY <1>1, <1>6, <1>10, <1>12, <1>13, <2>1, EventKeeps
<1>14. CASE feed(<<span>>)
    <2>1. \A k \in DOMAIN <<span>> : <<span>>[k].closed \/ <<span>>[k].id \in OpenSpans'
        BY <1>7, <1>d, <1>11
    <2> QED BY <1>1, <1>6, <1>10, <1>12, <1>14, <2>1, EventKeeps
<1> QED BY <1>9, <1>13, <1>14

LEMMA ToolEndKeeps ==
    ASSUME TracerAssumption, TracerInv, tool_end
    PROVE  TracerInv'
<1>1. Event /\ UNCHANGED <<fields, currentTurn>>
    BY DEF tool_end
<1>2. PICK c \in Calls :
          LET known == openTools[c] # NoId
              span == IF known THEN openTools[c] ELSE NewSpan
          IN /\ openTools' = [openTools EXCEPT ![c] = NoId]
             /\ spans' = IF known THEN spans ELSE spans + 1
             /\ feed(<<Row(span, TRUE, {})>>)
    BY DEF tool_end
<1>3. /\ RowsOK /\ StateOK /\ NewSpan \in Ids /\ SpanIds \subseteq Ids /\ fields \in SUBSET Fields
    BY <1>1, AtEvent
<1> DEFINE span == IF openTools[c] # NoId THEN openTools[c] ELSE NewSpan
<1>4. /\ openTools' = [openTools EXCEPT ![c] = NoId] /\ spans' \in {spans, spans + 1}
      /\ feed(<<Row(span, TRUE, {})>>)
    BY <1>2
<1>5. openTools \in [Calls -> SpanIds \cup {NoId}] /\ currentTurn \in SpanIds \cup {NoId} /\ spans \in Nat
    BY <1>3 DEF StateOK
<1>6. span \in Ids /\ (openTools[c] # NoId => span = openTools[c])
    BY <1>3, <1>5
<1> HIDE DEF span
<1>7. SpanIds \subseteq SpanIds'
    <2>1. 1 .. spans \subseteq 1 .. (spans + 1)
        BY <1>5
    <2>2. 1 .. spans \subseteq 1 .. spans'
        BY <1>4, <2>1
    <2> QED BY <2>2 DEF SpanIds
<1>8. StateOK'
    <2>1. currentTurn' \in SpanIds' \cup {NoId} /\ openTools' \in [Calls -> SpanIds' \cup {NoId}]
        BY <1>1, <1>4, <1>5, <1>7
    <2> QED BY <1>1, <1>3, <1>4, <2>1, EventState
<1> DEFINE row == Row(span, TRUE, {})
<1>9. row \in Rows /\ row.id = span /\ row.closed
    BY <1>3, <1>6, RowIs
<1>10. feed(<<row>>)
    BY <1>4
<1> HIDE DEF row
<1>11. Feedable(<<row>>) /\ DOMAIN <<row>> = {1} /\ <<row>>[1] = row
    BY <1>9, FeedableRows
<1>12. \A d \in Calls \ {c} : openTools'[d] = openTools[d]
    BY <1>4, <1>5
<1>13. \A i \in OpenSpans : i \in OpenSpans' \/ i = span
    <2> SUFFICES ASSUME NEW i \in OpenSpans PROVE i \in OpenSpans' \/ i = span
        OBVIOUS
    <2>1. CASE i = currentTurn
        BY <1>1, <2>1 DEF OpenSpans
    <2>2. CASE \E d \in Calls : i = openTools[d]
        <3>1. PICK d \in Calls : i = openTools[d]
            BY <2>2
        <3>2. i # NoId
            BY DEF OpenSpans
        <3>3. CASE d = c
            BY <1>6, <3>1, <3>2, <3>3
        <3>4. CASE d # c
            BY <1>12, <3>1, <3>2, <3>4 DEF OpenSpans
        <3> QED BY <3>3, <3>4
    <2> QED BY <2>1, <2>2 DEF OpenSpans
<1> QED BY <1>1, <1>8, <1>9, <1>10, <1>11, <1>13, EventKeeps

\* A finite set as a sequence
LEMMA InSequence ==
    ASSUME NEW S, IsFiniteSet(S)
    PROVE  LET s == SetToSeq(S)
           IN  /\ Cardinality(S) \in Nat /\ DOMAIN s = 1 .. Cardinality(S)
               /\ \A k \in DOMAIN s : s[k] \in S
               /\ \A k, l \in DOMAIN s : s[k] = s[l] => k = l
               /\ \A x \in S : \E k \in DOMAIN s : s[k] = x
<1> DEFINE n == Cardinality(S)
           s == SetToSeq(S)
<1>1. n \in Nat /\ ExistsBijection(1 .. n, S)
    BY FS_CardinalityType
<1>2. \E f \in [1 .. n -> S] : IsInjective(f)
    BY <1>1 DEF ExistsBijection, Bijection, Injection
<1>3. s \in [1 .. n -> S] /\ IsInjective(s)
    BY <1>2 DEF SetToSeq
<1> HIDE DEF s
<1>4. s \in Injection(1 .. n, S)
    BY <1>3 DEF Injection
<1>5. IsFiniteSet(1 .. n) /\ Cardinality(1 .. n) = n
    BY <1>1, FS_CardinalityType, FS_CountingElements, FS_Interval
<1>6. s \in Surjection(1 .. n, S)
    BY <1>4, <1>5, FS_Injection
<1>7. \A x \in S : \E k \in 1 .. n : s[k] = x
    BY <1>6 DEF Surjection
<1> QED BY <1>1, <1>3, <1>7 DEF IsInjective, s

\* What session_end sends: a row for each open span that ends it, then the trace
LEMMA EndRows ==
    ASSUME TracerAssumption, RowsOK, StateOK, batcher # 0
    PROVE  /\ Feedable(session_end) /\ \A k \in DOMAIN session_end : session_end[k].closed
           /\ \A i \in OpenSpans : \E k \in DOMAIN session_end : session_end[k].id = i
<1>1. PICK t \in Sessions : trace = TraceId(t)
    BY DEF StateOK
<1>2. spans \in Nat /\ 1 .. spans \subseteq 1 .. MaxEvents
    BY DEF TracerAssumption, StateOK
<1>3. trace \in Ids /\ SpanIds \subseteq Ids /\ trace \notin SpanIds
    BY <1>1, <1>2 DEF Ids, SpanIds, SpanId, TraceId
<1>4. OpenSpans \subseteq SpanIds
    BY DEF StateOK, OpenSpans
<1>5. IsFiniteSet(SpanIds)
    <2> DEFINE f == [k \in 1 .. spans |-> SpanId(k)]
    <2>1. f \in Surjection(1 .. spans, SpanIds)
        BY DEF Surjection, SpanIds
    <2>2. IsFiniteSet(1 .. spans)
        BY <1>2, FS_Interval
    <2> QED BY <2>1, <2>2, FS_Surjection
<1>6. IsFiniteSet(OpenSpans)
    BY <1>4, <1>5, FS_Subset
<1> DEFINE open == SetToSeq(OpenSpans)
           n == Cardinality(OpenSpans)
           rs == [k \in DOMAIN open |-> Row(open[k], TRUE, {})]
           row == Row(trace, TRUE, fields)
<1>7. /\ n \in Nat /\ DOMAIN open = 1 .. n /\ \A k \in DOMAIN open : open[k] \in OpenSpans
      /\ \A k, l \in DOMAIN open : open[k] = open[l] => k = l
      /\ \A i \in OpenSpans : \E k \in DOMAIN open : open[k] = i
    BY <1>6, InSequence
<1>8. session_end = rs \o <<row>>
    BY DEF session_end, TraceRow
<1> HIDE DEF open, n
<1>9. row \in Rows /\ row.id = trace /\ row.closed
    <2>1. fields \in SUBSET Fields
        BY DEF StateOK
    <2> QED BY <1>3, <2>1, RowIs
<1>10. \A k \in 1 .. n : rs[k] \in Rows /\ rs[k].id = open[k] /\ rs[k].closed
    <2>1. \A k \in 1 .. n : open[k] \in Ids
        BY <1>3, <1>4, <1>7
    <2> QED BY <1>7, <2>1, RowIs
<1>a. rs = [k \in 1 .. n |-> rs[k]]
    BY <1>7
<1> HIDE DEF rs, row
<1>11. rs \in Seq(Rows) /\ Len(rs) = n
    <2>1. rs \in [1 .. n -> Rows]
        BY <1>a, <1>10
    <2> QED BY <1>7, <2>1
<1>12. /\ session_end \in Seq(Rows) /\ DOMAIN session_end = 1 .. (n + 1)
       /\ \A k \in 1 .. n : session_end[k] = rs[k]
       /\ session_end[n + 1] = row
    <2>1. <<row>> \in Seq(Rows) /\ Len(<<row>>) = 1 /\ <<row>>[1] = row
        BY <1>9
    <2>2. /\ rs \o <<row>> \in Seq(Rows) /\ Len(rs \o <<row>>) = n + 1
          /\ \A k \in 1 .. n + 1 : (rs \o <<row>>)[k] = IF k <= n THEN rs[k] ELSE <<row>>[k - n]
        BY <1>9, <1>11, <2>1, ConcatProperties
    <2>3. DOMAIN (rs \o <<row>>) = 1 .. (n + 1)
        BY <2>2
    <2>4. /\ \A k \in 1 .. n : k \in 1 .. n + 1 /\ k <= n
          /\ n + 1 \in 1 .. n + 1 /\ ~(n + 1 <= n) /\ (n + 1) - n = 1
        BY <1>7
    <2> QED BY <1>8, <2>1, <2>2, <2>3, <2>4
<1>13. \A k \in 1 .. (n + 1) : k \in 1 .. n \/ k = n + 1
    BY <1>7
<1>14. \A k \in 1 .. n : k \in 1 .. (n + 1) /\ session_end[k].id = open[k] /\ session_end[k].id \in SpanIds
    BY <1>4, <1>7, <1>10, <1>12
<1>15. \A k, l \in 1 .. (n + 1) : session_end[k].id = session_end[l].id => k = l
    <2> SUFFICES ASSUME NEW k \in 1 .. (n + 1), NEW l \in 1 .. (n + 1), session_end[k].id = session_end[l].id
                 PROVE  k = l
        OBVIOUS
    <2>1. CASE k \in 1 .. n /\ l \in 1 .. n
        BY <1>7, <1>14, <2>1
    <2>2. CASE k = n + 1 \/ l = n + 1
        <3>1. session_end[n + 1].id \notin SpanIds
            BY <1>3, <1>9, <1>12
        <3> QED BY <1>13, <1>14, <2>2, <3>1
    <2> QED BY <1>13, <2>1, <2>2
<1>16. \A k \in 1 .. (n + 1) : session_end[k].closed
    BY <1>9, <1>10, <1>12, <1>13
<1>17. \A i \in OpenSpans : \E k \in 1 .. (n + 1) : session_end[k].id = i
    BY <1>7, <1>14
<1> QED BY <1>12, <1>15, <1>16, <1>17 DEF Feedable

LEMMA StartKeeps ==
    ASSUME TracerAssumption, TracerInv, session_start
    PROVE  TracerInv'
<1>0. StateOK /\ RowsOK /\ InUse
    BY DEF TracerInv, TracerTyped
<1>1. PICK s \in Sessions : /\ trace' = TraceId(s) /\ fields' = {}
                            /\ Emit(batcher', <<Row(TraceId(s), TRUE, {})>>)
    BY DEF session_start
<1>2. /\ starts < MaxStarts /\ starts' = starts + 1
      /\ batcher' = IF batcher = 0 THEN starts' ELSE batcher
      /\ leaked' = leaked \cup OpenSpans
      /\ currentTurn' = NoId /\ openTools' = [c \in Calls |-> NoId]
      /\ UNCHANGED <<spans, late, stored, faulty, events, faults>>
    BY DEF session_start
<1>3. PICK b : b = batcher'
    OBVIOUS
<1>4. b \in Batchers /\ ~queues[b].closed /\ b \in 0 .. starts'
    <2>1. starts \in 0 .. MaxStarts /\ batcher \in 0 .. starts /\ MaxStarts \in Nat
        BY <1>0 DEF StateOK, TracerAssumption
    <2>2. CASE batcher = 0
        <3>1. b = starts + 1 /\ b \in Batchers /\ ~(b <= starts) /\ b \in 0 .. starts'
            BY <1>2, <1>3, <2>1, <2>2 DEF Batchers
        <3> QED BY <1>0, <3>1 DEF InUse
    <2>3. CASE batcher # 0
        <3>1. b = batcher /\ b \in Batchers /\ b \in 0 .. starts'
            BY <1>2, <1>3, <2>1, <2>3 DEF Batchers
        <3> QED BY <1>0, <2>3, <3>1 DEF InUse
    <2> QED BY <2>2, <2>3
<1> DEFINE row == Row(TraceId(s), TRUE, {})
<1>5. row \in Rows /\ row.closed
    <2>1. TraceId(s) \in Ids
        BY DEF Ids
    <2> QED BY <1>0, <2>1, RowIs
<1>6. Emit(b, <<row>>)
    BY <1>1, <1>3
<1> HIDE DEF row
<1>7. Feedable(<<row>>) /\ \A k \in DOMAIN <<row>> : <<row>>[k].closed
    BY <1>5, FeedableRows
<1>8. TraceId(s) # NoId
    BY DEF TraceId, NoId
<1>9. StateOK'
    <2>1. SpanIds' = SpanIds
        BY <1>2 DEF SpanIds
    <2>2. currentTurn' \in SpanIds' \cup {NoId} /\ openTools' \in [Calls -> SpanIds' \cup {NoId}]
        BY <1>2
    <2>3. starts' \in 0 .. MaxStarts
        BY <1>0, <1>2 DEF StateOK, TracerAssumption
    <2>4. trace' # NoId
        BY <1>1, <1>8
    <2> QED BY <1>0, <1>1, <1>2, <1>3, <1>4, <2>2, <2>3, <2>4 DEF StateOK
<1>10. leaked \subseteq leaked' /\ starts <= starts' /\ \A i \in OpenSpans : i \in leaked'
    BY <1>0, <1>2 DEF StateOK
<1> QED BY <1>2, <1>3, <1>4, <1>6, <1>7, <1>9, <1>10, EmitKeeps

LEMMA ShutdownKeeps ==
    ASSUME TracerAssumption, TracerInv, session_shutdown
    PROVE  TracerInv'
<1>0. StateOK /\ RowsOK /\ Waiting /\ LateFailed /\ InUse /\ Unended
    BY DEF TracerInv, TracerTyped
<1>1. /\ batcher # 0 /\ batcher' = 0
      /\ currentTurn' = NoId /\ openTools' = [c \in Calls |-> NoId]
      /\ Noted(batcher, session_end)
      /\ queues' = [queues EXCEPT ![batcher] = close(Queued(batcher, session_end))]
      /\ UNCHANGED <<trace, fields, spans, late, stored, leaked, faulty, events, starts, faults>>
    BY DEF session_shutdown
<1>2. PICK b : b = batcher
    OBVIOUS
<1>3. PICK rs : rs = session_end
    OBVIOUS
<1>4. b \in Batchers /\ ~queues[b].closed /\ b \in 0 .. starts
    <2>1. b \in Batchers /\ b \in 0 .. starts
        BY <1>0, <1>1, <1>2 DEF StateOK, TracerAssumption, Batchers
    <2> QED BY <1>0, <1>1, <1>2, <2>1 DEF InUse
<1>5. /\ Feedable(rs) /\ \A k \in DOMAIN rs : rs[k].closed
      /\ \A i \in OpenSpans : \E k \in DOMAIN rs : rs[k].id = i
    BY <1>0, <1>1, <1>3, EndRows
<1>6. Noted(b, rs) /\ queues' = [queues EXCEPT ![b] = close(Queued(b, rs))]
    BY <1>1, <1>2, <1>3
<1>7. RowsOK' /\ Waiting' /\ LateFailed'
    <2>1. PICK q : q = close(Queued(b, rs))
        OBVIOUS
    <2>2. queues' = [queues EXCEPT ![b] = q]
        BY <1>6, <2>1
    <2>3. UNCHANGED <<stored, late, faulty>>
        BY <1>1
    <2>4. Feedable(rs) /\ Noted(b, rs)
        BY <1>5, <1>6
    <2> QED BY <1>0, <1>4, <2>1, <2>2, <2>3, <2>4, FeedKeeps
<1>8. StateOK'
    <2>1. SpanIds' = SpanIds
        BY <1>1 DEF SpanIds
    <2>2. starts \in Nat
        BY <1>0 DEF StateOK
    <2> QED BY <1>0, <1>1, <2>1, <2>2 DEF StateOK
<1>9. Forgotten'
    BY <1>1 DEF Forgotten, OpenSpans
<1>10. /\ \A k \in DOMAIN rs : rs[k].id \in Ids /\ last'[rs[k].id] = rs[k]
       /\ \A i \in Ids : ~Has(rs, i) => last'[i] = last[i]
    BY <1>0, <1>5, <1>6, NotedIs
<1>11. ASSUME NEW i \in Ids, i \notin leaked PROVE last'[i].closed
    <2>1. CASE Has(rs, i)
        BY <1>5, <1>10, <2>1 DEF Has
    <2>2. CASE ~Has(rs, i)
        <3>1. last'[i] = last[i]
            BY <1>10, <2>2
        <3>2. i \notin OpenSpans
            BY <1>5, <2>2 DEF Has
        <3> QED BY <1>0, <1>11, <3>1, <3>2 DEF Unended
    <2> QED BY <2>1, <2>2
<1>12. Unended'
    BY <1>1, <1>11 DEF Unended
<1>13. InUse'
    <2>1. ASSUME NEW c \in Batchers, queues'[c].closed PROVE c <= starts
        <3>1. CASE c = b
            BY <1>4, <3>1
        <3>2. CASE c # b
            <4>1. queues'[c] = queues[c]
                BY <1>0, <1>6, <3>2 DEF RowsOK
            <4> QED BY <1>0, <2>1, <4>1 DEF InUse
        <3> QED BY <3>1, <3>2
    <2> QED BY <1>1, <2>1 DEF InUse
<1> QED BY <1>7, <1>8, <1>9, <1>12, <1>13 DEF TracerInv, TracerTyped

LEMMA DyingKeeps ==
    ASSUME TracerAssumption, TracerInv, Cut
    PROVE  TracerInv'
<1>0. StateOK /\ RowsOK /\ Waiting /\ LateFailed /\ InUse /\ Unended
    BY DEF TracerInv, TracerTyped
<1>1. /\ batcher' = 0 /\ trace' = NoId /\ fields' = {}
      /\ currentTurn' = NoId /\ openTools' = [c \in Calls |-> NoId]
      /\ queues' = [b \in Batchers |-> [buffer |-> <<>>, sends |-> <<>>, closed |-> queues[b].closed \/ b <= starts]]
      /\ leaked' = leaked \cup OpenSpans
      /\ UNCHANGED <<spans, late, stored, last, crossed, events, starts>>
    BY DEF Cut
<1>2. RowsOK' /\ Waiting' /\ LateFailed'
    BY <1>0, CutKeeps
<1>3. StateOK'
    <2>1. starts \in Nat /\ SpanIds' = SpanIds
        BY <1>0, <1>1 DEF StateOK, SpanIds
    <2> QED BY <1>0, <1>1, <2>1 DEF StateOK
<1>4. Forgotten'
    BY <1>1 DEF Forgotten, OpenSpans
<1>5. Unended'
    BY <1>0, <1>1 DEF Unended
<1>6. InUse'
    <2>1. ASSUME NEW c \in Batchers, queues'[c].closed PROVE c <= starts
        <3>1. queues'[c] = [buffer |-> <<>>, sends |-> <<>>, closed |-> queues[c].closed \/ c <= starts]
            BY <1>1
        <3>2. PICK v : v = (queues[c].closed \/ c <= starts)
            OBVIOUS
        <3>3. queues'[c] = [buffer |-> <<>>, sends |-> <<>>, closed |-> v]
            BY <3>1, <3>2
        <3>4. v
            BY <2>1, <3>3
        <3> QED BY <1>0, <3>2, <3>4 DEF InUse
    <2> QED BY <1>1, <2>1 DEF InUse
<1> QED BY <1>2, <1>3, <1>4, <1>5, <1>6 DEF TracerInv, TracerTyped

\* What only moves rows leaves the session as it was
LEMMA MovingKeeps ==
    ASSUME TracerAssumption, TracerInv, RowsOK', Waiting', LateFailed',
           UNCHANGED <<stateVars, batcher, last, leaked, events, starts>>,
           \A b \in Batchers : queues'[b].closed = queues[b].closed
    PROVE  TracerInv'
<1>0. StateOK /\ RowsOK /\ InUse /\ Unended /\ Forgotten
    BY DEF TracerInv, TracerTyped
<1>1. UNCHANGED <<trace, fields, currentTurn, openTools, spans>>
    BY DEF stateVars
<1>2. StateOK'
    <2>1. SpanIds' = SpanIds
        BY <1>1 DEF SpanIds
    <2> QED BY <1>0, <1>1, <2>1 DEF StateOK
<1>3. OpenSpans' = OpenSpans
    BY <1>1 DEF OpenSpans
<1>4. Unended' /\ Forgotten'
    BY <1>0, <1>3 DEF Unended, Forgotten
<1>5. InUse'
    <2>1. batcher # 0 => batcher \in Batchers
        BY <1>0 DEF StateOK, Batchers, TracerAssumption
    <2> QED BY <1>0, <2>1 DEF InUse
<1> QED BY <1>2, <1>4, <1>5 DEF TracerInv, TracerTyped

LEMMA BatchingKeeps ==
    ASSUME TracerAssumption, TracerInv, NEW b \in Batchers, Batching(b) \/ (b = batcher /\ agent_end)
    PROVE  TracerInv'
<1>0. StateOK /\ RowsOK /\ Waiting /\ LateFailed
    BY DEF TracerInv, TracerTyped
<1>1. CASE send(b) \/ SendFails(b)
    <2>1. queues[b].sends # <<>> /\ Sent(b)
        BY <1>1 DEF send, SendFails
    <2>2. \/ stored' = Storing(Chunk(b)) /\ UNCHANGED <<late, faulty>>
          \/ /\ UNCHANGED stored /\ faulty' = faulty \cup {r.id : r \in ToSet(Chunk(b))}
             /\ late' = late \/ late' = late \cup {Chunk(b)}
        BY <1>1 DEF send, SendFails
    <2>3. RowsOK' /\ Waiting' /\ LateFailed'
        BY <1>0, <2>1, <2>2, SentKeeps
    <2>4. UNCHANGED <<stateVars, batcher, last, leaked, events, starts>>
        BY <2>1 DEF Sent, history
    <2>5. \A c \in Batchers : queues'[c].closed = queues[c].closed
        <3>1. queues' = [queues EXCEPT ![b].sends = Rest(b)]
            BY <2>1 DEF Sent
        <3>2. \A c \in Batchers \ {b} : queues'[c] = queues[c]
            BY <1>0, <3>1 DEF RowsOK
        <3>3. queues'[b] = [queues[b] EXCEPT !.sends = Rest(b)]
            BY <1>0, <3>1 DEF RowsOK
        <3>4. queues[b] \in Queues
            BY <1>0 DEF RowsOK
        <3>5. queues'[b].closed = queues[b].closed
            BY <3>3, <3>4 DEF Queues
        <3> QED BY <3>2, <3>5
    <2> QED BY <2>3, <2>4, <2>5, MovingKeeps
<1>2. CASE Tick(b) \/ (b = batcher /\ agent_end)
    <2>1. /\ queues' = [queues EXCEPT ![b] = flush(@)]
          /\ UNCHANGED <<stateVars, batcher, late, stored, history, faulty, events, starts, faults>>
        BY <1>2 DEF Tick, agent_end
    <2>2. UNCHANGED <<last, crossed, leaked>>
        BY <2>1 DEF history
    <2>3. RowsOK' /\ Waiting' /\ LateFailed'
        BY <1>0, <2>1, <2>2, TickKeeps
    <2>4. \A c \in Batchers : queues'[c].closed = queues[c].closed
        <3>1. \A c \in Batchers \ {b} : queues'[c] = queues[c]
            BY <1>0, <2>1 DEF RowsOK
        <3>2. queues'[b] = flush(queues[b]) /\ queues[b] \in Queues
            BY <1>0, <2>1 DEF RowsOK
        <3>3. queues'[b].closed = queues[b].closed
            BY <3>2, FlushKeeps
        <3> QED BY <3>1, <3>3
    <2> QED BY <2>1, <2>2, <2>3, <2>4, MovingKeeps
<1> QED BY <1>1, <1>2 DEF Batching

LEMMA TracerInvInit == TracerAssumption /\ TracerInit => TracerInv
<1> SUFFICES ASSUME TracerAssumption, TracerInit PROVE TracerInv
    OBVIOUS
<1>1. /\ trace = NoId /\ fields = {} /\ currentTurn = NoId
      /\ openTools = [c \in Calls |-> NoId] /\ spans = 0 /\ batcher = 0
      /\ queues = [b \in Batchers |-> [buffer |-> <<>>, sends |-> <<>>, closed |-> FALSE]]
      /\ late = {} /\ stored = [i \in Ids |-> NoRow(i)] /\ last = [i \in Ids |-> NoRow(i)]
      /\ events = 0 /\ starts = 0
    BY DEF TracerInit
<1>2. StateOK
    BY <1>1 DEF StateOK, TracerAssumption
<1>3. \A i \in Ids : NoRow(i) \in Rows /\ NoRow(i).id = i /\ NoRow(i).closed
    BY DEF NoRow, Rows
<1>4. ASSUME NEW b \in Batchers
      PROVE  /\ queues[b] \in Queues /\ queues[b].buffer = <<>> /\ queues[b].sends = <<>> /\ ~queues[b].closed
    <2>1. queues[b] = [buffer |-> <<>>, sends |-> <<>>, closed |-> FALSE]
        BY <1>1
    <2>2. <<>> \in Seq(Rows) /\ <<>> \in Seq(Seq(Rows))
        OBVIOUS
    <2>3. queues[b] \in Queues
        BY <2>1, <2>2 DEF Queues
    <2> QED BY <2>1, <2>3
<1>5. queues \in [Batchers -> Queues]
    BY <1>1, <1>4
<1>6. RowsOK
    BY <1>1, <1>3, <1>5 DEF RowsOK
<1>7. \A b \in Batchers : \A i : ~Waits(queues[b], i)
    BY <1>4 DEF Waits, Has
<1>8. Unended /\ Forgotten
    BY <1>1, <1>3 DEF Unended, Forgotten, OpenSpans
<1>9. Waiting /\ LateFailed
    BY <1>1, <1>7 DEF Waiting, LateFailed
<1>10. InUse
    BY <1>1, <1>4 DEF InUse
<1> QED BY <1>2, <1>6, <1>8, <1>9, <1>10 DEF TracerInv, TracerTyped

LEMMA TracerInvNext == TracerAssumption /\ TracerInv /\ [TracerNext]_tracerVars => TracerInv'
<1> SUFFICES ASSUME TracerAssumption, TracerInv, [TracerNext]_tracerVars PROVE TracerInv'
    OBVIOUS
<1>0. StateOK /\ RowsOK /\ Waiting /\ LateFailed
    BY DEF TracerInv, TracerTyped
<1>1. CASE session_start
    BY <1>1, StartKeeps
<1>2. CASE session_shutdown
    BY <1>2, ShutdownKeeps
<1>3. CASE user_message
    BY <1>3, MessageKeeps
<1>4. CASE turn_start
    BY <1>4, TurnStartKeeps
<1>5. CASE assistant_message
    BY <1>5, AssistantKeeps
<1>6. CASE tool_start
    BY <1>6, ToolStartKeeps
<1>7. CASE tool_end
    BY <1>7, ToolEndKeeps
<1>8. CASE turn_end
    BY <1>8, TurnEndKeeps
<1>9. CASE agent_end
    <2>1. batcher \in Batchers
        BY <1>0, <1>9 DEF agent_end, StateOK, Batchers, TracerAssumption
    <2>2. PICK b \in Batchers : b = batcher
        BY <2>1
    <2> QED BY <1>9, <2>2, BatchingKeeps
<1>10. CASE \E b \in Batchers : Batching(b)
    BY <1>10, BatchingKeeps
<1>11. CASE ArrivesLate
    <2>1. PICK rs \in late : stored' = Storing(rs) /\ late' = late \ {rs}
        BY <1>11 DEF ArrivesLate
    <2>2. RowsOK' /\ Waiting' /\ LateFailed'
        BY <1>0, <1>11, LateKeeps
    <2>3. UNCHANGED <<stateVars, batcher, queues, last, leaked, events, starts>>
        BY <1>11 DEF ArrivesLate, history
    <2> QED BY <2>2, <2>3, MovingKeeps
<1>12. CASE Cut
    BY <1>12, DyingKeeps
<1>13. CASE UNCHANGED tracerVars
    <2>1. UNCHANGED <<stateVars, batcher, queues, late, stored, last, crossed, leaked, faulty, events, starts>>
        BY <1>13 DEF tracerVars, history
    <2>2. RowsOK' /\ Waiting' /\ LateFailed'
        BY <1>0, <2>1 DEF RowsOK, Waiting, LateFailed
    <2> QED BY <2>1, <2>2, MovingKeeps
<1> QED BY <1>1, <1>2, <1>3, <1>4, <1>5, <1>6, <1>7, <1>8, <1>9, <1>10, <1>11, <1>12, <1>13 DEF TracerNext

\* Once nothing of a row waits any more, the collector has the last one that was emitted
LEMMA TracerTrue == TracerInv => RowsCurrent /\ EndsAll
<1> SUFFICES ASSUME TracerInv PROVE RowsCurrent /\ EndsAll
    OBVIOUS
<1>1. RowsOK /\ Waiting /\ Unended
    BY DEF TracerInv, TracerTyped
<1>2. RowsCurrent
    <2> SUFFICES ASSUME NEW i \in Ids, i \notin faulty, i \notin crossed, \A b \in Batchers : ~Holds(b, i)
                 PROVE  stored[i] = last[i]
        BY DEF RowsCurrent
    <2>1. \A b \in Batchers : ~Waits(queues[b], i)
        BY <1>1, HoldsIs DEF RowsOK
    <2> QED BY <1>1, <2>1 DEF Waiting
<1>3. EndsAll
    BY <1>1 DEF Unended, EndsAll
<1> QED BY <1>2, <1>3

\* However events, flushes, timers, requests, failures and late answers interleave: the last row
\* emitted of an id, unless one of it failed or two sessions queue it, is at the collector or waits
\* in one place behind all others of it; a span without an end is one the tracer still has open
\* (feed, IngestBatcher.send and close, mapTracerEvent of ironside-tracer.ts).
THEOREM TracerSafe == ClientSpec => []TracerInv
<1>1. ClientInit => TracerInv
    BY TracerAssumption, TracerInvInit DEF ClientInit
<1>2. TracerInv /\ [ClientNext]_ClientVars => TracerInv'
    <2> SUFFICES ASSUME TracerInv, [ClientNext]_ClientVars PROVE TracerInv'
        OBVIOUS
    <2>1. TracerNext \/ UNCHANGED tracerVars
        BY DEF ClientNext, ClientVars
    <2> QED BY <2>1, TracerAssumption, TracerInvNext
<1> QED BY <1>1, <1>2, PTL DEF ClientSpec

\* When nothing of a row waits any more the collector has the last one that was emitted, not
\* an older one: requests are sent in a chain, each when the one before is answered (send).
THEOREM CollectorCurrent == ClientSpec => []RowsCurrent
<1> QED BY TracerSafe, TracerTrue, PTL

\* After a shutdown every span has an end, of turns and of tools that never reported theirs
\* (session_end in mapTracerEvent), but for those that a second start forgot.
THEOREM SpansEnded == ClientSpec => []EndsAll
<1> QED BY TracerSafe, TracerTrue, PTL

-----------------------------------------------------------------------------
(* The importers *)

\* What a mapping gathers
Names == {"trace", "turn", "tool", "patch", "gen"} \X Nat
Spans == [id : Names, parent : Nat, end : Nat, at : Nat]
Gatherings == [turns : Seq(Spans), gens : Seq(Spans), open : SUBSET Nat, tools : Seq(Spans),
               extra : Seq(Spans), output : Nat]

Lines == IF agent = "codex" THEN CodexLines ELSE ClaudeLines
Import == [of : Threads, told : Threads, read : Nat, left : Seq(Spans), clean : BOOLEAN]
Read(i) == EventsOf(SubSeq(logs[imports[i].of], 1, imports[i].read))

ImportTyped ==
    /\ agent \in {"codex", "claude"}
    /\ logs \in [Threads -> Seq(Lines)] /\ newest \in Threads \cup {0}
    /\ imports \in [Imports -> Import \cup {Idle}]
    /\ \A i \in Imports : imports[i] # Idle =>
          imports[i].told = imports[i].of /\ imports[i].read \in 1 .. Len(logs[imports[i].of])
    /\ adrift \subseteq [of : Threads, left : Seq(Spans)]
    /\ rows \in [Threads -> UNION {[D -> Spans] : D \in SUBSET Names}]
    /\ alone \in [Threads -> Nat] /\ \A s \in Threads : alone[s] <= Len(logs[s])

\* What an import still posts, and what the collector has, is of the log
OfTheLog ==
    /\ \A s \in Threads : DOMAIN rows[s] \subseteq IdsOf(EventsOf(logs[s]))
    /\ \A i \in Imports : imports[i] # Idle => IdsOf(imports[i].left) \subseteq IdsOf(EventsOf(logs[imports[i].of]))
    /\ \A q \in adrift : IdsOf(q.left) \subseteq IdsOf(EventsOf(logs[q.of]))

\* An import that met no other, and no late request, is the only one of its session; the collector has the rows
\* that it read, but for those it still posts
Clean ==
    \A i \in Imports : imports[i].clean =>
        /\ \A j \in Imports \ {i} : imports[j].of # imports[i].of
        /\ DOMAIN rows[imports[i].of] \subseteq IdsOf(Read(i))
        /\ IdsOf(imports[i].left) \subseteq IdsOf(Read(i))
        /\ \A n \in Names, r \in Spans : EndsWith(Read(i), n, r) =>
              IF Has(imports[i].left, n) THEN EndsWith(imports[i].left, n, r)
              ELSE n \in DOMAIN rows[imports[i].of] /\ rows[imports[i].of][n] = r

\* What was imported alone is there, and no import is on its way
Done ==
    \A s \in Threads : alone[s] # 0 =>
        /\ \A i \in Imports : imports[i].of # s
        /\ rows[s] = Stored(<<>>, EventsOf(SubSeq(logs[s], 1, alone[s])))

ImportInv == ImportTyped /\ OfTheLog /\ Clean /\ Done

\* Rows stay where they are and keep their ids
Extends(s, t) ==
    /\ s \in Seq(Spans) /\ t \in Seq(Spans) /\ Len(s) <= Len(t)
    /\ \A k \in 1 .. Len(s) : t[k].id = s[k].id

LEMMA ExtendsTrans ==
    ASSUME NEW s, NEW t, NEW u, Extends(s, t), Extends(t, u)
    PROVE  Extends(s, u)
<1>1. s \in Seq(Spans) /\ t \in Seq(Spans) /\ u \in Seq(Spans) /\ Len(s) <= Len(t) /\ Len(t) <= Len(u)
    BY DEF Extends
<1>2. Len(s) \in Nat /\ Len(t) \in Nat /\ Len(u) \in Nat
    BY <1>1
<1>3. \A k \in 1 .. Len(s) : k \in 1 .. Len(t)
    BY <1>1, <1>2
<1>4. \A k \in 1 .. Len(s) : u[k].id = s[k].id
    BY <1>3 DEF Extends
<1> QED BY <1>1, <1>2, <1>4 DEF Extends

LEMMA ExtendsSame == \A s \in Seq(Spans) : Extends(s, s)
<1> SUFFICES ASSUME NEW s \in Seq(Spans) PROVE Extends(s, s)
    OBVIOUS
<1>1. Len(s) \in Nat
    OBVIOUS
<1> QED BY <1>1 DEF Extends

LEMMA ExtendsAppend ==
    ASSUME NEW s \in Seq(Spans), NEW x \in Spans
    PROVE  Extends(s, Append(s, x)) /\ Append(s, x)[Len(s) + 1] = x /\ Len(Append(s, x)) = Len(s) + 1
<1> HIDE DEF Spans
<1>1. /\ Append(s, x) \in Seq(Spans) /\ Len(Append(s, x)) = Len(s) + 1 /\ Len(s) \in Nat
      /\ \A k \in 1 .. Len(s) : Append(s, x)[k] = s[k] 
      /\ Append(s, x)[Len(s) + 1] = x
    OBVIOUS
<1> QED BY <1>1 DEF Extends

LEMMA ExtendsExcept ==
    ASSUME NEW s \in Seq(Spans), NEW k \in 1 .. Len(s), NEW x \in Spans, x.id = s[k].id
    PROVE  Extends(s, [s EXCEPT ![k] = x])
<1> DEFINE t == [s EXCEPT ![k] = x]
<1>1. DOMAIN s = 1 .. Len(s) /\ Len(s) \in Nat /\ \A l \in 1 .. Len(s) : s[l] \in Spans
    OBVIOUS
<1>2. DOMAIN t = 1 .. Len(s) /\ \A l \in 1 .. Len(s) : t[l] = IF l = k THEN x ELSE s[l]
    BY <1>1
<1>3. t \in [1 .. Len(s) -> Spans]
    BY <1>1, <1>2
<1>4. t \in Seq(Spans) /\ Len(t) = Len(s)
    BY <1>1, <1>3
<1> HIDE DEF t
<1> QED BY <1>1, <1>2, <1>4 DEF Extends

LEMMA ExtendsAll ==
    ASSUME NEW s \in Seq(Spans), NEW t, DOMAIN t = DOMAIN s, t = [k \in DOMAIN s |-> t[k]],
           \A k \in DOMAIN s : t[k] \in Spans /\ t[k].id = s[k].id
    PROVE  Extends(s, t) /\ Len(t) = Len(s)
<1>1. DOMAIN s = 1 .. Len(s) /\ Len(s) \in Nat
    OBVIOUS
<1>2. t \in [1 .. Len(s) -> Spans]
    BY <1>1
<1>3. t \in Seq(Spans) /\ Len(t) = Len(s)
    BY <1>1, <1>2
<1> QED BY <1>1, <1>3 DEF Extends

LEMMA SpanIs ==
    ASSUME NEW n \in Names, NEW parent \in Nat, NEW end \in Nat, NEW at \in Nat
    PROVE  Span(n, parent, end, at) \in Spans /\ Span(n, parent, end, at).id = n
<1> HIDE DEF Names
<1> QED BY DEF Span, Spans

LEMMA SpanChanged ==
    ASSUME NEW x \in Spans, NEW end \in Nat, NEW at \in Nat
    PROVE  /\ [x EXCEPT !.end = end, !.at = at] \in Spans /\ [x EXCEPT !.end = end, !.at = at].id = x.id
           /\ [x EXCEPT !.at = at] \in Spans /\ [x EXCEPT !.at = at].id = x.id
           /\ [x EXCEPT !.end = end] \in Spans /\ [x EXCEPT !.end = end].id = x.id
<1> HIDE DEF Names
<1> QED BY DEF Spans

LEMMA IdsGrow ==
    ASSUME NEW s, NEW t, Extends(s, t)
    PROVE  IdsOf(s) \subseteq IdsOf(t)
<1>1. s \in Seq(Spans) /\ t \in Seq(Spans) /\ Len(s) <= Len(t) /\ \A k \in 1 .. Len(s) : t[k].id = s[k].id
    BY DEF Extends
<1>2. DOMAIN s = 1 .. Len(s) /\ DOMAIN t = 1 .. Len(t) /\ Len(s) \in Nat /\ Len(t) \in Nat
    BY <1>1
<1>3. \A k \in DOMAIN s : k \in DOMAIN t
    BY <1>1, <1>2
<1> QED BY <1>1, <1>2, <1>3 DEF IdsOf

\* Two sequences of rows, one after the other
LEMMA IdsOfTwo ==
    ASSUME NEW s \in Seq(Spans), NEW t \in Seq(Spans)
    PROVE  s \o t \in Seq(Spans) /\ IdsOf(s \o t) = IdsOf(s) \cup IdsOf(t)
<1> DEFINE u == s \o t
           m == Len(s)
           n == Len(t)
<1>1. u \in Seq(Spans) /\ Len(u) = m + n /\ \A k \in 1 .. m + n : u[k] = IF k <= m THEN s[k] ELSE t[k - m]
    BY ConcatProperties
<1>2. m \in Nat /\ n \in Nat /\ DOMAIN s = 1 .. m /\ DOMAIN t = 1 .. n /\ DOMAIN u = 1 .. (m + n)
    BY <1>1
<1> HIDE DEF u, m, n
<1>3. ASSUME NEW k \in 1 .. (m + n) PROVE u[k].id \in IdsOf(s) \cup IdsOf(t)
    <2>1. CASE k <= m
        <3>1. k \in 1 .. m /\ u[k] = s[k]
            BY <1>1, <1>2, <2>1
        <3> QED BY <1>2, <3>1 DEF IdsOf
    <2>2. CASE ~(k <= m)
        <3>1. k - m \in 1 .. n /\ u[k] = t[k - m]
            BY <1>1, <1>2, <2>2
        <3> QED BY <1>2, <3>1 DEF IdsOf
    <2> QED BY <2>1, <2>2
<1>4. ASSUME NEW k \in 1 .. m PROVE s[k].id \in IdsOf(u)
    <2>1. k \in 1 .. m + n /\ k <= m
        BY <1>2
    <2>2. u[k] = s[k]
        BY <1>1, <2>1
    <2> QED BY <1>2, <2>1, <2>2 DEF IdsOf
<1>5. ASSUME NEW k \in 1 .. n PROVE t[k].id \in IdsOf(u)
    <2>1. k + m \in 1 .. m + n /\ ~(k + m <= m) /\ (k + m) - m = k
        BY <1>2
    <2>2. u[k + m] = t[k]
        BY <1>1, <2>1
    <2> QED BY <1>2, <2>1, <2>2 DEF IdsOf
<1>6. \A n_ \in IdsOf(u) : n_ \in IdsOf(s) \cup IdsOf(t)
    BY <1>2, <1>3 DEF IdsOf
<1>7. IdsOf(s) \subseteq IdsOf(u)
    BY <1>2, <1>4 DEF IdsOf
<1>8. IdsOf(t) \subseteq IdsOf(u)
    BY <1>2, <1>5 DEF IdsOf
<1>9. u \in Seq(Spans)
    BY <1>1
<1> QED BY <1>6, <1>7, <1>8, <1>9 DEF u

\* A mapping goes on with what it has gathered
Grows(m, p) ==
    /\ m \in Gatherings /\ p \in Gatherings
    /\ Extends(m.turns, p.turns) /\ Extends(m.gens, p.gens)
    /\ Extends(m.tools, p.tools) /\ Extends(m.extra, p.extra)

LEMMA FieldsOf ==
    ASSUME NEW m \in Gatherings
    PROVE  /\ m.turns \in Seq(Spans) /\ m.gens \in Seq(Spans) /\ m.tools \in Seq(Spans) /\ m.extra \in Seq(Spans)
           /\ m.open \in SUBSET Nat /\ m.output \in Nat
           /\ m = [turns |-> m.turns, gens |-> m.gens, open |-> m.open, tools |-> m.tools,
                   extra |-> m.extra, output |-> m.output]
<1> HIDE DEF Spans
<1> QED BY DEF Gatherings

LEMMA GrowsIs ==
    ASSUME NEW m \in Gatherings, NEW turns, NEW gens, NEW open \in SUBSET Nat, NEW tools, NEW extra,
           NEW output \in Nat, Extends(m.turns, turns), Extends(m.gens, gens), Extends(m.tools, tools),
           Extends(m.extra, extra)
    PROVE  Grows(m, [turns |-> turns, gens |-> gens, open |-> open, tools |-> tools, extra |-> extra, output |-> output])
<1> DEFINE p == [turns |-> turns, gens |-> gens, open |-> open, tools |-> tools, extra |-> extra, output |-> output]
<1>1. turns \in Seq(Spans) /\ gens \in Seq(Spans) /\ tools \in Seq(Spans) /\ extra \in Seq(Spans)
    BY DEF Extends
<1>2. p \in Gatherings
    BY <1>1 DEF Gatherings
<1>3. p.turns = turns /\ p.gens = gens /\ p.tools = tools /\ p.extra = extra
    OBVIOUS
<1> HIDE DEF p
<1>4. Grows(m, p)
    BY <1>2, <1>3 DEF Grows
<1> QED BY <1>4 DEF p

LEMMA GrowsTrans ==
    ASSUME NEW m, NEW p, NEW q, Grows(m, p), Grows(p, q)
    PROVE  Grows(m, q)
<1> QED BY ExtendsTrans DEF Grows

LEMMA GrowsSame == \A m \in Gatherings : Grows(m, m)
<1> QED BY FieldsOf, ExtendsSame DEF Grows

\* A sequence that is replaced by one that extends it
LEMMA GrowsOne ==
    ASSUME NEW m \in Gatherings, NEW s
    PROVE  /\ Extends(m.turns, s) => Grows(m, [m EXCEPT !.turns = s])
           /\ Extends(m.gens, s) => Grows(m, [m EXCEPT !.gens = s])
           /\ Extends(m.tools, s) => Grows(m, [m EXCEPT !.tools = s])
           /\ Extends(m.extra, s) => Grows(m, [m EXCEPT !.extra = s])
<1>1. /\ m.turns \in Seq(Spans) /\ m.gens \in Seq(Spans) /\ m.tools \in Seq(Spans) /\ m.extra \in Seq(Spans)
      /\ m.open \in SUBSET Nat /\ m.output \in Nat
    BY FieldsOf
<1>2. m = [turns |-> m.turns, gens |-> m.gens, open |-> m.open, tools |-> m.tools,
           extra |-> m.extra, output |-> m.output]
    BY FieldsOf
<1>3. [m EXCEPT !.turns = s] = [turns |-> s, gens |-> m.gens, open |-> m.open, tools |-> m.tools,
                                extra |-> m.extra, output |-> m.output]
    BY <1>2
<1>4. [m EXCEPT !.gens = s] = [turns |-> m.turns, gens |-> s, open |-> m.open, tools |-> m.tools,
                               extra |-> m.extra, output |-> m.output]
    BY <1>2
<1>5. [m EXCEPT !.tools = s] = [turns |-> m.turns, gens |-> m.gens, open |-> m.open, tools |-> s,
                                extra |-> m.extra, output |-> m.output]
    BY <1>2
<1>6. [m EXCEPT !.extra = s] = [turns |-> m.turns, gens |-> m.gens, open |-> m.open, tools |-> m.tools,
                                extra |-> s, output |-> m.output]
    BY <1>2
<1>7. Extends(m.turns, m.turns) /\ Extends(m.gens, m.gens) /\ Extends(m.tools, m.tools) /\ Extends(m.extra, m.extra)
    BY <1>1, ExtendsSame
<1>8. ASSUME Extends(m.turns, s) PROVE Grows(m, [m EXCEPT !.turns = s])
    <2>1. Grows(m, [turns |-> s, gens |-> m.gens, open |-> m.open, tools |-> m.tools, extra |-> m.extra, output |-> m.output])
        BY <1>1, <1>7, <1>8, GrowsIs
    <2> QED BY <1>3, <2>1
<1>9. ASSUME Extends(m.gens, s) PROVE Grows(m, [m EXCEPT !.gens = s])
    <2>1. Grows(m, [turns |-> m.turns, gens |-> s, open |-> m.open, tools |-> m.tools, extra |-> m.extra, output |-> m.output])
        BY <1>1, <1>7, <1>9, GrowsIs
    <2> QED BY <1>4, <2>1
<1>10. ASSUME Extends(m.tools, s) PROVE Grows(m, [m EXCEPT !.tools = s])
    <2>1. Grows(m, [turns |-> m.turns, gens |-> m.gens, open |-> m.open, tools |-> s, extra |-> m.extra, output |-> m.output])
        BY <1>1, <1>7, <1>10, GrowsIs
    <2> QED BY <1>5, <2>1
<1>11. ASSUME Extends(m.extra, s) PROVE Grows(m, [m EXCEPT !.extra = s])
    <2>1. Grows(m, [turns |-> m.turns, gens |-> m.gens, open |-> m.open, tools |-> m.tools, extra |-> s, output |-> m.output])
        BY <1>1, <1>7, <1>11, GrowsIs
    <2> QED BY <1>6, <2>1
<1> QED BY <1>8, <1>9, <1>10, <1>11

LEMMA TurnsGrow ==
    ASSUME NEW m \in Gatherings, NEW at \in Nat
    PROVE  Grows(m, Closed(m, at)) /\ Grows(m, NewTurn(m, at)) /\ turn(m) \in Nat
<1>1. m.turns \in Seq(Spans)
    BY FieldsOf
<1>2. turn(m) = Len(m.turns) /\ turn(m) \in Nat
    BY <1>1 DEF turn
<1>3. Grows(m, Closed(m, at))
    <2>1. CASE turn(m) = 0 \/ Last(m.turns).end # 0
        BY <2>1, GrowsSame DEF Closed
    <2>2. CASE ~(turn(m) = 0 \/ Last(m.turns).end # 0)
        <3> DEFINE k == turn(m)
                   x == [m.turns[k] EXCEPT !.end = at, !.at = at]
        <3>1. k \in 1 .. Len(m.turns) /\ m.turns[k] \in Spans
            BY <1>1, <1>2, <2>2
        <3>2. x \in Spans /\ x.id = m.turns[k].id
            BY <3>1, SpanChanged
        <3>3. Closed(m, at) = [m EXCEPT !.turns[k] = [@ EXCEPT !.end = at, !.at = at]]
            BY <2>2 DEF Closed
        <3>4. m = [turns |-> m.turns, gens |-> m.gens, open |-> m.open, tools |-> m.tools,
                   extra |-> m.extra, output |-> m.output]
            BY FieldsOf
        <3> HIDE DEF k
        <3>5. Closed(m, at) = [m EXCEPT !.turns = [m.turns EXCEPT ![k] = x]]
            BY <3>3, <3>4
        <3> HIDE DEF x
        <3>6. Extends(m.turns, [m.turns EXCEPT ![k] = x])
            BY <1>1, <3>1, <3>2, ExtendsExcept
        <3> QED BY <3>5, <3>6, GrowsOne
    <2> QED BY <2>1, <2>2
<1>4. Grows(m, NewTurn(m, at))
    <2> DEFINE x == Span(<<"turn", Len(m.turns) + 1>>, 0, 0, at)
    <2>1. <<"turn", Len(m.turns) + 1>> \in Names
        BY <1>2 DEF Names
    <2>2. x \in Spans
        BY <2>1, SpanIs
    <2>3. m = [turns |-> m.turns, gens |-> m.gens, open |-> m.open, tools |-> m.tools,
               extra |-> m.extra, output |-> m.output]
        BY FieldsOf
    <2>4. NewTurn(m, at) = [m EXCEPT !.turns = Append(m.turns, x)]
        BY <2>3 DEF NewTurn
    <2> HIDE DEF x
    <2>5. Extends(m.turns, Append(m.turns, x))
        BY <1>1, <2>2, ExtendsAppend
    <2> QED BY <2>4, <2>5, GrowsOne
<1> QED BY <1>2, <1>3, <1>4

LEMMA FieldsChanged ==
    ASSUME NEW m \in Gatherings, NEW g, NEW o
    PROVE  [m EXCEPT !.gens = g, !.open = o] =
                  [turns |-> m.turns, gens |-> g, open |-> o, tools |-> m.tools,
                   extra |-> m.extra, output |-> m.output]
<1> PICK a, b, c, d, e, f : /\ a = m.turns /\ b = m.gens /\ c = m.open /\ d = m.tools
                            /\ e = m.extra /\ f = m.output
    OBVIOUS
<1>0. m = [turns |-> a, gens |-> b, open |-> c, tools |-> d, extra |-> e, output |-> f]
    BY FieldsOf
<1>1. [m EXCEPT !.gens = g] = [turns |-> a, gens |-> g, open |-> c, tools |-> d, extra |-> e, output |-> f]
    BY <1>0
<1>2. PICK q : q = [m EXCEPT !.gens = g]
    OBVIOUS
<1>3. [m EXCEPT !.gens = g, !.open = o] = [q EXCEPT !.open = o]
    BY <1>2
<1>4. [q EXCEPT !.open = o] = [turns |-> a, gens |-> g, open |-> o, tools |-> d, extra |-> e, output |-> f]
    <2>1. q = [turns |-> a, gens |-> g, open |-> c, tools |-> d, extra |-> e, output |-> f]
        BY <1>1, <1>2
    <2> QED BY <2>1
<1> QED BY <1>3, <1>4

LEMMA FieldsAndOutput ==
    ASSUME NEW m \in Gatherings, NEW g, NEW o, NEW p
    PROVE  [m EXCEPT !.gens = g, !.open = o, !.output = p] =
               [turns |-> m.turns, gens |-> g, open |-> o, tools |-> m.tools,
                extra |-> m.extra, output |-> p]
<1> PICK a, d, e, f : a = m.turns /\ d = m.tools /\ e = m.extra /\ f = m.output
    OBVIOUS
<1>1. PICK u : u = [m EXCEPT !.gens = g, !.open = o]
    OBVIOUS
<1>2. [m EXCEPT !.gens = g, !.open = o, !.output = p] = [u EXCEPT !.output = p]
    BY <1>1
<1>3. u = [turns |-> a, gens |-> g, open |-> o, tools |-> d, extra |-> e, output |-> f]
    <2>1. [m EXCEPT !.gens = g, !.open = o] =
              [turns |-> m.turns, gens |-> g, open |-> o, tools |-> m.tools,
               extra |-> m.extra, output |-> m.output]
        BY FieldsChanged
    <2> QED BY <1>1, <2>1
<1>4. [u EXCEPT !.output = p] = [turns |-> a, gens |-> g, open |-> o, tools |-> d, extra |-> e, output |-> p]
    BY <1>3
<1> QED BY <1>2, <1>4

LEMMA FoundAt ==
    ASSUME NEW s \in Seq(Spans), NEW n
    PROVE  LET k == SelectInSeq(s, LAMBDA x : x.id = n)
           IN  k = 0 \/ (k \in 1 .. Len(s) /\ s[k].id = n)
<1> DEFINE found == {l \in 1 .. Len(s) : s[l].id = n}
           k == SelectInSeq(s, LAMBDA x : x.id = n)
<1>1. k = IF found # {} THEN Min(found) ELSE 0
    BY DEF SelectInSeq
<1>2. found \subseteq Nat /\ (found # {} => Min(found) \in found)
    <2>1. found \subseteq Nat
        OBVIOUS
    <2> QED BY <2>1, LeastOf
<1> HIDE DEF k
<1>3. k = 0 \/ (k \in 1 .. Len(s) /\ s[k].id = n)
    BY <1>1, <1>2
<1> QED BY <1>3 DEF k

LEMMA ToolsGrow ==
    ASSUME NEW m \in Gatherings, NEW c \in Nat, NEW at \in Nat
    PROVE  Grows(m, Used(m, c, at)) /\ Grows(m, Returned(m, c, at))
<1> DEFINE k == ToolAt(m, c)
           span == Span(<<"tool", c>>, turn(m), 0, at)
           x == [m.tools[k] EXCEPT !.end = at, !.at = at]
<1>1. m.tools \in Seq(Spans)
    BY FieldsOf
<1>2. k = 0 \/ (k \in 1 .. Len(m.tools) /\ m.tools[k].id = <<"tool", c>>)
    BY <1>1, FoundAt DEF ToolAt
<1>3. <<"tool", c>> \in Names /\ turn(m) \in Nat
    BY TurnsGrow DEF Names
<1>4. span \in Spans /\ span.id = <<"tool", c>>
    BY <1>3, SpanIs
<1>5. m = [turns |-> m.turns, gens |-> m.gens, open |-> m.open, tools |-> m.tools,
           extra |-> m.extra, output |-> m.output]
    BY FieldsOf
<1>6. Used(m, c, at) = IF k = 0 THEN [m EXCEPT !.tools = Append(m.tools, span)]
                       ELSE [m EXCEPT !.tools = [m.tools EXCEPT ![k] = span]]
    BY <1>5 DEF Used
<1>7. Returned(m, c, at) = IF k = 0 THEN m ELSE [m EXCEPT !.tools = [m.tools EXCEPT ![k] = x]]
    BY <1>5 DEF Returned
<1> HIDE DEF k, span
<1>8. CASE k = 0
    <2>1. Extends(m.tools, Append(m.tools, span))
        BY <1>1, <1>4, ExtendsAppend
    <2> QED BY <1>6, <1>7, <1>8, <2>1, GrowsOne, GrowsSame
<1>9. CASE k # 0
    <2>1. k \in 1 .. Len(m.tools) /\ m.tools[k].id = <<"tool", c>> /\ m.tools[k] \in Spans
        BY <1>1, <1>2, <1>9
    <2>2. x \in Spans /\ x.id = m.tools[k].id
        BY <2>1, SpanChanged
    <2> HIDE DEF x
    <2>3. Extends(m.tools, [m.tools EXCEPT ![k] = span]) /\ Extends(m.tools, [m.tools EXCEPT ![k] = x])
        BY <1>1, <1>4, <2>1, <2>2, ExtendsExcept
    <2> QED BY <1>6, <1>7, <1>9, <2>3, GrowsOne
<1> QED BY <1>8, <1>9

LEMMA AssistantGrows ==
    ASSUME NEW m \in Gatherings, NEW r, r.ref \in Nat, NEW at \in Nat
    PROVE  Grows(m, assistant(m, r, at)) /\ Grows(m, tool_use(m, r, at))
<1> DEFINE n == <<"gen", r.ref>>
           k == SelectInSeq(m.gens, LAMBDA g : g.id = n)
           span == Span(n, turn(m), at, at)
           x == [m.gens[k] EXCEPT !.end = at, !.at = at]
<1>1. m.gens \in Seq(Spans)
    BY FieldsOf
<1>2. k = 0 \/ (k \in 1 .. Len(m.gens) /\ m.gens[k].id = n)
    BY <1>1, FoundAt
<1>3. n \in Names /\ turn(m) \in Nat
    BY TurnsGrow DEF Names
<1>4. span \in Spans
    BY <1>3, SpanIs
<1>5. m = [turns |-> m.turns, gens |-> m.gens, open |-> m.open, tools |-> m.tools,
           extra |-> m.extra, output |-> m.output]
    BY FieldsOf
<1> HIDE DEF n
<1>6. assistant(m, r, at) = IF k = 0 THEN [m EXCEPT !.gens = Append(m.gens, span)]
                            ELSE [m EXCEPT !.gens = [m.gens EXCEPT ![k] = x]]
    BY <1>5 DEF assistant, n
<1> HIDE DEF k, span
<1>7. Grows(m, assistant(m, r, at))
    <2>1. CASE k = 0
        <3>1. Extends(m.gens, Append(m.gens, span))
            BY <1>1, <1>4, ExtendsAppend
        <3> QED BY <1>6, <2>1, <3>1, GrowsOne
    <2>2. CASE k # 0
        <3>1. k \in 1 .. Len(m.gens) /\ m.gens[k] \in Spans
            BY <1>1, <1>2, <2>2
        <3>2. x \in Spans /\ x.id = m.gens[k].id
            BY <3>1, SpanChanged
        <3> HIDE DEF x
        <3>3. Extends(m.gens, [m.gens EXCEPT ![k] = x])
            BY <1>1, <3>1, <3>2, ExtendsExcept
        <3> QED BY <1>6, <2>2, <3>3, GrowsOne
    <2> QED BY <2>1, <2>2
<1>8. Grows(assistant(m, r, at), tool_use(m, r, at))
    <2>1. assistant(m, r, at) \in Gatherings
        BY <1>7 DEF Grows
    <2> QED BY <2>1, ToolsGrow DEF tool_use
<1> QED BY <1>7, <1>8, GrowsTrans

LEMMA CodexGrows ==
    ASSUME NEW m \in Gatherings, NEW r, r.ref \in Nat, NEW at \in Nat
    PROVE  /\ Grows(m, token_count(m, r, at)) /\ Grows(m, mcp_tool_call_end(m, r, at))
           /\ Grows(m, patch_apply_end(m, r, at)) /\ Grows(m, message(m, r, at))
           /\ Grows(m, task_started(m, r, at)) /\ Grows(m, task_complete(m, r, at))
<1>1. /\ m.turns \in Seq(Spans) /\ m.gens \in Seq(Spans) /\ m.tools \in Seq(Spans) /\ m.extra \in Seq(Spans)
      /\ m.open \in SUBSET Nat /\ m.output \in Nat /\ turn(m) \in Nat
    BY FieldsOf, TurnsGrow
<1>2. m = [turns |-> m.turns, gens |-> m.gens, open |-> m.open, tools |-> m.tools,
           extra |-> m.extra, output |-> m.output]
    BY FieldsOf
<1>3. Extends(m.turns, m.turns) /\ Extends(m.gens, m.gens) /\ Extends(m.tools, m.tools) /\ Extends(m.extra, m.extra)
    BY <1>1, ExtendsSame
<1>4. Grows(m, token_count(m, r, at))
    <2> DEFINE gens == [k \in DOMAIN m.gens |-> IF k \in m.open THEN [m.gens[k] EXCEPT !.at = at] ELSE m.gens[k]]
    <2>1. \A k \in DOMAIN m.gens : gens[k] \in Spans /\ gens[k].id = m.gens[k].id
        <3> SUFFICES ASSUME NEW k \in DOMAIN m.gens PROVE gens[k] \in Spans /\ gens[k].id = m.gens[k].id
            OBVIOUS
        <3>1. m.gens[k] \in Spans
            BY <1>1
        <3>2. [m.gens[k] EXCEPT !.at = at] \in Spans /\ [m.gens[k] EXCEPT !.at = at].id = m.gens[k].id
            BY <3>1, SpanChanged
        <3>3. gens[k] = [m.gens[k] EXCEPT !.at = at] \/ gens[k] = m.gens[k]
            OBVIOUS
        <3> HIDE DEF gens
        <3> QED BY <3>1, <3>2, <3>3
    <2>2. DOMAIN gens = DOMAIN m.gens /\ gens = [k \in DOMAIN m.gens |-> gens[k]]
        OBVIOUS
    <2>3. token_count(m, r, at) = [turns |-> m.turns, gens |-> gens, open |-> {}, tools |-> m.tools,
                                   extra |-> m.extra, output |-> m.output]
        <3>1. token_count(m, r, at) = [m EXCEPT !.gens = gens, !.open = {}]
            BY DEF token_count
        <3> HIDE DEF gens
        <3>2. [m EXCEPT !.gens = gens, !.open = {}] =
                  [turns |-> m.turns, gens |-> gens, open |-> {}, tools |-> m.tools,
                   extra |-> m.extra, output |-> m.output]
            BY FieldsChanged
        <3> QED BY <3>1, <3>2
    <2> HIDE DEF gens
    <2>4. Extends(m.gens, gens)
        BY <1>1, <2>1, <2>2, ExtendsAll
    <2>5. Grows(m, [turns |-> m.turns, gens |-> gens, open |-> {}, tools |-> m.tools,
                    extra |-> m.extra, output |-> m.output])
        BY <1>1, <1>3, <2>4, GrowsIs
    <2> QED BY <2>3, <2>5
<1>5. Grows(m, mcp_tool_call_end(m, r, at))
    <2> DEFINE x == Span(<<"tool", r.ref>>, turn(m), at, at)
    <2>1. <<"tool", r.ref>> \in Names
        BY DEF Names
    <2>2. x \in Spans
        BY <1>1, <2>1, SpanIs
    <2>3. mcp_tool_call_end(m, r, at) = [m EXCEPT !.extra = Append(m.extra, x)]
        BY <1>2 DEF mcp_tool_call_end
    <2> HIDE DEF x
    <2>4. Extends(m.extra, Append(m.extra, x))
        BY <1>1, <2>2, ExtendsAppend
    <2> QED BY <2>3, <2>4, GrowsOne
<1>6. Grows(m, patch_apply_end(m, r, at))
    <2> DEFINE x == Span(<<"patch", Len(m.extra)>>, turn(m), at, at)
    <2>1. <<"patch", Len(m.extra)>> \in Names
        BY <1>1 DEF Names
    <2>2. x \in Spans
        BY <1>1, <2>1, SpanIs
    <2>3. patch_apply_end(m, r, at) = [m EXCEPT !.extra = Append(m.extra, x)]
        BY <1>2 DEF patch_apply_end
    <2> HIDE DEF x
    <2>4. Extends(m.extra, Append(m.extra, x))
        BY <1>1, <2>2, ExtendsAppend
    <2> QED BY <2>3, <2>4, GrowsOne
<1>7. Grows(m, message(m, r, at))
    <2> DEFINE x == Span(<<"gen", Len(m.gens)>>, turn(m), at, at)
               open == m.open \cup {Len(m.gens) + 1}
    <2>1. <<"gen", Len(m.gens)>> \in Names /\ open \in SUBSET Nat
        BY <1>1 DEF Names
    <2>2. x \in Spans
        BY <1>1, <2>1, SpanIs
    <2>3. message(m, r, at) = [turns |-> m.turns, gens |-> Append(m.gens, x), open |-> open, tools |-> m.tools,
                               extra |-> m.extra, output |-> at]
        <3>1. message(m, r, at) = [m EXCEPT !.gens = Append(m.gens, x), !.open = open, !.output = at]
            BY DEF message
        <3> HIDE DEF x, open
        <3>2. [m EXCEPT !.gens = Append(m.gens, x), !.open = open, !.output = at] =
                  [turns |-> m.turns, gens |-> Append(m.gens, x), open |-> open, tools |-> m.tools,
                   extra |-> m.extra, output |-> at]
            <4>1. PICK g : g = Append(m.gens, x)
                OBVIOUS
            <4>2. [m EXCEPT !.gens = g, !.open = open, !.output = at] =
                      [turns |-> m.turns, gens |-> g, open |-> open, tools |-> m.tools,
                       extra |-> m.extra, output |-> at]
                BY FieldsAndOutput
            <4> QED BY <4>1, <4>2
        <3> QED BY <3>1, <3>2
    <2> HIDE DEF x, open
    <2>4. Extends(m.gens, Append(m.gens, x))
        BY <1>1, <2>2, ExtendsAppend
    <2>5. Grows(m, [turns |-> m.turns, gens |-> Append(m.gens, x), open |-> open, tools |-> m.tools,
                    extra |-> m.extra, output |-> at])
        BY <1>1, <1>3, <2>1, <2>4, GrowsIs
    <2> QED BY <2>3, <2>5
<1>8. Grows(m, Closed(m, at)) /\ Closed(m, at) \in Gatherings
    BY TurnsGrow DEF Grows
<1>9. Grows(m, task_started(m, r, at))
    <2>1. Grows(Closed(m, at), task_started(m, r, at))
        BY <1>8, TurnsGrow DEF task_started
    <2> QED BY <1>8, <2>1, GrowsTrans
<1>10. Grows(m, task_complete(m, r, at))
    <2> DEFINE p == Closed(m, at)
    <2>0. p \in Gatherings /\ Grows(m, p)
        BY <1>8
    <2>a. task_complete(m, r, at) = [p EXCEPT !.output = at]
        BY DEF task_complete
    <2> HIDE DEF p
    <2>1. /\ p.turns \in Seq(Spans) /\ p.gens \in Seq(Spans) /\ p.tools \in Seq(Spans) /\ p.extra \in Seq(Spans)
          /\ p.open \in SUBSET Nat
        BY <2>0, FieldsOf
    <2>2. p = [turns |-> p.turns, gens |-> p.gens, open |-> p.open, tools |-> p.tools,
               extra |-> p.extra, output |-> p.output]
        BY <2>0, FieldsOf
    <2>3. [p EXCEPT !.output = at] = [turns |-> p.turns, gens |-> p.gens, open |-> p.open, tools |-> p.tools,
                                      extra |-> p.extra, output |-> at]
        BY <2>2
    <2>4. Extends(p.turns, p.turns) /\ Extends(p.gens, p.gens) /\ Extends(p.tools, p.tools) /\ Extends(p.extra, p.extra)
        BY <2>1, ExtendsSame
    <2>5. Grows(p, [turns |-> p.turns, gens |-> p.gens, open |-> p.open, tools |-> p.tools,
                    extra |-> p.extra, output |-> at])
        BY <2>0, <2>1, <2>4, GrowsIs
    <2>6. Grows(p, task_complete(m, r, at))
        BY <2>a, <2>3, <2>5
    <2> QED BY <2>0, <2>6, GrowsTrans
<1> QED BY <1>4, <1>5, <1>6, <1>7, <1>9, <1>10

LEMMA CodexLineGrows ==
    ASSUME ImportAssumption, NEW m \in Gatherings, NEW r \in CodexLines, NEW at \in Nat
    PROVE  Grows(m, mapCodexSession(m, r, at))
<1>1. r.ref \in Nat /\ r.kind \in {"task_started", "task_complete", "token_count", "patch_apply_end", "message",
                                   "call", "call_output", "mcp_tool_call_end"}
    BY DEF CodexLines, Line, ImportAssumption
<1>2. /\ Grows(m, token_count(m, r, at)) /\ Grows(m, mcp_tool_call_end(m, r, at))
      /\ Grows(m, patch_apply_end(m, r, at)) /\ Grows(m, message(m, r, at))
      /\ Grows(m, task_started(m, r, at)) /\ Grows(m, task_complete(m, r, at))
    BY <1>1, CodexGrows
<1>3. Grows(m, call(m, r, at)) /\ Grows(m, call_output(m, r, at))
    BY <1>1, ToolsGrow DEF call, call_output
<1> QED BY <1>1, <1>2, <1>3 DEF mapCodexSession

LEMMA ClaudeLineGrows ==
    ASSUME ImportAssumption, NEW m \in Gatherings, NEW r \in ClaudeLines, NEW at \in Nat
    PROVE  Grows(m, mapClaudeSession(m, r, at))
<1>1. r.ref \in Nat /\ r.kind \in {"user", "other", "tool_result", "assistant", "tool_use"}
    BY DEF ClaudeLines, Line, ImportAssumption
<1>2. Grows(m, user(m, r, at))
    <2>1. Grows(m, Closed(m, at)) /\ Closed(m, at) \in Gatherings
        BY TurnsGrow DEF Grows
    <2>2. Grows(Closed(m, at), user(m, r, at))
        BY <2>1, TurnsGrow DEF user
    <2> QED BY <2>1, <2>2, GrowsTrans
<1>3. Grows(m, tool_result(m, r, at))
    BY <1>1, ToolsGrow DEF tool_result
<1>4. Grows(m, assistant(m, r, at)) /\ Grows(m, tool_use(m, r, at))
    BY <1>1, AssistantGrows
<1>5. Grows(m, m)
    BY GrowsSame
<1> QED BY <1>1, <1>2, <1>3, <1>4, <1>5 DEF mapClaudeSession

LEMMA NothingGathered == Nothing \in Gatherings
<1>1. <<>> \in Seq(Spans) /\ {} \in SUBSET Nat /\ 0 \in Nat
    OBVIOUS
<1> QED BY <1>1 DEF Nothing, Gatherings

\* What a mapping has gathered of a log, record by record
LEMMA CodexByLine ==
    ASSUME ImportAssumption, NEW log \in Seq(CodexLines)
    PROVE  \E f : /\ f[0] = Nothing /\ codexGathered(log) = f[Len(log)]
                  /\ \A k \in 1 .. Len(log) : f[k] = mapCodexSession(f[k - 1], log[k], k)
<1> DEFINE n == Len(log)
           step == [x \in Gatherings \X (1 .. n) |-> mapCodexSession(x[1], log[x[2]], x[2])]
           seq == [k \in DOMAIN log |-> k]
           Table(g) == g = [s \in SUBSET (DOMAIN seq) |->
                               IF s = {} THEN Nothing
                               ELSE mapCodexSession(g[s \ {Max(s)}], log[seq[Max(s)]], seq[Max(s)])]
           t == CHOOSE g : Table(g)
<1>1. DOMAIN log = 1 .. n /\ n \in Nat /\ \A k \in 1 .. n : log[k] \in CodexLines
    OBVIOUS
<1>2. DOMAIN seq = 1 .. n /\ \A k \in 1 .. n : seq[k] = k
    BY <1>1
<1>3. step \in [Gatherings \X (1 .. n) -> Gatherings]
    <2>1. ASSUME NEW m \in Gatherings, NEW k \in 1 .. n PROVE mapCodexSession(m, log[k], k) \in Gatherings
        <3>1. k \in Nat /\ log[k] \in CodexLines
            BY <1>1
        <3>2. Grows(m, mapCodexSession(m, log[k], k))
            BY <3>1, CodexLineGrows
        <3> QED BY <3>2 DEF Grows
    <2> QED BY <2>1
<1>4. PICK g \in [SUBSET (1 .. n) -> Gatherings] : Folded(g, n, Nothing, step)
    BY <1>1, <1>3, NothingGathered, FoldExists
<1>7. codexGathered(log) = t[DOMAIN seq]
    BY <1>1, <1>2 DEF codexGathered, FoldLeft, MapThenFoldSet
<1> HIDE DEF seq
<1>5. \E h : Table(h)
    <2>1. ASSUME NEW s \in SUBSET (1 .. n), s # {}
          PROVE  step[<<g[s \ {Max(s)}], Max(s)>>] =
                     mapCodexSession(g[s \ {Max(s)}], log[seq[Max(s)]], seq[Max(s)])
        <3>1. Max(s) \in 1 .. n /\ s \ {Max(s)} \in SUBSET (1 .. n)
            BY <1>1, <2>1, GreatestOf
        <3>2. g[s \ {Max(s)}] \in Gatherings /\ seq[Max(s)] = Max(s)
            BY <1>2, <3>1
        <3> QED BY <3>1, <3>2
    <2>2. Table(g)
        BY <1>2, <1>4, <2>1 DEF Folded
    <2> QED BY <2>2
<1>6. Table(t)
    BY <1>5
<1> HIDE DEF t
<1>8. t[1 .. 0] = Nothing
    <2>1. 1 .. 0 = {} /\ {} \in SUBSET (DOMAIN seq)
        OBVIOUS
    <2> QED BY <1>6, <2>1
<1>9. ASSUME NEW k \in 1 .. n PROVE t[1 .. k] = mapCodexSession(t[1 .. (k - 1)], log[k], k)
    <2>1. Max(1 .. k) = k /\ (1 .. k) \ {k} = 1 .. (k - 1) /\ 1 .. k # {}
        BY GreatestUpTo
    <2>2. 1 .. k \in SUBSET (DOMAIN seq) /\ seq[k] = k
        BY <1>1, <1>2
    <2>3. t[1 .. k] = mapCodexSession(t[(1 .. k) \ {Max(1 .. k)}], log[seq[Max(1 .. k)]], seq[Max(1 .. k)])
        BY <1>6, <2>1, <2>2
    <2> QED BY <2>1, <2>2, <2>3
<1> DEFINE f == [k \in 0 .. n |-> t[1 .. k]]
<1>10. f[0] = Nothing /\ codexGathered(log) = f[n]
    BY <1>1, <1>2, <1>7, <1>8
<1>11. ASSUME NEW k \in 1 .. n PROVE f[k] = mapCodexSession(f[k - 1], log[k], k)
    <2>1. k \in 0 .. n /\ k - 1 \in 0 .. n
        BY <1>1
    <2> QED BY <1>9, <2>1
<1> HIDE DEF f
<1> QED BY <1>10, <1>11

\* One more record is gathered after all the others
LEMMA CodexGoesOn ==
    ASSUME ImportAssumption, NEW log \in Seq(CodexLines), NEW r \in CodexLines
    PROVE  Grows(codexGathered(log), codexGathered(Append(log, r)))
<1> DEFINE n == Len(log)
           more == Append(log, r)
<1>1. /\ n \in Nat /\ more \in Seq(CodexLines) /\ Len(more) = n + 1 /\ more[n + 1] = r
      /\ \A k \in 1 .. n : more[k] = log[k] /\ log[k] \in CodexLines
    OBVIOUS
<1>2. PICK f : /\ f[0] = Nothing /\ codexGathered(log) = f[n]
               /\ \A k \in 1 .. n : f[k] = mapCodexSession(f[k - 1], log[k], k)
    BY CodexByLine
<1>3. PICK h : /\ h[0] = Nothing /\ codexGathered(more) = h[n + 1]
               /\ \A k \in 1 .. (n + 1) : h[k] = mapCodexSession(h[k - 1], more[k], k)
    <2>1. \E h : /\ h[0] = Nothing /\ codexGathered(more) = h[Len(more)]
                 /\ \A k \in 1 .. Len(more) : h[k] = mapCodexSession(h[k - 1], more[k], k)
        BY <1>1, CodexByLine
    <2> QED BY <1>1, <2>1
<1> HIDE DEF n, more
<1> DEFINE Good == {k \in Nat : k <= n => f[k] = h[k] /\ f[k] \in Gatherings}
<1>4. 0 \in Good
    BY <1>2, <1>3, NothingGathered
<1>5. ASSUME NEW k \in Nat, k \in Good PROVE k + 1 \in Good
    <2> SUFFICES ASSUME k + 1 <= n PROVE f[k + 1] = h[k + 1] /\ f[k + 1] \in Gatherings
        OBVIOUS
    <2>1. k <= n /\ k + 1 \in 1 .. n /\ k + 1 \in 1 .. (n + 1) /\ (k + 1) - 1 = k /\ k + 1 \in Nat
        BY <1>1
    <2>2. f[k] = h[k] /\ f[k] \in Gatherings
        BY <1>5, <2>1
    <2>3. more[k + 1] = log[k + 1] /\ log[k + 1] \in CodexLines
        BY <1>1, <2>1
    <2>4. f[k + 1] = mapCodexSession(f[k], log[k + 1], k + 1)
        BY <1>2, <2>1
    <2>5. h[k + 1] = mapCodexSession(h[k], more[k + 1], k + 1)
        BY <1>3, <2>1
    <2>6. Grows(f[k], f[k + 1])
        BY <2>1, <2>2, <2>3, <2>4, CodexLineGrows
    <2> QED BY <2>2, <2>3, <2>4, <2>5, <2>6 DEF Grows
<1> HIDE DEF Good
<1>6. n \in Good
    BY <1>1, <1>4, <1>5, Counted
<1>7. f[n] = h[n] /\ f[n] \in Gatherings
    BY <1>1, <1>6 DEF Good
<1>8. h[n + 1] = mapCodexSession(f[n], r, n + 1)
    <2>1. n + 1 \in 1 .. (n + 1) /\ (n + 1) - 1 = n
        BY <1>1
    <2> QED BY <1>1, <1>3, <1>7, <2>1
<1>9. n + 1 \in Nat
    BY <1>1
<1>10. Grows(f[n], h[n + 1])
    BY <1>7, <1>8, <1>9, CodexLineGrows
<1> QED BY <1>2, <1>3, <1>10 DEF more

LEMMA ClaudeByLine ==
    ASSUME ImportAssumption, NEW log \in Seq(ClaudeLines)
    PROVE  \E f : /\ f[0] = Nothing /\ claudeGathered(log) = f[Len(log)]
                  /\ \A k \in 1 .. Len(log) : f[k] = mapClaudeSession(f[k - 1], log[k], k)
<1> DEFINE n == Len(log)
           step == [x \in Gatherings \X (1 .. n) |-> mapClaudeSession(x[1], log[x[2]], x[2])]
           seq == [k \in DOMAIN log |-> k]
           Table(g) == g = [s \in SUBSET (DOMAIN seq) |->
                               IF s = {} THEN Nothing
                               ELSE mapClaudeSession(g[s \ {Max(s)}], log[seq[Max(s)]], seq[Max(s)])]
           t == CHOOSE g : Table(g)
<1>1. DOMAIN log = 1 .. n /\ n \in Nat /\ \A k \in 1 .. n : log[k] \in ClaudeLines
    OBVIOUS
<1>2. DOMAIN seq = 1 .. n /\ \A k \in 1 .. n : seq[k] = k
    BY <1>1
<1>3. step \in [Gatherings \X (1 .. n) -> Gatherings]
    <2>1. ASSUME NEW m \in Gatherings, NEW k \in 1 .. n PROVE mapClaudeSession(m, log[k], k) \in Gatherings
        <3>1. k \in Nat /\ log[k] \in ClaudeLines
            BY <1>1
        <3>2. Grows(m, mapClaudeSession(m, log[k], k))
            BY <3>1, ClaudeLineGrows
        <3> QED BY <3>2 DEF Grows
    <2> QED BY <2>1
<1>4. PICK g \in [SUBSET (1 .. n) -> Gatherings] : Folded(g, n, Nothing, step)
    BY <1>1, <1>3, NothingGathered, FoldExists
<1>7. claudeGathered(log) = t[DOMAIN seq]
    BY <1>1, <1>2 DEF claudeGathered, FoldLeft, MapThenFoldSet
<1> HIDE DEF seq
<1>5. \E h : Table(h)
    <2>1. ASSUME NEW s \in SUBSET (1 .. n), s # {}
          PROVE  step[<<g[s \ {Max(s)}], Max(s)>>] =
                     mapClaudeSession(g[s \ {Max(s)}], log[seq[Max(s)]], seq[Max(s)])
        <3>1. Max(s) \in 1 .. n /\ s \ {Max(s)} \in SUBSET (1 .. n)
            BY <1>1, <2>1, GreatestOf
        <3>2. g[s \ {Max(s)}] \in Gatherings /\ seq[Max(s)] = Max(s)
            BY <1>2, <3>1
        <3> QED BY <3>1, <3>2
    <2>2. Table(g)
        BY <1>2, <1>4, <2>1 DEF Folded
    <2> QED BY <2>2
<1>6. Table(t)
    BY <1>5
<1> HIDE DEF t
<1>8. t[1 .. 0] = Nothing
    <2>1. 1 .. 0 = {} /\ {} \in SUBSET (DOMAIN seq)
        OBVIOUS
    <2> QED BY <1>6, <2>1
<1>9. ASSUME NEW k \in 1 .. n PROVE t[1 .. k] = mapClaudeSession(t[1 .. (k - 1)], log[k], k)
    <2>1. Max(1 .. k) = k /\ (1 .. k) \ {k} = 1 .. (k - 1) /\ 1 .. k # {}
        BY GreatestUpTo
    <2>2. 1 .. k \in SUBSET (DOMAIN seq) /\ seq[k] = k
        BY <1>1, <1>2
    <2>3. t[1 .. k] = mapClaudeSession(t[(1 .. k) \ {Max(1 .. k)}], log[seq[Max(1 .. k)]], seq[Max(1 .. k)])
        BY <1>6, <2>1, <2>2
    <2> QED BY <2>1, <2>2, <2>3
<1> DEFINE f == [k \in 0 .. n |-> t[1 .. k]]
<1>10. f[0] = Nothing /\ claudeGathered(log) = f[n]
    BY <1>1, <1>2, <1>7, <1>8
<1>11. ASSUME NEW k \in 1 .. n PROVE f[k] = mapClaudeSession(f[k - 1], log[k], k)
    <2>1. k \in 0 .. n /\ k - 1 \in 0 .. n
        BY <1>1
    <2> QED BY <1>9, <2>1
<1> HIDE DEF f
<1> QED BY <1>10, <1>11

LEMMA ClaudeGoesOn ==
    ASSUME ImportAssumption, NEW log \in Seq(ClaudeLines), NEW r \in ClaudeLines
    PROVE  Grows(claudeGathered(log), claudeGathered(Append(log, r)))
<1> DEFINE n == Len(log)
           more == Append(log, r)
<1>1. /\ n \in Nat /\ more \in Seq(ClaudeLines) /\ Len(more) = n + 1 /\ more[n + 1] = r
      /\ \A k \in 1 .. n : more[k] = log[k] /\ log[k] \in ClaudeLines
    OBVIOUS
<1>2. PICK f : /\ f[0] = Nothing /\ claudeGathered(log) = f[n]
               /\ \A k \in 1 .. n : f[k] = mapClaudeSession(f[k - 1], log[k], k)
    BY ClaudeByLine
<1>3. PICK h : /\ h[0] = Nothing /\ claudeGathered(more) = h[n + 1]
               /\ \A k \in 1 .. (n + 1) : h[k] = mapClaudeSession(h[k - 1], more[k], k)
    <2>1. \E h : /\ h[0] = Nothing /\ claudeGathered(more) = h[Len(more)]
                 /\ \A k \in 1 .. Len(more) : h[k] = mapClaudeSession(h[k - 1], more[k], k)
        BY <1>1, ClaudeByLine
    <2> QED BY <1>1, <2>1
<1> HIDE DEF n, more
<1> DEFINE Good == {k \in Nat : k <= n => f[k] = h[k] /\ f[k] \in Gatherings}
<1>4. 0 \in Good
    BY <1>2, <1>3, NothingGathered
<1>5. ASSUME NEW k \in Nat, k \in Good PROVE k + 1 \in Good
    <2> SUFFICES ASSUME k + 1 <= n PROVE f[k + 1] = h[k + 1] /\ f[k + 1] \in Gatherings
        OBVIOUS
    <2>1. k <= n /\ k + 1 \in 1 .. n /\ k + 1 \in 1 .. (n + 1) /\ (k + 1) - 1 = k /\ k + 1 \in Nat
        BY <1>1
    <2>2. f[k] = h[k] /\ f[k] \in Gatherings
        BY <1>5, <2>1
    <2>3. more[k + 1] = log[k + 1] /\ log[k + 1] \in ClaudeLines
        BY <1>1, <2>1
    <2>4. f[k + 1] = mapClaudeSession(f[k], log[k + 1], k + 1)
        BY <1>2, <2>1
    <2>5. h[k + 1] = mapClaudeSession(h[k], more[k + 1], k + 1)
        BY <1>3, <2>1
    <2>6. Grows(f[k], f[k + 1])
        BY <2>1, <2>2, <2>3, <2>4, ClaudeLineGrows
    <2> QED BY <2>2, <2>3, <2>4, <2>5, <2>6 DEF Grows
<1> HIDE DEF Good
<1>6. n \in Good
    BY <1>1, <1>4, <1>5, Counted
<1>7. f[n] = h[n] /\ f[n] \in Gatherings
    BY <1>1, <1>6 DEF Good
<1>8. h[n + 1] = mapClaudeSession(f[n], r, n + 1)
    <2>1. n + 1 \in 1 .. (n + 1) /\ (n + 1) - 1 = n
        BY <1>1
    <2> QED BY <1>1, <1>3, <1>7, <2>1
<1>9. n + 1 \in Nat
    BY <1>1
<1>10. Grows(f[n], h[n + 1])
    BY <1>7, <1>8, <1>9, ClaudeLineGrows
<1> QED BY <1>2, <1>3, <1>10 DEF more

\* The rows that are posted
LEMMA RowsOfIs ==
    ASSUME NEW spans_ \in Seq(Spans), NEW output \in Nat, NEW lastTs \in Nat
    PROVE  /\ RowsOf(spans_, output, lastTs) \in Seq(Spans)
           /\ IdsOf(RowsOf(spans_, output, lastTs)) = {<<"trace", 0>>} \cup IdsOf(spans_)
<1> DEFINE s == spans_
           first == Span(<<"trace", 0>>, 0, 0, output)
           t == [k \in DOMAIN s |-> IF s[k].end = 0 THEN [s[k] EXCEPT !.end = lastTs] ELSE s[k]]
<1>1. <<"trace", 0>> \in Names
    BY DEF Names
<1>2. first \in Spans /\ first.id = <<"trace", 0>>
    BY <1>1, SpanIs
<1>3. \A k \in DOMAIN s : t[k] \in Spans /\ t[k].id = s[k].id
    <2> SUFFICES ASSUME NEW k \in DOMAIN s PROVE t[k] \in Spans /\ t[k].id = s[k].id
        OBVIOUS
    <2>1. s[k] \in Spans
        OBVIOUS
    <2>2. [s[k] EXCEPT !.end = lastTs] \in Spans /\ [s[k] EXCEPT !.end = lastTs].id = s[k].id
        BY <2>1, SpanChanged
    <2>3. t[k] = [s[k] EXCEPT !.end = lastTs] \/ t[k] = s[k]
        OBVIOUS
    <2> HIDE DEF t
    <2> QED BY <2>1, <2>2, <2>3
<1>4. DOMAIN t = DOMAIN s /\ t = [k \in DOMAIN s |-> t[k]]
    OBVIOUS
<1>5. RowsOf(s, output, lastTs) = <<first>> \o t
    BY DEF RowsOf
<1> HIDE DEF first, t
<1>6. t \in Seq(Spans) /\ Len(t) = Len(s)
    BY <1>3, <1>4, ExtendsAll DEF Extends
<1>7. IdsOf(t) = IdsOf(s)
    BY <1>3, <1>4 DEF IdsOf
<1>8. <<first>> \in Seq(Spans) /\ DOMAIN <<first>> = {1} /\ <<first>>[1] = first
    BY <1>2
<1>9. IdsOf(<<first>>) = {<<"trace", 0>>}
    BY <1>2, <1>8 DEF IdsOf
<1>10. PICK u : u = <<first>>
    OBVIOUS
<1>11. u \o t \in Seq(Spans) /\ IdsOf(u \o t) = IdsOf(u) \cup IdsOf(t)
    BY <1>6, <1>8, <1>10, IdsOfTwo
<1> QED BY <1>5, <1>7, <1>9, <1>10, <1>11

LEMMA CodexEventsAre ==
    ASSUME NEW m \in Gatherings, NEW lastTs \in Nat
    PROVE  /\ codexEvents(m, lastTs) \in Seq(Spans)
           /\ IdsOf(codexEvents(m, lastTs)) = {<<"trace", 0>>} \cup IdsOf(m.turns) \cup IdsOf(m.gens)
                                                \cup IdsOf(m.tools) \cup IdsOf(m.extra)
<1>1. /\ m.turns \in Seq(Spans) /\ m.gens \in Seq(Spans) /\ m.tools \in Seq(Spans) /\ m.extra \in Seq(Spans)
      /\ m.output \in Nat
    BY FieldsOf
<1> DEFINE a == m.turns \o m.gens
           b == a \o m.tools
           c == b \o m.extra
<1>2. a \in Seq(Spans) /\ IdsOf(a) = IdsOf(m.turns) \cup IdsOf(m.gens)
    BY <1>1, IdsOfTwo
<1>3. codexEvents(m, lastTs) = RowsOf(c, m.output, lastTs)
    BY DEF codexEvents
<1> HIDE DEF a
<1>4. b \in Seq(Spans) /\ IdsOf(b) = IdsOf(a) \cup IdsOf(m.tools)
    BY <1>1, <1>2, IdsOfTwo
<1> HIDE DEF b
<1>5. c \in Seq(Spans) /\ IdsOf(c) = IdsOf(b) \cup IdsOf(m.extra)
    BY <1>1, <1>4, IdsOfTwo
<1> HIDE DEF c
<1>6. /\ RowsOf(c, m.output, lastTs) \in Seq(Spans)
      /\ IdsOf(RowsOf(c, m.output, lastTs)) = {<<"trace", 0>>} \cup IdsOf(c)
    BY <1>1, <1>5, RowsOfIs
<1> QED BY <1>2, <1>3, <1>4, <1>5, <1>6

LEMMA ClaudeEventsAre ==
    ASSUME NEW m \in Gatherings, NEW lastTs \in Nat
    PROVE  /\ claudeEvents(m, lastTs) \in Seq(Spans)
           /\ IdsOf(claudeEvents(m, lastTs)) = {<<"trace", 0>>} \cup IdsOf(m.turns) \cup IdsOf(m.gens)
                                                 \cup IdsOf(m.tools)
<1>1. m.turns \in Seq(Spans) /\ m.gens \in Seq(Spans) /\ m.tools \in Seq(Spans)
    BY FieldsOf
<1> DEFINE a == m.turns \o m.gens
           b == a \o m.tools
           output == IF m.gens = <<>> THEN 0 ELSE Last(m.gens).at
<1>2. a \in Seq(Spans) /\ IdsOf(a) = IdsOf(m.turns) \cup IdsOf(m.gens)
    BY <1>1, IdsOfTwo
<1>3. claudeEvents(m, lastTs) = RowsOf(b, output, lastTs)
    BY DEF claudeEvents
<1>4. output \in Nat
    <2>1. CASE m.gens = <<>>
        BY <2>1
    <2>2. CASE m.gens # <<>>
        <3>1. Len(m.gens) \in 1 .. Len(m.gens)
            BY <1>1, <2>2
        <3>2. Last(m.gens) \in Spans
            BY <1>1, <3>1 DEF Last
        <3>3. Last(m.gens).at \in Nat
            BY <3>2 DEF Spans
        <3> QED BY <2>2, <3>3
    <2> QED BY <2>1, <2>2
<1> HIDE DEF a, output
<1>5. b \in Seq(Spans) /\ IdsOf(b) = IdsOf(a) \cup IdsOf(m.tools)
    BY <1>1, <1>2, IdsOfTwo
<1> HIDE DEF b
<1>6. RowsOf(b, output, lastTs) \in Seq(Spans) /\ IdsOf(RowsOf(b, output, lastTs)) = {<<"trace", 0>>} \cup IdsOf(b)
    BY <1>4, <1>5, RowsOfIs
<1> QED BY <1>2, <1>3, <1>5, <1>6

\* A longer log has the rows of a shorter one
LEMMA EventsGrow ==
    ASSUME ImportAssumption, agent \in {"codex", "claude"}, NEW log \in Seq(Lines), NEW r \in Lines
    PROVE  EventsOf(log) \in Seq(Spans) /\ IdsOf(EventsOf(log)) \subseteq IdsOf(EventsOf(Append(log, r)))
<1>1. Append(log, r) # <<>> /\ Len(Append(log, r)) \in Nat /\ Len(log) \in Nat
    OBVIOUS
<1>2. CASE log = <<>>
    <2>1. EventsOf(log) = <<>>
        BY <1>2 DEF EventsOf
    <2>2. IdsOf(<<>>) = {}
        BY DEF IdsOf
    <2>3. <<>> \in Seq(Spans)
        OBVIOUS
    <2> QED BY <2>1, <2>2, <2>3
<1>3. CASE log # <<>> /\ agent = "codex"
    <2> DEFINE m == codexGathered(log)
               p == codexGathered(Append(log, r))
    <2>1. log \in Seq(CodexLines) /\ r \in CodexLines
        BY <1>3 DEF Lines
    <2>2. Grows(m, p)
        BY <2>1, CodexGoesOn
    <2>3. EventsOf(log) = codexEvents(m, Len(log))
        BY <1>3 DEF EventsOf
    <2>4. EventsOf(Append(log, r)) = codexEvents(p, Len(Append(log, r)))
        BY <1>1, <1>3 DEF EventsOf
    <2> HIDE DEF m, p
    <2>5. /\ IdsOf(m.turns) \subseteq IdsOf(p.turns) /\ IdsOf(m.gens) \subseteq IdsOf(p.gens)
          /\ IdsOf(m.tools) \subseteq IdsOf(p.tools) /\ IdsOf(m.extra) \subseteq IdsOf(p.extra)
          /\ m \in Gatherings /\ p \in Gatherings
        BY <2>2, IdsGrow DEF Grows
    <2>6. /\ codexEvents(m, Len(log)) \in Seq(Spans)
          /\ IdsOf(codexEvents(m, Len(log))) = {<<"trace", 0>>} \cup IdsOf(m.turns) \cup IdsOf(m.gens)
                                                \cup IdsOf(m.tools) \cup IdsOf(m.extra)
        BY <1>1, <2>5, CodexEventsAre
    <2>7. IdsOf(codexEvents(p, Len(Append(log, r)))) = {<<"trace", 0>>} \cup IdsOf(p.turns) \cup IdsOf(p.gens)
                                                        \cup IdsOf(p.tools) \cup IdsOf(p.extra)
        BY <1>1, <2>5, CodexEventsAre
    <2> QED BY <2>3, <2>4, <2>5, <2>6, <2>7
<1>4. CASE log # <<>> /\ agent = "claude"
    <2> DEFINE m == claudeGathered(log)
               p == claudeGathered(Append(log, r))
    <2>1. log \in Seq(ClaudeLines) /\ r \in ClaudeLines
        BY <1>4 DEF Lines
    <2>2. Grows(m, p)
        BY <2>1, ClaudeGoesOn
    <2>3. EventsOf(log) = claudeEvents(m, Len(log))
        BY <1>4 DEF EventsOf
    <2>4. EventsOf(Append(log, r)) = claudeEvents(p, Len(Append(log, r)))
        BY <1>1, <1>4 DEF EventsOf
    <2> HIDE DEF m, p
    <2>5. /\ IdsOf(m.turns) \subseteq IdsOf(p.turns) /\ IdsOf(m.gens) \subseteq IdsOf(p.gens)
          /\ IdsOf(m.tools) \subseteq IdsOf(p.tools) /\ m \in Gatherings /\ p \in Gatherings
        BY <2>2, IdsGrow DEF Grows
    <2>6. /\ claudeEvents(m, Len(log)) \in Seq(Spans)
          /\ IdsOf(claudeEvents(m, Len(log))) = {<<"trace", 0>>} \cup IdsOf(m.turns) \cup IdsOf(m.gens)
                                                 \cup IdsOf(m.tools)
        BY <1>1, <2>5, ClaudeEventsAre
    <2>7. IdsOf(claudeEvents(p, Len(Append(log, r)))) = {<<"trace", 0>>} \cup IdsOf(p.turns) \cup IdsOf(p.gens)
                                                         \cup IdsOf(p.tools)
        BY <1>1, <2>5, ClaudeEventsAre
    <2> QED BY <2>3, <2>4, <2>5, <2>6, <2>7
<1> QED BY <1>2, <1>3, <1>4

LEMMA EventsTyped ==
    ASSUME ImportAssumption, agent \in {"codex", "claude"}
    PROVE  \A log \in Seq(Lines) : EventsOf(log) \in Seq(Spans)
<1>1. \E r : r \in Lines
    <2>1. Line("message", 0) \in CodexLines /\ Line("user", 0) \in ClaudeLines
        BY DEF CodexLines, ClaudeLines
    <2> QED BY <2>1 DEF Lines
<1> QED BY <1>1, EventsGrow

\* The mapping does not depend on anything else that changes
LEMMA EventsStay ==
    ASSUME agent \in {"codex", "claude"}, UNCHANGED agent
    PROVE  Lines' = Lines /\ \A log : EventsOf(log)' = EventsOf(log)
<1>1. Lines' = Lines
    BY DEF Lines
<1>2. ASSUME NEW log PROVE EventsOf(log)' = EventsOf(log)
    BY DEF EventsOf
<1> QED BY <1>1, <1>2

\* A part of a log that was read stays as it is
LEMMA PrefixStays ==
    ASSUME NEW S, NEW log \in Seq(S), NEW r \in S, NEW n \in 1 .. Len(log)
    PROVE  SubSeq(Append(log, r), 1, n) = SubSeq(log, 1, n)
<1> DEFINE more == Append(log, r)
<1>1. /\ more \in Seq(S) /\ Len(more) = Len(log) + 1 /\ Len(log) \in Nat
      /\ \A k \in 1 .. Len(log) : more[k] = log[k]
    OBVIOUS
<1> HIDE DEF more
<1>2. \A k \in 1 .. n : k \in 1 .. Len(log) /\ k \in 1 .. Len(more) /\ log[k] \in S /\ more[k] \in S
    BY <1>1
<1>3. /\ SubSeq(log, 1, n) \in Seq(S) /\ Len(SubSeq(log, 1, n)) = n
      /\ \A k \in 1 .. n : SubSeq(log, 1, n)[k] = log[k]
    BY <1>1, <1>2, SubSeqProperties
<1>4. /\ SubSeq(more, 1, n) \in Seq(S) /\ Len(SubSeq(more, 1, n)) = n
      /\ \A k \in 1 .. n : SubSeq(more, 1, n)[k] = more[k]
    BY <1>1, <1>2, SubSeqProperties
<1>5. \A k \in 1 .. n : SubSeq(more, 1, n)[k] = SubSeq(log, 1, n)[k]
    BY <1>1, <1>2, <1>3, <1>4
<1>6. SubSeq(more, 1, n) = SubSeq(log, 1, n)
    BY <1>3, <1>4, <1>5, SeqEqual
<1> QED BY <1>6 DEF more

LEMMA IdsOfHas == \A s, n : n \in IdsOf(s) <=> Has(s, n)
<1> QED BY DEF IdsOf, Has

\* What the collector has after a request
LEMMA StoredIs ==
    ASSUME NEW old, NEW s \in Seq(Spans)
    PROVE  LET new == Stored(old, s)
           IN  /\ DOMAIN new = DOMAIN old \cup IdsOf(s) /\ new = [n \in DOMAIN new |-> new[n]]
               /\ \A n \in IdsOf(s) : EndsWith(s, n, new[n]) /\ new[n] \in Spans
               /\ \A n \in DOMAIN old : n \notin IdsOf(s) => new[n] = old[n]
<1> DEFINE new == Stored(old, s)
<1>1. DOMAIN new = DOMAIN old \cup IdsOf(s) /\ new = [n \in DOMAIN new |-> new[n]]
    BY DEF Stored
<1>2. \A n \in DOMAIN old : n \notin IdsOf(s) => new[n] = old[n]
    BY DEF Stored
<1>3. ASSUME NEW n \in IdsOf(s) PROVE EndsWith(s, n, new[n]) /\ new[n] \in Spans
    <2> DEFINE mine == {k \in 1 .. Len(s) : s[k].id = n}
    <2>1. DOMAIN s = 1 .. Len(s) /\ Len(s) \in Nat /\ \A k \in 1 .. Len(s) : s[k] \in Spans
        OBVIOUS
    <2>2. mine \subseteq 1 .. Len(s) /\ mine # {}
        BY <2>1 DEF IdsOf
    <2>3. Max(mine) \in mine /\ \A l \in mine : Max(mine) >= l
        BY <2>1, <2>2, GreatestOf
    <2>4. new[n] = s[SelectLastInSeq(s, LAMBDA x : x.id = n)]
        BY <1>1 DEF Stored
    <2>5. SelectLastInSeq(s, LAMBDA x : x.id = n) = Max(mine)
        BY <2>2 DEF SelectLastInSeq
    <2>6. new[n] = s[Max(mine)]
        BY <2>4, <2>5
    <2> HIDE DEF new
    <2>7. PICK k \in mine : new[n] = s[k] /\ \A l \in mine : l <= k
        <3>1. \A l \in mine : l <= Max(mine)
            BY <2>1, <2>2, <2>3
        <3> QED BY <2>3, <2>6, <3>1
    <2> QED BY <2>1, <2>7 DEF EndsWith
<1> QED BY <1>1, <1>2, <1>3

\* A row that is last of its id is one row
LEMMA LastIsOne ==
    ASSUME NEW s \in Seq(Spans), NEW n, NEW r, NEW x, EndsWith(s, n, r), EndsWith(s, n, x)
    PROVE  r = x /\ r \in Spans /\ n \in Names /\ Has(s, n)
<1>1. DOMAIN s = 1 .. Len(s) /\ Len(s) \in Nat /\ \A k \in 1 .. Len(s) : s[k] \in Spans
    OBVIOUS
<1>2. PICK k \in 1 .. Len(s) : s[k] = r /\ r.id = n /\ \A l \in 1 .. Len(s) : s[l].id = n => l <= k
    BY <1>1 DEF EndsWith
<1>3. PICK l \in 1 .. Len(s) : s[l] = x /\ x.id = n /\ \A j \in 1 .. Len(s) : s[j].id = n => j <= l
    BY <1>1 DEF EndsWith
<1>4. k = l
    BY <1>1, <1>2, <1>3
<1>5. r \in Spans
    BY <1>1, <1>2
<1>6. r.id \in Names
    BY <1>5 DEF Spans
<1> QED BY <1>1, <1>2, <1>3, <1>4, <1>5, <1>6 DEF Has

\* Rows that end the events, and no others, are what the events lead to
LEMMA StoredAlone ==
    ASSUME NEW s \in Seq(Spans), NEW new, new = [n \in DOMAIN new |-> new[n]], DOMAIN new = IdsOf(s),
           \A n \in IdsOf(s) : EndsWith(s, n, new[n])
    PROVE  new = Stored(<<>>, s)
<1> DEFINE x == Stored(<<>>, s)
<1>1. /\ DOMAIN x = DOMAIN <<>> \cup IdsOf(s) /\ x = [n \in DOMAIN x |-> x[n]]
      /\ \A n \in IdsOf(s) : EndsWith(s, n, x[n])
    BY StoredIs
<1>2. DOMAIN <<>> = {}
    OBVIOUS
<1> HIDE DEF x
<1>3. DOMAIN x = DOMAIN new
    BY <1>1, <1>2
<1>4. \A n \in DOMAIN new : new[n] = x[n]
    BY <1>1, LastIsOne
<1>5. new = x
    BY <1>1, <1>3, <1>4
<1> QED BY <1>5 DEF x

\* An import that is on its way
LEMMA OnItsWay ==
    ASSUME ImportAssumption, ImportTyped, NEW i \in Imports
    PROVE  /\ imports[i] # Idle <=> imports[i].of # 0
           /\ imports[i] = Idle => imports[i].of = 0 /\ ~imports[i].clean
           /\ imports[i] # Idle =>
                 /\ imports[i] \in Import /\ imports[i].of \in Threads /\ imports[i].told = imports[i].of
                 /\ imports[i].left \in Seq(Spans) /\ imports[i].read \in 1 .. Len(logs[imports[i].of])
                 /\ logs[imports[i].of] \in Seq(Lines) /\ Read(i) \in Seq(Spans)
<1>1. imports[i] \in Import \cup {Idle}
    BY DEF ImportTyped
<1>2. Idle.of = 0 /\ Idle.clean = FALSE
    BY DEF Idle
<1>3. \A x \in Import : x.of \in Threads /\ x.left \in Seq(Spans) /\ x.of # 0
    BY DEF Import, ImportAssumption
<1>4. ASSUME imports[i] # Idle
      PROVE  /\ imports[i].told = imports[i].of /\ imports[i].read \in 1 .. Len(logs[imports[i].of])
             /\ logs[imports[i].of] \in Seq(Lines) /\ Read(i) \in Seq(Spans)
    <2> DEFINE log == logs[imports[i].of]
               n == imports[i].read
    <2>1. imports[i].told = imports[i].of /\ n \in 1 .. Len(log) /\ log \in Seq(Lines)
        BY <1>1, <1>3, <1>4 DEF ImportTyped
    <2> HIDE DEF log, n
    <2>2. SubSeq(log, 1, n) \in Seq(Lines)
        <3>1. \A k \in 1 .. n : k \in 1 .. Len(log)
            BY <2>1
        <3>2. \A k \in 1 .. n : log[k] \in Lines
            BY <2>1, <3>1, ElementOfSeq
        <3>3. n \in Nat /\ 1 \in Int
            BY <2>1
        <3> QED BY <2>1, <3>1, <3>2, <3>3, SubSeqProperties
    <2>3. EventsOf(SubSeq(log, 1, n)) \in Seq(Spans)
        BY <2>2, EventsTyped DEF ImportTyped
    <2> QED BY <2>1, <2>3 DEF Read, log, n
<1> QED BY <1>1, <1>2, <1>3, <1>4

\* The agent writes: what was read is still there, and what is posted is still of the log
LEMMA GrowKeeps ==
    ASSUME ImportAssumption, ImportInv, NEW s \in Threads, Grow(s)
    PROVE  ImportInv'
<1>0. ImportTyped /\ OfTheLog /\ Clean /\ Done
    BY DEF ImportInv
<1>1. PICK r \in Lines : logs' = [logs EXCEPT ![s] = Append(@, r)]
    BY DEF Grow, Lines
<1>2. newest' = s /\ UNCHANGED <<agent, imports, adrift, rows, alone>>
    BY DEF Grow
<1>3. agent \in {"codex", "claude"} /\ logs \in [Threads -> Seq(Lines)]
    BY <1>0 DEF ImportTyped
<1>4. Lines' = Lines /\ \A log : EventsOf(log)' = EventsOf(log)
    BY <1>2, <1>3, EventsStay
<1>5. ASSUME NEW u \in Threads
      PROVE  /\ logs'[u] \in Seq(Lines) /\ Len(logs[u]) <= Len(logs'[u]) /\ Len(logs[u]) \in Nat /\ Len(logs'[u]) \in Nat
             /\ IdsOf(EventsOf(logs[u])) \subseteq IdsOf(EventsOf(logs'[u]))
             /\ \A n \in 1 .. Len(logs[u]) : SubSeq(logs'[u], 1, n) = SubSeq(logs[u], 1, n)
    <2>0. logs[u] \in Seq(Lines) /\ Len(logs[u]) \in Nat
        BY <1>3
    <2>1. CASE u = s
        <3>1. logs'[u] = Append(logs[u], r)
            BY <1>1, <1>3, <2>1
        <3>2. Append(logs[u], r) \in Seq(Lines) /\ Len(Append(logs[u], r)) = Len(logs[u]) + 1
            BY <2>0
        <3>3. IdsOf(EventsOf(logs[u])) \subseteq IdsOf(EventsOf(Append(logs[u], r)))
            BY <1>3, <2>0, EventsGrow
        <3>4. \A n \in 1 .. Len(logs[u]) : SubSeq(Append(logs[u], r), 1, n) = SubSeq(logs[u], 1, n)
            BY <2>0, PrefixStays
        <3> QED BY <2>0, <3>1, <3>2, <3>3, <3>4
    <2>2. CASE u # s
        <3>1. logs'[u] = logs[u]
            BY <1>1, <1>3, <2>2
        <3> QED BY <2>0, <3>1
    <2> QED BY <2>1, <2>2
<1>6. ASSUME NEW i \in Imports, imports[i] # Idle
      PROVE  /\ imports[i].of \in Threads /\ imports[i].told = imports[i].of
             /\ imports[i].read \in 1 .. Len(logs'[imports[i].of])
             /\ SubSeq(logs'[imports[i].of], 1, imports[i].read) = SubSeq(logs[imports[i].of], 1, imports[i].read)
    <2>1. imports[i].of \in Threads /\ imports[i].told = imports[i].of /\ imports[i].read \in 1 .. Len(logs[imports[i].of])
        BY <1>0, <1>6, OnItsWay
    <2>2. PICK u \in Threads, n \in Nat : u = imports[i].of /\ n = imports[i].read
        BY <2>1
    <2>3. n \in 1 .. Len(logs[u])
        BY <2>1, <2>2
    <2>4. n \in 1 .. Len(logs'[u]) /\ SubSeq(logs'[u], 1, n) = SubSeq(logs[u], 1, n)
        BY <1>5, <2>3
    <2> QED BY <2>1, <2>2, <2>4
<1>7. ImportTyped'
    <2>1. logs' \in [Threads -> Seq(Lines)]
        <3>1. DOMAIN logs' = Threads /\ logs' = [u \in Threads |-> logs'[u]]
            BY <1>1, <1>3
        <3> QED BY <1>5, <3>1
    <2>2. \A u \in Threads : alone[u] <= Len(logs'[u])
        <3> SUFFICES ASSUME NEW u \in Threads PROVE alone[u] <= Len(logs'[u])
            OBVIOUS
        <3>1. alone[u] \in Nat /\ alone[u] <= Len(logs[u])
            BY <1>0 DEF ImportTyped
        <3> QED BY <1>5, <3>1
    <2>3. /\ imports \in [Imports -> Import \cup {Idle}] /\ alone \in [Threads -> Nat]
          /\ rows \in [Threads -> UNION {[D -> Spans] : D \in SUBSET Names}]
          /\ adrift \subseteq [of : Threads, left : Seq(Spans)]
        BY <1>0 DEF ImportTyped
    <2>4. \A i \in Imports : imports[i] # Idle =>
             imports[i].told = imports[i].of /\ imports[i].read \in 1 .. Len(logs'[imports[i].of])
        BY <1>6
    <2>5. agent' \in {"codex", "claude"} /\ newest' \in Threads \cup {0}
        BY <1>2, <1>3
    <2> QED BY <1>2, <1>4, <2>1, <2>2, <2>3, <2>4, <2>5 DEF ImportTyped
<1>8. OfTheLog'
    <2>1. \A u \in Threads : DOMAIN rows[u] \subseteq IdsOf(EventsOf(logs'[u]))
        BY <1>0, <1>5 DEF OfTheLog
    <2>2. \A i \in Imports : imports[i] # Idle => IdsOf(imports[i].left) \subseteq IdsOf(EventsOf(logs'[imports[i].of]))
        BY <1>0, <1>5, <1>6 DEF OfTheLog
    <2>3. \A q \in adrift : IdsOf(q.left) \subseteq IdsOf(EventsOf(logs'[q.of]))
        <3> SUFFICES ASSUME NEW q \in adrift PROVE IdsOf(q.left) \subseteq IdsOf(EventsOf(logs'[q.of]))
            OBVIOUS
        <3>1. q.of \in Threads
            BY <1>0 DEF ImportTyped
        <3>2. IdsOf(q.left) \subseteq IdsOf(EventsOf(logs[q.of]))
            BY <1>0 DEF OfTheLog
        <3> QED BY <1>5, <3>1, <3>2
    <2> QED BY <1>2, <1>4, <2>1, <2>2, <2>3 DEF OfTheLog
<1>9. \A i \in Imports : imports[i] # Idle => Read(i)' = Read(i)
    <2> SUFFICES ASSUME NEW i \in Imports, imports[i] # Idle PROVE Read(i)' = Read(i)
        OBVIOUS
    <2>1. PICK log : log = SubSeq(logs'[imports[i].of], 1, imports[i].read)
        OBVIOUS
    <2>2. EventsOf(log)' = EventsOf(log) /\ log = SubSeq(logs[imports[i].of], 1, imports[i].read)
        BY <1>4, <1>6, <2>1
    <2> QED BY <1>2, <2>1, <2>2 DEF Read
<1>10. Clean'
    <2> SUFFICES ASSUME NEW i \in Imports, imports'[i].clean
                 PROVE  /\ \A j \in Imports \ {i} : imports'[j].of # imports'[i].of
                        /\ DOMAIN rows'[imports'[i].of] \subseteq IdsOf(Read(i)')
                        /\ IdsOf(imports'[i].left) \subseteq IdsOf(Read(i)')
                        /\ \A n \in Names, x \in Spans : EndsWith(Read(i)', n, x) =>
                              IF Has(imports'[i].left, n) THEN EndsWith(imports'[i].left, n, x)
                              ELSE n \in DOMAIN rows'[imports'[i].of] /\ rows'[imports'[i].of][n] = x
        BY DEF Clean
    <2>1. imports' = imports /\ rows' = rows /\ imports[i].clean
        BY <1>2
    <2>2. Read(i)' = Read(i)
        BY <1>0, <1>9, <2>1, OnItsWay
    <2> QED BY <1>0, <2>1, <2>2 DEF Clean
<1>11. Done'
    <2> SUFFICES ASSUME NEW u \in Threads, alone'[u] # 0
                 PROVE  /\ \A i \in Imports : imports'[i].of # u
                        /\ rows'[u] = Stored(<<>>, EventsOf(SubSeq(logs[u], 1, alone[u]))')
        BY DEF Done
    <2>1. alone[u] \in 1 .. Len(logs[u])
        <3>1. alone[u] \in Nat /\ alone[u] <= Len(logs[u])
            BY <1>0 DEF ImportTyped
        <3>2. alone[u] # 0 /\ Len(logs[u]) \in Nat
            BY <1>2, <1>5
        <3> QED BY <3>1, <3>2
    <2>2. SubSeq(logs'[u], 1, alone[u]) = SubSeq(logs[u], 1, alone[u])
        BY <1>5, <2>1
    <2>3. \A i \in Imports : imports[i].of # u
        BY <1>0, <1>2 DEF Done
    <2>4. rows[u] = Stored(<<>>, EventsOf(SubSeq(logs[u], 1, alone[u])))
        BY <1>0, <1>2 DEF Done
    <2>5. PICK log : log = SubSeq(logs[u], 1, alone[u])
        OBVIOUS
    <2>6. EventsOf(log)' = EventsOf(log) /\ log = SubSeq(logs'[u], 1, alone'[u])
        BY <1>2, <1>4, <2>2, <2>5
    <2>7. EventsOf(SubSeq(logs[u], 1, alone[u]))' = EventsOf(log)
        BY <2>6
    <2> QED BY <1>2, <2>3, <2>4, <2>5, <2>7
<1> QED BY <1>7, <1>8, <1>10, <1>11 DEF ImportInv

\* x is import j after it met another of session s: only its cleanness may be lost
MetOf(s, j, x) == /\ imports[j] = Idle => x = Idle
                  /\ imports[j] # Idle => x \in Import /\ x # Idle
                  /\ x.of = imports[j].of /\ x.told = imports[j].told
                  /\ x.read = imports[j].read /\ x.left = imports[j].left
                  /\ x.clean => imports[j].clean /\ imports[j].of # s

\* Of a process that met another one only its cleanness is lost
LEMMA MetIs ==
    ASSUME ImportAssumption, ImportTyped, NEW s \in Threads, NEW j \in Imports, NEW x,
           x = Met(s, j)
    PROVE  MetOf(s, j, x)
<1>1. PICK v : v = (imports[j].clean /\ j \notin Importing(s))
    OBVIOUS
<1>2. x = [imports[j] EXCEPT !.clean = v] /\ v \in BOOLEAN
    BY <1>1 DEF Met
<1>3. v => imports[j].clean /\ imports[j].of # s
    <2>1. j \notin Importing(s) => imports[j].of # s
        BY DEF Importing, ImportAssumption
    <2> QED BY <1>1, <2>1
<1>4. CASE imports[j] = Idle
    <2>1. imports[j] = [of |-> 0, told |-> 0, read |-> 0, left |-> <<>>, clean |-> FALSE]
        BY <1>4 DEF Idle
    <2>2. imports[j].clean = FALSE
        BY <2>1
    <2>3. v = FALSE
        BY <1>1, <2>2, Zenon
    <2>4. x = [of |-> 0, told |-> 0, read |-> 0, left |-> <<>>, clean |-> v]
        BY <1>2, <2>1
    <2>5. x = imports[j]
        BY <2>1, <2>3, <2>4
    <2>6. x.clean = FALSE
        BY <2>2, <2>5
    <2> QED BY <1>4, <2>5, <2>6 DEF MetOf
<1>5. CASE imports[j] # Idle
    <2>1. imports[j] \in Import
        BY <1>5 DEF ImportTyped
    <2>2. PICK o, t, r, l, d : /\ imports[j] = [of |-> o, told |-> t, read |-> r, left |-> l, clean |-> d]
                               /\ o \in Threads /\ t \in Threads /\ r \in Nat /\ l \in Seq(Spans) /\ d \in BOOLEAN
        BY <2>1 DEF Import
    <2>3. x = [of |-> o, told |-> t, read |-> r, left |-> l, clean |-> v]
        BY <1>2, <2>2
    <2>4. x \in Import
        BY <1>2, <2>2, <2>3 DEF Import
    <2>5. o # 0
        BY <2>2 DEF ImportAssumption
    <2>6. x.of # Idle.of
        BY <2>3, <2>5 DEF Idle
    <2> QED BY <1>3, <1>5, <2>2, <2>3, <2>4, <2>6 DEF MetOf
<1> QED BY <1>4, <1>5

LEMMA BeginKeeps ==
    ASSUME ImportAssumption, ImportInv, NEW i \in Imports, NEW s \in Threads, Begin(i, s, s)
    PROVE  ImportInv'
<1>0. ImportTyped /\ OfTheLog /\ Clean /\ Done
    BY DEF ImportInv
<1> DEFINE E == EventsOf(logs[s])
           n == Len(logs[s])
           new == [of |-> s, told |-> s, read |-> n, left |-> E, clean |-> Importing(s) = {}]
<1>1. /\ imports[i] = Idle /\ E # <<>>
      /\ imports' = [j \in Imports |-> IF j = i THEN new
                                       ELSE [imports[j] EXCEPT !.clean = @ /\ j \notin Importing(s)]]
      /\ alone' = [alone EXCEPT ![s] = 0]
      /\ UNCHANGED <<agent, logs, newest, adrift, rows>>
    BY DEF Begin, Met
<1>2. /\ agent \in {"codex", "claude"} /\ logs \in [Threads -> Seq(Lines)] /\ alone \in [Threads -> Nat]
      /\ imports \in [Imports -> Import \cup {Idle}]
      /\ rows \in [Threads -> UNION {[D -> Spans] : D \in SUBSET Names}] /\ newest \in Threads \cup {0}
      /\ adrift \subseteq [of : Threads, left : Seq(Spans)]
    BY <1>0 DEF ImportTyped
<1>3. Lines' = Lines /\ \A log : EventsOf(log)' = EventsOf(log)
    BY <1>1, <1>2, EventsStay
<1>4. logs[s] \in Seq(Lines) /\ n \in Nat /\ E \in Seq(Spans)
    <2>1. logs[s] \in Seq(Lines) /\ n \in Nat
        BY <1>2
    <2>2. \A log \in Seq(Lines) : EventsOf(log) \in Seq(Spans)
        BY <1>2, EventsTyped
    <2> QED BY <2>1, <2>2
<1>5. n \in 1 .. n /\ SubSeq(logs[s], 1, n) = logs[s]
    <2>1. logs[s] # <<>>
        BY <1>1 DEF EventsOf
    <2>2. n # 0
        BY <1>4, <2>1
    <2>3. SubSeq(logs[s], 1, n) = logs[s]
        BY <1>4, SubSeqFull
    <2> QED BY <1>4, <2>2, <2>3
<1> HIDE DEF n, E
<1>6. PICK c : c = (Importing(s) = {})
    OBVIOUS
<1>7. c \in BOOLEAN /\ imports'[i] = [of |-> s, told |-> s, read |-> n, left |-> E, clean |-> c]
    BY <1>1, <1>6
<1>8. imports'[i] \in Import /\ imports'[i] # Idle
    <2>1. imports'[i] \in Import
        BY <1>4, <1>7 DEF Import
    <2>2. s # 0
        BY DEF ImportAssumption
    <2> QED BY <1>7, <2>1, <2>2 DEF Idle
<1> HIDE DEF new
\* the others: only their cleanness changes
<1>9. ASSUME NEW j \in Imports, j # i
      PROVE  /\ imports[j] = Idle => imports'[j] = Idle
             /\ imports[j] # Idle => imports'[j] \in Import /\ imports'[j] # Idle
             /\ imports'[j].of = imports[j].of /\ imports'[j].told = imports[j].told
             /\ imports'[j].read = imports[j].read /\ imports'[j].left = imports[j].left
             /\ imports'[j].clean => imports[j].clean /\ imports[j].of # s
    <2>1. PICK x : x = imports'[j]
        OBVIOUS
    <2>2. x = Met(s, j)
        BY <1>1, <1>9, <2>1 DEF Met
    <2>3. MetOf(s, j, x)
        BY <1>0, <2>2, MetIs
    <2> QED BY <2>1, <2>3 DEF MetOf
<1>10. ImportTyped'
    <2>1. imports' \in [Imports -> Import \cup {Idle}]
        <3>1. \A j \in Imports : imports'[j] \in Import \cup {Idle}
            BY <1>8, <1>9
        <3>2. DOMAIN imports' = Imports /\ imports' = [j \in Imports |-> imports'[j]]
            BY <1>1
        <3> QED BY <3>1, <3>2
    <2>2. \A j \in Imports : imports'[j] # Idle =>
             imports'[j].told = imports'[j].of /\ imports'[j].read \in 1 .. Len(logs[imports'[j].of])
        <3> SUFFICES ASSUME NEW j \in Imports, imports'[j] # Idle
                     PROVE  imports'[j].told = imports'[j].of /\ imports'[j].read \in 1 .. Len(logs[imports'[j].of])
            OBVIOUS
        <3>1. CASE j = i
            <4>1. imports'[j].told = s /\ imports'[j].of = s /\ imports'[j].read = n
                BY <1>7, <3>1
            <4> QED BY <1>5, <4>1 DEF n
        <3>2. CASE j # i
            <4>1. imports[j] # Idle /\ imports'[j].of = imports[j].of /\ imports'[j].told = imports[j].told
                  /\ imports'[j].read = imports[j].read
                BY <1>9, <3>2
            <4>2. imports[j].told = imports[j].of /\ imports[j].read \in 1 .. Len(logs[imports[j].of])
                BY <1>0, <4>1 DEF ImportTyped
            <4> QED BY <4>1, <4>2
        <3> QED BY <3>1, <3>2
    <2>3. alone' \in [Threads -> Nat] /\ \A u \in Threads : alone'[u] <= Len(logs[u])
        <3>1. \A u \in Threads : Len(logs[u]) \in Nat
            BY <1>2
        <3>2. \A u \in Threads : alone'[u] = 0 \/ alone'[u] = alone[u]
            BY <1>1, <1>2
        <3>3. alone' \in [Threads -> Nat]
            BY <1>1, <1>2
        <3>4. \A u \in Threads : alone[u] <= Len(logs[u])
            BY <1>0 DEF ImportTyped
        <3> QED BY <3>1, <3>2, <3>3, <3>4
    <2> QED BY <1>1, <1>2, <1>3, <2>1, <2>2, <2>3 DEF ImportTyped
<1>11. OfTheLog'
    <2>1. \A u \in Threads : DOMAIN rows[u] \subseteq IdsOf(EventsOf(logs[u]))
        BY <1>0 DEF OfTheLog
    <2>2. \A j \in Imports : imports'[j] # Idle => IdsOf(imports'[j].left) \subseteq IdsOf(EventsOf(logs[imports'[j].of]))
        <3> SUFFICES ASSUME NEW j \in Imports, imports'[j] # Idle
                     PROVE  IdsOf(imports'[j].left) \subseteq IdsOf(EventsOf(logs[imports'[j].of]))
            OBVIOUS
        <3>1. CASE j = i
            <4>1. imports'[j].left = E /\ imports'[j].of = s
                BY <1>7, <3>1
            <4> QED BY <4>1 DEF E
        <3>2. CASE j # i
            BY <1>0, <1>9, <3>2 DEF OfTheLog
        <3> QED BY <3>1, <3>2
    <2>3. \A q \in adrift : IdsOf(q.left) \subseteq IdsOf(EventsOf(logs[q.of]))
        BY <1>0 DEF OfTheLog
    <2> QED BY <1>1, <1>3, <2>1, <2>2, <2>3 DEF OfTheLog
<1>12. Clean'
    <2> SUFFICES ASSUME NEW j \in Imports, imports'[j].clean
                 PROVE  /\ \A k \in Imports \ {j} : imports'[k].of # imports'[j].of
                        /\ DOMAIN rows'[imports'[j].of] \subseteq IdsOf(Read(j)')
                        /\ IdsOf(imports'[j].left) \subseteq IdsOf(Read(j)')
                        /\ \A m \in Names, x \in Spans : EndsWith(Read(j)', m, x) =>
                              IF Has(imports'[j].left, m) THEN EndsWith(imports'[j].left, m, x)
                              ELSE m \in DOMAIN rows'[imports'[j].of] /\ rows'[imports'[j].of][m] = x
        BY DEF Clean
    <2>1. PICK u, q : u = imports'[j].of /\ q = imports'[j].read
        OBVIOUS
    <2>2. Read(j)' = EventsOf(SubSeq(logs[u], 1, q))
        <3>1. PICK log : log = SubSeq(logs[u], 1, q)
            OBVIOUS
        <3>2. EventsOf(log)' = EventsOf(log)
            BY <1>3
        <3> QED BY <1>1, <2>1, <3>1, <3>2 DEF Read
    <2>3. CASE j = i
        <3>1. u = s /\ q = n /\ imports'[j].left = E /\ c
            BY <1>7, <2>1, <2>3
        <3>2. Read(j)' = E
            BY <1>5, <2>2, <3>1 DEF E
        <3>3. DOMAIN rows[s] \subseteq IdsOf(E)
            BY <1>0 DEF OfTheLog, E
        <3>4. \A k \in Imports \ {j} : imports'[k].of # s
            <4>1. \A k \in Imports : imports[k].of # s
                BY <1>6, <3>1 DEF Importing, ImportAssumption
            <4> QED BY <1>9, <2>3, <4>1
        <3>5. \A m, x : EndsWith(E, m, x) => Has(E, m)
            BY DEF EndsWith, Has
        <3> QED BY <1>1, <2>1, <3>1, <3>2, <3>3, <3>4, <3>5
    <2>4. CASE j # i
        <3>1. /\ imports[j].clean /\ imports[j].of # s /\ u = imports[j].of /\ q = imports[j].read
              /\ imports'[j].left = imports[j].left
            BY <1>9, <2>1, <2>4
        <3>2. Read(j)' = Read(j)
            BY <2>2, <3>1 DEF Read
        <3>3. \A k \in Imports \ {j} : imports'[k].of # u
            <4>1. \A k \in Imports \ {j} : imports[k].of # u
                BY <1>0, <3>1 DEF Clean
            <4>2. imports'[i].of = s
                BY <1>7
            <4> QED BY <1>9, <3>1, <4>1, <4>2
        <3>4. /\ DOMAIN rows[u] \subseteq IdsOf(Read(j))
              /\ IdsOf(imports[j].left) \subseteq IdsOf(Read(j))
              /\ \A m \in Names, x \in Spans : EndsWith(Read(j), m, x) =>
                    IF Has(imports[j].left, m) THEN EndsWith(imports[j].left, m, x)
                    ELSE m \in DOMAIN rows[u] /\ rows[u][m] = x
            BY <1>0, <3>1 DEF Clean
        <3> QED BY <1>1, <2>1, <3>1, <3>2, <3>3, <3>4
    <2> QED BY <2>3, <2>4
<1>13. Done'
    <2> SUFFICES ASSUME NEW u \in Threads, alone'[u] # 0
                 PROVE  /\ \A j \in Imports : imports'[j].of # u
                        /\ rows'[u] = Stored(<<>>, EventsOf(SubSeq(logs[u], 1, alone[u]))')
        BY DEF Done
    <2>1. u # s /\ alone'[u] = alone[u]
        BY <1>1, <1>2
    <2>2. \A j \in Imports : imports[j].of # u
        BY <1>0, <2>1 DEF Done
    <2>3. rows[u] = Stored(<<>>, EventsOf(SubSeq(logs[u], 1, alone[u])))
        BY <1>0, <2>1 DEF Done
    <2>4. PICK log : log = SubSeq(logs[u], 1, alone[u])
        OBVIOUS
    <2>5. EventsOf(log)' = EventsOf(log) /\ log = SubSeq(logs'[u], 1, alone'[u])
        BY <1>1, <1>3, <2>1, <2>4
    <2>6. EventsOf(SubSeq(logs[u], 1, alone[u]))' = EventsOf(log)
        BY <2>5
    <2>7. imports'[i].of = s
        BY <1>7
    <2> QED BY <1>1, <1>9, <2>1, <2>2, <2>3, <2>4, <2>6, <2>7
<1> QED BY <1>10, <1>11, <1>12, <1>13 DEF ImportInv

\* A request and what is left after it
LEMMA RequestIs ==
    ASSUME ImportAssumption, ImportTyped, NEW i \in Imports, imports[i] # Idle
    PROVE  /\ Request(i) \in Seq(Spans) /\ Later(i) \in Seq(Spans)
           /\ \A n : Has(imports[i].left, n) <=> Has(Request(i), n) \/ Has(Later(i), n)
           /\ \A n, r : EndsWith(imports[i].left, n, r) =>
                 IF Has(Later(i), n) THEN EndsWith(Later(i), n, r) ELSE EndsWith(Request(i), n, r)
<1>1. PICK s \in Seq(Spans) : s = imports[i].left
    BY OnItsWay
<1>2. PICK p \in Nat \ {0} : p = RowsPerRequest
    BY DEF ImportAssumption
<1>3. PICK m \in Nat : m = Len(s)
    BY <1>1
<1>4. Request(i) = SubSeq(s, 1, Min({p, m})) /\ Later(i) = SubSeq(s, p + 1, m)
    BY <1>1, <1>2, <1>3 DEF Request, Later
<1>5. CASE p <= m
    <2>1. Min({p, m}) = p
        BY <1>5 DEF Min
    <2>2. p \in 0 .. Len(s)
        BY <1>3, <1>5
    <2>3. /\ SubSeq(s, 1, p) \in Seq(Spans) /\ SubSeq(s, p + 1, Len(s)) \in Seq(Spans)
          /\ \A n : Has(s, n) <=> Has(SubSeq(s, 1, p), n) \/ Has(SubSeq(s, p + 1, Len(s)), n)
          /\ \A n, r : EndsWith(s, n, r) =>
                IF Has(SubSeq(s, p + 1, Len(s)), n) THEN EndsWith(SubSeq(s, p + 1, Len(s)), n, r)
                ELSE EndsWith(SubSeq(s, 1, p), n, r)
        BY <1>1, <2>2, SplitSend
    <2> QED BY <1>1, <1>3, <1>4, <2>1, <2>3
<1>6. CASE m < p
    <2>1. Min({p, m}) = m
        BY <1>6 DEF Min
    <2>2. m \in 0 .. Len(s)
        BY <1>3
    <2>3. SubSeq(s, p + 1, m) = SubSeq(s, m + 1, m)
        <3>1. SubSeq(s, p + 1, m) = <<>>
            BY <1>1, <1>3, <1>6
        <3>2. SubSeq(s, m + 1, m) = <<>>
            BY <1>1, <1>3
        <3> QED BY <3>1, <3>2
    <2>4. /\ SubSeq(s, 1, m) \in Seq(Spans) /\ SubSeq(s, m + 1, Len(s)) \in Seq(Spans)
          /\ \A n : Has(s, n) <=> Has(SubSeq(s, 1, m), n) \/ Has(SubSeq(s, m + 1, Len(s)), n)
          /\ \A n, r : EndsWith(s, n, r) =>
                IF Has(SubSeq(s, m + 1, Len(s)), n) THEN EndsWith(SubSeq(s, m + 1, Len(s)), n, r)
                ELSE EndsWith(SubSeq(s, 1, m), n, r)
        BY <1>1, <2>2, SplitSend
    <2> QED BY <1>1, <1>3, <1>4, <2>1, <2>3, <2>4
<1> QED BY <1>5, <1>6

\* Rows of its log that reach the collector: of one session only, and all of its log
LEMMA StoredOfTheLog ==
    ASSUME ImportTyped, OfTheLog, NEW s \in Threads, NEW q \in Seq(Spans),
           IdsOf(q) \subseteq IdsOf(EventsOf(logs[s])), rows' = [rows EXCEPT ![s] = Stored(rows[s], q)]
    PROVE  /\ rows' \in [Threads -> UNION {[D -> Spans] : D \in SUBSET Names}]
           /\ rows'[s] = Stored(rows[s], q)
           /\ \A u \in Threads : u # s => rows'[u] = rows[u]
           /\ \A u \in Threads : DOMAIN rows'[u] \subseteq IdsOf(EventsOf(logs[u]))
<1>1. rows \in [Threads -> UNION {[D -> Spans] : D \in SUBSET Names}]
    BY DEF ImportTyped
<1>2. PICK new : new = Stored(rows[s], q)
    OBVIOUS
<1>3. rows' = [rows EXCEPT ![s] = new]
    BY <1>2
<1>4. rows'[s] = new /\ \A u \in Threads : u # s => rows'[u] = rows[u]
    BY <1>1, <1>3
<1>5. /\ DOMAIN new = DOMAIN rows[s] \cup IdsOf(q) /\ new = [n \in DOMAIN new |-> new[n]]
      /\ \A n \in IdsOf(q) : EndsWith(q, n, new[n]) /\ new[n] \in Spans
      /\ \A n \in DOMAIN rows[s] : n \notin IdsOf(q) => new[n] = rows[s][n]
    <2>1. PICK old : old = rows[s]
        OBVIOUS
    <2> DEFINE x == Stored(old, q)
    <2>2. /\ DOMAIN x = DOMAIN old \cup IdsOf(q) /\ x = [n \in DOMAIN x |-> x[n]]
          /\ \A n \in IdsOf(q) : EndsWith(q, n, x[n]) /\ x[n] \in Spans
          /\ \A n \in DOMAIN old : n \notin IdsOf(q) => x[n] = old[n]
        BY StoredIs
    <2>3. x = new
        BY <1>2, <2>1
    <2> HIDE DEF x
    <2> QED BY <2>1, <2>2, <2>3
<1>6. PICK D \in SUBSET Names : rows[s] \in [D -> Spans]
    <2>1. rows[s] \in UNION {[D -> Spans] : D \in SUBSET Names}
        BY <1>1
    <2>2. PICK old : old = rows[s]
        OBVIOUS
    <2>3. \E D \in SUBSET Names : old \in [D -> Spans]
        BY <2>1, <2>2
    <2> QED BY <2>2, <2>3
<1>7. IdsOf(q) \subseteq Names
    BY <1>5, LastIsOne
<1>8. new \in [D \cup IdsOf(q) -> Spans]
    <2>1. \A n \in D \cup IdsOf(q) : new[n] \in Spans
        BY <1>5, <1>6
    <2> QED BY <1>5, <1>6, <2>1
<1>9. new \in UNION {[E -> Spans] : E \in SUBSET Names}
    BY <1>7, <1>8
<1>10. DOMAIN new \subseteq IdsOf(EventsOf(logs[s]))
    BY <1>5 DEF OfTheLog
<1>11. \A u \in Threads : DOMAIN rows'[u] \subseteq IdsOf(EventsOf(logs[u]))
    BY <1>4, <1>10 DEF OfTheLog
<1>12. rows' \in [Threads -> UNION {[E -> Spans] : E \in SUBSET Names}]
    BY <1>1, <1>3, <1>9
<1> QED BY <1>2, <1>4, <1>11, <1>12

\* A request of an import reaches the collector
LEMMA Arrived ==
    ASSUME ImportAssumption, ImportInv, NEW i \in Imports, imports[i] # Idle, Arrives(i)
    PROVE  /\ rows' \in [Threads -> UNION {[D -> Spans] : D \in SUBSET Names}]
           /\ rows'[imports[i].of] = Stored(rows[imports[i].of], Request(i))
           /\ \A u \in Threads : u # imports[i].of => rows'[u] = rows[u]
           /\ \A u \in Threads : DOMAIN rows'[u] \subseteq IdsOf(EventsOf(logs[u]))
<1>1. ImportTyped /\ OfTheLog
    BY DEF ImportInv
<1>a. imports[i].of \in Threads
    BY <1>1, OnItsWay
<1>2. PICK s \in Threads : s = imports[i].of
    BY <1>a
<1>3. PICK q : q = Request(i)
    OBVIOUS
<1>4. q \in Seq(Spans) /\ \A n : Has(q, n) => Has(imports[i].left, n)
    BY <1>1, <1>3, RequestIs
<1>5. IdsOf(q) \subseteq IdsOf(EventsOf(logs[s]))
    <2>1. IdsOf(imports[i].left) \subseteq IdsOf(EventsOf(logs[s]))
        BY <1>1, <1>2 DEF OfTheLog
    <2>2. \A n \in IdsOf(q) : n \in IdsOf(imports[i].left)
        BY <1>4, IdsOfHas
    <2> QED BY <2>1, <2>2
<1>6. rows' = [rows EXCEPT ![s] = Stored(rows[s], q)]
    BY <1>2, <1>3 DEF Arrives
<1>7. /\ rows' \in [Threads -> UNION {[D -> Spans] : D \in SUBSET Names}]
      /\ rows'[s] = Stored(rows[s], q)
      /\ \A u \in Threads : u # s => rows'[u] = rows[u]
      /\ \A u \in Threads : DOMAIN rows'[u] \subseteq IdsOf(EventsOf(logs[u]))
    BY <1>1, <1>4, <1>5, <1>6, StoredOfTheLog
<1> QED BY <1>2, <1>3, <1>7

\* What one import does, another that met none does not see, nor a session that is done
LEMMA OthersStay ==
    ASSUME ImportAssumption, ImportInv, NEW i \in Imports, NEW s \in Threads, imports[i].of = s,
           UNCHANGED <<agent, logs>>, imports'[i].of \in {0, s},
           \A j \in Imports : j # i => imports'[j] = imports[j],
           \A u \in Threads : u # s => rows'[u] = rows[u]
    PROVE  /\ \A j \in Imports : Read(j)' = EventsOf(SubSeq(logs[imports'[j].of], 1, imports'[j].read))
           /\ \A j \in Imports : j # i /\ imports[j].clean =>
                 /\ \A k \in Imports \ {j} : imports'[k].of # imports'[j].of
                 /\ DOMAIN rows'[imports'[j].of] \subseteq IdsOf(Read(j)')
                 /\ IdsOf(imports'[j].left) \subseteq IdsOf(Read(j)')
                 /\ \A m \in Names, x \in Spans : EndsWith(Read(j)', m, x) =>
                       IF Has(imports'[j].left, m) THEN EndsWith(imports'[j].left, m, x)
                       ELSE m \in DOMAIN rows'[imports'[j].of] /\ rows'[imports'[j].of][m] = x
           /\ \A u \in Threads : u # s /\ alone[u] # 0 =>
                 /\ \A j \in Imports : imports'[j].of # u
                 /\ rows'[u] = Stored(<<>>, EventsOf(SubSeq(logs[u], 1, alone[u])))
<1>0. ImportTyped /\ Clean /\ Done /\ 0 \notin Threads
    BY DEF ImportInv, ImportAssumption
<1>1. \A log : EventsOf(log)' = EventsOf(log)
    BY <1>0, EventsStay DEF ImportTyped
<1>2. ASSUME NEW j \in Imports
      PROVE  Read(j)' = EventsOf(SubSeq(logs[imports'[j].of], 1, imports'[j].read))
    <2>1. PICK log : log = SubSeq(logs[imports'[j].of], 1, imports'[j].read)
        OBVIOUS
    <2>2. EventsOf(log)' = EventsOf(log)
        BY <1>1
    <2> QED BY <2>1, <2>2 DEF Read
<1>3. ASSUME NEW j \in Imports, j # i, imports[j].clean
      PROVE  /\ \A k \in Imports \ {j} : imports'[k].of # imports'[j].of
             /\ DOMAIN rows'[imports'[j].of] \subseteq IdsOf(Read(j)')
             /\ IdsOf(imports'[j].left) \subseteq IdsOf(Read(j)')
             /\ \A m \in Names, x \in Spans : EndsWith(Read(j)', m, x) =>
                   IF Has(imports'[j].left, m) THEN EndsWith(imports'[j].left, m, x)
                   ELSE m \in DOMAIN rows'[imports'[j].of] /\ rows'[imports'[j].of][m] = x
    <2>1. imports'[j] = imports[j]
        BY <1>3
    <2>2. PICK u : u = imports[j].of
        OBVIOUS
    <2>3. u \in Threads
        BY <1>0, <1>3, <2>2, OnItsWay
    <2>4. u # s /\ \A k \in Imports \ {j} : imports[k].of # u
        BY <1>0, <1>3, <2>2 DEF Clean
    <2>5. Read(j)' = Read(j)
        BY <1>2, <2>1 DEF Read
    <2>6. rows'[u] = rows[u]
        BY <2>3, <2>4
    <2>7. \A k \in Imports \ {j} : imports'[k].of # u
        BY <1>0, <2>3, <2>4
    <2>8. /\ DOMAIN rows[u] \subseteq IdsOf(Read(j))
          /\ IdsOf(imports[j].left) \subseteq IdsOf(Read(j))
          /\ \A m \in Names, x \in Spans : EndsWith(Read(j), m, x) =>
                IF Has(imports[j].left, m) THEN EndsWith(imports[j].left, m, x)
                ELSE m \in DOMAIN rows[u] /\ rows[u][m] = x
        BY <1>0, <1>3, <2>2 DEF Clean
    <2> QED BY <2>1, <2>2, <2>5, <2>6, <2>7, <2>8
<1>4. ASSUME NEW u \in Threads, u # s, alone[u] # 0
      PROVE  /\ \A j \in Imports : imports'[j].of # u
             /\ rows'[u] = Stored(<<>>, EventsOf(SubSeq(logs[u], 1, alone[u])))
    <2>1. (\A j \in Imports : imports[j].of # u) /\ rows[u] = Stored(<<>>, EventsOf(SubSeq(logs[u], 1, alone[u])))
        BY <1>0, <1>4 DEF Done
    <2> QED BY <1>0, <1>4, <2>1
<1> QED BY <1>2, <1>3, <1>4

\* What is done stays so as long as its log and its history do
LEMMA DonePrime ==
    ASSUME ImportTyped, UNCHANGED <<agent, logs>>,
           \A u \in Threads : alone'[u] # 0 =>
              /\ \A j \in Imports : imports'[j].of # u
              /\ rows'[u] = Stored(<<>>, EventsOf(SubSeq(logs[u], 1, alone'[u])))
    PROVE  Done'
<1> SUFFICES ASSUME NEW u \in Threads, alone'[u] # 0
             PROVE  /\ \A j \in Imports : imports'[j].of # u
                    /\ rows'[u] = Stored(<<>>, EventsOf(SubSeq(logs[u], 1, alone[u]))')
    BY DEF Done
<1>1. PICK log : log = SubSeq(logs[u], 1, alone'[u])
    OBVIOUS
<1>2. EventsOf(log)' = EventsOf(log)
    BY EventsStay DEF ImportTyped
<1>3. EventsOf(SubSeq(logs[u], 1, alone[u]))' = EventsOf(log)
    BY <1>1, <1>2
<1> QED BY <1>1, <1>3

\* A failed import leaves: what arrived is of the log
LEMMA FailKeeps ==
    ASSUME ImportAssumption, ImportInv, NEW i \in Imports, PostFails(i)
    PROVE  ImportInv'
<1>0. ImportTyped /\ OfTheLog /\ Clean /\ Done
    BY DEF ImportInv
<1>1. /\ imports[i] # Idle /\ (Arrives(i) \/ UNCHANGED rows)
      /\ adrift' \subseteq adrift \cup {[of |-> imports[i].of, left |-> Request(i)]}
      /\ imports' = [imports EXCEPT ![i] = Idle] /\ UNCHANGED <<agent, logs, newest, alone>>
    BY DEF PostFails
<1>2. /\ agent \in {"codex", "claude"} /\ logs \in [Threads -> Seq(Lines)] /\ alone \in [Threads -> Nat]
      /\ imports \in [Imports -> Import \cup {Idle}] /\ newest \in Threads \cup {0}
    BY <1>0 DEF ImportTyped
<1>3. Lines' = Lines /\ \A log : EventsOf(log)' = EventsOf(log)
    BY <1>1, <1>2, EventsStay
<1>a. imports[i].of \in Threads
    BY <1>0, <1>1, OnItsWay
<1>4. PICK s \in Threads : s = imports[i].of
    BY <1>a
<1>5. /\ rows' \in [Threads -> UNION {[D -> Spans] : D \in SUBSET Names}]
      /\ \A u \in Threads : u # s => rows'[u] = rows[u]
      /\ \A u \in Threads : DOMAIN rows'[u] \subseteq IdsOf(EventsOf(logs[u]))
    <2>1. CASE Arrives(i)
        <3>1. /\ rows' \in [Threads -> UNION {[D -> Spans] : D \in SUBSET Names}]
              /\ \A u \in Threads : u # imports[i].of => rows'[u] = rows[u]
              /\ \A u \in Threads : DOMAIN rows'[u] \subseteq IdsOf(EventsOf(logs[u]))
            BY <1>1, <2>1, Arrived
        <3> QED BY <1>4, <3>1
    <2>2. CASE UNCHANGED rows
        BY <1>0, <2>2 DEF ImportTyped, OfTheLog
    <2> QED BY <1>1, <2>1, <2>2
<1>6. imports'[i] = Idle /\ \A j \in Imports : j # i => imports'[j] = imports[j]
    BY <1>1, <1>2
<1>7. Idle.of = 0 /\ Idle.clean = FALSE /\ 0 \notin Threads
    BY DEF Idle, ImportAssumption
\* what is still on its way, if that request is now, is of the log
<1>c. /\ adrift' \subseteq [of : Threads, left : Seq(Spans)]
      /\ \A q \in adrift' : IdsOf(q.left) \subseteq IdsOf(EventsOf(logs[q.of]))
    <2>1. PICK q : q = Request(i)
        OBVIOUS
    <2>2. q \in Seq(Spans) /\ \A n : Has(q, n) => Has(imports[i].left, n)
        BY <1>0, <1>1, <2>1, RequestIs
    <2>3. IdsOf(q) \subseteq IdsOf(EventsOf(logs[s]))
        <3>1. IdsOf(imports[i].left) \subseteq IdsOf(EventsOf(logs[s]))
            BY <1>0, <1>1, <1>4 DEF OfTheLog
        <3>2. \A n \in IdsOf(q) : n \in IdsOf(imports[i].left)
            BY <2>2, IdsOfHas
        <3> QED BY <3>1, <3>2
    <2>4. PICK x : x = [of |-> s, left |-> q]
        OBVIOUS
    <2>5. x \in [of : Threads, left : Seq(Spans)] /\ x.of = s /\ x.left = q
        BY <2>2, <2>4
    <2>6. adrift' \subseteq adrift \cup {x}
        BY <1>1, <1>4, <2>1, <2>4
    <2>7. adrift \subseteq [of : Threads, left : Seq(Spans)]
        BY <1>0 DEF ImportTyped
    <2>8. \A y \in adrift : IdsOf(y.left) \subseteq IdsOf(EventsOf(logs[y.of]))
        BY <1>0 DEF OfTheLog
    <2>9. \A y \in adrift' : y \in adrift \/ y = x
        BY <2>6
    <2>10. \A y \in adrift' : IdsOf(y.left) \subseteq IdsOf(EventsOf(logs[y.of]))
        BY <2>3, <2>5, <2>8, <2>9
    <2> QED BY <2>5, <2>6, <2>7, <2>10
<1>8. ImportTyped'
    <2>1. imports' \in [Imports -> Import \cup {Idle}]
        BY <1>1, <1>2
    <2>2. \A j \in Imports : imports'[j] # Idle =>
             imports'[j].told = imports'[j].of /\ imports'[j].read \in 1 .. Len(logs[imports'[j].of])
        BY <1>0, <1>6 DEF ImportTyped
    <2>3. \A u \in Threads : alone[u] <= Len(logs[u])
        BY <1>0 DEF ImportTyped
    <2> QED BY <1>1, <1>2, <1>3, <1>5, <1>c, <2>1, <2>2, <2>3 DEF ImportTyped
<1>9. OfTheLog'
    <2>1. \A j \in Imports : imports'[j] # Idle => IdsOf(imports'[j].left) \subseteq IdsOf(EventsOf(logs[imports'[j].of]))
        BY <1>0, <1>6 DEF OfTheLog
    <2> QED BY <1>1, <1>3, <1>5, <1>c, <2>1 DEF OfTheLog
<1>b. imports'[i].of \in {0, s} /\ imports'[i].clean = FALSE
    BY <1>6, <1>7
<1>10. Clean'
    BY <1>1, <1>4, <1>5, <1>6, <1>b, OthersStay DEF Clean
<1>11. Done'
    <2>1. \A u \in Threads : alone[u] # 0 => u # s
        BY <1>0, <1>4 DEF Done
    <2>2. \A u \in Threads : alone[u] # 0 =>
             /\ \A j \in Imports : imports'[j].of # u
             /\ rows'[u] = Stored(<<>>, EventsOf(SubSeq(logs[u], 1, alone[u])))
        BY <1>1, <1>4, <1>5, <1>6, <1>b, <2>1, OthersStay
    <2> QED BY <1>0, <1>1, <2>2, DonePrime
<1> QED BY <1>8, <1>9, <1>10, <1>11 DEF ImportInv

\* A clean import's request: what it read is at the collector, but for what it still posts
LEMMA CleanPosts ==
    ASSUME ImportAssumption, ImportInv, NEW i \in Imports, imports[i].clean, Arrives(i)
    PROVE  LET new == rows'[imports[i].of]
           IN  /\ new = [n \in DOMAIN new |-> new[n]]
               /\ DOMAIN new \subseteq IdsOf(Read(i))
               /\ IdsOf(Later(i)) \subseteq IdsOf(Read(i))
               /\ \A n \in Names, x \in Spans : EndsWith(Read(i), n, x) =>
                     IF Has(Later(i), n) THEN EndsWith(Later(i), n, x) ELSE n \in DOMAIN new /\ new[n] = x
<1>1. ImportTyped /\ Clean
    BY DEF ImportInv
<1>2. imports[i] # Idle
    BY <1>1, OnItsWay
<1>a. imports[i].of \in Threads
    BY <1>1, <1>2, OnItsWay
<1>3. PICK s \in Threads : s = imports[i].of
    BY <1>a
<1>4. PICK old, left, later, q, e : /\ old = rows[s] /\ left = imports[i].left /\ later = Later(i)
                                    /\ q = Request(i) /\ e = Read(i)
    OBVIOUS
<1>5. /\ q \in Seq(Spans) /\ later \in Seq(Spans)
      /\ \A n : Has(left, n) <=> Has(q, n) \/ Has(later, n)
      /\ \A n, r : EndsWith(left, n, r) =>
            IF Has(later, n) THEN EndsWith(later, n, r) ELSE EndsWith(q, n, r)
    BY <1>1, <1>2, <1>4, RequestIs
<1>b. q \in Seq(Spans)
    BY <1>5
<1> DEFINE new == Stored(old, q)
<1>6. /\ DOMAIN new = DOMAIN old \cup IdsOf(q) /\ new = [n \in DOMAIN new |-> new[n]]
      /\ \A n \in IdsOf(q) : EndsWith(q, n, new[n]) /\ new[n] \in Spans
      /\ \A n \in DOMAIN old : n \notin IdsOf(q) => new[n] = old[n]
    BY <1>b, StoredIs
<1>7. rows'[s] = new
    BY <1>2, <1>3, <1>4, Arrived
<1> HIDE DEF new
<1>8. /\ DOMAIN old \subseteq IdsOf(e) /\ IdsOf(left) \subseteq IdsOf(e)
      /\ \A n \in Names, x \in Spans : EndsWith(e, n, x) =>
            IF Has(left, n) THEN EndsWith(left, n, x) ELSE n \in DOMAIN old /\ old[n] = x
    BY <1>1, <1>3, <1>4 DEF Clean
<1>9. IdsOf(q) \subseteq IdsOf(e) /\ IdsOf(later) \subseteq IdsOf(e)
    BY <1>5, <1>8, IdsOfHas
<1>10. ASSUME NEW n \in Names, NEW x \in Spans, EndsWith(e, n, x)
       PROVE  IF Has(later, n) THEN EndsWith(later, n, x) ELSE n \in DOMAIN new /\ new[n] = x
    <2>1. CASE Has(left, n) /\ Has(later, n)
        BY <1>5, <1>8, <1>10, <2>1
    <2>2. CASE Has(left, n) /\ ~Has(later, n)
        <3>1. EndsWith(q, n, x)
            BY <1>5, <1>8, <1>10, <2>2
        <3>2. n \in IdsOf(q)
            BY <1>5, <2>2, IdsOfHas
        <3>3. EndsWith(q, n, new[n])
            BY <1>6, <3>2
        <3>4. x = new[n]
            BY <1>b, <3>1, <3>3, LastIsOne
        <3> QED BY <1>6, <2>2, <3>2, <3>4
    <2>3. CASE ~Has(left, n)
        <3>1. n \in DOMAIN old /\ old[n] = x
            BY <1>8, <1>10, <2>3
        <3>2. ~Has(q, n) /\ ~Has(later, n)
            BY <1>5, <2>3
        <3>3. n \notin IdsOf(q)
            BY <3>2, IdsOfHas
        <3> QED BY <1>6, <3>1, <3>2, <3>3
    <2> QED BY <2>1, <2>2, <2>3
<1>11. DOMAIN new \subseteq IdsOf(e)
    BY <1>6, <1>8, <1>9
<1> QED BY <1>3, <1>4, <1>6, <1>7, <1>9, <1>10, <1>11

\* After its last one the collector has the rows of the log it read
LEMMA CleanIsDone ==
    ASSUME ImportAssumption, ImportInv, NEW i \in Imports, imports[i].clean, Arrives(i), Later(i) = <<>>
    PROVE  rows'[imports[i].of] = Stored(<<>>, Read(i))
<1>1. ImportTyped
    BY DEF ImportInv
<1>2. imports[i] # Idle
    BY <1>1, OnItsWay
<1>3. Read(i) \in Seq(Spans)
    BY <1>1, <1>2, OnItsWay
<1>4. PICK e \in Seq(Spans) : e = Read(i)
    BY <1>3
<1>5. PICK new : new = rows'[imports[i].of]
    OBVIOUS
<1>6. \A n : ~Has(Later(i), n)
    BY DEF Has
<1>7. /\ new = [n \in DOMAIN new |-> new[n]] /\ DOMAIN new \subseteq IdsOf(e)
      /\ \A n \in Names, x \in Spans : EndsWith(e, n, x) => n \in DOMAIN new /\ new[n] = x
    BY <1>4, <1>5, <1>6, CleanPosts
<1> DEFINE y == Stored(<<>>, e)
<1>8. \A n \in IdsOf(e) : EndsWith(e, n, y[n]) /\ y[n] \in Spans
    BY StoredIs
<1> HIDE DEF y
<1>9. \A n \in IdsOf(e) : n \in DOMAIN new /\ EndsWith(e, n, new[n])
    <2> SUFFICES ASSUME NEW n \in IdsOf(e) PROVE n \in DOMAIN new /\ EndsWith(e, n, new[n])
        OBVIOUS
    <2>1. EndsWith(e, n, y[n]) /\ y[n] \in Spans
        BY <1>8
    <2>2. n \in Names
        BY <2>1, LastIsOne
    <2> QED BY <1>7, <2>1, <2>2
<1>10. new = [n \in DOMAIN new |-> new[n]] /\ DOMAIN new = IdsOf(e)
    BY <1>7, <1>9
<1>11. new = Stored(<<>>, e)
    BY <1>9, <1>10, StoredAlone
<1> QED BY <1>4, <1>5, <1>11

\* A request is answered; the last one ends the import
LEMMA PostKeeps ==
    ASSUME ImportAssumption, ImportInv, NEW i \in Imports, postEvents(i)
    PROVE  ImportInv'
<1>0. ImportTyped /\ OfTheLog /\ Clean /\ Done
    BY DEF ImportInv
<1>1. imports[i] # Idle /\ Arrives(i) /\ UNCHANGED <<agent, logs, newest, adrift>>
    BY DEF postEvents
<1>2. /\ agent \in {"codex", "claude"} /\ logs \in [Threads -> Seq(Lines)] /\ alone \in [Threads -> Nat]
      /\ imports \in [Imports -> Import \cup {Idle}] /\ newest \in Threads \cup {0}
    BY <1>0 DEF ImportTyped
<1>3. Lines' = Lines /\ \A log : EventsOf(log)' = EventsOf(log)
    BY <1>1, <1>2, EventsStay
<1>a. imports[i] \in Import /\ imports[i].of \in Threads /\ imports[i].told = imports[i].of
      /\ imports[i].read \in 1 .. Len(logs[imports[i].of])
    BY <1>0, <1>1, OnItsWay
<1>4. PICK s \in Threads : s = imports[i].of
    BY <1>a
<1>5. PICK n, cl : n = imports[i].read /\ cl = imports[i].clean
    OBVIOUS
<1>6. n \in 1 .. Len(logs[s]) /\ Len(logs[s]) \in Nat /\ Read(i) = EventsOf(SubSeq(logs[s], 1, n))
    BY <1>2, <1>4, <1>5, <1>a DEF Read
<1>b. /\ rows' \in [Threads -> UNION {[D -> Spans] : D \in SUBSET Names}]
      /\ \A u \in Threads : u # imports[i].of => rows'[u] = rows[u]
      /\ \A u \in Threads : DOMAIN rows'[u] \subseteq IdsOf(EventsOf(logs[u]))
    BY <1>1, Arrived
<1>7. /\ rows' \in [Threads -> UNION {[D -> Spans] : D \in SUBSET Names}]
      /\ \A u \in Threads : u # s => rows'[u] = rows[u]
      /\ \A u \in Threads : DOMAIN rows'[u] \subseteq IdsOf(EventsOf(logs[u]))
    BY <1>4, <1>b
<1>8. Idle.of = 0 /\ Idle.clean = FALSE /\ 0 \notin Threads
    BY DEF Idle, ImportAssumption
<1>9. PICK q : q = Later(i)
    OBVIOUS
<1>10. q \in Seq(Spans) /\ \A m : Has(q, m) => Has(imports[i].left, m)
    BY <1>0, <1>1, <1>9, RequestIs
\* the processes after it
<1>11. /\ \A j \in Imports : j # i => imports'[j] = imports[j]
       /\ DOMAIN imports' = Imports /\ imports' = [j \in Imports |-> imports'[j]]
       /\ \/ q = <<>> /\ imports'[i] = Idle /\ alone' = [alone EXCEPT ![s] = IF cl THEN n ELSE 0]
          \/ q # <<>> /\ imports'[i] = [imports[i] EXCEPT !.left = q] /\ alone' = alone
    <2>1. CASE q = <<>>
        <3>1. imports' = [imports EXCEPT ![i] = Idle]
            BY <1>9, <2>1 DEF postEvents
        <3>2. alone' = [alone EXCEPT ![s] = IF cl THEN n ELSE 0]
            BY <1>4, <1>5, <1>9, <1>a, <2>1 DEF postEvents
        <3> QED BY <1>2, <2>1, <3>1, <3>2
    <2>2. CASE q # <<>>
        <3>1. imports' = [imports EXCEPT ![i].left = q] /\ alone' = alone
            BY <1>9, <2>2 DEF postEvents
        <3>2. imports' = [imports EXCEPT ![i] = [imports[i] EXCEPT !.left = q]]
            BY <3>1
        <3>3. PICK x : x = [imports[i] EXCEPT !.left = q]
            OBVIOUS
        <3>4. imports' = [imports EXCEPT ![i] = x]
            BY <3>2, <3>3
        <3>5. imports'[i] = x /\ (\A j \in Imports : j # i => imports'[j] = imports[j])
              /\ DOMAIN imports' = Imports /\ imports' = [j \in Imports |-> imports'[j]]
            BY <1>2, <3>4
        <3> QED BY <2>2, <3>1, <3>3, <3>5
    <2> QED BY <2>1, <2>2
\* the one that goes on
<1>12. q # <<>> => /\ imports'[i] \in Import /\ imports'[i].of = s /\ imports'[i].told = s /\ imports'[i].read = n
                   /\ imports'[i].left = q /\ imports'[i].clean = cl
    <2>1. PICK o, t, r, l, d : /\ imports[i] = [of |-> o, told |-> t, read |-> r, left |-> l, clean |-> d]
                               /\ o \in Threads /\ t \in Threads /\ r \in Nat /\ l \in Seq(Spans) /\ d \in BOOLEAN
        BY <1>a DEF Import
    <2>2. o = s /\ t = s /\ r = n
        BY <1>4, <1>5, <1>a, <2>1
    <2>3. d = cl
        BY <1>5, <2>1
    <2>4. ASSUME q # <<>>
          PROVE  imports'[i] = [of |-> o, told |-> t, read |-> r, left |-> q, clean |-> d]
        BY <1>11, <2>1, <2>4
    <2>5. q # <<>> => imports'[i] \in Import
        BY <1>10, <2>1, <2>4 DEF Import
    <2> QED BY <2>2, <2>3, <2>4, <2>5
<1>13. ImportTyped'
    <2>1. imports' \in [Imports -> Import \cup {Idle}]
        <3>1. \A j \in Imports : imports'[j] \in Import \cup {Idle}
            BY <1>2, <1>11, <1>12
        <3> QED BY <1>11, <3>1
    <2>2. \A j \in Imports : imports'[j] # Idle =>
             imports'[j].told = imports'[j].of /\ imports'[j].read \in 1 .. Len(logs[imports'[j].of])
        <3> SUFFICES ASSUME NEW j \in Imports, imports'[j] # Idle
                     PROVE  imports'[j].told = imports'[j].of /\ imports'[j].read \in 1 .. Len(logs[imports'[j].of])
            OBVIOUS
        <3>1. CASE j # i
            <4>1. imports'[j] = imports[j] /\ imports[j] # Idle
                BY <1>11, <3>1
            <4> QED BY <1>0, <4>1 DEF ImportTyped
        <3>2. CASE j = i
            <4>1. q # <<>>
                BY <1>11, <3>2
            <4>2. imports'[j].told = s /\ imports'[j].of = s /\ imports'[j].read = n
                BY <1>12, <3>2, <4>1
            <4> QED BY <1>6, <4>2
        <3> QED BY <3>1, <3>2
    <2>3. alone' \in [Threads -> Nat] /\ \A u \in Threads : alone'[u] <= Len(logs[u])
        <3>1. alone \in [Threads -> Nat] /\ \A u \in Threads : alone[u] <= Len(logs[u])
            BY <1>0 DEF ImportTyped
        <3>2. PICK m : m = (IF cl THEN n ELSE 0)
            OBVIOUS
        <3>3. m \in Nat /\ m <= Len(logs[s])
            BY <1>6, <3>2
        <3>4. CASE alone' = alone
            BY <3>1, <3>4
        <3>5. CASE alone' = [alone EXCEPT ![s] = m]
            <4>1. alone'[s] = m /\ \A u \in Threads : u # s => alone'[u] = alone[u]
                BY <3>1, <3>5
            <4>2. alone' \in [Threads -> Nat]
                BY <3>1, <3>3, <3>5
            <4> QED BY <3>1, <3>3, <4>1, <4>2
        <3> QED BY <1>11, <3>2, <3>4, <3>5
    <2>4. adrift \subseteq [of : Threads, left : Seq(Spans)]
        BY <1>0 DEF ImportTyped
    <2> QED BY <1>1, <1>2, <1>3, <1>7, <2>1, <2>2, <2>3, <2>4 DEF ImportTyped
<1>14. OfTheLog'
    <2>1. \A j \in Imports : imports'[j] # Idle => IdsOf(imports'[j].left) \subseteq IdsOf(EventsOf(logs[imports'[j].of]))
        <3> SUFFICES ASSUME NEW j \in Imports, imports'[j] # Idle
                     PROVE  IdsOf(imports'[j].left) \subseteq IdsOf(EventsOf(logs[imports'[j].of]))
            OBVIOUS
        <3>1. CASE j # i
            BY <1>0, <1>11, <3>1 DEF OfTheLog
        <3>2. CASE j = i
            <4>1. imports'[j].left = q /\ imports'[j].of = s
                BY <1>11, <1>12, <3>2
            <4>2. IdsOf(q) \subseteq IdsOf(imports[i].left)
                BY <1>10, IdsOfHas
            <4>3. IdsOf(imports[i].left) \subseteq IdsOf(EventsOf(logs[s]))
                BY <1>0, <1>1, <1>4 DEF OfTheLog
            <4> QED BY <4>1, <4>2, <4>3
        <3> QED BY <3>1, <3>2
    <2>2. \A y \in adrift : IdsOf(y.left) \subseteq IdsOf(EventsOf(logs[y.of]))
        BY <1>0 DEF OfTheLog
    <2> QED BY <1>1, <1>3, <1>7, <2>1, <2>2 DEF OfTheLog
<1>15. imports[i].of = s /\ imports'[i].of \in {0, s}
    BY <1>4, <1>8, <1>11, <1>12
<1>16. cl => \A j \in Imports \ {i} : imports'[j].of # s
    <2>1. imports[i].clean => \A j \in Imports \ {i} : imports[j].of # imports[i].of
        BY <1>0 DEF Clean
    <2>2. \A j \in Imports \ {i} : imports'[j] = imports[j]
        BY <1>11
    <2> QED BY <1>4, <1>5, <2>1, <2>2
<1>17. Clean'
    <2> SUFFICES ASSUME NEW j \in Imports, imports'[j].clean
                 PROVE  /\ \A k \in Imports \ {j} : imports'[k].of # imports'[j].of
                        /\ DOMAIN rows'[imports'[j].of] \subseteq IdsOf(Read(j)')
                        /\ IdsOf(imports'[j].left) \subseteq IdsOf(Read(j)')
                        /\ \A m \in Names, x \in Spans : EndsWith(Read(j)', m, x) =>
                              IF Has(imports'[j].left, m) THEN EndsWith(imports'[j].left, m, x)
                              ELSE m \in DOMAIN rows'[imports'[j].of] /\ rows'[imports'[j].of][m] = x
        BY DEF Clean
    <2>1. CASE j # i
        <3>1. imports[j].clean
            BY <1>11, <2>1
        <3> QED BY <1>1, <1>7, <1>11, <1>15, <2>1, <3>1, OthersStay
    <2>2. CASE j = i
        <3>1. q # <<>>
            BY <1>8, <1>11, <2>2
        <3>2. imports'[j].of = s /\ imports'[j].read = n /\ imports'[j].left = q
            BY <1>12, <2>2, <3>1
        <3>3. imports'[j].clean = cl
            BY <1>12, <2>2, <3>1
        <3>4. cl = TRUE
            <4>1. cl \in BOOLEAN
                BY <1>5, <1>a DEF Import
            <4> QED BY <3>3, <4>1, Zenon
        <3>5. Read(j)' = Read(i)
            <4>1. Read(j)' = EventsOf(SubSeq(logs[imports'[j].of], 1, imports'[j].read))
                BY <1>1, <1>7, <1>11, <1>15, OthersStay
            <4> QED BY <1>6, <3>2, <4>1
        <3>6. imports[i].clean
            BY <1>5, <3>4
        <3>7. /\ DOMAIN rows'[s] \subseteq IdsOf(Read(i)) /\ IdsOf(q) \subseteq IdsOf(Read(i))
              /\ \A m \in Names, x \in Spans : EndsWith(Read(i), m, x) =>
                    IF Has(q, m) THEN EndsWith(q, m, x) ELSE m \in DOMAIN rows'[s] /\ rows'[s][m] = x
            BY <1>1, <1>4, <1>9, <3>6, CleanPosts
        <3> QED BY <1>16, <2>2, <3>2, <3>4, <3>5, <3>7
    <2> QED BY <2>1, <2>2
<1>18. Done'
    <2>1. ASSUME NEW u \in Threads, alone'[u] # 0
          PROVE  /\ \A j \in Imports : imports'[j].of # u
                 /\ rows'[u] = Stored(<<>>, EventsOf(SubSeq(logs[u], 1, alone'[u])))
        <3>1. CASE u # s
            <4>1. alone'[u] = alone[u]
                BY <1>2, <1>11, <3>1
            <4>2. /\ \A j \in Imports : imports'[j].of # u
                  /\ rows'[u] = Stored(<<>>, EventsOf(SubSeq(logs[u], 1, alone[u])))
                BY <1>1, <1>7, <1>11, <1>15, <2>1, <3>1, <4>1, OthersStay
            <4> QED BY <4>1, <4>2
        <3>2. CASE u = s
            <4>1. alone[s] = 0
                BY <1>0, <1>4 DEF Done
            <4>2. q = <<>> /\ imports'[i] = Idle /\ alone'[s] = IF cl THEN n ELSE 0
                BY <1>2, <1>11, <2>1, <3>2, <4>1
            <4>3. cl /\ alone'[s] = n
                BY <2>1, <3>2, <4>2
            <4>4. rows'[s] = Stored(<<>>, Read(i))
                BY <1>1, <1>4, <1>5, <1>9, <4>2, <4>3, CleanIsDone
            <4>5. \A j \in Imports : imports'[j].of # s
                BY <1>8, <1>16, <4>2, <4>3
            <4> QED BY <1>6, <3>2, <4>3, <4>4, <4>5
        <3> QED BY <3>1, <3>2
    <2> QED BY <1>0, <1>1, <2>1, DonePrime
<1> QED BY <1>13, <1>14, <1>17, <1>18 DEF ImportInv

\* A late request of an import that is gone: its rows are of the log, and nothing that
\* is at the collector or on its way counts as clean any more
LEMMA AdriftKeeps ==
    ASSUME ImportAssumption, ImportInv, NEW q \in adrift, ArrivesAdrift(q)
    PROVE  ImportInv'
<1>0. ImportTyped /\ OfTheLog /\ Clean /\ Done
    BY DEF ImportInv
<1>a. q.of \in Threads /\ q.left \in Seq(Spans)
    BY <1>0 DEF ImportTyped
<1>1. PICK s \in Threads : s = q.of
    BY <1>a
<1>2. PICK l \in Seq(Spans) : l = q.left
    BY <1>a
<1>3. /\ adrift' \subseteq adrift /\ rows' = [rows EXCEPT ![s] = Stored(rows[s], l)]
      /\ imports' = [j \in Imports |-> Met(s, j)] /\ alone' = [alone EXCEPT ![s] = 0]
      /\ UNCHANGED <<agent, logs, newest>>
    BY <1>1, <1>2 DEF ArrivesAdrift
<1>4. /\ agent \in {"codex", "claude"} /\ logs \in [Threads -> Seq(Lines)] /\ alone \in [Threads -> Nat]
      /\ imports \in [Imports -> Import \cup {Idle}] /\ newest \in Threads \cup {0}
      /\ rows \in [Threads -> UNION {[D -> Spans] : D \in SUBSET Names}]
      /\ adrift \subseteq [of : Threads, left : Seq(Spans)]
    BY <1>0 DEF ImportTyped
<1>5. Lines' = Lines /\ \A log : EventsOf(log)' = EventsOf(log)
    BY <1>3, <1>4, EventsStay
<1>6. IdsOf(l) \subseteq IdsOf(EventsOf(logs[s]))
    BY <1>0, <1>1, <1>2 DEF OfTheLog
<1>7. /\ rows' \in [Threads -> UNION {[D -> Spans] : D \in SUBSET Names}]
      /\ \A u \in Threads : u # s => rows'[u] = rows[u]
      /\ \A u \in Threads : DOMAIN rows'[u] \subseteq IdsOf(EventsOf(logs[u]))
    BY <1>0, <1>3, <1>6, StoredOfTheLog
\* the processes: only their cleanness changes
<1>8. ASSUME NEW j \in Imports
      PROVE  /\ imports[j] = Idle => imports'[j] = Idle
             /\ imports[j] # Idle => imports'[j] \in Import /\ imports'[j] # Idle
             /\ imports'[j].of = imports[j].of /\ imports'[j].told = imports[j].told
             /\ imports'[j].read = imports[j].read /\ imports'[j].left = imports[j].left
             /\ imports'[j].clean => imports[j].clean /\ imports[j].of # s
    <2>1. PICK x : x = imports'[j]
        OBVIOUS
    <2>2. x = Met(s, j)
        BY <1>3, <2>1
    <2>3. MetOf(s, j, x)
        BY <1>0, <2>2, MetIs
    <2> QED BY <2>1, <2>3 DEF MetOf
<1>9. ImportTyped'
    <2>1. imports' \in [Imports -> Import \cup {Idle}]
        <3>1. \A j \in Imports : imports'[j] \in Import \cup {Idle}
            BY <1>8
        <3>2. DOMAIN imports' = Imports /\ imports' = [j \in Imports |-> imports'[j]]
            BY <1>3
        <3> QED BY <3>1, <3>2
    <2>2. \A j \in Imports : imports'[j] # Idle =>
             imports'[j].told = imports'[j].of /\ imports'[j].read \in 1 .. Len(logs[imports'[j].of])
        <3> SUFFICES ASSUME NEW j \in Imports, imports'[j] # Idle
                     PROVE  imports'[j].told = imports'[j].of /\ imports'[j].read \in 1 .. Len(logs[imports'[j].of])
            OBVIOUS
        <3>1. imports[j] # Idle
            BY <1>8
        <3>2. imports[j].told = imports[j].of /\ imports[j].read \in 1 .. Len(logs[imports[j].of])
            BY <1>0, <3>1 DEF ImportTyped
        <3>3. imports'[j].of = imports[j].of /\ imports'[j].told = imports[j].told /\ imports'[j].read = imports[j].read
            BY <1>8
        <3> QED BY <3>2, <3>3
    <2>3. alone' \in [Threads -> Nat] /\ \A u \in Threads : alone'[u] <= Len(logs[u])
        <3>1. \A u \in Threads : Len(logs[u]) \in Nat
            BY <1>4
        <3>2. \A u \in Threads : alone'[u] = 0 \/ alone'[u] = alone[u]
            BY <1>3, <1>4
        <3>3. alone' \in [Threads -> Nat]
            BY <1>3, <1>4
        <3>4. \A u \in Threads : alone[u] <= Len(logs[u])
            BY <1>0 DEF ImportTyped
        <3> QED BY <3>1, <3>2, <3>3, <3>4
    <2>4. adrift' \subseteq [of : Threads, left : Seq(Spans)]
        BY <1>3, <1>4
    <2> QED BY <1>3, <1>4, <1>5, <1>7, <2>1, <2>2, <2>3, <2>4 DEF ImportTyped
<1>10. OfTheLog'
    <2>1. \A j \in Imports : imports'[j] # Idle => IdsOf(imports'[j].left) \subseteq IdsOf(EventsOf(logs[imports'[j].of]))
        BY <1>0, <1>8 DEF OfTheLog
    <2>2. \A y \in adrift' : IdsOf(y.left) \subseteq IdsOf(EventsOf(logs[y.of]))
        BY <1>0, <1>3 DEF OfTheLog
    <2> QED BY <1>3, <1>5, <1>7, <2>1, <2>2 DEF OfTheLog
<1>11. Clean'
    <2> SUFFICES ASSUME NEW j \in Imports, imports'[j].clean
                 PROVE  /\ \A k \in Imports \ {j} : imports'[k].of # imports'[j].of
                        /\ DOMAIN rows'[imports'[j].of] \subseteq IdsOf(Read(j)')
                        /\ IdsOf(imports'[j].left) \subseteq IdsOf(Read(j)')
                        /\ \A m \in Names, x \in Spans : EndsWith(Read(j)', m, x) =>
                              IF Has(imports'[j].left, m) THEN EndsWith(imports'[j].left, m, x)
                              ELSE m \in DOMAIN rows'[imports'[j].of] /\ rows'[imports'[j].of][m] = x
        BY DEF Clean
    <2>1. imports[j].clean /\ imports[j].of # s
        BY <1>8
    <2>a. imports[j].of \in Threads
        BY <1>0, <2>1, OnItsWay
    <2>2. PICK u \in Threads : u = imports[j].of
        BY <2>a
    <2>3. imports'[j].of = u /\ imports'[j].left = imports[j].left /\ imports'[j].read = imports[j].read
        BY <1>8, <2>2
    <2>4. Read(j)' = Read(j)
        <3>1. PICK log : log = SubSeq(logs[u], 1, imports[j].read)
            OBVIOUS
        <3>2. EventsOf(log)' = EventsOf(log)
            BY <1>5
        <3> QED BY <1>3, <2>2, <2>3, <3>1, <3>2 DEF Read
    <2>5. rows'[u] = rows[u]
        BY <1>7, <2>1, <2>2
    <2>6. \A k \in Imports \ {j} : imports'[k].of # u
        <3>1. \A k \in Imports \ {j} : imports[k].of # u
            BY <1>0, <2>1, <2>2 DEF Clean
        <3> QED BY <1>8, <3>1
    <2>7. /\ DOMAIN rows[u] \subseteq IdsOf(Read(j))
          /\ IdsOf(imports[j].left) \subseteq IdsOf(Read(j))
          /\ \A m \in Names, x \in Spans : EndsWith(Read(j), m, x) =>
                IF Has(imports[j].left, m) THEN EndsWith(imports[j].left, m, x)
                ELSE m \in DOMAIN rows[u] /\ rows[u][m] = x
        BY <1>0, <2>1, <2>2 DEF Clean
    <2> QED BY <2>3, <2>4, <2>5, <2>6, <2>7
<1>12. Done'
    <2>1. ASSUME NEW u \in Threads, alone'[u] # 0
          PROVE  /\ \A j \in Imports : imports'[j].of # u
                 /\ rows'[u] = Stored(<<>>, EventsOf(SubSeq(logs[u], 1, alone'[u])))
        <3>1. u # s /\ alone'[u] = alone[u]
            BY <1>3, <1>4, <2>1
        <3>2. (\A j \in Imports : imports[j].of # u) /\ rows[u] = Stored(<<>>, EventsOf(SubSeq(logs[u], 1, alone[u])))
            BY <1>0, <2>1, <3>1 DEF Done
        <3>3. rows'[u] = rows[u]
            BY <1>7, <3>1
        <3> QED BY <1>8, <3>1, <3>2, <3>3
    <2> QED BY <1>0, <1>3, <2>1, DonePrime
<1> QED BY <1>9, <1>10, <1>11, <1>12 DEF ImportInv

LEMMA ImportInvInit == ASSUME ImportAssumption, ImportInit PROVE ImportInv
<1>1. \A i \in Imports : imports[i] = Idle
    BY DEF ImportInit
<1>2. Idle.clean = FALSE
    BY DEF Idle
<1>3. ImportTyped
    <2>1. logs = [s \in Threads |-> <<>>] /\ rows = [s \in Threads |-> <<>>] /\ alone = [s \in Threads |-> 0]
          /\ newest = 0 /\ imports = [i \in Imports |-> Idle] /\ agent \in {"codex", "claude"}
          /\ adrift = {}
        BY DEF ImportInit
    <2>2. <<>> \in Seq(Lines)
        OBVIOUS
    <2>3. logs \in [Threads -> Seq(Lines)]
        BY <2>1, <2>2
    <2>4. <<>> \in [{} -> Spans]
        OBVIOUS
    <2>5. <<>> \in UNION {[D -> Spans] : D \in SUBSET Names}
        BY <2>4
    <2>6. rows \in [Threads -> UNION {[D -> Spans] : D \in SUBSET Names}]
        BY <2>1, <2>5
    <2>7. alone \in [Threads -> Nat] /\ \A s \in Threads : alone[s] <= Len(logs[s])
        BY <2>1
    <2> QED BY <1>1, <2>1, <2>3, <2>6, <2>7 DEF ImportTyped
<1>4. OfTheLog
    <2>1. \A s \in Threads : DOMAIN rows[s] = {}
        <3>1. DOMAIN <<>> = {}
            OBVIOUS
        <3> QED BY <3>1 DEF ImportInit
    <2>2. adrift = {}
        BY DEF ImportInit
    <2> QED BY <1>1, <2>1, <2>2 DEF OfTheLog
<1>5. Clean
    <2>1. \A i \in Imports : imports[i].clean = FALSE
        BY <1>1, <1>2
    <2> QED BY <2>1 DEF Clean
<1>6. Done
    BY DEF Done, ImportInit
<1> QED BY <1>3, <1>4, <1>5, <1>6 DEF ImportInv

LEMMA ImportInvNext ==
    ASSUME ImportAssumption, ImportInv, ImportNext \/ UNCHANGED importVars
    PROVE  ImportInv'
<1>0. ImportTyped
    BY DEF ImportInv
<1>1. ASSUME NEW s \in Threads, Grow(s) PROVE ImportInv'
    BY <1>1, GrowKeeps
<1>2. ASSUME NEW i \in Imports, NEW s \in Threads, hooked(i, s) \/ notified(i, s) PROVE ImportInv'
    <2>1. Begin(i, s, s)
        BY <1>2 DEF hooked, notified
    <2> QED BY <2>1, BeginKeeps
<1>3. ASSUME NEW i \in Imports, latest(i) PROVE ImportInv'
    <2>1. newest \in Threads
        BY <1>0, <1>3 DEF latest, ImportTyped
    <2>2. PICK s \in Threads : s = newest
        BY <2>1
    <2>3. Begin(i, s, s)
        BY <1>3, <2>2 DEF latest
    <2> QED BY <2>3, BeginKeeps
<1>4. ASSUME NEW i \in Imports, postEvents(i) PROVE ImportInv'
    BY <1>4, PostKeeps
<1>5. ASSUME NEW i \in Imports, PostFails(i) PROVE ImportInv'
    BY <1>5, FailKeeps
<1>6. CASE UNCHANGED importVars
    <2>1. UNCHANGED <<agent, logs, newest, imports, adrift, rows, alone>>
        BY <1>6 DEF importVars
    <2>2. Lines' = Lines /\ \A log : EventsOf(log)' = EventsOf(log)
        BY <1>0, <2>1, EventsStay DEF ImportTyped
    <2>3. ImportTyped'
        BY <1>0, <2>1, <2>2 DEF ImportTyped
    <2>4. OfTheLog'
        BY <2>1, <2>2 DEF ImportInv, OfTheLog
    <2>5. \A i \in Imports : Read(i)' = Read(i)
        <3> SUFFICES ASSUME NEW i \in Imports PROVE Read(i)' = Read(i)
            OBVIOUS
        <3>1. PICK log : log = SubSeq(logs[imports[i].of], 1, imports[i].read)
            OBVIOUS
        <3>2. EventsOf(log)' = EventsOf(log)
            BY <2>2
        <3> QED BY <2>1, <3>1, <3>2 DEF Read
    <2>6. Clean'
        BY <2>1, <2>5 DEF ImportInv, Clean
    <2>7. Done'
        <3>1. \A u \in Threads : alone'[u] # 0 =>
                 /\ \A j \in Imports : imports'[j].of # u
                 /\ rows'[u] = Stored(<<>>, EventsOf(SubSeq(logs[u], 1, alone'[u])))
            BY <2>1 DEF ImportInv, Done
        <3> QED BY <1>0, <2>1, <3>1, DonePrime
    <2> QED BY <2>3, <2>4, <2>6, <2>7 DEF ImportInv
<1>7. ASSUME NEW q \in adrift, ArrivesAdrift(q) PROVE ImportInv'
    BY <1>7, AdriftKeeps
<1> QED BY <1>1, <1>2, <1>3, <1>4, <1>5, <1>6, <1>7 DEF ImportNext

\* The collector keeps nothing that a log does not map to, what an import still posts, and
\* what a failed one left on its way, is of its log, and one that met no other and no late
\* request has all it read at the collector but for what it still posts: whatever is imported
\* again, at the same time, or fails half-way (import-codex-session.mjs,
\* import-claude-session.mjs).
THEOREM ImportSafe == ClientSpec => []ImportInv
<1>1. ClientInit => ImportInv
    BY ImportAssumption, ImportInvInit DEF ClientInit
<1>2. ImportInv /\ [ClientNext]_ClientVars => ImportInv'
    <2> SUFFICES ASSUME ImportInv, [ClientNext]_ClientVars PROVE ImportInv'
        OBVIOUS
    <2>1. ImportNext \/ UNCHANGED importVars
        BY DEF ClientNext, ClientVars
    <2> QED BY <2>1, ImportAssumption, ImportInvNext
<1> QED BY <1>1, <1>2, PTL DEF ClientSpec

\* Importing a growing log again, and two imports of one log at once, leave no row behind that
\* the whole log does not map to: no id depends on what comes later in the log.
THEOREM ImportsAddNoStray == ClientSpec => []NoStray
<1>1. ImportInv => NoStray
    BY DEF ImportInv, OfTheLog, NoStray
<1> QED BY <1>1, ImportSafe, PTL

\* The rows of an import that met no other and no late request and did not fail are those of
\* the log it read, whatever failed or overlapped before, until a request of an earlier one
\* that failed still arrives: each is the last one posted under its id.
THEOREM ImportsCatchUp == ClientSpec => []CaughtUp
<1>1. ImportInv => CaughtUp
    BY DEF ImportInv, Done, CaughtUp
<1> QED BY <1>1, ImportSafe, PTL
=============================================================================
