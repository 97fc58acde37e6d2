---------------------------- MODULE AgentBridge ----------------------------
(***************************************************************************)
(* agent_bridge.py: "run" gives a task to another provider's CLI and "apply"*)
(* brings a delegated patch into the active repository.  A consultation    *)
(* runs in the active repository, a delegation in a clone of its HEAD; what *)
(* the provider started is killed, the clone is compared with the base, and *)
(* a patch is kept when it touches allowed paths only.                      *)
(*                                                                         *)
(* Descendants of the provider may detach, fork and end at any time; the    *)
(* user may edit and commit while jobs run and while a patch is applied.    *)
(* A content is the set of the changes it is made of.  git, the providers   *)
(* and the user's editor are external.                                      *)
(***************************************************************************)
EXTENDS Naturals, FiniteSets

CONSTANTS Jobs,     \* one call of run, and of apply with its result, each
          Paths, NoFile,
          Created,  \* the paths that the first commit does not have
          Allowed,  \* allowed_paths of the requests
          Startup,  \* the paths that Gemini reads when it starts
          Forking,  \* the jobs whose provider starts processes
          MaxPid,   \* the process numbers of a job's descendants are 1 .. MaxPid
          PROCESS_SWEEP_ATTEMPTS,
          MaxEdits, MaxCommits, MaxApplies  \* bounds

ASSUME BridgeAssumption ==
    /\ Created \cup Allowed \cup Startup \subseteq Paths /\ Forking \subseteq Jobs
    /\ MaxPid \in Nat /\ PROCESS_SWEEP_ATTEMPTS \in Nat \ {0}
    /\ MaxEdits \in Nat /\ MaxCommits \in Nat /\ MaxApplies \in Nat
    /\ NoFile \notin Jobs \cup Nat

VARIABLES
    head, headTree,  \* the commit the active repository is at, and its files
    tree,            \* the files of the active repository
    edits,           \* how often the user has edited
    pc,              \* of each job's run
    mode,            \* "consult" or "delegate"
    provider,        \* whose CLI is started, "none" when it has ended
    base, baseTree,  \* base_sha and the files of that commit
    before,          \* consult_status, then post_status when it differs
    clone,           \* the files of the delegated workspace
    procs,           \* the provider's descendants: "group", "detached" or "none"
    outcome,         \* how the provider ended
    sweep,           \* terminate_marked_descendants: attempts left, the next
                     \* process number to read, the marked ones found
    forkers, handed, \* history: who forked during the present scan, and whether
                     \* one of them has ended by itself since
    changed, untracked, \* workspace_changes
    result,          \* result.json and result.patch
    apc, applies,    \* of each job's apply
    out,             \* what git apply has still to write
    touched          \* history: the active files that others have changed or
                     \* committed since the job last looked

repoVars == <<head, headTree, tree, edits>>
jobVars == <<mode, provider, base, baseTree, before>>
procVars == <<procs, outcome, sweep, forkers, handed>>
workVars == <<clone, changed, untracked, result>>
applyVars == <<apc, applies, out>>
vars == <<repoVars, pc, jobVars, procVars, workVars, applyVars, touched>>

Absent == {NoFile}
Changes == {Absent} \cup SUBSET (Jobs \cup 1 .. MaxEdits)
Files == [Paths -> Changes]
Pids == 1 .. MaxPid
NoPatch == [p \in {} |-> {}]
NoResult == [status |-> "none", patch |-> NoPatch, changed |-> {}]

FirstTree == [p \in Paths |-> IF p \in Created THEN Absent ELSE {}]

Providers == {"codex", "claude", "gemini"}
Ended == {"done", "failed", "cancelled", "dead"}
Running == {"status", "clone", "provider", "sweep", "scan", "classify", "post", "head",
            "tracked", "untracked", "add", "diff", "persist"}

TypeOK ==
    /\ head \in Nat /\ headTree \in Files /\ tree \in Files /\ edits \in 0 .. MaxEdits
    /\ pc \in [Jobs -> {"idle"} \cup Running \cup Ended]
    /\ mode \in [Jobs -> {"consult", "delegate"}]
    /\ provider \in [Jobs -> Providers \cup {"none"}]
    /\ base \in [Jobs -> Nat] /\ baseTree \in [Jobs -> Files]
    /\ clone \in [Jobs -> Files]
    /\ procs \in [Jobs -> [Pids -> {"none", "group", "detached"}]]
    /\ outcome \in [Jobs -> {"completed", "provider_failed", "timed_out", "cancelled",
                             "process_cleanup_failed"}]
    /\ sweep \in [Jobs -> [left : 0 .. PROCESS_SWEEP_ATTEMPTS, next : 1 .. MaxPid + 1,
                           found : SUBSET Pids]]
    /\ forkers \in [Jobs -> SUBSET Pids] /\ handed \in [Jobs -> BOOLEAN]
    /\ changed \in [Jobs -> SUBSET Paths] /\ untracked \in [Jobs -> SUBSET Paths]
    /\ apc \in [Jobs -> {"idle", "head", "status", "check", "read", "write",
                         "applied", "no_changes", "refused", "cut"}]
    /\ applies \in [Jobs -> 0 .. MaxApplies]
    /\ touched \in [Jobs -> SUBSET Paths]

-----------------------------------------------------------------------------
(* git and the active repository *)

\* git status --porcelain: one code for each path that differs from HEAD
porcelain ==
    [p \in {q \in Paths : tree[q] # headTree[q]} |->
        CASE tree[p] = Absent -> "D" [] headTree[p] = Absent -> "??" [] OTHER -> "M"]

\* Others have changed these files
Touch(j, ps) == touched' = [k \in Jobs |-> touched[k] \cup (IF k = j THEN {} ELSE ps)]

\* The user, the user's editor or a consulted provider that writes all the same
Edit ==
    /\ edits < MaxEdits
    /\ edits' = edits + 1
    /\ \E p \in Paths :
          /\ \/ tree' = [tree EXCEPT ![p] = (@ \ Absent) \cup {edits'}]
             \/ tree[p] # Absent /\ tree' = [tree EXCEPT ![p] = Absent]
          /\ touched' = [k \in Jobs |-> touched[k] \cup {p}]
    /\ UNCHANGED <<head, headTree, pc, jobVars, procVars, workVars, applyVars>>

Commit ==
    /\ head < MaxCommits /\ headTree # tree
    /\ head' = head + 1 /\ headTree' = tree
    /\ touched' = [k \in Jobs |-> touched[k] \cup {p \in Paths : tree[p] # headTree[p]}]
    /\ UNCHANGED <<tree, edits, pc, jobVars, procVars, workVars, applyVars>>

-----------------------------------------------------------------------------
(* run: the preparation *)

At(j, s) == pc[j] = s
Go(j, s) == pc' = [pc EXCEPT ![j] = s]
Set(f, j, v) == [f EXCEPT ![j] = v]

\* What a call brings: the fields of its request, and --allow-write
Arguments == {"task", "allowed_paths", "acceptance_criteria", "unexpected", "allow_write"}

read_request(j, given) ==
    /\ "task" \in given /\ "unexpected" \notin given
    /\ mode[j] = "delegate" => {"allowed_paths", "acceptance_criteria"} \subseteq given

\* Gemini reads files of the repository before it asks anyone
validate_provider_workspace(who) ==
    who = "gemini" => \A p \in Startup : tree[p] = Absent

\* One provider at a time: the steps of two runs do not meet
Start(j) ==
    /\ At(j, "idle") /\ \A k \in Jobs : pc[k] \notin Running
    /\ \E who \in Providers, given \in SUBSET Arguments :
          IF /\ ("allow_write" \in given) = (mode[j] = "delegate")
             /\ read_request(j, given) /\ validate_provider_workspace(who)
          THEN /\ base' = Set(base, j, head) /\ baseTree' = Set(baseTree, j, headTree)
               /\ provider' = Set(provider, j, who) /\ Go(j, "status")
          ELSE Go(j, "failed") /\ UNCHANGED <<base, baseTree, provider>>
    /\ UNCHANGED <<repoVars, mode, before, procVars, workVars, applyVars, touched>>

\* Delegation refuses a dirty tree, consultation notes its state
FirstStatus(j) ==
    /\ At(j, "status")
    /\ \/ mode[j] = "consult" /\ before' = Set(before, j, porcelain) /\ Go(j, "provider")
       \/ /\ mode[j] = "delegate" /\ UNCHANGED before
          /\ Go(j, IF porcelain = NoPatch THEN "clone" ELSE "failed")
    /\ UNCHANGED <<repoVars, mode, provider, base, baseTree, procVars, workVars, applyVars, touched>>

clone_repository(j) ==
    /\ At(j, "clone")
    /\ clone' = Set(clone, j, baseTree[j]) /\ Go(j, "provider")
    /\ UNCHANGED <<repoVars, jobVars, procVars, changed, untracked, result, applyVars, touched>>

\* A git command fails or times out: BridgeError, the job directory stays
GitFails(j) ==
    /\ pc[j] \in {"status", "clone", "post", "head", "tracked", "untracked", "add", "diff"}
    /\ Go(j, "failed")
    /\ UNCHANGED <<repoVars, jobVars, procVars, workVars, applyVars, touched>>

-----------------------------------------------------------------------------
(* The provider and its descendants *)

Alive(j) == {p \in Pids : procs[j][p] # "none"}
Quiet(j) == UNCHANGED <<repoVars, pc, jobVars, outcome, sweep, applyVars, touched>>

\* The provider, or a descendant, starts a process: in the group or, with
\* setsid, detached.  What they start after the sweep is not followed.
Fork(j) ==
    /\ j \in Forking
    /\ At(j, "provider") \/ (pc[j] \in {"sweep", "scan"} /\ Alive(j) # {})
    /\ \E q \in Pids \ Alive(j), kind \in {"group", "detached"} :
          /\ kind = "group" => At(j, "provider")
          /\ procs' = [procs EXCEPT ![j][q] = kind]
    /\ \/ At(j, "provider") /\ UNCHANGED forkers
       \/ \E p \in Alive(j) : forkers' = [forkers EXCEPT ![j] = @ \cup {p}]
    /\ Quiet(j) /\ UNCHANGED <<workVars, handed>>

Exit(j) ==
    /\ \E p \in Alive(j) :
          /\ procs' = [procs EXCEPT ![j][p] = "none"]
          /\ handed' = [handed EXCEPT ![j] = @ \/ (At(j, "scan") /\ p \in forkers[j])]
          /\ forkers' = [forkers EXCEPT ![j] = @ \ {p}]
    /\ Quiet(j) /\ UNCHANGED workVars

Writings(j, p) == {{j}, baseTree[j][p], Absent}

\* A descendant that has outlived the sweep writes the clone
WriteClone(j) ==
    /\ pc[j] \in {"tracked", "untracked", "add", "diff"} /\ Alive(j) # {}
    /\ \E p \in Paths : \E c \in Writings(j, p) :
          c # clone[j][p] /\ clone' = [clone EXCEPT ![j][p] = c]
    /\ Quiet(j) /\ UNCHANGED <<procs, forkers, handed, changed, untracked, result>>

\* The clone is looked at after a delegation that has completed, only
Inspected(j) == mode[j] = "delegate" /\ outcome'[j] = "completed"

\* What a provider that exits with 0 has printed.  Codex prints its answer, the
\* others an object with an answer in it; only Claude's may be marked an error.
Outputs == {"blank", "not_json", "not_object", "no_answer", "error", "answer"}
parse_provider_output(who, stdout) ==
    CASE who = "codex" -> stdout # "blank"
      [] who = "claude" -> stdout = "answer"
      [] who = "gemini" -> stdout \in {"error", "answer"}

run_provider(who, end, stdout) ==
    CASE end = "timeout" -> "timed_out"
      [] end = "interrupt" -> "cancelled"
      [] end = "exit 0" /\ parse_provider_output(who, stdout) -> "completed"
      [] OTHER -> "provider_failed"

\* The provider, which has written the clone, ends, is stopped at its timeout or
\* by Ctrl-C; in each case its process group is killed
run_process(j) ==
    /\ At(j, "provider")
    /\ \E end \in {"exit 0", "exit 1", "timeout", "interrupt"}, stdout \in Outputs :
          outcome' = Set(outcome, j, run_provider(provider[j], end, stdout))
    /\ provider' = Set(provider, j, "none")
    /\ \E files \in Files :
          /\ \A p \in Paths : files[p] \in IF Inspected(j) THEN Writings(j, p)
                                            ELSE {clone[j][p]}
          /\ clone' = Set(clone, j, files)
    /\ procs' = [procs EXCEPT ![j] =
                    [p \in Pids |-> IF @[p] = "group" THEN "none" ELSE @[p]]]
    /\ sweep' = Set(sweep, j, [left |-> PROCESS_SWEEP_ATTEMPTS, next |-> 1, found |-> {}])
    /\ Go(j, "sweep")
    /\ UNCHANGED <<repoVars, mode, base, baseTree, before, forkers, handed, changed, untracked, result,
                   applyVars, touched>>

Sweeping(j) == UNCHANGED <<repoVars, jobVars, workVars, applyVars, touched>>

StartScan(j) ==
    /\ At(j, "sweep")
    /\ sweep' = Set(sweep, j, [left |-> sweep[j].left, next |-> 1, found |-> {}])
    /\ forkers' = Set(forkers, j, {}) /\ handed' = Set(handed, j, FALSE)
    /\ Go(j, "scan") /\ Sweeping(j) /\ UNCHANGED <<procs, outcome>>

\* marked_process_ids: /proc is read one process after the other
ReadProcess(j) ==
    /\ At(j, "scan") /\ sweep[j].next <= MaxPid
    /\ LET s == sweep[j]
       IN  sweep' = Set(sweep, j, [left |-> s.left, next |-> s.next + 1,
                                   found |-> s.found \cup ({s.next} \cap Alive(j))])
    /\ Sweeping(j) /\ UNCHANGED <<pc, procs, outcome, forkers, handed>>

\* (mutant) what was found is killed and that is it
KillOnce(j) ==
    /\ At(j, "scan") /\ sweep[j].next > MaxPid
    /\ procs' = [procs EXCEPT ![j] = [p \in Pids |-> IF p \in sweep[j].found THEN "none" ELSE @[p]]]
    /\ Go(j, "classify") /\ Sweeping(j) /\ UNCHANGED <<sweep, outcome, forkers, handed>>

\* (mutant) until none is found
KillForever(j) ==
    /\ At(j, "scan") /\ sweep[j].next > MaxPid
    /\ procs' = [procs EXCEPT ![j] = [p \in Pids |-> IF p \in sweep[j].found THEN "none" ELSE @[p]]]
    /\ Go(j, IF sweep[j].found = {} THEN "classify" ELSE "sweep")
    /\ Sweeping(j) /\ UNCHANGED <<sweep, outcome, forkers, handed>>

\* Nothing found: return.  Else kill, and look again; the scan after the last
\* attempt must find nothing.
terminate_marked_descendants(j) ==
    /\ At(j, "scan") /\ sweep[j].next > MaxPid
    /\ \/ sweep[j].found = {} /\ Go(j, "classify") /\ UNCHANGED <<procs, sweep, outcome>>
       \/ /\ sweep[j].found # {} /\ sweep[j].left > 0
          /\ procs' = [procs EXCEPT ![j] =
                          [p \in Pids |-> IF p \in sweep[j].found THEN "none" ELSE @[p]]]
          /\ sweep' = [sweep EXCEPT ![j].left = @ - 1]
          /\ Go(j, "sweep") /\ UNCHANGED outcome
       \/ /\ sweep[j].found # {} /\ sweep[j].left = 0
          /\ outcome' = Set(outcome, j, IF outcome[j] = "cancelled" THEN "cancelled"
                                        ELSE "process_cleanup_failed")
          /\ Go(j, "classify") /\ UNCHANGED <<procs, sweep>>
    /\ Sweeping(j) /\ UNCHANGED <<forkers, handed>>

\* The bridge itself is killed; the provider has a session of its own
Die(j) ==
    /\ pc[j] \in {"provider", "sweep", "scan"}
    /\ Go(j, "dead")
    /\ UNCHANGED <<repoVars, jobVars, procVars, workVars, applyVars, touched>>

-----------------------------------------------------------------------------
(* run: the result *)

patch_target_paths(patch) == DOMAIN patch
path_allowed(ps) == ps \subseteq Allowed

Report(j, status, patch, changes) ==
    result' = Set(result, j, [status |-> status, patch |-> patch, changed |-> changes])

Work(j, s) ==
    /\ Go(j, s)
    /\ UNCHANGED <<repoVars, mode, provider, base, baseTree, procVars, clone, applyVars>>

\* What follows the sweep.  An interrupted run leaves no result, a delegation
\* that has not completed leaves one without a patch.
Classify(j) ==
    /\ At(j, "classify")
    /\ IF outcome[j] = "cancelled" THEN Work(j, "cancelled") /\ UNCHANGED result
       ELSE \/ mode[j] = "consult" /\ Work(j, "post") /\ UNCHANGED result
            \/ /\ mode[j] = "delegate" /\ outcome[j] = "completed"
               /\ Work(j, "tracked") /\ UNCHANGED result
            \/ /\ mode[j] = "delegate" /\ outcome[j] # "completed"
               /\ Work(j, "done") /\ Report(j, outcome[j], NoPatch, {})
    /\ UNCHANGED <<before, changed, untracked, touched>>

\* (mutant) the second status is not compared with the first
PostUnseen(j) ==
    /\ At(j, "post")
    /\ touched' = Set(touched, j, {}) /\ changed' = Set(changed, j, {})
    /\ Work(j, "head") /\ UNCHANGED <<before, untracked, result>>

\* The paths whose status code is not what it was
PostStatus(j) ==
    /\ At(j, "post")
    /\ changed' = Set(changed, j,
           {p \in Paths : ({p} \cap DOMAIN porcelain # {}) # ({p} \cap DOMAIN before[j] # {})
                          \/ (p \in DOMAIN porcelain /\ porcelain[p] # before[j][p])})
    /\ touched' = Set(touched, j, {})
    /\ Work(j, "head") /\ UNCHANGED <<before, untracked, result>>

PostHead(j) ==
    /\ At(j, "head")
    /\ Report(j, IF head # base[j] \/ changed[j] # {} THEN "workspace_changed" ELSE outcome[j],
              NoPatch, {})
    /\ Work(j, "done") /\ UNCHANGED <<before, changed, untracked, touched>>

\* restore_clone_git_dir, then the two commands of workspace_changes
Differs(j) == {p \in Paths : clone[j][p] # baseTree[j][p]}
Tracked(j) == {p \in Paths : baseTree[j][p] # Absent}

ListTracked(j) ==
    /\ At(j, "tracked")
    /\ changed' = Set(changed, j, Differs(j) \cap Tracked(j))
    /\ Work(j, "untracked") /\ UNCHANGED <<before, untracked, result, touched>>

ListUntracked(j) ==
    /\ At(j, "untracked")
    /\ untracked' = Set(untracked, j, Differs(j) \ Tracked(j))
    /\ changed' = [changed EXCEPT ![j] = @ \cup untracked'[j]]
    /\ \/ path_allowed(changed'[j]) /\ Work(j, "add") /\ UNCHANGED result
       \/ ~path_allowed(changed'[j]) /\ Work(j, "done")
          /\ Report(j, "scope_violation", NoPatch, changed'[j])
    /\ UNCHANGED <<before, touched>>

\* build_patch: git add -N, which fails when one of the paths has gone, then
\* git diff
AddUntracked(j) ==
    /\ At(j, "add")
    /\ Work(j, IF \E p \in untracked[j] : clone[j][p] = Absent THEN "failed" ELSE "diff")
    /\ UNCHANGED <<before, changed, untracked, result, touched>>

build_patch(j) ==
    [p \in Differs(j) \cap (Tracked(j) \cup untracked[j]) |-> clone[j][p]]

\* (mutant) the patch is taken for what workspace_changes has seen
TrustedPatch(j) ==
    /\ At(j, "diff")
    /\ Report(j, "completed", build_patch(j), changed[j])
    /\ Work(j, "done") /\ UNCHANGED <<before, changed, untracked, touched>>

\* patch_scope_problem: the paths are derived from the patch itself
DiffAndPersist(j) ==
    /\ At(j, "diff")
    /\ LET patch == build_patch(j) IN
       IF /\ path_allowed(patch_target_paths(patch))
          /\ patch_target_paths(patch) = changed[j]
       THEN Report(j, "completed", patch, changed[j])
       ELSE Report(j, "scope_violation", NoPatch, changed[j])
    /\ Work(j, "done") /\ UNCHANGED <<before, changed, untracked, touched>>

-----------------------------------------------------------------------------
(* apply *)

ApplyAt(j, s) == apc[j] = s
ApplyGo(j, s) ==
    /\ apc' = Set(apc, j, s)
    /\ UNCHANGED <<head, headTree, edits, pc, jobVars, procVars, workVars>>
Looks(j, s) == ApplyGo(j, s) /\ UNCHANGED <<tree, applies, out, touched>>
Patch(j) == result[j].patch

\* The result is read and checked; a refused call may be repeated
BeginApply(j) ==
    /\ apc[j] \in {"idle", "refused"} /\ applies[j] < MaxApplies /\ pc[j] = "done"
    /\ applies' = [applies EXCEPT ![j] = @ + 1]
    /\ ApplyGo(j, IF /\ mode[j] = "delegate" /\ result[j].status = "completed"
                     /\ path_allowed(result[j].changed)
                  THEN "head" ELSE "refused")
    /\ UNCHANGED <<tree, out, touched>>

ApplyHead(j) ==
    /\ ApplyAt(j, "head")
    /\ ApplyGo(j, IF head = base[j] THEN "status" ELSE "refused")
    /\ touched' = Set(touched, j, {}) /\ UNCHANGED <<tree, applies, out>>

\* (mutant) a tree that is not clean is good enough
AnyStatus(j) == ApplyAt(j, "status") /\ Looks(j, "check")

\* The tree must be clean; the patch must match its record
ApplyStatus(j) ==
    /\ ApplyAt(j, "status")
    /\ Looks(j, IF \/ porcelain # NoPatch
                   \/ ~path_allowed(patch_target_paths(Patch(j)))
                   \/ patch_target_paths(Patch(j)) # result[j].changed
                THEN "refused"
                ELSE IF DOMAIN Patch(j) = {} THEN "no_changes" ELSE "check")

\* What git apply makes of the file p, when the hunks' context is still there:
\* an edited file gets the patch's changes besides its own
Merged(j, p) == IF tree[p] = baseTree[j][p] THEN Patch(j)[p]
                ELSE tree[p] \cup (Patch(j)[p] \ baseTree[j][p])
MayApply(j, p) ==
    \/ tree[p] = baseTree[j][p]
    \/ tree[p] # Absent /\ baseTree[j][p] # Absent /\ Patch(j)[p] # Absent
MustApply(j) == \A p \in DOMAIN Patch(j) : tree[p] = baseTree[j][p]
CanApply(j) == \A p \in DOMAIN Patch(j) : MayApply(j, p)

\* git apply --check
ApplyCheck(j) ==
    /\ ApplyAt(j, "check")
    /\ \/ CanApply(j) /\ Looks(j, "read")
       \/ ~MustApply(j) /\ Looks(j, "refused")

\* git apply reads and checks every file before it writes the first
ApplyRead(j) ==
    /\ ApplyAt(j, "read")
    /\ \/ /\ CanApply(j) /\ ApplyGo(j, "write")
          /\ out' = Set(out, j, [p \in DOMAIN Patch(j) |-> Merged(j, p)])
          /\ UNCHANGED <<tree, applies, touched>>
       \/ ~MustApply(j) /\ Looks(j, "refused")

ApplyWrite(j) ==
    /\ ApplyAt(j, "write")
    /\ \E p \in DOMAIN out[j] :
          /\ tree' = [tree EXCEPT ![p] = out[j][p]]
          /\ out' = Set(out, j, [q \in DOMAIN out[j] \ {p} |-> out[j][q]])
          /\ Touch(j, {p})
    /\ ApplyGo(j, IF DOMAIN out'[j] = {} THEN "applied" ELSE "write")
    /\ UNCHANGED applies

\* git apply is killed at its timeout, or the bridge dies with it
ApplyCut(j) ==
    /\ apc[j] \in {"head", "status", "check", "read", "write"}
    /\ Looks(j, IF apc[j] = "write" THEN "cut" ELSE "refused")

-----------------------------------------------------------------------------
Init ==
    /\ head = 0 /\ headTree = FirstTree /\ tree = FirstTree /\ edits = 0
    /\ pc = [j \in Jobs |-> "idle"]
    /\ mode \in [Jobs -> {"consult", "delegate"}]
    /\ provider = [j \in Jobs |-> "none"]
    /\ base = [j \in Jobs |-> 0] /\ baseTree = [j \in Jobs |-> FirstTree]
    /\ before = [j \in Jobs |-> NoPatch]
    /\ clone = [j \in Jobs |-> FirstTree]
    /\ procs = [j \in Jobs |-> [p \in Pids |-> "none"]]
    /\ outcome = [j \in Jobs |-> "completed"]
    /\ sweep = [j \in Jobs |-> [left |-> 0, next |-> 1, found |-> {}]]
    /\ forkers = [j \in Jobs |-> {}] /\ handed = [j \in Jobs |-> FALSE]
    /\ changed = [j \in Jobs |-> {}] /\ untracked = [j \in Jobs |-> {}]
    /\ result = [j \in Jobs |-> NoResult]
    /\ apc = [j \in Jobs |-> "idle"] /\ applies = [j \in Jobs |-> 0]
    /\ out = [j \in Jobs |-> NoPatch]
    /\ touched = [j \in Jobs |-> {}]

execute_run(j) ==
    \/ FirstStatus(j) \/ clone_repository(j)
    \/ run_process(j) \/ StartScan(j) \/ ReadProcess(j) \/ terminate_marked_descendants(j)
    \/ Classify(j) \/ PostStatus(j) \/ PostHead(j)
    \/ ListTracked(j) \/ ListUntracked(j) \/ AddUntracked(j) \/ DiffAndPersist(j)

execute_apply(j) ==
    \/ ApplyHead(j) \/ ApplyStatus(j) \/ ApplyCheck(j) \/ ApplyRead(j) \/ ApplyWrite(j)

Others(j) ==
    \/ Start(j) \/ GitFails(j) \/ Die(j) \/ BeginApply(j) \/ ApplyCut(j)
    \/ Fork(j) \/ Exit(j) \/ WriteClone(j)

Next == \/ \E j \in Jobs : execute_run(j) \/ execute_apply(j) \/ Others(j)
        \/ Edit \/ Commit

Spec == Init /\ [][Next]_vars
FairSpec == Spec /\ \A j \in Jobs : WF_vars(execute_run(j)) /\ WF_vars(execute_apply(j))

-----------------------------------------------------------------------------
(* Properties *)

\* A run that does not report process_cleanup_failed leaves a process behind
\* only when, while the last scan read /proc, one of them forked and ended by
\* itself before the scan came to it: repeating the scan catches all the others.
SurvivorsHandedOver ==
    \A j \in Jobs :
        /\ pc[j] \notin {"idle", "status", "clone", "provider", "sweep", "scan", "dead"}
        /\ outcome[j] \notin {"process_cleanup_failed", "cancelled"} /\ Alive(j) # {}
        => handed[j]

\* A patch changes the allowed paths only, and those that the result lists,
\* whatever survivors have written between the commands that looked at the clone.
PatchInScope ==
    \A j \in Jobs : result[j].status = "completed" /\ mode[j] = "delegate" =>
        DOMAIN Patch(j) \subseteq Allowed /\ DOMAIN Patch(j) = result[j].changed

\* When apply reports "applied", the active tree is the base with the patch,
\* but for the files that others have changed since apply read HEAD: whatever
\* was edited before that is noticed.
AppliedTree ==
    \A j \in Jobs : apc[j] = "applied" =>
        \A p \in Paths \ touched[j] :
            tree[p] = IF p \in DOMAIN Patch(j) THEN Patch(j)[p] ELSE baseTree[j][p]

\* When a consultation reports "completed", no file that was clean before it
\* has changed, but for those changed after the second look at the tree.
ConsultSeen ==
    \A j \in Jobs : mode[j] = "consult" /\ result[j].status = "completed" =>
        \A p \in Paths \ (DOMAIN before[j] \cup touched[j]) : tree[p] = baseTree[j][p]

\* A run that has started ends, even when descendants keep forking.
RunEnds == \A j \in Jobs : pc[j] \in Running ~> pc[j] \in Ended
=============================================================================
