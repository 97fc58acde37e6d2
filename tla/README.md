# A TLA+ model of overclock's scripts

overclock is a collection of agent plugins.  Most of it is prose that instructs an agent; the
programs are the scripts the skills call and the harnesses that evaluate the skills.  They change
files of the user, call GitHub and model providers, run other agents, and post traces, and their
documents promise what they will not do: overwrite a file, lose an edit, leave a mutant behind, post
twice, apply more than was allowed, count what nobody has judged.  This directory models the
programs that keep state, checks those promises with TLC and proves some of them with TLAPS.

All paths below are relative to the repository.

1. Inventory. 2. Modules. 3. Runs. 4. Findings, and what does not hold. 5. Proofs. 6. Checked only
by TLC. 7. Not modelled.

## 1. Inventory

| component | source | state | operations | who else acts | what makes it correct |
|---|---|---|---|---|---|
| mutation trial | `plugins/discipline-gates/skills/test-discipline/scripts/mutation_trial.py`, `mutation_backup.py` | the target, its `.mutbak`, hidden temporaries and claims | trial (backup, swap, test, restore, discard, clean rerun), restore by hand | the user's editor, signals, a failing system call, a kill; a test command that may never end | no saved content is lost; a mutant always has its backup; a refusal leaves the target alone; the mutant leaves |
| memory store | `plugins/session-memory/skills/*/scripts/memory_io.py` and an identical copy in `plugins/learning-loop` | the memory file, the claim, the temporary, the archive, a `flock` | read, write, promote, recovery of a stale claim, prune | other sessions, an editor outside the lock, a crash | compare-and-swap: an accepted write replaces only what its author read; nothing is overwritten or lost; the newest archives stay |
| project vocabulary | `plugins/project-vocabulary/.../glossary_file.py` | `CONCEPTS.md`, claims, temporaries | inspect, propose, apply | other applies (there is no lock), an editor, a crash | the approved digest is what is replaced; nothing is lost; a glossary is left whatever happens |
| feedback publisher | `plugins/pr-feedback/skills/publish-pr-feedback/scripts/publish_plan.py`, `plan_contract.py` | the sealed plan (a file), the pull request (GitHub) | seal, verify, publish | GitHub (lost answers), reviewers, pushes, another publisher | each approved reply is posted once, and only while the approved head is the head |
| feedback plan preparation | `plugins/pr-feedback/skills/resolve-pr-feedback/scripts/prepare_publish_plan.py` | the draft, its temporary | prepare (pin the head, check the sources, write) | GitHub, a kill, files that appear | a plan never replaces another file; a plan that was approved can be read |
| agent bridge | `plugins/agent-bridge/.../agent_bridge.py` | the job directory, a clone, a tree of processes, the active repository | run (consult, delegate), apply | the other agent's processes, the user's edits and commits | only the recorded patch, within the allowed paths, reaches the tree; a consultation that changed something is noticed; descendants do not survive; a run ends |
| api bench | `plugins/api-bench/.../api_bench.py` | conversation, counters; `transcript.jsonl`, `summary.json` | run, compare | the provider (errors, retries, pauses), Ctrl-C | nothing is sent past a cap; tool calls are answered in place; exit 0 means the conversation ended and its summary is written |
| untangle | `plugins/untangle/.../untangle.py` | the plan file, the working tree; nothing for a scan | plan check, next, tick; scan | other agents, the user who edits the same file; whoever commits, merges or deletes branches | no tick and no decision is lost; the tree holds one item's changes; what a scan calls stale or unmerged was so |
| eval stack | `plugins/eval-stack/.../ironside-tracer.ts`, `import-codex-session.mjs`, `import-claude-session.mjs` | the open trace, turn and tools, batches; the collector's rows | feed, enqueue, flush, close; map and post a log | the host, which resumes or cuts a session; the collector, which fails or answers late; hooks that start imports | the collector ends with the newest row of each id; all spans end; imports repeat without stray rows; queues drain |
| experiment harnesses | `qa/experiments/*/run_*.py`, `assemble_review.py` | one directory per session, frozen reviews, judgments, a summary | phases of sessions in a thread pool, resumed by the operator | sessions that fail, kills, edits of the sources | evidence rests on accepted sessions, on one version of the sources, and is judged as it stands |
| qa harness | `qa/trigger_battery.py` and other scripts of `qa/` | rows of a mode, result files; a session's pipe | run prompts in modes, score, gate | Claude and its children | a row says what the session did; exit 0 means every mode passed |
| setup inventory | `plugins/setup/.../inspect_overclock.py` | none | inspect | - | - |
| bounded inspection and revision report | `bounded_inspect.py`, `build_revision_report.py` | none that outlives a call | inspect, build | - | - |
| repository tools | `tools/` | none | lint | - | - |
| skills and documentation | `SKILL.md` files, `docs/` | - | - | - | - |

The components do not call each other: they meet in the file system, at GitHub and at the collector.
One module, `Directory`, describes names, inodes and links for every script that replaces files; the
clients of the collector, the programs of `qa/` and the commands of untangle share a run each
(`TraceClients`, `QaPrograms`, `UntangleCommands`).
The hard behaviours:

* a file transaction is a sequence of system calls, and another program may act between any two;
* an editor does not know the scripts' locks: it may rename a new file over the old one, rewrite
  the file in place, or write through a descriptor it opened earlier;
* every step may fail, be interrupted by a signal that becomes an exception (SIGTERM, SIGINT), or
  be the last one (SIGKILL); a later run finds what an earlier one left behind;
* a process that was started may outlive its parent, detach, fork while it is looked for, and write
  between two commands that look at its work;
* a call that was given up may still take effect; rows in a queue meet newer rows of the same id;
* an operator resumes a harness: answers of an earlier invocation meet inputs of the present one.

`PROJECT.json` lists the hazards one by one, at the line where they bite, with the properties
that cover them; those without a property say why.

## 2. Modules

| module | what it is |
|---|---|
| `Directory` | names, inodes, link counts, `rename`, `link`, `unlink`, exclusive creation: the operating system, external to the repository |
| `MutationTrial`, `MutationTrialMC`, `MutationTrial_proofs` | `mutation_trial.py` and `mutation_backup.py`, with the user, the interruptions and the runs that follow a crash; its symmetry set; its theorems |
| `MemoryStore`, `MemoryStoreMC`, `MemoryStore_proofs` | `memory_io.py`: several sessions, the lock, crashes, failing calls, an editor; its symmetry set; its theorems |
| `CasRegister` | what a memory file promises: a register written by compare-and-swap; `MemoryStore` implements it |
| `Vocabulary`, `Vocabulary_proofs` | `glossary_file.py`: agents that propose and apply without a lock, an editor, crashes, failing calls, time; its theorems |
| `FeedbackPublisher`, `FeedbackPublisher_proofs` | `prepare_publish_plan.py` and `publish_plan.py`: preparing, sealing, approval, preflight and mutations, against a GitHub that others use as well; its theorems |
| `ApiBench`, `ApiBenchMC`, `ApiBench_proofs` | `api_bench.py run`: turns, retries, caps, tool calls, summary, and runs that follow in the same directory; prices and answers for TLC; its theorems |
| `AgentBridge` | `agent_bridge.py run` and `apply`, with a provider's descendants, a user who edits and commits |
| `Untangle` | `untangle.py plan`: the plan file, the agents, a user, crashes |
| `UntangleScan` | `untangle.py scan`: its questions to git, one after the other, while others change the repository |
| `UntangleCommands`, `UntangleCommandsMC`, `Untangle_proofs` | a scan or the work on a plan; its symmetry set; the theorems of both |
| `Tracer` | `ironside-tracer.ts`: events to rows, the batcher, the session's life cycle, a collector that fails or answers late |
| `SessionImport` | the two importers: logs to rows, requests, imports that overlap or fail |
| `TraceClients` | either of the two as a client of the collector |
| `AgentPrograms_proofs` | the theorems of `AgentBridge`, `Tracer` and `SessionImport`, the programs around a coding agent |
| `Harness` | what the experiment harnesses share: phases, thread pool, a session's files, kills and resumption |
| `ContractGapRuns` | extends `Harness`: matrix, tournament, mechanics and replication harness |
| `ScreenRuns` | extends `ContractGapRuns`: the screen with its eight approaches, and `assemble_review.py` |
| `ExperimentRuns` | the five together, and their properties |
| `TriggerBattery` | `trigger_battery.py`: one session's stream, rows, modes and gate |
| `QaPrograms`, `QaPrograms_proofs` | an experiment or the battery; their theorems |

`MutationTrial`, `MemoryStore` and `Vocabulary` extend `Directory`.  The others need no directory: a
file that is written once, or replaced whole by one program, is a variable.

### MutationTrial

One process runs at a time (a trial, or a restore by hand); `pc` is its next step.
`atomic_replace` (the trial's swap) and `restore` contain the same sequence of calls, so its
steps are written once (`Swap`), and `phase` tells which of the two runs, and for whom:

| action | code |
|---|---|
| `ReadTarget`, `BackupCopy`, `BackupLink`, `BackupUnlink`, `BackupReturn`, `VerifyBackup` | `read_target`, `backup`, and the two lines between `backup` and the `try` |
| `OpenTemporary`, `ClaimTarget`, `HashClaim`, `MarkInstalled`, `Publish`, `RecheckClaim`, `UnlinkTemporary`, `CheckTarget`, `UnlinkClaim`, `UnlinkBackup` | the swap |
| `TakeBack`, `TakeBack2`, `Relink` | the roll-back when the claim changed after publication |
| `CleanupClaim`, `CleanupTemporary`, `Discard` | the except clauses and `discard_unused_backup` |
| `SeeMutant`, `RunTest`, `ReadBack`, `RerunClean` | the rest of `run_trial` |
| `SystemError`, `Terminate`, `Interrupt`, `CutShort`, `Kill` | an `OSError` or a torn read, SIGTERM (a `RuntimeError`), SIGINT (not an `Exception`), either of them between the entry of the `finally` clause and its `try`, SIGKILL |

A step is one system call or a sequence of calls that cannot be told apart from outside. A step that
contains several calls may be cut short between them: `Torn` lists the directories that leaves.
What each except clause does depends on where the exception was raised and on whether it is an
`Exception`: `Raise` follows them, and `Failed` adds what the handler next to the call does first
(`unlink_if_identity` puts its private claim back).  `cut` remembers the two places where an
interruption defeats the clean-up: the move of the target to a claim, or back, cut short before the
script knows the claim's identity ("claim": a SIGTERM, or a failing `fsync` or `os.stat`, after the
rename), and a signal between the entry of the `finally` clause and its `try` ("finally").  Digests
are modelled by the contents themselves, the test by its two effects (it may fail or succeed; it
does not write the target: the user does).

### MemoryStore

Each session reads once (without the lock) and writes once.  The steps of a write follow
`write_memory` or `promote`, `_recover_stale_claims`, `_cas_publish_at`, `_atomic_create_at`,
`_restore_claim_at` and the pruning; `Raise` is what the except clauses do at each step,
`FailBehind` the failing calls after which they do something else (`RestoreTakenBack`: the look that
follows the restoration's unlink of the claim), `Crash` what the kernel leaves of a session that
dies.  `dropped` is history: the versions that a failing restoration has unlinked with their file.
A document is the number of its version, and versions also stand for modification times, by which
the newest stale claim is chosen. The pruning removes archives one by one.  `CasRegister` has a
value, and a session that accepts a write must have read the value that is current; the refinement
mapping (`Value`) is the version a session would find if no write were under way: the file, or else
the newest claim.

### Vocabulary

Each agent proposes once and applies once; `pc` holds its next step.  There is no lock, so the
steps of two applies interleave freely.  `Propose` stands for `inspect`, `proposal` and the user's
approval of the digest (`token`) and of the candidate.  The steps from `RecoverLook` to
`UnlinkTemporary` are those of `apply` and `_recover_stale_claims`, `DropTemporary` and
`RestoreClaim` its `finally` clause; `Refuse` goes there, `Preserve` is the exit that keeps
claim and temporary because the candidate is installed.  `Fail` says for each step where its
`OSError` is caught.  Time is one bit per inode: `aged` holds those whose content is older than
the 60 seconds after which a claim counts as dead, and `Minute` passes only when no apply is past
its look for claims, because no apply takes a minute.

### FeedbackPublisher

One run at a time (`pc`, `plan`, `at`, `cursor`, `exists`, `done`, `call`), the plan's files
(`draft`, `sealed`, `approved`, and in `doubled` those that are linked to their temporary too, which
every reader refuses), the program that writes one of them (`step`, `writes`, `held`, `checked`), and
GitHub: whether the pull request is open at the approved head,
the comments of each thread and of the pull request, which source comments still exist, which
threads are resolved.  A comment is either one that carries the marker of an action of a plan or
`Plain`; the marker contains the plan's digest, and versions of the plan have different digests.

| action | code |
|---|---|
| `Revise`, `Prepare`, `pin_target`, `CheckSource` | an agent writes the draft by hand, or `prepare_publish_plan.py`: the request, the head it pins, one source after the other |
| `Seal`, `StatOutput`, `LinkOutput`, `UnlinkTemporary`, `WriterFails` | sealing, and the `write_new_plan` of both programs: the look at the output, the link, the removal of the temporary, after which `seal` prints its summary; a failing call or a kill |
| `Start` | `main` of publish with `verify_digest` |
| `VerifyTarget`, `ReadSource`, `ReadPage`, `Repin` | `preflight_plan`: `verify_target`, `non_thread_state`, one page of `thread_state`, and the second `verify_target` |
| `SendReply`, `SendResolve`, `Answer` | the loop of `publish` and the two mutations |
| `Apply`, `ApplyOutlived` | GitHub carries out a mutation: of the run that waits, or of one that is gone |
| `CallFails`, `Kill` | a `PublisherError`, before or after the call took effect; a SIGKILL |
| `Comment`, `DeleteSource`, `ResolveThread`, `Reopen`, `Push`, `Replace` | the others: reviewers, pushes, a file put in the plan's place |

A call that is given up before it took effect may still take effect: the `gh` child of a killed
publisher lives on, a request that timed out is on its way.  `outlived` holds those calls and
`late` remembers them, so that the guarantee of the retry (`OnceInTime`) can name its exception.

### ApiBench

One run at a time: `pc` is its next step, `turn`, `requests`, `attempt` its counters,
`conversation` the messages, `usage` the sum of all answers.  A message is its role and the number
of tool calls that it makes or answers; a call's result stands next to the message that made it.

| action | code |
|---|---|
| `Refuse`, `Start` | `prepare_out_dir` (with and without `--force`), `run_bench` up to its `try` |
| `NextTurn` | the head of the loop: `max_turns`, `max_requests` |
| `TooLarge`, `MockExhausted`, `Retry`, `Wake`, `HttpError`, `NoResponse` | `Transport.send` and `http_post`; a failing `http_post` is not counted as a request |
| `Receive`, `Unparseable` | an answer that `parse_anthropic` or `parse_openai` accepts, and one that they do not |
| `CheckBudget` | the caps on tokens and dollars, `estimate_usd` |
| `CallTools`, `Pause`, `EndTurn`, `OtherStop` | what the stop reason asks for; `ForTools` is its first test |
| `Summarize` | the `finally` clause, and the exit code that `cmd_run` and `main` make of it |
| `Interrupt` | an exception inside the `try` statement: Ctrl-C, a failing write of the transcript |
| `Uncaught` | an exception outside of it: a failing write of `run_start`, `run_end`, `summary.json` or of the output |
| `Kill` | a SIGKILL, or a signal that Python makes no exception of |

`transcript` and `summary` hold the number of the run that wrote the file, 0 for no file: an
earlier run's summary stays beside the transcript of a run that was killed or could not write its own.

### AgentBridge

Each job is one call of `run`, and of `apply` with its result: `pc` and `apc` are their next steps.
One provider is at work at a time, but applies overlap with runs, with each other and with the user
in any order.  A content is the set of the changes it is made of, so that a merge is a union and an
edit in the wrong place shows.

| action | code |
|---|---|
| `Start` | `read_request` and the checks of `cmd_run`: fields, `--allow-write`, Gemini's start-up files (`validate_provider_workspace`) |
| `FirstStatus`, `clone_repository`, `GitFails` | the status before (a delegation refuses a dirty tree), the clone, and a git command that fails or times out anywhere |
| `run_process`, `run_provider`, `parse_provider_output` | the provider writes and ends in every way, is stopped at its timeout or by Ctrl-C; its process group is killed; what it printed decides `outcome` |
| `Fork`, `Exit`, `WriteClone` | the descendants: in the group or detached, at any time; survivors write the clone |
| `StartScan`, `ReadProcess`, `terminate_marked_descendants` | the sweep, one process number after the other; the attempts; the last scan must be empty |
| `Classify`, `PostStatus`, `PostHead` | what follows the sweep; for a consultation the second status and HEAD |
| `ListTracked`, `ListUntracked`, `AddUntracked`, `build_patch`, `DiffAndPersist` | the commands of `workspace_changes` and `build_patch`, then `patch_scope_problem` on the patch itself |
| `BeginApply`, `ApplyHead`, `ApplyStatus`, `ApplyCheck`, `ApplyRead`, `ApplyWrite`, `ApplyCut` | `apply`: HEAD, the status, `git apply --check`, `git apply` (which reads all before it writes, file by file) |
| `Edit`, `Commit`, `Die` | the user; a kill of the bridge, whose provider has a session of its own |

`touched`, `forkers` and `handed` are history: which active files others have changed since a job
last looked, who forked during the present scan, and whether one of those then ended by itself.

### Untangle

A plan is its sequence of lines; of a line the kind and the labels that `parse_plan` reads remain
(`ThreadsValid`, `ChecklistValid`, `RoadmapValid` are its rules).  An agent's pass is `ReadForNext`,
`plan_next` (the check of the tree, the offer), `Work` or `Revert`, `ReadForTick`, `plan_tick` and
`atomic_write`; `Die` may leave the temporary in the tree, where the next check sees it.  The user
commits, records decisions and quotes a checklist line in another section.  `live` holds the records
nobody has replaced knowingly: a tick that replaces the file takes out only what was saved since it
had read (`since`).

### UntangleScan and UntangleCommands

A scan asks git one question after the other: `Questions` holds those before the loop over the
branches in their order (`walk`, `HeadDate`, `Log`, `ListBranches`, `Subjects`), and each branch has
two more (`TipOf`, `IsAncestor`).  `Fails` says what is left of the inventory when one fails: without
HEAD's date or the log there is no activity, without the listing there are no branches, without the
subjects the branches are listed all the same.  `found` holds what the scan has learnt; `Stale` and
`Unmerged` are what it reports.  Between any two questions the others commit, merge, squash (under
the subject of the tip or the title of the pull request), push, delete a branch or rewind HEAD
(`Others`).  `dated`, `listed` and `rewound` are history: what HEAD held when its date and the
branches were read, and whether it has lost commits.  `UntangleCommands` follows either a scan or the
work on a plan: the scan does not touch the plan, and prints or writes its inventory.

### Tracer and SessionImport

`Tracer` keeps the tracer's own variables.  Each event that `mapTracerEvent` distinguishes is an
action that emits its rows; `enqueue`, `flush` and `close` are the batcher's; a batcher has a buffer
and the chain of sends, of which only the first is under way, a request at a time (`send`,
`SendFails`, `Tick`).  A request that timed out may arrive later (`ArrivesLate`).  A session ends by
`session_shutdown`, is cut off with what it holds (`Cut`), or starts again under its id
(`session_start`) while an earlier batcher is still sending.  A row is its id, the number of its
emission, and whether it has an end.

`SessionImport` maps a log by the two mappers (`mapCodexSession`, `mapClaudeSession`: folds over the
records), posts the rows request by request (`postEvents`, `PostFails`), and starts as the hooks and
the command line start it (`hooked`, `notified`, `latest`).  `fetch` has no timeout and is not
aborted: the last request of an import that failed or was killed may have arrived, never arrive, or
arrive at any later time (`adrift`, `ArrivesAdrift`), where it replaces newer rows by its own.  A
row keeps its id, parent, end and the position of the newest record in it.

### Harness, ContractGapRuns, ScreenRuns, ExperimentRuns

A harness is a `script` of steps, and `at` the step it is at; `Invoke` is the operator, who asks for
one phase or for all.  A step is one of the functions the phase calls (`freeze_sources`, `audits`,
`judge`, `summarize` ...) or a pool of sessions.  In a pool a session is taken by a worker
(`StartSession`), answers (`WriteResult`), is accepted (`AcceptSession`, `metrics.json` comes last) or
fails (`FailSession`).  A strict harness then cancels the queue and raises (`CancelQueued`,
`PoolRaises`); a resilient one runs once more what failed (`NextRound`) and goes on without it.
`Killed` may happen at any step.  `sess` keeps of each session what its files keep: transcripts,
which attempt was accepted, which attempt `result.json` is from, its answer and what its prompt was
about.  What an answer is drawn from (`Answers`, `Replies`) is what the phases tell apart.

`ContractGapRuns` is one case with its reviewers as blocks; `ScreenRuns` one case, one reviewer and
the approach that is followed, chosen at the start: the approaches share no session but the frozen
review and the brief.  A review is `Base` or `Added(where its findings are from)`.  The sources have
numbered versions: `sources` is the present one, `frozen` that of the provenance file, `plugin` that of
the copy, `loaded` the one from which `__init__` read the judge's rubric before any phase.  An edit
makes a new version or takes an earlier one back; `unseen` is history: an edit that no hash comparison
can see, because it was taken back or fell between `__init__` and the first provenance.

### TriggerBattery and QaPrograms

A session writes lines into a pipe and may start a child that keeps it open; `select` sees the pipe,
`readline` reads what Python has buffered, `poll` sees that Claude has ended, `ReadRest` reads what
is left, `stop_process` ends the group.  `CheckSession`, `run_prompt` and `score` make the row of a
prompt, `live_eval_runtime` and `RecordMode` are main's loop over the modes.  `QaPrograms` follows
either the battery or the experiments: they share no file.

## 3. Runs

| run | instance | properties |
|---|---|---|
| `trial_user` | 2 scripts one after the other, 2 saves, 1 delete, 1 interruption of any kind at any step, editor by name | `NothingLost`, `MutantHasBackup` |
| `trial_fair` | 1 trial, 1 save (also through an open descriptor), 1 delete, 2 system errors or SIGTERMs, fairness | `RefusedUntouched`, `NothingLost`, `MutantLeaves` |
| `store_crash` | 3 sessions, 2 crashes, handoff, ledger and promotion, 1 archive kept | `NewestKept`, `IsRegister` |
| `store_edit` | 2 sessions, 2 edits of every kind, 1 failing call, 1 crash, fairness | `NothingLost`, `LeavesFile`, `Finishes` |
| `vocab_apply` | 2 agents, 1 edit of any kind, 1 failing call, 1 crash, a glossary that is missing, old or new | `NothingLost`, `LeavesGlossary` |
| `publish_retry` | 3 actions (a thread to resolve, a thread, a comment), pages of 1 comment, 2 plans, 2 runs, 2 faults, 2 acts of others | `OnceInTime`, `ApprovedOnly`, `CompleteIsDone` |
| `bench_run` | 2 runs in one directory, 3 turns, 3 requests, 2 retries a turn, up to 2 tool calls in an answer, 1 scripted turn, 3 tokens, 6 price units, 1 interrupt, failing write or kill | `RequestsBounded`, `CallsAnswered`, `ExitZero`, `SilentPastCap` |
| `bridge_apply` | 1 job, 3 paths (tracked, tracked outside the scope, new), 2 process numbers, 2 sweeps, 1 edit, 1 commit, 2 applies, fairness | `SurvivorsHandedOver`, `PatchInScope`, `AppliedTree`, `ConsultSeen`, `RunEnds` |
| `plan_tick` | 2 agents, 2 passes each, 2 edits, commits, deaths; or a scan of 2 directories and 3 branches with 2 dates, 2 changes by others, 1 failing command | `RecordsKept`, `OneAtATime`, `StaleIsStale`, `UnmergedIsOpen` |
| `trace_rows` | a session of 2 events and 2 starts with 1 fault, batches of 3, requests of 2; or 3 imports, 2 at once, of 2 logs of 2 records in all, 1 failure, whose request may arrive at any later time; fairness | `RowsCurrent`, `EndsAll`, `NoStray`, `CaughtUp`, `Drains` |
| `qa_runs` | 2 blocks, 2 risks, 2 workers, 2 rounds, 3 faults (1 in a strict harness, at most 1 kill, 2 edits of the sources), 2 invocations; or 2 modes, 2 prompts, 2 lines | `FailClosed`, `JudgedAsItStands`, `SameSources`, `RisksOnce`, `GateIsMet`, `AcceptedStands`, `RowIsTrue` |
| `experiment_advance` | violates `AdvanceIsRuled` | section 4 |

What each shows:

* `trial_user`, `trial_fair`: no content that the user had or saved is lost (`NothingLost`); while the
  target holds the mutant, the backup beside it holds what was replaced (`MutantHasBackup`); a trial
  that refuses leaves the target as the user left it, unless one of the two moves that `cut` names was
  cut short (`RefusedUntouched`), and then nothing is lost either; the mutant leaves the target or the
  failed restore is reported, unless the test never ends (`MutantLeaves`).
* `store_crash`, `store_edit`: the memory file is a register (`IsRegister`) and its newest archives
  stay (`NewestKept`); nothing accepted or saved by an editor is lost but in one failing call
  (`NothingLost`, which names it); a refused write leaves a file (`LeavesFile`); all writers get the
  lock and end (`Finishes`).
* `vocab_apply`: nothing is lost although there is no lock (`NothingLost`); a glossary stranded by a
  dead agent comes back with the next apply (`LeavesGlossary`).
* `publish_retry`: a reply stands twice only if its first call outlived its run (`OnceInTime`), what is
  posted is the plan the user approved (`ApprovedOnly`), "complete" means done (`CompleteIsDone`).
* `bench_run`: the cap on requests is exceeded by at most the retries of one turn
  (`RequestsBounded`); nothing is sent once the answers so far exceed the tokens or the dollars
  (`SilentPastCap`); every request is one the provider's format allows (`CallsAnswered`); after exit 0
  the conversation has ended and the summary is the run's own (`ExitZero`).
* `bridge_apply`: a process survives a run that reports success only if, during the last scan, a
  process it descends from forked and ended before the scan came to it (`SurvivorsHandedOver`); the
  patch stays in scope whatever survivors write (`PatchInScope`); "applied" and "completed" are what
  the tree shows but for concurrent edits (`AppliedTree`, `ConsultSeen`).
* `plan_tick`: what was recorded is lost only to a tick that had read before it (`RecordsKept`); the
  tree mixes two items only if two agents passed its check together (`OneAtATime`); a directory that a
  scan calls stale, a branch that it calls unmerged, was so when it looked, although the repository
  changes between its questions (`StaleIsStale`, `UnmergedIsOpen`).
* `trace_rows`: the collector has the last row of each id (`RowsCurrent`); after a shutdown no span is
  open (`EndsAll`); repeated imports add no second row (`NoStray`) and one that meets neither another
  import nor a late request repairs what failed (`CaughtUp`); queues get empty (`Drains`).
* `qa_runs`: an accepted session stands (`AcceptedStands`); what is added to a review rests on
  accepted answers that are still there (`FailClosed`); a verdict is about the reviews on disk
  (`JudgedAsItStands`); all evidence is from the sources that were frozen, unless an edit escaped
  the hashes (`SameSources`); a risk is decided once (`RisksOnce`); the battery's rows and exit code
  are true (`RowIsTrue`, `GateIsMet`).

**Bounds.**  Seven inodes (eight for the glossary) are enough for every name at once and an open
file; `Free # {}` never blocks a step of the runs.  Two runs of the scripts cover a crash and what
finds its leftovers.  Two edits are needed for a save that lands in a claim while another creates a
new target.  `trial_user` has one interruption of four kinds; `trial_fair` has two, so that the second
may strike the clean-up of the first.  In `store_edit` one call fails and one session dies, so that a
recovery meets an editor and an error.  In
`store_crash` two of three sessions may die, the third must cope with what both left.  The archive
keeps one entry instead of five so that pruning happens.  `Rest` stands for the end of everything, so
that any other deadlock is an error; the runs that turn deadlock checking off are those of programs
that really stop when the bounds are used up and nobody starts them again.
`vocab_apply` has a second agent for every race and one of each accident; a claim of a dead agent
and an edit meet in it.  In `publish_retry` pages hold one comment instead of 100, so that three
comments are three pages; the second run is the retry, and of its two faults one may fall on each
run.  The three actions are the three kinds that the code tells apart.  In `bench_run` three turns
allow a tool turn, a scripted turn and the end; retries can push `requests` past its cap in the last
of them; two of the answers exceed the dollars while neither does so alone; the second run finds the
files of the first.
In `bridge_apply` two process numbers are a parent and a child, which is what a scan can miss; two
sweeps are one that finds something and the last one, which must not; two applies are the retry, or
an apply after the tree has changed.  With one job no two patches meet; the theorems, which hold for
any jobs, cover that.  Two items and two agents are the smallest plan in which a tick
can overwrite another and an offer be stale; the second pass works on what the first one left.  The
scan's three branches are one named after its pull request and two of the same tip; two changes are a
commit or a merge between two questions and another one after it; with two dates and a threshold
between them a directory is stale or not by the date that is read.
In `trace_rows` a batch of three with requests of two gives two requests in one send, and two starts
two batchers; two logs make `--latest` ambiguous.  In `qa_runs` two blocks let one session of a pool
fail while the other is accepted, two rounds one retry, two invocations one resumption, two edits one
that is taken back; two modes let the first fail and the second pass.

**Fairness.**  `FairSpec` of `MutationTrial` is weak fairness of the script's own steps
(`OwnSteps`): the operating system runs it, nobody has to interrupt it.  The end of the test command
is not fair, because `subprocess.run` (`mutation_trial.py:322`) has no timeout: a trial may wait for
ever with the mutant in place, and `MutantLeaves` says so (`pc = "test"`).  That of `MemoryStore` is
weak fairness of each session's writing steps; a waiting `Acquire` needs only that because sessions
are finitely many, each takes the lock once, and the model's lock is granted to some waiter whenever
it is free.  `FairSpec` of `AgentBridge` is weak fairness of each job's own steps: every command the
bridge waits for has a timeout; forks, ends, edits and commits are not fair, and descendants may
fork forever.  That of `Tracer` is weak fairness of each batcher's timer and of its current request,
which is answered or ends at its timeout.  The other runs check safety only.

**What the runs leave out, by constants.**  `Handles` and `Late` open windows of one system call
that no program can close without a lock shared with the editor: a write through an old
descriptor after the last hash of the claim (`Handles = "late"`), an in-place save or a rename
between a check and the removal or replacement that relies on it (`Late = TRUE`, of the memory store
and of the glossary), and, with `Late`, the reuse of the number of an inode whose descriptor the
memory store has closed.
`NothingLost` does not hold there.  `IsRegister` is checked without failing calls: taking a
publication back after an error is a step no register has.

## 4. Findings

`experiment_advance`: the mechanics harness can decide "advance" over a delta that no judge has read.
A block whose discovery or coverage session failed in every attempt keeps its frozen review, and
`judge` writes a tie.  After a resumption the audits add a finding, but `judgment.json` exists and is
left alone (`run_mechanics_redesign.py:559-560`); if the new judge session fails, or rules against the
delta, `summarize` still counts a tie.  `mechanics-redesign-gate.json:11` allows no unjudged delta.
The replication harness has the same clause; the tournament rewrites the tie and raises when a judge
fails.

### What does not hold

These are the statements that the passing runs make room for, by a constant, an exception named in
the property, or a fault that an instance leaves out.

Mutation trial
* Between `claim_target`'s rename and the assignment of the claim's identity
  (`mutation_trial.py:124-127`, `mutation_backup.py:601-603`) a SIGTERM, or a failing `fsync` or
  `os.stat`, ends the trial with exit 1 and no target, although lines 8-10 promise that exit 1 changed
  nothing: the except clause does not know the claim, so it does not return it.  The same holds of the
  way back (`relink_claim`) when it is cut short.  The bytes stay readable under the claim's name.
  `RefusedUntouched` excepts it (`cut = "claim"`).
* A signal between the entry of the `finally` clause (`mutation_trial.py:327`) and its `try` skips
  the restore and exits 1 with the mutant in place (`cut = "finally"`); the backup is there
  (`MutantHasBackup`).
* A test command that never ends leaves the mutant in place as long as it runs.
* A write through a descriptor opened before the claim, after the last hash of it
  (`mutation_trial.py:198`), is deleted with the claim (`Handles = "late"`).
* With two edits, one of them through such a descriptor before the last hash, an edit is lost: the
  second hash of the claim sees the first edit and the roll-back removes what is published by its
  inode alone (`unlink_if_same_inode`, `mutation_backup.py:354-369`), though the other edit has been
  saved in place into it.  So `NothingLost` is checked with one edit in `trial_fair`, and with two
  by editors that keep no descriptor in `trial_user`, where it is proved as well.
* A save between `read_target` and `backup` makes the trial refuse with its `.mutbak` left behind.

Memory store and vocabulary
* A read during another session's write returns `absent` for a memory that exists
  (`memory_io.py:311`; `memory-contract.md:32-33` distinguishes the two).
* A restoration links the claim back, unlinks it and looks at the file once more; when that look fails
  (`memory_io.py:433`), the except clause (439-444) unlinks the file as well, and with it the only
  copy.  `NothingLost` excepts those versions (`dropped`), and the invariant of `StoreLosesNothing` shows
  that no other failing call loses one.
* The recovery of a stale claim renames over a file that appeared after the look
  (`memory_io.py:476`): the theorem `FileNeverReplaced` needs `~Late`.
* A claim of the glossary counts as dead when its *content* is older than a minute, because a rename
  does not touch the modification time.  An apply may move the claim of a live one back to the
  target, and the owner is then refused; nothing is lost.
* A write through a descriptor opened before the claim, between `apply`'s last read of the claim
  (`glossary_file.py:502-508`) and its unlink (509), is deleted with it (`Late`).
* A claim whose inode has a second name, the temporary of another writer that died too, is not
  recovered (`glossary_file.py:317`; the comment at 298-307 promises that a crashed writer's state is).
  It takes three agents and two crashes; `LeavesGlossary` excepts it.

Feedback publisher and api bench
* A publisher dies while its `gh` child is still sending; the retry finds no marker, posts the reply,
  and the first call lands as well (`publish_plan.py:315`; `SKILL.md:82-85` promises that a serialized
  retry skips an already-posted reply).  `OnceInTime` names the exception.
* An answer that `parse_anthropic` or `parse_openai` rejects raises outside the `try` that sets the
  status: `summary.json` says `completed`, the exit code is 1 (`api_bench.py:706`; `spec-schema.md:97`
  and 102 promise `provider_error` and 2).  A Ctrl-C leaves `completed` as well: only the exit code
  can be trusted.
* A run with `--force` that is killed, or whose write of `run_end` fails (`api_bench.py:790`), leaves the
  summary of the earlier run beside its own transcript.

Agent bridge
* A descendant that forks during the last scan and ends before the scan reaches it hands its child
  over (`SurvivorsHandedOver` names the case); a survivor may write the clone afterwards.
* `apply` compares HEAD and the status by two commands, and checks and writes by two more: an edit in
  between is merged or overwritten (`AppliedTree` excepts what others have touched since).
* A consultation does not report a file that was dirty before and changed once more, because the
  status code stays what it was (`SKILL.md:26` says that a moved tree is reported).
* `git apply` that is killed at its timeout may have written some of the files.

Untangle
* There is no lock: a decision recorded between `tick`'s read and its `os.replace` is overwritten.
* `tick` marks the first line anywhere that reads like the item (`untangle.py:999-1004`); the
  docstring (20-22) speaks of the checklist.  A quoted line is ticked in its stead, and `next` offers
  the item again.
* When the log of the subjects fails, every listed branch that HEAD does not hold is reported unmerged,
  squashed ones too (`UnmergedIsOpen` asks for the subjects); an error of `merge-base` reads as "not an
  ancestor", though the subjects may still tell.
* Only the first branch name of a tip counts: the pull request that another name tells is not looked up.
* The head that a scan prints and HEAD's date are two questions, so they may be of two commits.
* An inventory written as `.untangle-scan.json` makes the tree dirty for `plan next` until it is deleted.

Eval stack
* A request that fails is not repeated; its rows are missing until their ids are emitted again.
* The trace row of a resumed session replaces the earlier one with fewer fields.
* Two imports of one log that overlap may leave the older rows, and so does a request of an import that
  was killed when it arrives after a later import (`import-codex-session.mjs:576`,
  `import-claude-session.mjs:459`); the next import that meets neither repairs them.

Experiments and battery
* The mechanics harness copies the plugin before it hashes the sources, and the screen looks at its
  sources only in setup: `SameSources` is stated for the others.
* The harnesses compare hashes when a phase begins: an edit that is taken back before the next
  phase, during a pool or between the freeze and the copy of the plugin
  (`run_live_matrix.py:223-228`), is not seen, and neither is one between `__init__` (149-163),
  which reads rubric, schemas and cases, and the first provenance.  A summary may then rest on
  sessions of other sources.  `SameSources` excepts it (`unseen`).
* The screen's `combined_candidate` replaces a candidate's hashes by those of the present files; two
  decisions of per-risk sessions about each other's risks pass the assembly, swapped.
* "At most two transport attempts" (`run_candidate_replication.py:309`) counts per invocation.
* A session that was accepted with an answer its validator rejects is never run again: the phase
  cannot be finished.
* The matrix summary does not look at `control-results.json`, and `reviews` can be asked for after
  failed controls.  A capacity failure is not recorded.
* The battery: children that ignore SIGTERM or outlive a normal exit survive; `stdout.read()`
  (`trigger_battery.py:737`) waits past the deadline while a child holds the pipe; a routing line in
  Python's buffer is not seen until more output comes or the stream ends; only `RuntimeError`s are
  retried; result files of earlier modes remain after exit 2.

## 5. Proofs

The theorems hold for every value of the constants that the modules' assumptions allow, not only for
the instances of the runs.  Each follows from an inductive invariant: it holds initially, every action
keeps it (one lemma or step per action), and it implies the property.  What TLC checks on a small
instance and TLAPS for all of them is the same definition.

`MutationTrial_proofs` proves, for any set of inodes and edits, any number of runs and faults unless
the list names a bound:

* `TypeCorrect`: `Spec => []TypeOK`;
* `BackupInvariant`: `Spec => []BackupInv`, the inductive invariant of the next one;
* `MutantBacked`: `Spec => []MutantHasBackup`;
* `NothingIsLost`: `[]NothingLost`, if `Handles = "never"`;
* `RefusedHasNoMutant`: for one trial, a refused trial leaves no mutant in the target, unless a signal
  cut its `finally` clause short;
* `RefusedIsUntouched`: `[]RefusedUntouched` for one trial, whatever strikes it and however often;
* `TargetNeverReplaced`: `Spec => NeverReplaces`.

`MutantHasBackup` is not inductive: a mutant can come back to the target from a claim, a private
claim or a temporary, and the backup could be changed by a write through another link.
`BackupInv` therefore says where a mutant may be (`BackedMutant`, `CleanBefore`, `RestoreClean`),
that the backup shares its inode with nothing a user or a swap can write to (`BackupApart`), that
a backup never holds a mutant (`BackupClean`), and which steps belong to which phase
(`PhaseOfStep`, `PrivateNames`).  The lemmas follow the structure of `Next`: one for the script's
own steps, one for interruptions (`TornKept` bounds what a step cut short can leave), one for
a kill, one for a new start, one for the user.  The proofs assume `DirectoryAssumption` and
`TrialAssumption`: the mutant differs from the original and from what the user saves.

`NothingLost` speaks of names, and the scripts remove names all the time.  `LostInv` says that what
has to stay is held by a name that no script is about to remove (`Held(dir, strays, Lasting)`), and
why each removal is safe: the swap holds in the backup what it has claimed (`SwapBacked`), a claim
that is dropped was found to be what the backup holds (`ClaimKept`), a backup that is dropped has
its bytes elsewhere (`BackupSpare`), what is not saved yet is nowhere (`UnsavedNowhere`).  Without a
descriptor opened beforehand, a claim cannot change after its hash, so the roll-back (`TakeBack`) is
not reached, which the invariant shows as well.  The refusal is proved for any number of errors and
signals: its invariant (`RefusedClean`, `PresentInv`) says at which steps the target is present, and
that it is missing otherwise only with `cut`, the exceptions of section 4.

`FeedbackPublisher_proofs` proves, for any number of actions, any threads to reply in and to
resolve, any size of a page and any bounds, the type invariant and every safety property of the
publisher:

* `TypeCorrect`, `PublishesApproved`, `CompletionIsDone`: `[]TypeOK`, `[]ApprovedOnly`,
  `[]CompleteIsDone`;
* `ApprovedIsReadable`: `[]ApprovedReadable`, that a plan whose digest the user was given has one link,
  so that `publish` does not refuse it, however its writer ended;
* `StaleIsSilent`, `RepliesFirst`: the action properties `StaleSendsNothing`, `ResolvesAnswered`;
* `PostsOnceInTime`: `[]OnceInTime`.

All but the last follow from the invariant `IInv`.  `Written` follows the program that writes a
file: the sealed plan has a second link only while the user has no digest.  `Shape` says which call
and action belong to each step, `Carried` that a run and the calls of dead runs carry the approved
plan, `Fresh` that a run which may mutate had the right head when its mutations began, `Sound` that
what the run takes for posted is posted, and `Progress` that what lies behind it in the plan is
done.

`OnceInTime` needs the converse of `Sound` as well: what is posted, the run knows.  A comment may be
on a page the run has not read yet, or be posted by a call of an earlier run after the run has read
its page.  `Known(a)` says that the reply of `a`, if it is there, was found or comes from a call
that outlived its run; `Unseen` says for which actions each step may count on it: in preflight those
behind `at`, and of the action at `at` what lies before `cursor`; later, those from `at` on.  A reply
is sent only for an action that is not in `exists`, so that a second occurrence needs such a call.
The proof assumes `PublisherAssumption` and nothing about faults, kills or the acts of others.

`ApiBench_proofs` proves, for all caps, prices, limits and usages (`BenchAssumption`), any number of
runs and faults, every safety property of the bench from the invariant `IInv`:

* `TypeCorrect`, `RequestsAreBounded`, `CallsAreAnswered`, `ZeroMeansFinished`:
  `[]TypeOK`, `[]RequestsBounded`, `[]CallsAnswered`, `[]ExitZero`;
* `NothingPastCap`: the action property `SilentPastCap`.

`RequestsBounded` is not inductive, because a retry adds a request without looking at the cap:
`Counted` bounds `requests` by the attempts of the present turn.  `Within` says that the sum has been
compared wherever something may still be sent, `Talk` that all calls are answered, or, between an
answer and its tool results, all but those of the last message, `Ending` when the status can be
trusted, `Owned` that a run which is under way owns its transcript.

`AgentPrograms_proofs` proves of the bridge, for any jobs, paths, processes, numbers of sweeps,
edits, commits and applies (`BridgeAssumption`), every safety property from `BridgeInv`:

* `TypeCorrect`, `PatchesInScope`, `AppliedTreeIsBaseWithPatch`, `ConsultationsAreSeen`,
  `SurvivorsWereHandedOver`: `[]TypeOK`, `[]PatchInScope`, `[]AppliedTree`, `[]ConsultSeen`,
  `[]SurvivorsHandedOver`.

`AppliedTree` is not inductive: `Shown` follows what HEAD, the status and the reading of `git apply`
have each shown of a file that nobody has touched since, and what has been written so far.  `Looked`
says what the second status of a consultation has shown; that HEAD is still the base then means that
its files are the base's, because HEAD only moves forward (`Commits`).  For the sweep, `Chased` says
that while a scan has found nothing, each process behind the reader was forked by one still ahead of
it: that one may end by itself, which is the exception the property names.  `Phases` says which modes
and results go with which step.

It also proves the four safety properties of `trace_rows`, for any sessions, calls, sizes of batches and
requests, events, starts, faults, imports and records (`TracerAssumption`, `ImportAssumption`: the sizes
are positive, sessions and the ids in a log are numbers):

* `TracerSafe`, with `CollectorCurrent` (`[]RowsCurrent`) and `SpansEnded` (`[]EndsAll`) from it.
  `RowsCurrent` is not inductive: it is silent while a row waits.  `Waiting` says what waits then: the
  last row of an id in a queue is the last one that was emitted, behind every older one, and it waits
  in one queue only.  A request takes the front of a chain and `Storing` the last of its rows, so
  `SplitSend` (a sequence cut in two ends with the same row of each id) is the lemma that each answer
  needs.  `LateFailed` says that what may still arrive late is under an id that has failed, which
  `RowsCurrent` excepts.  For `EndsAll`, `Unended` says that the last row of a span has an end unless
  the state still has the span open, `Forgotten` that without a batcher the state has none, so an
  event may not drop a span without emitting its end.
* `ImportSafe`, with `ImportsAddNoStray` (`[]NoStray`) and `ImportsCatchUp` (`[]CaughtUp`) from it.
  `OfTheLog` says of the rows that are stored and of those still to post that the present log maps to
  their ids; the log may have grown since it was read, so this rests on `EventsGrow`, that the ids of a
  log are among those of the log with one more record.  `Clean` says of an import that met no other
  that it is alone with its session and that the collector has all it read, each row as it was last
  mapped, but for those it still posts; `Done` what remains of that when it is over.  A request that is
  adrift belongs to the present log as well (`StoredOfTheLog`), and its arrival ends both: the import it
  meets is no longer clean (`AdriftKeeps`).

A mapping is a fold over the log, and the library's induction theorems cannot be applied here.
`Counted` is induction on numbers from the well-foundedness of `<` (`WFMin`), by a set instead of an
operator; `FoldExists` uses it to show that the recursive function inside the library's fold exists,
`CodexGoesOn` and `ClaudeGoesOn` that a fold over one record more is one more step.  A step only
appends rows or changes rows in place under their ids (`Grows`): `CodexLineGrows`, `ClaudeLineGrows`.

`MemoryStore_proofs` proves, for any sessions, crashes and errors unless the list names a bound:

* `NewestAreKept`: `[]NewestKept`, for any number of archives kept;
* `FileNeverReplaced`: `~Late => (Spec => NeverReplaces)`, by the invariant `Vacant`, that the target's
  name is free while a recovery is about to rename a claim to it;
* `StoreLosesNothing`: `[]NothingLost`, if `~Late`, or without an editor;
* `FileIsLeft`: `~Late => (Spec => LeavesFile)`;
* `StoreIsRegister`: `Spec => IsRegister`, without an editor and without failing calls: the store
  implements `CasRegister`, whatever crashes.

`KeptInv` is the invariant of `StoreLosesNothing`: every version that has to stay is held under the
target, a claim, the archive or as a leftover (`Held`), unless a failing restoration has unlinked it
(`dropped`), the temporary and the claim are the lock holder's
(`Owned`), and what the holder is about to remove is a document that was not accepted yet or the
version its write has replaced (`Fits`); versions only grow (`Dated`).
`FileIsLeft` adds to it where the file is while it is not in place (`InReach`): with a claim of the
holder that the restoration takes, because no other name leads to it, or with a claim of a dead writer
that the recovery still ahead takes.  `Unshared` says why no publication is taken back unless another
file took its place: the new inode has no other name.  The property excepts failing calls and the
editor's deletion, and so does the invariant (`Clean`).
For the refinement, `QuietInv` adds that what lies under the names is ordered (`Ranked`: a leftover
claim is older than the holder's claim, that one than the file) and what the holder knows at each step
(`Knows`), so that a session that accepts has the current version for its token.  The refinement
mapping chooses among claims with a count of links; `ValueIs` shows that the count, on states of the
invariant, says the same as `Val`, which compares names.  `StepRefines` then maps each step: most
change no value, a read drafts, the publication is the acceptance, and a crash, a refusal or an
undone write leave the register alone.  `StoreAssumption` adds to `DirectoryAssumption` only that no
pair of an inode and a version is `NoFile`.

`Vocabulary_proofs` proves `GlossaryNeverReplaced` (`NeverReplaces`) with no premise on the editor:
the glossary comes back by a link or by `renameat2` with `RENAME_NOREPLACE`, which fail when the
name is taken.  `GlossaryNotLost` is `~Late => (Spec => []NothingLost)` for any finite set of agents
(`VocabularyAssumption`), by `GlossaryInv`: what has to stay is held under the target or under a
claim, temporaries do not count, because each apply removes its own; an agent that is about to
remove its claim has found the digest its user approved in it, and no temporary is a second name of
it (`Checked`); a recovery picks the claim of an agent, and moving it keeps its bytes.
`GlossaryIsLeft` is `~Late => (Spec => LeavesGlossary)`: `LastApply` says that while an agent works
alone, the editor is done and no call has failed since (`Spent`), what was kept is in reach.  It is
in place, or in a claim that the recovery still ahead will find: the lemma `AloneFinds` takes the
youngest claim for it.

`Untangle_proofs` proves all four properties of `plan_tick`:

* `ChangesOneItemAtATime` (`[]OneAtATime`), for any number of agents and passes, by `Alone`: unless two
  agents have met, at most one holds an offer, only while the tree is clean, and the tree holds the
  changes of at most one item;
* `RecordsAreKept` (`[]RecordsKept`), for plans of any length: `HasRead` says that the plan holds
  nothing but what an agent between its read and its replacement has in its text, or what was saved
  since (`since`), `HasItem` that its text has the line it is about to tick.  The lemmas before it show
  that a tick, a survey and an edit, which build new sequences, keep the records of all other lines;
* `StaleWasStale` (`[]StaleIsStale`) and `UnmergedWasOpen` (`[]UnmergedIsOpen`), for any repository and
  any number of changes and failures, by `ScanInv`: the questions have been asked in their order
  (`InOrder`), and, unless HEAD was rewound, the log holds what HEAD held when its date was read, the
  subjects those of the commits that it held when the branches were listed (`SeesLater`).

`QaPrograms_proofs` proves all seven properties of `qa_runs`:

* `BatteryGateIsMet` (`[]GateIsMet`) and `BatteryRowIsTrue` (the action property `RowIsTrue`), for any
  number of modes and prompts, and streams of any length.  `SessionInv` says that what a session has
  written is what was read, what is buffered and what is in the pipe together (`Conserved`), and
  that an end before the pipe is empty comes only when no further line can change the row; `MatrixInv`
  that the modes before the present one met their thresholds unless `gate_failed`;
* `HarnessAcceptedStands` (the action property `AcceptedStands`), for every harness, by `PoolInv`: what
  is queued, running or failed is not accepted, and nothing is in the pool twice;
* `SummaryOfOneSource` (`[]SameSources`), for the harnesses of `Guarded`.  `HarnessInv` adds to the
  pool that tries are counted (`Tallied`) and, as long as no edit has escaped the hashes
  (`~unseen`), `SourcesInv`: the provenance and the copy of the plugin are taken in that order
  (`Versions`, `Placed`), what `__init__` read is what the present phase has compared (`Loaded`), an
  answer is about the version it ran (`AnswersOf`), the matrix comes past its reviews only with all
  of them accepted (`ReviewsPlaced`), and a summary was made when the sources were still those of
  the provenance (`SettledInTime`).  A script is a sequence of steps; that its phases come in this
  order (`ScriptOrdered`) is proved of each script from its text;
* `RiskIsDecidedOnce` (`[]RisksOnce`), for the screen of review units.  `ScreenInv` says that past its
  place in the script the edge-index session is accepted and the sealed risks are those of its answer
  (`Briefed`), and so with the coverage map of the filter (`Filtered`); that a session in the hands of a
  strict pool stays there until it is accepted (`Held`), whatever fails or is resumed; and so that
  nothing an assembled review was read from changes afterwards (`Stands`).  The rest is the assembler's
  own check: a session decides its own risk or a batch names each once (`DecidedOnce`).
* `FindingsFailClosed` (`[]FailClosed`) and `VerdictsStand` (`[]JudgedAsItStands`), for all five
  harnesses.  What makes them hard is the second invocation: files of the first are there, whatever it
  failed at, and its phases run again over them.  Two inductive invariants, one for the four harnesses
  of contract gaps (`AuditsInv`) and one for the screen (`ScreenMore`, on top of `ScreenInv`), have the
  same parts.  `AnswersTold`: what a session in a pool will be shown is accepted, and what an answer
  was about is what is there.  `Holding` (`ScreenHeld`): a pool still has all that its phase asked for,
  unless it is accepted or, in a harness with rounds, was given up (`GivenUp`).  `OnTheWay`
  (`ScreenPlaced`): so past a phase its sessions are decided, and reviews and ties are on disk.
  `AdmissionsStand` (`ReviewStands`): a review that adds something, and every review of a strict
  harness, is what would be put together from the accepted answers again; so a later invocation, which
  writes it anew, leaves it as the judge read it.  In the mechanics and replication harnesses a review
  without an addition is not settled: that is the finding of `experiment_advance`, and why
  `JudgedAsItStands` asks of their ties nothing.

They assume `BatteryAssumption`, `BlocksAssumption` and `RisksAssumption`: there is a mode, and the
blocks and the risks are numbered.

## 6. Checked only by TLC

* Liveness: `MutantLeaves`, `Finishes`, `RunEnds` and `Drains`; it is out of the prover's reach.

Every safety and action property of a passing run is stated by a theorem of section 5, some with a
premise that is named there.

## 7. Not modelled

Directory traversal by descriptors, modes, sizes and decoding; `fsync` (a crash loses no completed
system call here); the schema of a plan and the text of replies; the validation of memory documents.
Of the bench: the validation of a spec, credentials and their redaction, the matching of stubs, the
events inside the transcript, and the rounding of the estimate (`api_bench.py:627`): the sum of
dollars is exact here, so a cap that the sum misses by less than a millionth is out of the model. Of
the bridge: argument lists and output formats beyond what decides a status, the environment of the
provider, digests of result files, symbolic links and submodules, and two providers at work at once.
Of untangle: what a scan counts in the contents of the files it has listed, and prints. Of the eval
stack: redaction, truncation, costs and configuration. Of the harnesses: the schemas and the list of
cases that `__init__` reads (of what it reads only the judge's rubric is followed), prompts, git
worktrees, costs, more than one case and sample, and the screen's risk router, whose output nothing
reads.  Of `qa/` otherwise: the scripts that prepare fixtures and compare files. The read-only
scripts and the linters under `tools/` keep no state between two calls, and skills and documentation
are prose: they are quoted where they promise something of the scripts.
