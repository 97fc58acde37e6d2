------------------------- MODULE FeedbackPublisher -------------------------
(***************************************************************************)
(* pr-feedback: a plan of replies to a reviewer is drafted by              *)
(* prepare_publish_plan.py, which pins the head of the pull request and    *)
(* looks for the sources of the plan, sealed by publish_plan.py under a    *)
(* digest that the user approves, and published to GitHub.  Both programs  *)
(* write a temporary and link it to an output that must not exist; a file  *)
(* with two links is refused.  The publisher checks that the pull request  *)
(* is open and at the approved head, reads every thread page by page for a *)
(* marker that an earlier run of the same plan may have left, checks the   *)
(* head again, then posts what is missing and resolves what is to be       *)
(* resolved, in the order of the plan, and stops at the first error.       *)
(*                                                                         *)
(* The user starts a program only after the last one ended.  It may be     *)
(* killed, a call may fail before or after it took effect, and the others  *)
(* who use the pull request comment, resolve, reopen, push and close at    *)
(* any time.                                                               *)
(*                                                                         *)
(* A comment is <<plan version, action>> if it carries that marker, and    *)
(* Plain otherwise.  Two versions of a plan have different digests.        *)
(***************************************************************************)
EXTENDS Naturals, Sequences

CONSTANTS Actions,    \* how many actions a plan has; they are numbered in order
          Threads,    \* those that reply in a review thread, the others reply
                      \* on the pull request itself
          Resolving,  \* those that resolve their thread
          Page,       \* comments per page: 100 in the code
          MaxRuns, MaxFaults, MaxOthers, MaxPlans  \* bounds

ASSUME PublisherAssumption ==
    /\ Actions \in Nat \ {0} /\ Threads \subseteq 1 .. Actions /\ Resolving \subseteq Threads
    /\ Page \in Nat \ {0}
    /\ MaxRuns \in Nat /\ MaxFaults \in Nat /\ MaxOthers \in Nat /\ MaxPlans \in Nat \ {0}

VARIABLES
    draft, sealed,  \* the plan versions in the two files, 0 for a missing one
    approved,       \* the version whose digest the user passes to publish
    step, writes,   \* the program that writes a file: its next step, and which file
    held, checked,  \* the plan it holds, and how many of the plan's sources it has found
    doubled,        \* the files that are linked to their temporary too
    pinned,         \* whether the pull request is open and at the head the plan pins
    comments,       \* those of each thread, and of the pull request (0)
    sources,        \* the actions whose source comment still exists
    resolved,       \* the threads that are resolved
    closed,         \* the threads that have ever been resolved
    pc, plan,       \* the run: its next step and the plan it has read
    at, cursor,     \* the action and the page it has come to
    exists, done,   \* reply_exists and resolved, as its preflight read them
    call,           \* the call it waits for
    outlived,       \* calls whose run is gone, and that may still take effect
    late,           \* those that ever were among them
    stale,          \* the head had moved before the run could mutate anything
    runs, faults, others  \* what the bounds count

fileVars == <<draft, sealed, doubled>>
writerVars == <<step, writes, held, checked>>
planVars == <<fileVars, approved, writerVars>>
remoteVars == <<pinned, comments, sources, resolved, closed, stale>>
runVars == <<pc, plan, at, cursor, exists, done, call, outlived, late>>
boundVars == <<runs, faults, others>>
vars == <<planVars, remoteVars, runVars, boundVars>>

All == 1 .. Actions
Place(a) == IF a \in Threads THEN a ELSE 0
Plain == <<0, 0>>
NoCall == <<"none", 0, "none">>

Reading == {"pin", "source", "pages", "repin"}
Mutating == {"reply", "resolve", "wait"}
Ended == {"idle", "complete", "failed", "aborted", "killed"}

PlanType ==
    /\ draft \in 0 .. MaxPlans /\ sealed \in 0 .. MaxPlans /\ approved \in 0 .. MaxPlans
    /\ doubled \subseteq {"draft", "sealed"} /\ writes \in {"draft", "sealed"}
    /\ step \in {"rest", "pin", "sources", "stat", "link", "unlink"}
    /\ held \in 0 .. MaxPlans /\ checked \in 0 .. Actions

RemoteType ==
    /\ pinned \in BOOLEAN /\ stale \in BOOLEAN
    /\ comments \in [Threads \cup {0} -> Seq({Plain} \cup (1 .. MaxPlans) \X All)]
    /\ sources \subseteq All /\ resolved \subseteq closed /\ closed \subseteq Threads

RunType ==
    /\ pc \in Reading \cup Mutating \cup Ended /\ plan \in 0 .. MaxPlans
    /\ at \in 1 .. (Actions + 1) /\ cursor \in Nat
    /\ exists \subseteq All /\ done \subseteq Threads
    /\ call \in {"none", "reply", "resolve"} \X (0 .. Actions) \X {"none", "sent", "applied"}
    /\ late \subseteq {"reply", "resolve"} \X All \X (0 .. MaxPlans) /\ outlived \subseteq late

BoundType == runs \in Nat /\ faults \in Nat /\ others \in Nat

TypeOK == PlanType /\ RemoteType /\ RunType /\ BoundType

-----------------------------------------------------------------------------
(* Drafting and sealing the plan *)

PlanStep == UNCHANGED <<remoteVars, runVars, runs, faults, others>>
File(f) == IF f = "draft" THEN draft ELSE sealed
\* read_json_file and validate_plan: a missing file, or one with two links, is refused
ReadPlan(f) == IF f \in doubled THEN 0 ELSE File(f)
\* A valid request asks for one of the plans
Requests == 1 .. MaxPlans
Doing(s) == step = s /\ UNCHANGED <<approved, writes, held>>
Go(s) == step' = s
Stops == Go("rest") /\ UNCHANGED <<fileVars, checked>>

\* The agent writes a draft by hand, or edits it
Revise == /\ PlanStep /\ approved = 0
          /\ draft' \in 1 .. MaxPlans /\ UNCHANGED <<sealed, doubled, approved, writerVars>>

\* main of the preparation reads a request; its output is to be a new file
Prepare ==
    /\ PlanStep /\ step = "rest" /\ approved = 0
    /\ held' \in Requests /\ writes' = "draft" /\ checked' = 0 /\ Go("pin")
    /\ draft' = 0 /\ doubled' = doubled \ {"draft"} /\ UNCHANGED <<sealed, approved>>

\* The plan pins the head as it is; a closed pull request is refused
pin_target ==
    /\ Doing("pin") /\ UNCHANGED <<runVars, boundVars, comments, sources, resolved, closed>>
    /\ \/ pinned' = TRUE /\ stale' = FALSE /\ Go("sources") /\ UNCHANGED <<fileVars, checked>>
       \/ ~pinned /\ Stops /\ UNCHANGED <<pinned, stale>>

\* prepare_plan goes from action to action, and then writes the plan
AfterSource == IF checked + 1 = Actions THEN "stat" ELSE "sources"

\* thread_state or non_thread_state of the next action, for a marker that is
\* never posted: all that is asked is whether the source is where the plan says
CheckSource ==
    /\ Doing("sources") /\ PlanStep
    /\ IF checked + 1 \in sources
       THEN /\ checked' = checked + 1 /\ UNCHANGED fileVars
            /\ Go(AfterSource)
       ELSE Stops

\* main seal reads the draft, which must have one link; its output is to be a new file
Seal ==
    /\ PlanStep /\ step = "rest" /\ approved = 0 /\ ReadPlan("draft") # 0
    /\ held' = ReadPlan("draft") /\ writes' = "sealed" /\ Go("stat")
    /\ sealed' = 0 /\ doubled' = doubled \ {"sealed"} /\ UNCHANGED <<draft, approved, checked>>

\* write_new_plan looks for the output, and writes the temporary
StatOutput ==
    /\ Doing("stat") /\ PlanStep
    /\ IF File(writes) = 0 THEN Go("link") /\ UNCHANGED <<fileVars, checked>> ELSE Stops

\* os.link; it fails if the output has appeared meanwhile
LinkOutput ==
    /\ Doing("link") /\ PlanStep
    /\ IF File(writes) = 0
       THEN /\ draft' = (IF writes = "draft" THEN held ELSE draft)
            /\ sealed' = (IF writes = "sealed" THEN held ELSE sealed)
            /\ doubled' = doubled \cup {writes} /\ Go("unlink") /\ UNCHANGED checked
       ELSE Stops

\* The user approves the digest of the summary that seal prints
Summarized == IF writes = "sealed" THEN held ELSE approved

\* The temporary is removed, and the program is done
UnlinkTemporary ==
    /\ step = "unlink" /\ PlanStep /\ UNCHANGED <<writes, held, checked, draft, sealed>>
    /\ doubled' = doubled \ {writes} /\ Go("rest")
    /\ approved' = Summarized

\* A call fails, or the program is killed: what was linked stays
WriterFails ==
    /\ step # "rest" /\ faults > 0 /\ faults' = faults - 1
    /\ Stops /\ UNCHANGED <<approved, writes, held, remoteVars, runVars, runs, others>>

\* Someone puts another sealed plan where this one is or is to be
Replace ==
    /\ PlanStep
    /\ sealed # 0 \/ (writes = "sealed" /\ step \in {"stat", "link"})
    /\ sealed' \in 1 .. MaxPlans /\ doubled' = doubled \ {"sealed"}
    /\ UNCHANGED <<draft, approved, writerVars>>

write_new_plan == StatOutput \/ LinkOutput \/ UnlinkTemporary

Write == Prepare \/ pin_target \/ CheckSource \/ Seal \/ write_new_plan \/ WriterFails

-----------------------------------------------------------------------------
(* Preflight *)

Local == UNCHANGED <<planVars, remoteVars, boundVars>>
Step(p) == pc = p /\ Local /\ UNCHANGED <<plan, outlived, late>>
Ends(r) == pc' = r /\ UNCHANGED <<at, cursor, exists, done>> /\ call' = NoCall

\* (mutant) the digest the user approved is not compared
StartUnapproved ==
    /\ pc \in Ended /\ approved # 0 /\ runs > 0
    /\ runs' = runs - 1
    /\ plan' = ReadPlan("sealed") /\ pc' = "pin"
    /\ at' = 1 /\ cursor' = 0 /\ exists' = {} /\ done' = {} /\ call' = NoCall
    /\ stale' = ~pinned
    /\ UNCHANGED <<planVars, pinned, comments, sources, resolved, closed, outlived, late,
                   faults, others>>

\* verify_digest: the plan is the one the user approved
Verified(v) == v = approved

\* main reads the file once and compares its digest with the approved one
Start ==
    /\ pc \in Ended /\ approved # 0 /\ runs > 0
    /\ runs' = runs - 1
    /\ plan' = ReadPlan("sealed")
    /\ pc' = IF Verified(ReadPlan("sealed")) THEN "pin" ELSE "aborted"
    /\ at' = 1 /\ cursor' = 0 /\ exists' = {} /\ done' = {} /\ call' = NoCall
    /\ stale' = ~pinned
    /\ UNCHANGED <<planVars, pinned, comments, sources, resolved, closed, outlived, late,
                   faults, others>>

First(a) == IF a \in Threads THEN "pages" ELSE "source"

VerifyTarget ==
    /\ Step("pin")
    /\ IF pinned THEN pc' = First(1) /\ UNCHANGED <<at, cursor, exists, done, call>>
                 ELSE Ends("aborted")

\* non_thread_state asks for the source comment before the pages
ReadSource ==
    /\ Step("source")
    /\ IF at \in sources THEN pc' = "pages" /\ UNCHANGED <<at, cursor, exists, done, call>>
                         ELSE Ends("aborted")

Here == comments[Place(at)]
OnPage(c) == \E i \in (cursor + 1) .. (cursor + Page) : i \in DOMAIN Here /\ Here[i] = c

\* (mutant) an action whose reply is there needs nothing more
PendingReply(a, e, d) == a \notin d \cup e

\* What preflight found leaves something to do for action a
Pending(a, e, d) == a \notin d /\ (a \notin e \/ a \in Resolving)

\* After the last page of the last action: nothing to do, or the target again
AfterPreflight(e, d) ==
    IF \E a \in All : Pending(a, e, d) THEN "repin" ELSE "complete"

\* What is known of action at once this page has been read; a thread's state is
\* that of its last page
Found == exists \cup (IF OnPage(<<plan, at>>) THEN {at} ELSE {})
State == (done \ {at}) \cup ({at} \cap resolved)

MorePages == cursor + Page < Len(Here)

NextAction ==
    /\ cursor' = 0 /\ at' = at + 1
    /\ pc' = IF at = Actions THEN AfterPreflight(Found, State) ELSE First(at + 1)

\* (mutant) only the first page is read
ReadFirstPage ==
    Step("pages") /\ exists' = Found /\ done' = State /\ NextAction /\ UNCHANGED call

\* One page of thread_state or of non_thread_state.  The source comment of a
\* thread is its first one; that it is missing is an error, whenever it is raised.
ReadPage ==
    /\ Step("pages")
    /\ \/ /\ at \in Threads /\ cursor = 0 /\ at \notin sources
          /\ Ends("aborted")
       \/ /\ at \in Threads /\ cursor = 0 => at \in sources
          /\ exists' = Found /\ done' = State
          /\ \/ MorePages /\ cursor' = cursor + Page /\ UNCHANGED <<at, pc>>
             \/ ~MorePages /\ NextAction
          /\ UNCHANGED call

-----------------------------------------------------------------------------
(* Mutations *)

\* The step for action a or the next one with something to do, or the end
Begin(a) ==
    LET rest == {b \in a .. Actions : Pending(b, exists, done)} IN
    IF rest = {} THEN at' = Actions + 1 /\ pc' = "complete"
    ELSE \E b \in rest : /\ \A c \in rest : b <= c
                         /\ at' = b /\ pc' = IF b \in exists THEN "resolve" ELSE "reply"

\* The head may have moved while the pages were read
Repin ==
    /\ Step("repin")
    /\ \/ pinned /\ Begin(1) /\ UNCHANGED <<cursor, exists, done, call>>
       \/ ~pinned /\ Ends("aborted")

Send(kind) ==
    /\ call' = <<kind, at, "sent">> /\ pc' = "wait"
    /\ UNCHANGED <<at, cursor, exists, done>>

SendReply == Step("reply") /\ Send("reply")
SendResolve == Step("resolve") /\ Send("resolve")

\* The answer arrives: the next call of this action, or the next action
Answer ==
    /\ Step("wait") /\ call[3] = "applied"
    /\ call' = NoCall /\ UNCHANGED <<cursor, exists, done>>
    /\ IF call[1] = "reply" /\ at \in Resolving
       THEN UNCHANGED at /\ pc' = "resolve"
       ELSE Begin(at + 1)

Run == \/ VerifyTarget \/ ReadSource \/ ReadPage \/ Repin
       \/ SendReply \/ SendResolve \/ Answer

-----------------------------------------------------------------------------
(* GitHub *)

Effect(kind, a, v) ==
    \/ /\ kind = "reply"
       /\ comments' = [comments EXCEPT ![Place(a)] = Append(@, <<v, a>>)]
       /\ UNCHANGED <<resolved, closed>>
    \/ /\ kind = "resolve"
       /\ resolved' = resolved \cup {a} /\ closed' = closed \cup {a}
       /\ UNCHANGED comments

Apply ==
    /\ pc = "wait" /\ call[3] = "sent"
    /\ Effect(call[1], call[2], plan)
    /\ call' = <<call[1], call[2], "applied">>
    /\ UNCHANGED <<planVars, pinned, sources, stale, pc, plan, at, cursor, exists, done,
                   outlived, late, boundVars>>

\* A call whose run has ended takes effect
ApplyOutlived ==
    /\ \E c \in outlived : Effect(c[1], c[2], c[3]) /\ outlived' = outlived \ {c}
    /\ UNCHANGED <<planVars, pinned, sources, stale, pc, plan, at, cursor, exists, done,
                   call, late, boundVars>>

-----------------------------------------------------------------------------
(* Failures *)

Fault == faults > 0 /\ faults' = faults - 1 /\ UNCHANGED <<planVars, remoteVars, plan, runs, others>>

\* What becomes of a call that is given up before it took effect: the gh process
\* of a killed publisher goes on, a request that timed out is on its way
GiveUp ==
    \/ UNCHANGED <<outlived, late>>
    \/ /\ call # NoCall /\ call[3] = "sent"
       /\ outlived' = outlived \cup {<<call[1], call[2], plan>>}
       /\ late' = late \cup {<<call[1], call[2], plan>>}

\* gh fails: a read ends the run with a traceback, a mutation with a report
CallFails ==
    /\ Fault /\ GiveUp
    /\ \/ pc \in Reading /\ Ends("aborted")
       \/ pc = "wait" /\ Ends("failed")

Kill == Fault /\ GiveUp /\ pc \notin Ended /\ Ends("killed")

-----------------------------------------------------------------------------
(* The others *)

Other == others > 0 /\ others' = others - 1 /\ UNCHANGED <<planVars, runVars, runs, faults>>

Comment == /\ Other
           /\ \E q \in DOMAIN comments : comments' = [comments EXCEPT ![q] = Append(@, Plain)]
           /\ UNCHANGED <<pinned, sources, resolved, closed, stale>>

DeleteSource == /\ Other
                /\ \E a \in sources : sources' = sources \ {a}
                /\ UNCHANGED <<pinned, comments, resolved, closed, stale>>

ResolveThread == /\ Other
                 /\ \E t \in Threads \ resolved :
                       resolved' = resolved \cup {t} /\ closed' = closed \cup {t}
                 /\ UNCHANGED <<pinned, comments, sources, stale>>

Reopen == /\ Other
          /\ \E t \in resolved : resolved' = resolved \ {t}
          /\ UNCHANGED <<pinned, comments, sources, closed, stale>>

\* A push or a close, or the branch is put back
Push == /\ Other
        /\ pinned' = ~pinned
        /\ stale' = (~pinned' /\ pc \notin Mutating)
        /\ UNCHANGED <<comments, sources, resolved, closed>>

-----------------------------------------------------------------------------
Init ==
    /\ draft = 0 /\ sealed = 0 /\ approved = 0 /\ doubled = {}
    /\ step = "rest" /\ writes = "draft" /\ held = 0 /\ checked = 0
    /\ pinned = FALSE /\ stale = FALSE
    /\ comments = [q \in Threads \cup {0} |-> <<Plain>>]
    /\ sources = All /\ resolved = {} /\ closed = {}
    /\ pc = "idle" /\ plan = 0 /\ at = 1 /\ cursor = 0 /\ exists = {} /\ done = {}
    /\ call = NoCall /\ outlived = {} /\ late = {}
    /\ runs = MaxRuns /\ faults = MaxFaults /\ others = MaxOthers

\* No run is active
Rest == pc \in Ended /\ step = "rest" /\ UNCHANGED vars

Next == \/ Revise \/ Write \/ Replace
        \/ Start \/ Run \/ Apply \/ ApplyOutlived
        \/ CallFails \/ Kill
        \/ Comment \/ DeleteSource \/ ResolveThread \/ Reopen \/ Push \/ Rest

Spec == Init /\ [][Next]_vars

-----------------------------------------------------------------------------
(* Properties *)

Posted(v, a) == \E i \in DOMAIN comments[Place(a)] : comments[Place(a)][i] = <<v, a>>

\* However often a plan is published, whatever fails and whoever comments
\* meanwhile, a reply appears twice only if a call that posts it has outlived
\* its run.
OnceInTime ==
    \A q \in DOMAIN comments : \A i, j \in DOMAIN comments[q] :
        comments[q][i] # Plain /\ comments[q][i] = comments[q][j]
        => i = j \/ <<"reply", comments[q][i][2], comments[q][i][1]>> \in late

\* Only the plan whose digest the user approved is published.
ApprovedOnly ==
    \A q \in DOMAIN comments : \A i \in DOMAIN comments[q] :
        comments[q][i] = Plain \/ comments[q][i][1] = approved

\* Once the user has a digest to approve, no death of the program that sealed the
\* plan keeps its file from being read.
ApprovedReadable == approved # 0 => "sealed" \notin doubled

\* approval-plan.md: a push invalidates an older plan.  A run sends nothing if
\* the head had moved before its mutations began, whatever earlier runs did.
StaleSendsNothing == [][call = NoCall /\ call' # NoCall => ~stale]_vars

\* A thread is not resolved by a run that has not replied in it.
ResolvesAnswered ==
    [][\A a \in Threads : call = <<"resolve", a, "sent">> => Posted(plan, a)]_vars

\* A run that reports completion has left nothing of its plan to do: each reply
\* is there, unless the thread was found resolved, and each thread that was to
\* be resolved has been.
CompleteIsDone ==
    pc = "complete" => \A a \in All : /\ Posted(plan, a) \/ a \in done
                                      /\ a \in Resolving => a \in closed

=============================================================================
