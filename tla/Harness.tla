---- MODULE Harness ----
(***************************************************************************)
(* What the experiment harnesses of qa/experiments share: phases that an   *)
(* operator runs one by one or all together and resumes after a failure or *)
(* a kill, and the model sessions a phase runs in a thread pool.  A session *)
(* leaves its files in sessions/<name>/: a transcript per attempt,         *)
(* result.json, and metrics.json, which is what says it was accepted.      *)
(***************************************************************************)
EXTENDS Naturals, FiniteSets, Sequences

CONSTANTS Workers,          \* --workers
          Rounds,           \* maximum_transport_attempts_per_stage of a resilient harness
          MaxFaults,        \* bound: failed sessions, kills and edits of the sources together,
          MaxStrictFaults,  \* and in a harness that a failed session ends
          MaxCrashes,       \* bound: times the harness is killed
          MaxInvocations    \* bound: times the operator runs the harness

VARIABLES program,    \* the harness that is run
          script,     \* its steps, <<phase, operation, argument>>
          at,         \* the step it is at, 0 when no harness runs
          all,        \* "all" rather than one phase
          reached,    \* phases finished so far
          sess,       \* the files of each session
          queue,      \* submitted to the pool, no worker has taken it
          running,    \* Claude runs for it
          written,    \* its result.json is written, its metrics.json is not
          failed,     \* this round's futures that raised
          lost,       \* what a resilient group gave up on, in this phase
          raising,    \* the main thread leaves the pool with an exception
          round,      \* 0 outside a pool
          faults      \* what the bounds count: [failures, crashes, edits, invocations]

poolVars == <<sess, queue, running, written, failed, lost, raising, round, faults>>
phaseVars == <<at, all, reached>>
harnessVars == <<program, script, phaseVars, poolVars>>

Strict == {"matrix", "tournament", "screen"}

\* Nothing in sessions/<name>: tries transcripts, the accepted attempt in metrics.json, the attempt
\* whose answer result.json holds, that answer and what its prompt was about.
NoSession == [tries |-> 0, accepted |-> 0, by |-> 0, result |-> <<>>, about |-> <<>>]

Accepted(n) == sess[n].accepted # 0
Result(n) == sess[n].result

HarnessInit(names) ==
  /\ at = 0 /\ all = FALSE /\ reached = {}
  /\ sess = [n \in names |-> NoSession]
  /\ queue = {} /\ running = {} /\ written = {} /\ failed = {} /\ lost = {}
  /\ raising = FALSE /\ round = 0
  /\ faults = [failures |-> 0, crashes |-> 0, edits |-> 0, invocations |-> 0]

MayFail ==
  faults.failures + faults.crashes + faults.edits
    < IF program \in Strict THEN MaxStrictFaults ELSE MaxFaults

\* PHASES

Step == script[at]
Doing(op) == at > 0 /\ Step[2] = op

\* The phases an operator may ask for: those behind and the next one.
Offered == {i \in 1 .. Len(script) :
              i = 1 \/ (script[i - 1][1] # script[i][1] /\ script[i - 1][1] \in reached)}

Invoke ==
  /\ at = 0
  /\ faults.invocations < MaxInvocations
  /\ faults' = [faults EXCEPT !.invocations = @ + 1]
  /\ \/ at' \in Offered /\ all' = FALSE
     \/ at' = 1 /\ all' = TRUE
  /\ UNCHANGED <<program, script, reached, sess, queue, running, written, failed, lost, raising, round>>

\* The step is done: the next one, or the end of what was asked for.
Advance ==
  LET last == at = Len(script) \/ script[at + 1][1] # Step[1]
  IN  /\ reached' = IF last THEN reached \union {Step[1]} ELSE reached
      /\ at' = IF at = Len(script) \/ (last /\ ~all) THEN 0 ELSE at + 1
      /\ UNCHANGED all

\* An exception: main prints it and returns 1.
Raise == at' = 0 /\ UNCHANGED <<all, reached>>

NoPool == round = 0

\* A step between pools.
Alone == NoPool /\ UNCHANGED <<program, script, poolVars>>

\* THE POOL

Pooled == Doing("pool") \/ Doing("mend")

\* Mutant: metrics.json is not looked at.
AllOf(names) == names

\* The sessions a pool is given; run_session returns at once for an accepted one.
Unaccepted(names) == {n \in names : ~Accepted(n)}

Submit(names) ==
  /\ NoPool
  /\ round' = 1
  /\ queue' = Unaccepted(names)
  /\ UNCHANGED <<sess, running, written, failed, lost, raising, faults>>

\* A worker takes the next session: the transcript it opens is what numbers the attempt.
StartSession(n) ==
  /\ n \in queue
  /\ Cardinality(running) < Workers
  /\ queue' = queue \ {n}
  /\ running' = running \union {n}
  /\ sess' = [sess EXCEPT ![n].tries = @ + 1]
  /\ UNCHANGED <<written, failed, lost, raising, round, faults>>

\* Claude answered: result.json is replaced.
WriteResult(n, result, about) ==
  /\ n \in running \ written
  /\ written' = written \union {n}
  /\ sess' = [sess EXCEPT ![n].by = sess[n].tries, ![n].result = result, ![n].about = about]
  /\ UNCHANGED <<queue, running, failed, lost, raising, round, faults>>

\* metrics.json is written last.
AcceptSession(n) ==
  /\ n \in written
  /\ written' = written \ {n}
  /\ running' = running \ {n}
  /\ sess' = [sess EXCEPT ![n].accepted = sess[n].tries]
  /\ UNCHANGED <<queue, failed, lost, raising, round, faults>>

\* "mechanics" tells a provider that refuses from the rest.
external_capacity_failure == IF program = "mechanics" THEN BOOLEAN ELSE {FALSE}

\* No result event, an error, an answer that is not the JSON asked for.  A strict harness leaves the
\* group, and so does "mechanics" when the provider refuses.
FailSession(n) ==
  /\ n \in running \ written
  /\ MayFail
  /\ faults' = [faults EXCEPT !.failures = @ + 1]
  /\ running' = running \ {n}
  /\ failed' = failed \union {n}
  /\ \E capacity \in external_capacity_failure :
       raising' = (raising \/ capacity \/ program \in Strict)
  /\ UNCHANGED <<sess, queue, written, lost, round>>

\* run_session, with what Claude may answer and what the prompt is about.
RunSession(n, Answer(_), About(_)) ==
  \/ StartSession(n)
  \/ n \in running /\ \E answer \in Answer(n) : WriteResult(n, answer, About(n))
  \/ AcceptSession(n)
  \/ FailSession(n)

\* The main thread has seen the failure: what no worker has taken is cancelled.
CancelQueued ==
  /\ raising /\ queue # {}
  /\ queue' = {}
  /\ UNCHANGED <<sess, running, written, failed, lost, raising, round, faults>>

PoolEmpty == round > 0 /\ queue = {} /\ running = {}

\* A resilient group runs once more what failed.
NextRound ==
  /\ PoolEmpty /\ ~raising
  /\ failed # {} /\ round < Rounds
  /\ round' = round + 1
  /\ queue' = failed
  /\ failed' = {}
  /\ UNCHANGED <<sess, running, written, lost, raising, faults>>

\* The group is over; what failed in the last round is given up.
Returns ==
  /\ PoolEmpty /\ ~raising
  /\ failed # {} => round = Rounds
  /\ round' = 0
  /\ lost' = lost \union failed
  /\ failed' = {}
  /\ UNCHANGED <<sess, queue, running, written, raising, faults>>

\* The harness ends, by itself or killed with everything it runs.
Gone ==
  /\ queue' = {} /\ running' = {} /\ written' = {} /\ failed' = {} /\ lost' = {}
  /\ raising' = FALSE /\ round' = 0
  /\ UNCHANGED <<program, script, sess>>

\* A pool over these sessions.
Pool(names, Session(_)) ==
  /\ Pooled
  /\ \/ Submit(names)
     \/ \E n \in queue \union running : Session(n)
     \/ CancelQueued
  /\ UNCHANGED <<program, script, phaseVars>>

PoolRetries == Pooled /\ NextRound /\ UNCHANGED <<program, script, phaseVars>>

PoolReturns == Pooled /\ Returns /\ Advance /\ UNCHANGED <<program, script>>

PoolRaises ==
  /\ Pooled /\ PoolEmpty /\ raising
  /\ Gone /\ Raise
  /\ UNCHANGED faults

Killed ==
  /\ at # 0
  /\ MayFail /\ faults.crashes < MaxCrashes
  /\ faults' = [faults EXCEPT !.crashes = @ + 1]
  /\ Gone /\ Raise
====
