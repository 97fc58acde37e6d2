---- MODULE TriggerBattery ----
(***************************************************************************)
(* qa/trigger_battery.py: does a skill's description route the prompts that *)
(* it should, and no others?  In every install mode each prompt is given to *)
(* a Claude session, whose stream is read line by line until it ends, its   *)
(* time is over or the skill is selected; a session that fails is run once  *)
(* more, and the rows of a mode must reach the thresholds.                  *)
(*                                                                         *)
(* The stream passes the pipe and Python's buffer.  A session may start a   *)
(* child that keeps the pipe open.  Of a line, the model keeps the skill it *)
(* selects; one description is scored.  Claude is external.                 *)
(***************************************************************************)
EXTENDS Naturals, FiniteSets, SequencesExt

CONSTANTS Modes,      \* number of install modes
          Prompts,    \* number of prompts, the first half of which should trigger
          MaxLines    \* bound: lines a session writes

\* validate_battery_install_modes: "install_modes must contain skill".
ASSUME BatteryAssumption == Modes \in Nat \ {0} /\ Prompts \in Nat /\ MaxLines \in Nat

VARIABLES
  battery,      \* the battery file: detector, contract of its prompts, thresholds; --full-session
  credential,   \* where the API key is: in the environment, cached by an earlier mode
  bpc,          \* where main is
  mode, attempt,
  rows,         \* of this mode: for each prompt so far, whether it passes
  artifacts,    \* the result files, <<>> without one
  gate_failed,
  process,      \* [alive, child]: Claude, and a child it has started
  stream,       \* [said, pipe, buffer, output]: what was written, is on its way, was read
  file,         \* at the contract file's path: nothing, a link, a file of its own
  stopped       \* the session was stopped at the skill

batteryVars == <<battery, credential, bpc, mode, attempt, rows, artifacts, gate_failed, process,
                 stream, file, stopped>>
sessionVars == <<process, stream, file, stopped>>
scoreVars == <<battery, credential, mode, attempt, rows, artifacts, gate_failed>>

Selections == {"target", "sibling", "none"}

NoProcess == [alive |-> FALSE, child |-> FALSE]
NoStream == [said |-> {}, pipe |-> <<>>, buffer |-> <<>>, output |-> {}]

prompt == Len(rows) + 1
should(i) == 2 * i <= Prompts
Positive == should(prompt)

\* SCORING

\* A prompt's contract: one skill is allowed, or a sibling is forbidden, which the positives inherit
\* and which binds in the mode that installs it (the last one).
prompt_contract ==
  CASE battery.contract = "allowed" ->
         [allowed |-> IF Positive THEN {"target"} ELSE {"sibling"}, forbidden |-> {}]
    [] battery.contract = "forbidden" /\ Positive /\ mode = Modes ->
         [allowed |-> Selections, forbidden |-> {"sibling"}]
    [] OTHER -> [allowed |-> Selections, forbidden |-> {}]

Violations(selected) ==
  (selected \intersect prompt_contract.forbidden) \union (selected \ prompt_contract.allowed)

\* No link, symbolic or hard, counts.
contract_file_exists == file = "file"

Fires(selected) ==
  CASE battery.detector = "skill_tool" -> "target" \in selected
    [] battery.detector = "contract_file" -> contract_file_exists
    [] OTHER -> "target" \in selected \/ contract_file_exists

row_passes(fired, violations) == fired = Positive /\ violations = {}

\* The confusion counts: positives and negatives that pass or do not.
Count(done, positive, passes) ==
  Cardinality({i \in DOMAIN done : should(i) = positive /\ done[i] = passes})

\* Each metric as <<numerator, denominator>>.
quality_metrics(done) ==
  LET tp == Count(done, TRUE, TRUE)  fn == Count(done, TRUE, FALSE)
      tn == Count(done, FALSE, TRUE) fp == Count(done, FALSE, FALSE)
  IN  [accuracy |-> <<tp + tn, Len(done)>>, precision |-> <<tp, tp + fp>>,
       recall |-> <<tp, tp + fn>>, specificity |-> <<tn, tn + fp>>]

\* The metrics below their minimum, in halves; an empty rate is 1.
threshold_failures(done) ==
  {m \in DOMAIN battery.thresholds :
     LET rate == quality_metrics(done)[m]
     IN  rate[2] # 0 /\ 2 * rate[1] < battery.thresholds[m] * rate[2]}

\* THE SESSION

stop_on_skill ==
  /\ battery.route_only
  /\ prompt_contract.forbidden = {} /\ battery.contract # "allowed"
  /\ battery.detector # "contract_file"

Goes(to) == bpc' = to /\ UNCHANGED scoreVars

Popen ==
  /\ bpc = "spawn" /\ Goes("select")
  /\ process' = [alive |-> TRUE, child |-> FALSE]
  /\ stream' = NoStream /\ file' = "absent" /\ stopped' = FALSE

\* Claude: a line, a child, the contract file, the end.
Claude ==
  /\ process.alive
  /\ \/ /\ Cardinality(stream.said) < MaxLines
        /\ \E l \in Selections \ stream.said :
             stream' = [stream EXCEPT !.said = @ \union {l}, !.pipe = Append(@, l)]
        /\ UNCHANGED <<process, file>>
     \/ /\ process' = [process EXCEPT !.child = TRUE] /\ UNCHANGED <<stream, file>>
     \/ /\ process' = [process EXCEPT !.alive = FALSE] /\ UNCHANGED <<stream, file>>
     \/ /\ battery.detector # "skill_tool" /\ file' \in {"link", "file"}
        /\ UNCHANGED <<process, stream>>
  /\ UNCHANGED <<scoreVars, bpc, stopped>>

ChildEnds ==
  /\ process.child
  /\ process' = [process EXCEPT !.child = FALSE]
  /\ UNCHANGED <<scoreVars, bpc, stream, file, stopped>>

AtEnd == ~process.alive /\ ~process.child /\ stream.pipe = <<>>

\* selector.select: it sees the pipe, not what Python has buffered.
select ==
  /\ bpc = "select"
  /\ \/ (stream.pipe # <<>> \/ AtEnd) /\ Goes("read")
     \/ stream.pipe = <<>> /\ ~AtEnd /\ Goes("poll")
     \/ Goes("timeout")
  /\ UNCHANGED sessionVars

Lines == stream.buffer \o stream.pipe

\* readline: a line of the buffer, or all that is in the pipe is buffered.
readline ==
  /\ bpc = "read"
  /\ IF Lines = <<>> THEN Goes("closing") /\ UNCHANGED <<stream, stopped>>
     ELSE LET line == Head(Lines)
          IN  /\ stream' = IF stream.buffer # <<>>
                           THEN [stream EXCEPT !.buffer = Tail(@), !.output = @ \union {line}]
                           ELSE [stream EXCEPT !.buffer = Tail(Lines), !.pipe = <<>>,
                                               !.output = @ \union {line}]
              /\ stopped' = (stop_on_skill /\ line = "target")
              /\ Goes(IF stopped' THEN "stopping" ELSE "select")
  /\ UNCHANGED <<process, file>>

\* Mutant: what is left is not read.
PollAndLeave ==
  /\ bpc = "poll"
  /\ Goes(IF process.alive THEN "select" ELSE "closing") /\ UNCHANGED sessionVars

\* process.poll, after select has waited in vain.
poll ==
  /\ bpc = "poll"
  /\ Goes(IF process.alive THEN "select" ELSE "rest") /\ UNCHANGED sessionVars

\* The rest of the stream, as soon as nobody holds the pipe any more.
ReadRest ==
  /\ bpc = "rest" /\ ~process.child
  /\ stream' = [stream EXCEPT !.output = @ \union ToSet(Lines), !.pipe = <<>>, !.buffer = <<>>]
  /\ Goes("closing") /\ UNCHANGED <<process, file, stopped>>

run_streaming_command == select \/ readline \/ poll \/ ReadRest

\* SIGTERM to the group; who is left when Claude has not gone is killed.
stop_process ==
  /\ bpc \in {"stopping", "timeout"}
  /\ IF process.alive
     THEN \E survives \in BOOLEAN :
            process' = [alive |-> FALSE, child |-> survives /\ process.child]
     ELSE UNCHANGED process
  /\ Goes(IF bpc = "timeout" THEN "raise" ELSE "closing") /\ UNCHANGED <<stream, file, stopped>>

\* An exit code other than 0, unless it was stopped, or an API key that is not the eval's, is a
\* RuntimeError.
CheckSession ==
  /\ bpc = "closing"
  /\ Goes("raise") \/ Goes("detect")
  /\ UNCHANGED sessionVars

Scored == mode' = mode /\ UNCHANGED <<battery, credential, artifacts, gate_failed>>

\* The row; a child that still writes may break the removal of the directory (OSError).
run_prompt ==
  /\ bpc = "detect"
  /\ \/ LET selected == stream.output \ {"none"}
        IN  /\ rows' = Append(rows, row_passes(Fires(selected), Violations(selected)))
            /\ attempt' = 1
            /\ bpc' = IF Len(rows') = Prompts THEN "gate" ELSE "spawn"
     \/ process.child /\ bpc' = "exit 2" /\ UNCHANGED <<rows, attempt>>
  /\ Scored /\ process' = NoProcess /\ stream' = NoStream /\ file' = "absent" /\ stopped' = FALSE

\* One retry for each prompt; not after an OSError.
score ==
  /\ bpc = "raise"
  /\ \/ attempt = 1 /\ attempt' = 2 /\ bpc' = "spawn"
     \/ (attempt = 2 \/ process.child) /\ attempt' = attempt /\ bpc' = "exit 2"
  /\ Scored /\ UNCHANGED rows
  /\ process' = NoProcess /\ stream' = NoStream /\ file' = "absent" /\ stopped' = FALSE

\* MAIN

\* The key leaves the environment for good; a later mode takes the cached one.  Without a key, or
\* without a supported claude, the battery ends.
live_eval_runtime ==
  /\ bpc = "mode"
  /\ credential' = [environment |-> FALSE, cached |-> credential.environment \/ credential.cached]
  /\ bpc' = "exit 2" \/ (credential'.cached /\ bpc' = "spawn")
  /\ rows' = <<>> /\ attempt' = 1
  /\ UNCHANGED <<battery, mode, artifacts, gate_failed, sessionVars>>

\* The mode is recorded, whatever its gate says.
Record(failed_so_far) ==
  /\ bpc = "gate"
  /\ artifacts' = [artifacts EXCEPT ![mode] = rows]
  /\ gate_failed' = failed_so_far
  /\ IF mode < Modes THEN mode' = mode + 1 /\ bpc' = "mode"
     ELSE mode' = mode /\ bpc' = IF gate_failed' THEN "exit 1" ELSE "exit 0"
  /\ UNCHANGED <<battery, credential, attempt, rows, sessionVars>>

\* Mutant: the last mode decides.
RecordLast == Record(threshold_failures(rows) # {})

RecordMode == Record(gate_failed \/ threshold_failures(rows) # {})

Batteries ==
  [detector : {"skill_tool", "contract_file", "skill_or_contract"},
   contract : {"none", "forbidden", "allowed"}, route_only : BOOLEAN,
   thresholds : {[recall |-> 1, specificity |-> 2]}]

BatteryInit ==
  /\ battery \in Batteries
  /\ credential \in [environment : BOOLEAN, cached : {FALSE}]
  /\ bpc = "mode" /\ mode = 1 /\ attempt = 1 /\ rows = <<>>
  /\ artifacts = [m \in 1 .. Modes |-> <<>>] /\ gate_failed = FALSE
  /\ process = NoProcess /\ stream = NoStream /\ file = "absent" /\ stopped = FALSE

BatteryNext ==
  \/ live_eval_runtime \/ Popen \/ run_streaming_command \/ stop_process \/ CheckSession
  \/ run_prompt \/ score \/ RecordMode \/ Claude \/ ChildEnds

BatterySpec == BatteryInit /\ [][BatteryNext]_batteryVars

\* A row says what its session did: it is taken for one that did not select the skill, or broke no
\* contract, only if that holds of every line the session wrote, those unread at its end included.
RowIsTrue ==
  [][Len(rows') > Len(rows) =>
       LET selected == stream.said \ {"none"}
       IN  Last(rows') = row_passes(Fires(selected), Violations(selected))]_rows

\* The exit code is 0 only if the rows of every install mode, as they were recorded, are complete and
\* reach the thresholds.
GateIsMet ==
  bpc = "exit 0" => \A m \in 1 .. Modes : Len(artifacts[m]) = Prompts /\ threshold_failures(artifacts[m]) = {}
====
