---- MODULE QaPrograms_proofs ----
(***************************************************************************)
(* What holds of the programs of qa/ for every number of install modes,    *)
(* prompts, reviewers, workers, failures, kills and edits: the battery's   *)
(* rows and its exit code say what its sessions did, an accepted session   *)
(* of a harness stands, a summary rests on the sources it names, what is   *)
(* added to a review rests on accepted answers, a verdict is on the        *)
(* reviews that are there, and the screen decides every risk once.         *)
(***************************************************************************)
EXTENDS QaPrograms, FiniteSetTheorems, SequenceTheorems, TLAPS

-----------------------------------------------------------------------------
(* The battery: a session's stream *)

StreamOK ==
  /\ stream = [said |-> stream.said, pipe |-> stream.pipe, buffer |-> stream.buffer,
               output |-> stream.output]
  /\ stream.pipe \in Seq(Selections) /\ stream.buffer \in Seq(Selections)
  /\ stream.output \subseteq Selections
  /\ process = [alive |-> process.alive, child |-> process.child]

\* No line is lost between Claude and the output, and none is read twice
Conserved == stream.said = stream.output \union ToSet(stream.buffer) \union ToSet(stream.pipe)

\* The session was stopped where nothing it may still write changes its row
AtSkill == stop_on_skill /\ "target" \in stream.output

Complete == stream.pipe = <<>> /\ stream.buffer = <<>>

SessionInv ==
  /\ StreamOK /\ Conserved
  /\ bpc = "read" => Lines # <<>> \/ AtEnd
  /\ bpc = "rest" => ~process.alive
  /\ bpc = "stopping" => AtSkill
  /\ bpc \in {"closing", "detect"} => ~process.alive /\ (AtSkill \/ Complete)

LEMMA ToSetConcat ==
  ASSUME NEW S, NEW s \in Seq(S), NEW t \in Seq(S)
  PROVE  s \o t \in Seq(S) /\ ToSet(s \o t) = ToSet(s) \union ToSet(t)
<1>1. /\ s \o t \in Seq(S) /\ Len(s \o t) = Len(s) + Len(t)
      /\ \A i \in 1 .. Len(s) + Len(t) : (s \o t)[i] = IF i <= Len(s) THEN s[i] ELSE t[i - Len(s)]
    BY ConcatProperties
<1>2. /\ DOMAIN s = 1 .. Len(s) /\ DOMAIN t = 1 .. Len(t) /\ DOMAIN (s \o t) = 1 .. Len(s) + Len(t)
      /\ Len(s) \in Nat /\ Len(t) \in Nat
    BY <1>1, LenProperties
<1>3. ASSUME NEW i \in 1 .. Len(s) PROVE s[i] \in ToSet(s \o t)
    <2>1. i \in DOMAIN (s \o t) /\ (s \o t)[i] = s[i]
        BY <1>1, <1>2
    <2> QED BY <2>1 DEF ToSet
<1>4. ASSUME NEW i \in 1 .. Len(t) PROVE t[i] \in ToSet(s \o t)
    <2>1. i + Len(s) \in DOMAIN (s \o t) /\ (s \o t)[i + Len(s)] = t[i]
        BY <1>1, <1>2
    <2> QED BY <2>1 DEF ToSet
<1>5. ASSUME NEW i \in DOMAIN (s \o t) PROVE (s \o t)[i] \in ToSet(s) \union ToSet(t)
    <2>1. i <= Len(s) => i \in DOMAIN s /\ (s \o t)[i] = s[i]
        BY <1>1, <1>2
    <2>2. ~(i <= Len(s)) => i - Len(s) \in DOMAIN t /\ (s \o t)[i] = t[i - Len(s)]
        BY <1>1, <1>2
    <2> QED BY <2>1, <2>2 DEF ToSet
<1> QED BY <1>1, <1>2, <1>3, <1>4, <1>5 DEF ToSet

LEMMA ToSetAppend ==
  ASSUME NEW S, NEW s \in Seq(S), NEW e \in S
  PROVE  Append(s, e) \in Seq(S) /\ ToSet(Append(s, e)) = ToSet(s) \union {e}
<1>1. <<e>> \in Seq(S) /\ Append(s, e) = s \o <<e>>
    BY AppendIsConcat
<1>2. DOMAIN <<e>> = {1} /\ <<e>>[1] = e
    OBVIOUS
<1> QED BY <1>1, <1>2, ToSetConcat DEF ToSet

LEMMA ToSetHead ==
  ASSUME NEW S, NEW s \in Seq(S), s # <<>>
  PROVE  Head(s) \in S /\ Tail(s) \in Seq(S) /\ ToSet(s) = {Head(s)} \union ToSet(Tail(s))
<1>1. /\ Head(s) \in S /\ Tail(s) \in Seq(S) /\ Len(Tail(s)) = Len(s) - 1
      /\ \A i \in 1 .. Len(Tail(s)) : Tail(s)[i] = s[i + 1]
    BY HeadTailProperties
<1>2. /\ DOMAIN s = 1 .. Len(s) /\ DOMAIN Tail(s) = 1 .. Len(s) - 1 /\ Head(s) = s[1]
      /\ Len(s) \in Nat \ {0}
    BY <1>1, LenProperties, EmptySeq
<1>3. ASSUME NEW i \in 1 .. Len(s) PROVE s[i] \in {Head(s)} \union ToSet(Tail(s))
    <2>1. i # 1 => i - 1 \in DOMAIN Tail(s) /\ s[i] = Tail(s)[i - 1]
        BY <1>1, <1>2
    <2> QED BY <1>2, <2>1 DEF ToSet
<1>4. ASSUME NEW i \in 1 .. Len(s) - 1 PROVE Tail(s)[i] \in ToSet(s)
    <2>1. i + 1 \in DOMAIN s /\ Tail(s)[i] = s[i + 1]
        BY <1>1, <1>2
    <2> QED BY <2>1 DEF ToSet
<1>5. Head(s) \in ToSet(s)
    BY <1>2 DEF ToSet
<1> QED BY <1>1, <1>2, <1>3, <1>4, <1>5 DEF ToSet

LEMMA ToSetIn == ASSUME NEW S, NEW s \in Seq(S) PROVE ToSet(s) \subseteq S
BY LenProperties, ElementOfSeq DEF ToSet

LEMMA ToSetEmpty == ToSet(<<>>) = {}
BY DEF ToSet

LEMMA FreshSession ==
  ASSUME process' \in {NoProcess, [alive |-> TRUE, child |-> FALSE]}, stream' = NoStream,
         bpc' \notin {"read", "rest", "stopping", "closing", "detect"}
  PROVE  SessionInv'
<1>1. StreamOK'
    BY EmptySeq DEF StreamOK, NoStream, NoProcess
<1>2. Conserved'
    BY ToSetEmpty DEF Conserved, NoStream
<1> QED BY <1>1, <1>2 DEF SessionInv

\* What the scoring reads does not change while a session runs
LEMMA SkillStays ==
  ASSUME UNCHANGED scoreVars
  PROVE  stop_on_skill' = stop_on_skill
BY DEF scoreVars, stop_on_skill, prompt_contract, Positive, should, prompt

LEMMA ReaderKeeps ==
  ASSUME SessionInv, UNCHANGED scoreVars, run_streaming_command
  PROVE  SessionInv'
<1>s. /\ stream.pipe \in Seq(Selections) /\ stream.buffer \in Seq(Selections) /\ stream.output \subseteq Selections
      /\ stream = [said |-> stream.said, pipe |-> stream.pipe, buffer |-> stream.buffer,
                   output |-> stream.output]
    BY DEF SessionInv, StreamOK
<1>1. CASE select
    <2>1. UNCHANGED <<stream, process>>
        BY <1>1 DEF select, sessionVars
    <2>2. StreamOK' /\ Conserved'
        BY <2>1 DEF SessionInv, StreamOK, Conserved
    <2>3. \/ bpc' = "read" /\ (Lines # <<>> \/ AtEnd)
          \/ bpc' \in {"poll", "timeout"}
        <3>1. stream.pipe # <<>> => Lines # <<>>
            BY <1>s, ConcatSimplifications DEF Lines
        <3> QED BY <1>1, <3>1 DEF select, Goes
    <2> QED BY <2>1, <2>2, <2>3 DEF SessionInv, Lines, AtEnd
<1>2. CASE readline /\ Lines = <<>>
    <2>1. UNCHANGED <<stream, process>> /\ bpc = "read" /\ bpc' = "closing"
        BY <1>2 DEF readline, Goes
    <2>2. ~process.alive /\ Complete
        <3>1. stream.buffer = <<>> /\ stream.pipe = <<>>
            BY <1>s, <1>2, ConcatSimplifications DEF Lines
        <3> QED BY <1>2, <2>1, <3>1 DEF SessionInv, AtEnd, Complete
    <2>3. StreamOK' /\ Conserved' /\ Complete'
        BY <2>1, <2>2 DEF SessionInv, StreamOK, Conserved, Complete
    <2> QED BY <2>1, <2>2, <2>3 DEF SessionInv
<1>3. CASE readline /\ Lines # <<>>
    <2> DEFINE line == Head(Lines)
    <2>1. /\ stream' = IF stream.buffer # <<>>
                       THEN [stream EXCEPT !.buffer = Tail(@), !.output = @ \union {line}]
                       ELSE [stream EXCEPT !.buffer = Tail(Lines), !.pipe = <<>>,
                                           !.output = @ \union {line}]
          /\ stopped' = (stop_on_skill /\ line = "target") /\ UNCHANGED process
          /\ bpc' = IF stopped' THEN "stopping" ELSE "select"
        BY <1>3 DEF readline, Goes
    <2>2. /\ Lines \in Seq(Selections) /\ ToSet(Lines) = ToSet(stream.buffer) \union ToSet(stream.pipe)
          /\ line \in Selections /\ Tail(Lines) \in Seq(Selections)
          /\ ToSet(Lines) = {line} \union ToSet(Tail(Lines))
        <3>1. Lines \in Seq(Selections) /\ ToSet(Lines) = ToSet(stream.buffer) \union ToSet(stream.pipe)
            BY <1>s, ToSetConcat DEF Lines
        <3> QED BY <1>3, <3>1, ToSetHead
    <2>3. CASE stream.buffer # <<>>
        <3>1. /\ line = Head(stream.buffer) /\ Tail(stream.buffer) \in Seq(Selections)
              /\ ToSet(stream.buffer) = {line} \union ToSet(Tail(stream.buffer))
            <4>1. Len(stream.buffer) \in Nat \ {0} /\ Len(stream.pipe) \in Nat
                BY <1>s, <2>3, EmptySeq, LenProperties
            <4>2. Lines[1] = stream.buffer[1]
                BY <1>s, <4>1, ConcatProperties DEF Lines
            <4>3. Head(stream.buffer) = stream.buffer[1] /\ line = Lines[1]
                BY <1>s, <1>3, <2>2, <2>3
            <4> QED BY <1>s, <2>3, <4>2, <4>3, ToSetHead
        <3>2. /\ stream'.said = stream.said /\ stream'.pipe = stream.pipe
              /\ stream'.buffer = Tail(stream.buffer)
              /\ stream'.output = stream.output \union {line}
              /\ stream' = [said |-> stream'.said, pipe |-> stream'.pipe, buffer |-> stream'.buffer,
                            output |-> stream'.output]
            BY <1>s, <2>1, <2>3
        <3>3. StreamOK'
            BY <1>s, <2>1, <2>2, <3>1, <3>2 DEF SessionInv, StreamOK
        <3>4. Conserved'
            BY <3>1, <3>2 DEF SessionInv, Conserved
        <3>5. stopped' => AtSkill'
            BY <2>1, <3>2, SkillStays DEF AtSkill
        <3> QED BY <2>1, <3>3, <3>4, <3>5 DEF SessionInv
    <2>4. CASE stream.buffer = <<>>
        <3>2. /\ stream'.said = stream.said /\ stream'.pipe = <<>>
              /\ stream'.buffer = Tail(Lines)
              /\ stream'.output = stream.output \union {line}
              /\ stream' = [said |-> stream'.said, pipe |-> stream'.pipe, buffer |-> stream'.buffer,
                            output |-> stream'.output]
            BY <1>s, <2>1, <2>4
        <3>3. StreamOK'
            BY <1>s, <2>1, <2>2, <3>2, EmptySeq DEF SessionInv, StreamOK
        <3>4. Conserved'
            BY <2>2, <3>2, ToSetEmpty DEF SessionInv, Conserved
        <3>5. stopped' => AtSkill'
            BY <2>1, <3>2, SkillStays DEF AtSkill
        <3> QED BY <2>1, <3>3, <3>4, <3>5 DEF SessionInv
    <2> QED BY <2>3, <2>4
<1>4. CASE poll
    <2>1. /\ UNCHANGED <<stream, process>>
          /\ bpc' = IF process.alive THEN "select" ELSE "rest"
        BY <1>4 DEF poll, sessionVars, Goes
    <2>2. StreamOK' /\ Conserved'
        BY <2>1 DEF SessionInv, StreamOK, Conserved
    <2> QED BY <2>1, <2>2 DEF SessionInv
<1>5. CASE ReadRest
    <2>1. /\ stream' = [stream EXCEPT !.output = @ \union ToSet(Lines), !.pipe = <<>>, !.buffer = <<>>]
          /\ UNCHANGED process /\ bpc = "rest" /\ bpc' = "closing"
        BY <1>5 DEF ReadRest, Goes
    <2>2. ToSet(Lines) = ToSet(stream.buffer) \union ToSet(stream.pipe) /\ ToSet(Lines) \subseteq Selections
        <3>1. Lines \in Seq(Selections) /\ ToSet(Lines) = ToSet(stream.buffer) \union ToSet(stream.pipe)
            BY <1>s, ToSetConcat DEF Lines
        <3> QED BY <3>1, ToSetIn
    <2>3. /\ stream'.said = stream.said /\ stream'.pipe = <<>> /\ stream'.buffer = <<>>
          /\ stream'.output = stream.output \union ToSet(Lines)
          /\ stream' = [said |-> stream'.said, pipe |-> stream'.pipe, buffer |-> stream'.buffer,
                        output |-> stream'.output]
        BY <1>s, <2>1
    <2>4. StreamOK'
        BY <1>s, <2>1, <2>2, <2>3, EmptySeq DEF SessionInv, StreamOK
    <2>5. Conserved' /\ Complete'
        BY <2>2, <2>3, ToSetEmpty DEF SessionInv, Conserved, Complete
    <2> QED BY <2>1, <2>4, <2>5 DEF SessionInv
<1> QED BY <1>1, <1>2, <1>3, <1>4, <1>5 DEF run_streaming_command

LEMMA ClaudeKeeps ==
  ASSUME SessionInv, Claude
  PROVE  SessionInv'
<1>s. /\ stream.pipe \in Seq(Selections) /\ stream.buffer \in Seq(Selections)
      /\ stream = [said |-> stream.said, pipe |-> stream.pipe, buffer |-> stream.buffer,
                   output |-> stream.output]
      /\ process = [alive |-> process.alive, child |-> process.child]
    BY DEF SessionInv, StreamOK
<1>1. process.alive /\ UNCHANGED <<scoreVars, bpc>>
    BY DEF Claude
<1>2. /\ bpc \notin {"rest", "closing", "detect"} /\ (bpc = "read" => Lines # <<>>)
      /\ (bpc = "stopping" => AtSkill)
    BY <1>1 DEF SessionInv, AtEnd
<1>3. CASE UNCHANGED stream
    <2>1. process' = [alive |-> process'.alive, child |-> process'.child]
        BY <1>s, <1>3 DEF Claude
    <2>2. StreamOK' /\ Conserved'
        BY <1>3, <2>1 DEF SessionInv, StreamOK, Conserved
    <2> QED BY <1>1, <1>2, <1>3, <2>2, SkillStays DEF SessionInv, Lines, AtSkill
<1>4. CASE UNCHANGED process /\ ~UNCHANGED stream
    <2>1. PICK l \in Selections :
             stream' = [stream EXCEPT !.said = @ \union {l}, !.pipe = Append(@, l)]
        BY <1>4 DEF Claude
    <2>2. /\ stream'.said = stream.said \union {l} /\ stream'.pipe = Append(stream.pipe, l)
          /\ stream'.buffer = stream.buffer /\ stream'.output = stream.output
          /\ stream' = [said |-> stream'.said, pipe |-> stream'.pipe, buffer |-> stream'.buffer,
                        output |-> stream'.output]
        BY <1>s, <2>1
    <2>3. /\ Append(stream.pipe, l) \in Seq(Selections) /\ Append(stream.pipe, l) # <<>>
          /\ ToSet(Append(stream.pipe, l)) = ToSet(stream.pipe) \union {l}
        BY <1>s, <2>1, ToSetAppend, AppendProperties
    <2>4. StreamOK' /\ Conserved'
        BY <1>4, <2>2, <2>3 DEF SessionInv, StreamOK, Conserved
    <2>5. Lines' # <<>>
        BY <1>s, <2>2, <2>3, ConcatSimplifications DEF Lines
    <2> QED BY <1>1, <1>2, <2>2, <2>4, <2>5, SkillStays DEF SessionInv, AtSkill
<1> QED BY <1>3, <1>4 DEF Claude

LEMMA SessionStep == ASSUME SessionInv, [BatteryNext]_batteryVars PROVE SessionInv'
<1>1. CASE live_eval_runtime \/ RecordMode
    <2>1. UNCHANGED <<stream, process>> /\ bpc' \notin {"read", "rest", "stopping", "closing", "detect"}
        BY <1>1 DEF live_eval_runtime, RecordMode, Record, sessionVars
    <2> QED BY <2>1 DEF SessionInv, StreamOK, Conserved
<1>2. CASE Popen \/ run_prompt \/ score
    BY <1>2, FreshSession DEF Popen, run_prompt, score, Goes
<1>3. CASE run_streaming_command
    <2>1. UNCHANGED scoreVars
        BY <1>3 DEF run_streaming_command, select, readline, poll, ReadRest, Goes
    <2> QED BY <1>3, <2>1, ReaderKeeps
<1>4. CASE stop_process
    <2>1. /\ UNCHANGED <<stream, scoreVars>> /\ (bpc = "stopping" \/ bpc' = "raise")
          /\ bpc' \in {"raise", "closing"} /\ process'.alive = FALSE
          /\ process' = [alive |-> process'.alive, child |-> process'.child]
        BY <1>4 DEF stop_process, Goes, SessionInv, StreamOK
    <2>2. StreamOK' /\ Conserved'
        BY <2>1 DEF SessionInv, StreamOK, Conserved
    <2> QED BY <2>1, <2>2, SkillStays DEF SessionInv, AtSkill
<1>5. CASE CheckSession
    <2>1. /\ UNCHANGED <<stream, process, scoreVars>> /\ bpc = "closing" /\ bpc' \in {"raise", "detect"}
        BY <1>5 DEF CheckSession, Goes, sessionVars
    <2> QED BY <2>1, SkillStays DEF SessionInv, StreamOK, Conserved, AtSkill, Complete
<1>6. CASE ChildEnds
    <2>1. /\ UNCHANGED <<stream, bpc, scoreVars>> /\ process'.alive = process.alive /\ ~process'.child
          /\ process' = [alive |-> process'.alive, child |-> process'.child]
        BY <1>6 DEF ChildEnds, SessionInv, StreamOK
    <2> QED BY <2>1, SkillStays DEF SessionInv, StreamOK, Conserved, AtSkill, Complete, AtEnd, Lines
<1>7. CASE UNCHANGED batteryVars
    BY <1>7, SkillStays DEF batteryVars, scoreVars, SessionInv, StreamOK, Conserved, AtSkill, Complete, AtEnd, Lines
<1> QED BY <1>1, <1>2, <1>3, <1>4, <1>5, <1>6, <1>7, ClaudeKeeps DEF BatteryNext

\* A row is written only from a session that selects and violates what its output says
LEMMA RowStep ==
  ASSUME SessionInv, [BatteryNext]_batteryVars, rows \in Seq(BOOLEAN), Len(rows') > Len(rows)
  PROVE  LET selected == stream.said \ {"none"}
         IN  Last(rows') = row_passes(Fires(selected), Violations(selected))
<1> DEFINE read == stream.output \ {"none"}
           said == stream.said \ {"none"}
<1>1. Len(rows) \in Nat /\ Len(<<>>) = 0
    BY EmptySeq, LenProperties
<1>2. rows' # rows /\ rows' # <<>>
    BY <1>1
<1>3. ~(UNCHANGED scoreVars) /\ ~(UNCHANGED rows) /\ ~(UNCHANGED batteryVars)
    BY <1>2 DEF scoreVars, batteryVars
<1>4. ~live_eval_runtime /\ ~RecordMode /\ ~score
    BY <1>2 DEF live_eval_runtime, RecordMode, Record, score
<1>5. ~Popen /\ ~run_streaming_command /\ ~stop_process /\ ~CheckSession /\ ~Claude /\ ~ChildEnds
    BY <1>3 DEF Popen, run_streaming_command, select, readline, poll, ReadRest, stop_process,
                CheckSession, Claude, ChildEnds, Goes
<1>6. run_prompt
    BY <1>3, <1>4, <1>5 DEF BatteryNext
<1>7. bpc = "detect" /\ rows' = Append(rows, row_passes(Fires(read), Violations(read)))
    BY <1>3, <1>6 DEF run_prompt
<1>8. Last(rows') = row_passes(Fires(read), Violations(read))
    <2>1. row_passes(Fires(read), Violations(read)) \in BOOLEAN
        BY DEF row_passes
    <2> QED BY <1>7, <2>1, AppendProperties DEF Last
<1>9. CASE Complete
    <2>1. said = read
        BY <1>9, ToSetEmpty DEF SessionInv, Conserved, Complete
    <2> QED BY <1>8, <2>1
<1>10. CASE AtSkill
    <2>1. "target" \in read /\ read \subseteq said /\ said \subseteq Selections
        BY <1>10, ToSetIn DEF AtSkill, SessionInv, Conserved, StreamOK, Selections
    <2>2. Fires(read) /\ Fires(said)
        BY <1>10, <2>1 DEF Fires, AtSkill, stop_on_skill
    <2>3. Violations(read) = {} /\ Violations(said) = {}
        BY <1>10, <2>1 DEF Violations, AtSkill, stop_on_skill, prompt_contract
    <2> QED BY <1>8, <2>2, <2>3 DEF row_passes
<1> QED BY <1>7, <1>9, <1>10 DEF SessionInv

-----------------------------------------------------------------------------
(* The battery: the gate *)

Met(m) == Len(artifacts[m]) = Prompts /\ threshold_failures(artifacts[m]) = {}

MatrixInv ==
  /\ rows \in Seq(BOOLEAN) /\ mode \in 1 .. Modes
  /\ artifacts = [m \in 1 .. Modes |-> artifacts[m]]
  /\ bpc = "gate" => Len(rows) = Prompts
  /\ ~gate_failed => \A m \in 1 .. (mode - 1) : Met(m)
  /\ bpc = "exit 0" => \A m \in 1 .. Modes : Met(m)

\* The thresholds are those of the start
LEMMA MetStays ==
  ASSUME battery' = battery, NEW m, artifacts'[m] = artifacts[m]
  PROVE  Met(m)' = Met(m)
BY DEF Met, threshold_failures, quality_metrics, Count, should

LEMMA MetByRows ==
  ASSUME battery' = battery, NEW m, artifacts'[m] = rows
  PROVE  Met(m)' = (Len(rows) = Prompts /\ threshold_failures(rows) = {})
BY DEF Met, threshold_failures, quality_metrics, Count, should

LEMMA AllMetStays ==
  ASSUME MatrixInv, UNCHANGED <<battery, mode, artifacts, gate_failed>>, rows' \in Seq(BOOLEAN),
         bpc' = "gate" => Len(rows') = Prompts, bpc' = "exit 0" => bpc = "exit 0"
  PROVE  MatrixInv'
<1>1. \A m : Met(m)' = Met(m)
    BY MetStays
<1> QED BY <1>1 DEF MatrixInv

LEMMA MatrixStep == ASSUME MatrixInv, [BatteryNext]_batteryVars PROVE MatrixInv'
<1>b. battery' = battery
    BY DEF BatteryNext, batteryVars, live_eval_runtime, Popen, run_streaming_command, select, readline, poll,
           ReadRest, stop_process, CheckSession, run_prompt, score, RecordMode, Record, Claude, ChildEnds,
           Goes, Scored, scoreVars
<1>1. CASE live_eval_runtime
    <2>1. /\ UNCHANGED <<mode, artifacts, gate_failed>> /\ rows' = <<>>
          /\ bpc' \in {"exit 2", "spawn"}
        BY <1>1 DEF live_eval_runtime
    <2>2. rows' \in Seq(BOOLEAN)
        BY <2>1, EmptySeq
    <2> QED BY <1>b, <2>1, <2>2, AllMetStays
<1>2. CASE UNCHANGED scoreVars /\ bpc' \notin {"gate", "exit 0"}
    BY <1>2, AllMetStays DEF MatrixInv, scoreVars
<1>3. CASE UNCHANGED <<scoreVars, bpc>>
    BY <1>3, AllMetStays DEF MatrixInv, scoreVars
<1>4. CASE run_prompt \/ score
    <2>1. UNCHANGED <<mode, artifacts, gate_failed>> /\ bpc' # "exit 0"
        BY <1>4 DEF run_prompt, score, Scored
    <2>2. rows' \in Seq(BOOLEAN) /\ (bpc' = "gate" => Len(rows') = Prompts)
        <3>1. CASE run_prompt /\ rows' # rows
            <4>1. PICK passes \in BOOLEAN : rows' = Append(rows, passes)
                BY <3>1 DEF run_prompt, row_passes
            <4>2. rows' \in Seq(BOOLEAN)
                BY <4>1, AppendProperties DEF MatrixInv
            <4> QED BY <3>1, <4>2 DEF run_prompt
        <3>2. CASE score \/ rows' = rows
            <4>1. rows' = rows /\ ~(bpc' = "gate" /\ score)
                BY <3>2 DEF score
            <4>2. run_prompt /\ bpc' = "gate" => Len(rows') = Prompts
                BY DEF run_prompt
            <4> QED BY <1>4, <4>1, <4>2 DEF MatrixInv
        <3> QED BY <1>4, <3>1, <3>2
    <2> QED BY <1>b, <2>1, <2>2, AllMetStays
<1>5. CASE RecordMode
    <2>1. /\ bpc = "gate" /\ rows' = rows /\ artifacts' = [artifacts EXCEPT ![mode] = rows]
          /\ gate_failed' = (gate_failed \/ threshold_failures(rows) # {})
          /\ IF mode < Modes THEN mode' = mode + 1 /\ bpc' = "mode"
             ELSE mode' = mode /\ bpc' = IF gate_failed' THEN "exit 1" ELSE "exit 0"
        BY <1>5 DEF RecordMode, Record
    <2>2. mode \in 1 .. Modes /\ mode \in Nat /\ 1 <= mode /\ mode <= Modes /\ Modes \in Nat
        <3>1. mode \in 1 .. Modes /\ Modes \in Nat
            BY BatteryAssumption DEF MatrixInv
        <3> QED BY <3>1
    <2>a. (mode < Modes /\ mode' = mode + 1) \/ (mode = Modes /\ mode' = mode)
        <3>1. mode < Modes \/ mode = Modes
            BY <2>2
        <3> QED BY <2>1, <2>2, <3>1
    <2>e. bpc' = "exit 0" => mode = Modes /\ ~gate_failed'
        BY <2>1, <2>a
    <2>3. /\ artifacts' = [m \in 1 .. Modes |-> artifacts'[m]] /\ artifacts'[mode] = rows
          /\ \A m \in 1 .. Modes : m # mode => artifacts'[m] = artifacts[m]
        BY <2>1, <2>2 DEF MatrixInv
    <2>4. ASSUME ~gate_failed' PROVE \A m \in 1 .. mode : Met(m)'
        <3>1. ~gate_failed /\ threshold_failures(rows) = {} /\ Len(rows) = Prompts
            BY <2>1, <2>4 DEF MatrixInv
        <3>2. TAKE m \in 1 .. mode
        <3>3. CASE m = mode
            <4>1. artifacts'[m] = rows
                BY <2>3, <3>3
            <4> QED BY <1>b, <3>1, <4>1, MetByRows
        <3>4. CASE m # mode
            <4>1. m \in 1 .. (mode - 1) /\ m \in 1 .. Modes
                BY <2>2, <3>4
            <4>2. Met(m) /\ artifacts'[m] = artifacts[m]
                BY <2>3, <3>1, <3>4, <4>1 DEF MatrixInv
            <4> QED BY <1>b, <4>2, MetStays
        <3> QED BY <3>3, <3>4
    <2>5. ~gate_failed' => \A m \in 1 .. (mode' - 1) : Met(m)'
        <3>1. 1 .. (mode' - 1) \subseteq 1 .. mode
            BY <2>2, <2>a
        <3> QED BY <2>4, <3>1
    <2>6. bpc' = "exit 0" => \A m \in 1 .. Modes : Met(m)'
        BY <2>4, <2>e
    <2>7. rows' \in Seq(BOOLEAN) /\ bpc' # "gate"
        BY <2>1 DEF MatrixInv
    <2>8. mode' \in 1 .. Modes
        BY <2>2, <2>a
    <2> QED BY <2>3, <2>5, <2>6, <2>7, <2>8 DEF MatrixInv
<1>6. CASE Popen \/ run_streaming_command \/ stop_process \/ CheckSession
    <2>1. UNCHANGED scoreVars /\ bpc' \notin {"gate", "exit 0"}
        BY <1>6 DEF Popen, run_streaming_command, select, readline, poll, ReadRest, stop_process,
                    CheckSession, Goes
    <2> QED BY <1>2, <2>1
<1>7. CASE Claude \/ ChildEnds \/ UNCHANGED batteryVars
    BY <1>3, <1>7 DEF Claude, ChildEnds, batteryVars, scoreVars
<1> QED BY <1>1, <1>4, <1>5, <1>6, <1>7 DEF BatteryNext

BatteryInv == SessionInv /\ MatrixInv

LEMMA BatteryInitInv == ASSUME BatteryInit PROVE BatteryInv
<1>1. bpc = "mode" /\ mode = 1 /\ rows = <<>> /\ process = NoProcess /\ stream = NoStream
      /\ artifacts = [m \in 1 .. Modes |-> <<>>] /\ ~gate_failed
    BY DEF BatteryInit
<1>2. SessionInv
    BY <1>1, ToSetEmpty, EmptySeq DEF SessionInv, StreamOK, Conserved, NoStream, NoProcess
<1>3. MatrixInv
    <2>1. rows \in Seq(BOOLEAN) /\ 1 \in 1 .. Modes /\ 1 .. (1 - 1) = {}
        BY <1>1, BatteryAssumption
    <2> QED BY <1>1, <2>1 DEF MatrixInv
<1> QED BY <1>2, <1>3 DEF BatteryInv

LEMMA BatteryKeeps == QaInit /\ [][QaNext]_<<vars, batteryVars, tool>> => []BatteryInv
<1>1. QaInit => BatteryInv
    BY BatteryInitInv DEF QaInit
<1>2. BatteryInv /\ [QaNext]_<<vars, batteryVars, tool>> => BatteryInv'
    BY SessionStep, MatrixStep DEF BatteryInv, QaNext
<1> QED BY <1>1, <1>2, PTL

\* The battery exits with 0 only if every install mode was scored in full and reached its
\* thresholds: main (trigger_battery.py) carries a failed gate from mode to mode
THEOREM BatteryGateIsMet == QaSpec => []GateIsMet
<1>1. BatteryInv => GateIsMet
    BY DEF BatteryInv, MatrixInv, Met, GateIsMet
<1> QED BY <1>1, BatteryKeeps, PTL DEF QaSpec

\* A row is what the whole stream of its session says, whatever the reader found in the pipe, in
\* Python's buffer or after the end, and where the session was stopped early no line could change it:
\* run_streaming_command (trigger_battery.py)
THEOREM BatteryRowIsTrue == QaSpec => RowIsTrue
<1>1. BatteryInv /\ [QaNext]_<<vars, batteryVars, tool>> =>
        [Len(rows') > Len(rows) =>
           LET selected == stream.said \ {"none"}
           IN  Last(rows') = row_passes(Fires(selected), Violations(selected))]_rows
    BY RowStep DEF BatteryInv, MatrixInv, QaNext
<1> QED BY <1>1, BatteryKeeps, PTL DEF QaSpec, RowIsTrue

-----------------------------------------------------------------------------
(* The harnesses: an accepted session stands *)

SessionOK(n) ==
  sess[n] = [tries |-> sess[n].tries, accepted |-> sess[n].accepted, by |-> sess[n].by,
             result |-> sess[n].result, about |-> sess[n].about]

\* What a pool has still to run was not accepted, and nothing is in it twice: else a session could be
\* accepted while it waits for its second run
PoolInv ==
  /\ sess = [n \in DOMAIN sess |-> sess[n]]
  /\ \A n \in DOMAIN sess : SessionOK(n)
  /\ \A n \in (queue \union running \union failed) \intersect DOMAIN sess : ~Accepted(n)
  /\ queue \intersect running = {} /\ failed \intersect (queue \union running) = {}
  /\ written \subseteq running
  /\ round \in Nat /\ (round = 0 => queue = {} /\ running = {} /\ failed = {})

Stands == DOMAIN sess' = DOMAIN sess /\ \A n \in DOMAIN sess : Accepted(n) => sess'[n] = sess[n]

\* The steps of run_session
SessionMoves(n) ==
  \/ StartSession(n) \/ AcceptSession(n) \/ FailSession(n)
  \/ n \in running /\ \E result, about : WriteResult(n, result, about)

LEMMA SessionMovesKeep ==
  ASSUME PoolInv, NEW n, SessionMoves(n), round # 0
  PROVE  PoolInv' /\ Stands
<1>0. /\ sess = [m \in DOMAIN sess |-> sess[m]] /\ \A m \in DOMAIN sess : SessionOK(m)
      /\ round' = round
    BY DEF PoolInv, SessionMoves, StartSession, AcceptSession, FailSession, WriteResult
<1>1. CASE StartSession(n)
    <2>1. /\ n \in queue /\ queue' = queue \ {n} /\ running' = running \union {n}
          /\ UNCHANGED <<written, failed>>
          /\ sess' = [sess EXCEPT ![n] = [sess[n] EXCEPT !.tries = sess[n].tries + 1]]
        BY <1>1 DEF StartSession
    <2>2. /\ DOMAIN sess' = DOMAIN sess /\ sess' = [m \in DOMAIN sess |-> sess'[m]]
          /\ \A m \in DOMAIN sess : m # n => sess'[m] = sess[m]
          /\ n \in DOMAIN sess => sess'[n] = [sess[n] EXCEPT !.tries = sess[n].tries + 1]
        BY <1>0, <2>1
    <2>3. n \in DOMAIN sess => sess'[n].accepted = sess[n].accepted /\ SessionOK(n)' /\ ~Accepted(n)
        BY <1>0, <2>1, <2>2 DEF SessionOK, PoolInv
    <2>4. \A m \in DOMAIN sess : SessionOK(m)' /\ (Accepted(m)' <=> Accepted(m))
        BY <1>0, <2>2, <2>3 DEF SessionOK, Accepted
    <2> QED BY <1>0, <2>1, <2>2, <2>3, <2>4 DEF PoolInv, Stands
<1>2. CASE n \in running /\ \E result, about : WriteResult(n, result, about)
    <2>1. PICK result, about : WriteResult(n, result, about)
        BY <1>2
    <2>2. /\ n \in running /\ UNCHANGED <<queue, running, failed>> /\ written' = written \union {n}
          /\ sess' = [sess EXCEPT ![n].by = sess[n].tries, ![n].result = result, ![n].about = about]
        BY <1>2, <2>1 DEF WriteResult
    <2>3. /\ DOMAIN sess' = DOMAIN sess /\ sess' = [m \in DOMAIN sess |-> sess'[m]]
          /\ \A m \in DOMAIN sess : m # n => sess'[m] = sess[m]
        BY <1>0, <2>2
    <2>a. ASSUME n \in DOMAIN sess
          PROVE  sess'[n] = [tries |-> sess[n].tries, accepted |-> sess[n].accepted, by |-> sess[n].tries,
                             result |-> result, about |-> about]
        <3> DEFINE old == sess[n]
        <3>1. sess'[n] = [[[old EXCEPT !.by = old.tries] EXCEPT !.result = result] EXCEPT !.about = about]
            BY <1>0, <2>2, <2>a, Zenon
        <3>2. old = [tries |-> old.tries, accepted |-> old.accepted, by |-> old.by,
                     result |-> old.result, about |-> old.about]
            BY <1>0, <2>a DEF SessionOK
        <3> HIDE DEF old
        <3>3. sess'[n] = [tries |-> old.tries, accepted |-> old.accepted, by |-> old.tries,
                          result |-> result, about |-> about]
            BY <3>1, <3>2
        <3> QED BY <3>3 DEF old
    <2>4. ASSUME n \in DOMAIN sess
          PROVE  sess'[n].accepted = sess[n].accepted /\ SessionOK(n)' /\ ~Accepted(n)
        <3>1. sess'[n].accepted = sess[n].accepted /\ SessionOK(n)'
            BY <2>a, <2>4 DEF SessionOK
        <3> QED BY <2>2, <2>4, <3>1 DEF PoolInv
    <2>5. \A m \in DOMAIN sess : SessionOK(m)' /\ (Accepted(m)' <=> Accepted(m))
        BY <1>0, <2>3, <2>4 DEF SessionOK, Accepted
    <2> QED BY <1>0, <2>2, <2>3, <2>4, <2>5 DEF PoolInv, Stands
<1>3. CASE AcceptSession(n)
    <2>1. /\ n \in running /\ running' = running \ {n} /\ written' = written \ {n}
          /\ UNCHANGED <<queue, failed>>
          /\ sess' = [sess EXCEPT ![n] = [sess[n] EXCEPT !.accepted = sess[n].tries]]
        BY <1>3 DEF AcceptSession, PoolInv
    <2>2. /\ DOMAIN sess' = DOMAIN sess /\ sess' = [m \in DOMAIN sess |-> sess'[m]]
          /\ \A m \in DOMAIN sess : m # n => sess'[m] = sess[m]
          /\ n \in DOMAIN sess => sess'[n] = [sess[n] EXCEPT !.accepted = sess[n].tries]
        BY <1>0, <2>1
    <2>3. n \in DOMAIN sess => SessionOK(n)' /\ ~Accepted(n)
        BY <1>0, <2>1, <2>2 DEF SessionOK, PoolInv
    <2>4. \A m \in DOMAIN sess : SessionOK(m)' /\ (m # n => (Accepted(m)' <=> Accepted(m)))
        BY <1>0, <2>2, <2>3 DEF SessionOK, Accepted
    <2>5. n \notin (queue' \union running' \union failed')
        BY <2>1 DEF PoolInv
    <2> QED BY <1>0, <2>1, <2>2, <2>3, <2>4, <2>5 DEF PoolInv, Stands
<1>4. CASE FailSession(n)
    <2>1. /\ n \in running \ written /\ running' = running \ {n} /\ failed' = failed \union {n}
          /\ UNCHANGED <<queue, written, sess>>
        BY <1>4 DEF FailSession
    <2>2. (queue' \union running' \union failed') \subseteq queue \union running \union failed
        BY <2>1
    <2> QED BY <1>0, <2>1, <2>2 DEF PoolInv, Stands, SessionOK, Accepted
<1> QED BY <1>1, <1>2, <1>3, <1>4 DEF SessionMoves

PoolFiles == <<sess, queue, running, written, failed, round>>

\* The steps between sessions
PoolMoves ==
  \/ \E names : Submit(names)
  \/ CancelQueued \/ NextRound \/ Returns \/ Gone
  \/ \E n \in queue \union running : SessionMoves(n)

LEMMA PoolMovesKeep == ASSUME PoolInv, PoolMoves \/ UNCHANGED PoolFiles PROVE PoolInv' /\ Stands
<1>1. CASE UNCHANGED PoolFiles
    BY <1>1 DEF PoolFiles, PoolInv, Stands, SessionOK, Accepted
<1>2. ASSUME NEW names, Submit(names) PROVE PoolInv' /\ Stands
    <2>1. /\ round = 0 /\ round' = 1 /\ queue' = Unaccepted(names)
          /\ UNCHANGED <<sess, running, written, failed>>
        BY <1>2 DEF Submit, NoPool
    <2>2. running = {} /\ failed = {} /\ written = {}
        BY <2>1 DEF PoolInv
    <2>3. \A n \in queue' : ~Accepted(n)
        BY <2>1 DEF Unaccepted
    <2> QED BY <2>1, <2>2, <2>3 DEF PoolInv, Stands, SessionOK, Accepted
<1>3. CASE CancelQueued \/ NextRound \/ Returns
    <2>1. /\ UNCHANGED <<sess, running, written>> /\ queue' \union failed' \subseteq queue \union failed
          /\ queue' \intersect running = {} /\ failed' \intersect (queue' \union running) = {}
          /\ round' \in Nat /\ (round' = 0 => queue' = {} /\ running = {} /\ failed' = {})
        <3>1. CASE CancelQueued
            BY <3>1 DEF CancelQueued, PoolInv
        <3>2. CASE NextRound
            BY <3>2 DEF NextRound, PoolEmpty, PoolInv
        <3>3. CASE Returns
            BY <3>3 DEF Returns, PoolEmpty, PoolInv
        <3> QED BY <1>3, <3>1, <3>2, <3>3
    <2> QED BY <2>1 DEF PoolInv, Stands, SessionOK, Accepted
<1>4. CASE Gone
    BY <1>4 DEF Gone, PoolInv, Stands, SessionOK, Accepted
<1>5. ASSUME NEW n \in queue \union running, SessionMoves(n) PROVE PoolInv' /\ Stands
    <2>1. round # 0
        BY <1>5 DEF PoolInv
    <2> QED BY <1>5, <2>1, SessionMovesKeep
<1> QED BY <1>1, <1>2, <1>3, <1>4, <1>5 DEF PoolMoves

LEMMA SessionIsMove ==
  ASSUME NEW n
  PROVE  (run_session(n) => SessionMoves(n)) /\ (screen_run_session(n) => SessionMoves(n))
BY DEF run_session, screen_run_session, RunSession, SessionMoves

LEMMA PoolsMove ==
  /\ run_sessions \/ replication_run_resilient \/ mechanics_run_resilient => PoolMoves
  /\ screen_run_sessions => PoolMoves
<1>1. ASSUME NEW names, Pool(names, run_session) \/ Pool(names, screen_run_session) PROVE PoolMoves
    BY <1>1, SessionIsMove DEF Pool, PoolMoves
<1> QED BY <1>1 DEF run_sessions, replication_run_resilient, mechanics_run_resilient, screen_run_sessions,
                    PoolReturns, PoolRetries, PoolMoves

LEMMA HarnessStep == ASSUME [Next]_vars PROVE PoolMoves \/ UNCHANGED PoolFiles
<1>1. CASE Driven
    BY <1>1 DEF Driven, Started, Invoke, PoolRaises, Killed, PoolMoves, PoolFiles
<1>2. CASE GapPool \/ screen_run_sessions
    BY <1>2, PoolsMove DEF GapPool
<1>3. CASE freeze_sources \/ setup \/ tournament_setup \/ replication_setup \/ mechanics_setup \/ control_cases
    BY <1>3 DEF freeze_sources, setup, tournament_setup, replication_setup, mechanics_setup, CopyReviews,
                control_cases, Alone, poolVars, PoolFiles
<1>4. CASE reviews \/ audits \/ tie_judgment \/ unleaked \/ prep \/ screen_reviews \/ approaches \/ assemble \/ audit
    BY <1>4 DEF reviews, audits, tie_judgment, unleaked, prep, screen_reviews, approaches, assemble, audit,
                Alone, poolVars, PoolFiles
<1>5. ASSUME NEW b, NEW verdict, Judged(b, verdict) PROVE UNCHANGED PoolFiles
    BY <1>5 DEF Judged, Alone, poolVars, PoolFiles
<1>6. CASE judge \/ tournament_judge \/ replication_judge \/ mechanics_judge
    BY <1>5, <1>6 DEF judge, tournament_judge, replication_judge, mechanics_judge
<1>7. CASE summarize \/ tournament_summarize \/ replication_summarize \/ mechanics_summarize \/ screen_summarize
    BY <1>7 DEF summarize, tournament_summarize, replication_summarize, mechanics_summarize, screen_summarize,
                Decide, Alone, poolVars, PoolFiles
<1>8. CASE EditSources
    BY <1>8 DEF EditSources, PoolFiles
<1>9. CASE screen_setup \/ screen_judge
    BY <1>3, <1>4, <1>5, <1>9 DEF screen_setup, screen_judge
<1>10. CASE UNCHANGED vars
    BY <1>10 DEF vars, harnessVars, poolVars, PoolFiles
<1> QED BY <1>1, <1>2, <1>3, <1>4, <1>6, <1>7, <1>8, <1>9, <1>10 DEF Next, ScreenNext, GapNext

LEMMA PoolInit == ASSUME Init PROVE PoolInv
<1>1. PICK names : HarnessInit(names)
    BY DEF Init, GapInit, ScreenInit
<1>2. /\ sess = [n \in names |-> NoSession] /\ queue = {} /\ running = {} /\ written = {} /\ failed = {}
      /\ round = 0
    BY <1>1 DEF HarnessInit
<1> QED BY <1>2 DEF PoolInv, SessionOK, NoSession

LEMMA PoolKeeps == QaInit /\ [][QaNext]_<<vars, batteryVars, tool>> => []PoolInv
<1>1. QaInit => PoolInv
    BY PoolInit DEF QaInit
<1>2. PoolInv /\ [QaNext]_<<vars, batteryVars, tool>> => PoolInv'
    BY HarnessStep, PoolMovesKeep DEF QaNext
<1> QED BY <1>1, <1>2, PTL

\* A session that has its metrics.json is never run again and its answer never replaced, whatever
\* fails, is run again, resumed or killed: run_session and run_sessions of the five run_*.py
THEOREM HarnessAcceptedStands == QaSpec => AcceptedStands
<1>1. PoolInv /\ [QaNext]_<<vars, batteryVars, tool>> =>
        [\A n \in DOMAIN sess : Accepted(n) => sess'[n] = sess[n]]_sess
    BY HarnessStep, PoolMovesKeep DEF QaNext, Stands
<1> QED BY <1>1, PoolKeeps, PTL DEF QaSpec, AcceptedStands

-----------------------------------------------------------------------------
(* The harnesses: their scripts *)

Phases == {"setup", "controls", "reviews", "audits", "judge", "summary"}
Operations == {"freeze", "copy", "pool", "mend", "score", "keep", "evidence", "admit", "tie", "verdict",
               "summarize"}
Arguments == {"control", "review", "audit", "repair", "discovery", "coverage", "judge"} \union Nat
ScriptSteps == (Phases \X Operations) \union (Phases \X Operations \X Arguments)

K == Cardinality(Blocks)

LEMMA Count_K == K \in Nat
BY BlocksAssumption, FS_CardinalityType DEF K

LEMMA EachOne ==
  ASSUME NEW phase \in Phases, NEW op \in {"admit", "verdict"}
  PROVE  /\ Each(phase, <<op>>) \in Seq(ScriptSteps) /\ Len(Each(phase, <<op>>)) = K
         /\ \A i \in 1 .. K : Each(phase, <<op>>)[i] = <<phase, op, i>>
<1>1. Len(<<op>>) * Cardinality(Blocks) = K /\ K \in Nat
    BY Count_K DEF K
<1>2. \A i \in 1 .. K : /\ ((i - 1) % Len(<<op>>)) + 1 = 1 /\ ((i - 1) \div Len(<<op>>)) + 1 = i
                        /\ <<op>>[1] = op
    BY <1>1
<1>3. Each(phase, <<op>>) = [i \in 1 .. K |-> <<phase, op, i>>]
    BY <1>1, <1>2 DEF Each
<1>4. \A i \in 1 .. K : <<phase, op, i>> \in ScriptSteps
    BY <1>1 DEF ScriptSteps, Operations, Arguments
<1> HIDE DEF ScriptSteps
<1> QED BY <1>1, <1>3, <1>4

LEMMA EachTwo ==
  LET E == Each("audits", <<"mend", "admit">>)
  IN  /\ E \in Seq(ScriptSteps) /\ Len(E) = 2 * K
      /\ \A b \in 1 .. K : E[2 * b - 1] = <<"audits", "mend", b>> /\ E[2 * b] = <<"audits", "admit", b>>
      /\ \A i \in 1 .. 2 * K : \E b \in 1 .. K : i \in {2 * b - 1, 2 * b}
<1> DEFINE ops == <<"mend", "admit">>
           E == Each("audits", ops)
<1>1. Len(ops) = 2 /\ ops[1] = "mend" /\ ops[2] = "admit" /\ K \in Nat /\ Len(ops) * Cardinality(Blocks) = 2 * K
    BY Count_K DEF K
<1>2. E = [i \in 1 .. 2 * K |-> <<"audits", ops[((i - 1) % 2) + 1], ((i - 1) \div 2) + 1>>]
    BY <1>1 DEF Each
<1> HIDE DEF ops, E
<1>3. ASSUME NEW b \in 1 .. K
      PROVE  /\ 2 * b - 1 \in 1 .. 2 * K /\ 2 * b \in 1 .. 2 * K
             /\ (((2 * b - 1) - 1) % 2) + 1 = 1 /\ (((2 * b - 1) - 1) \div 2) + 1 = b
             /\ ((2 * b - 1) % 2) + 1 = 2 /\ ((2 * b - 1) \div 2) + 1 = b
    BY <1>1
<1>4. ASSUME NEW b \in 1 .. K
      PROVE  E[2 * b - 1] = <<"audits", "mend", b>> /\ E[2 * b] = <<"audits", "admit", b>>
    <2>1. E[2 * b - 1] = <<"audits", ops[(((2 * b - 1) - 1) % 2) + 1], (((2 * b - 1) - 1) \div 2) + 1>>
        BY <1>2, <1>3
    <2>2. E[2 * b] = <<"audits", ops[((2 * b - 1) % 2) + 1], ((2 * b - 1) \div 2) + 1>>
        BY <1>2, <1>3
    <2> QED BY <1>1, <1>3, <2>1, <2>2
<1>5. ASSUME NEW i \in 1 .. 2 * K PROVE \E b \in 1 .. K : i \in {2 * b - 1, 2 * b}
    <2>1. (i + 1) \div 2 \in 1 .. K /\ i \in {2 * ((i + 1) \div 2) - 1, 2 * ((i + 1) \div 2)}
        BY <1>1
    <2> QED BY <2>1
<1>6. \A i \in 1 .. 2 * K : E[i] \in ScriptSteps
    <2>1. \A b \in 1 .. K : <<"audits", "mend", b>> \in ScriptSteps /\ <<"audits", "admit", b>> \in ScriptSteps
        BY <1>1 DEF ScriptSteps, Operations, Arguments, Phases
    <2> QED BY <1>4, <1>5, <2>1
<1>7. E \in Seq(ScriptSteps) /\ Len(E) = 2 * K
    <2> HIDE DEF ScriptSteps
    <2>1. E \in [1 .. 2 * K -> ScriptSteps] /\ 2 * K \in Nat
        BY <1>1, <1>2, <1>6
    <2> QED BY <2>1
<1> QED BY <1>4, <1>5, <1>7 DEF ops, E

LEMMA ConcatType ==
  ASSUME NEW s \in Seq(ScriptSteps), NEW t \in Seq(ScriptSteps)
  PROVE  s \o t \in Seq(ScriptSteps) /\ Len(s \o t) = Len(s) + Len(t)
BY ConcatProperties

\* The positions in the first and in the second of two sequences
LEMMA ConcatAt ==
  ASSUME NEW s \in Seq(ScriptSteps), NEW t \in Seq(ScriptSteps),
         NEW j \in 1 .. Len(s) + Len(t)
  PROVE  (s \o t)[j] = IF j <= Len(s) THEN s[j] ELSE t[j - Len(s)]
BY ConcatProperties

LEMMA ConcatFirst ==
  ASSUME NEW s \in Seq(ScriptSteps), NEW t \in Seq(ScriptSteps), NEW i \in 1 .. Len(s)
  PROVE  (s \o t)[i] = s[i]
<1>1. Len(s) \in Nat /\ Len(t) \in Nat
    BY LenProperties
<1>2. i \in 1 .. Len(s) + Len(t) /\ i <= Len(s)
    BY <1>1
<1> HIDE DEF ScriptSteps
<1> QED BY <1>2, ConcatAt

LEMMA ConcatSecond ==
  ASSUME NEW s \in Seq(ScriptSteps), NEW t \in Seq(ScriptSteps), NEW i \in 1 .. Len(t),
         NEW j \in Nat, j = Len(s) + i
  PROVE  (s \o t)[j] = t[i]
<1>1. Len(s) \in Nat /\ Len(t) \in Nat
    BY LenProperties
<1>2. j \in 1 .. Len(s) + Len(t) /\ ~(j <= Len(s)) /\ j - Len(s) = i
    BY <1>1
<1> QED BY <1>2, ConcatAt

\* The end of every script, after a steps: a + 1, ...
EndsIn(s, a) ==
  /\ Len(s) = a + K + 5
  /\ s[a + 1] = <<"judge", "freeze">> /\ s[a + 2] = <<"judge", "tie">>
  /\ s[a + 3] = <<"judge", "pool", "judge">>
  /\ \A b \in 1 .. K : s[a + 3 + b] = <<"judge", "verdict", b>>
  /\ s[a + K + 4] = <<"summary", "freeze">> /\ s[a + K + 5] = <<"summary", "summarize">>

LEMMA JudgingEnds == Judging \in Seq(ScriptSteps) /\ EndsIn(Judging, 0)
<1> DEFINE A == << <<"judge", "freeze">>, <<"judge", "tie">>, <<"judge", "pool", "judge">> >>
           E == Each("judge", <<"verdict">>)
           Z == << <<"summary", "freeze">>, <<"summary", "summarize">> >>
<1>1. /\ K \in Nat /\ E \in Seq(ScriptSteps) /\ Len(E) = K
      /\ \A i \in 1 .. K : E[i] = <<"judge", "verdict", i>>
    BY Count_K, EachOne DEF Phases
<1>2. A \in Seq(ScriptSteps) /\ Z \in Seq(ScriptSteps)
    <2>1. /\ <<"judge", "freeze">> \in ScriptSteps /\ <<"judge", "tie">> \in ScriptSteps
          /\ <<"judge", "pool", "judge">> \in ScriptSteps
          /\ <<"summary", "freeze">> \in ScriptSteps /\ <<"summary", "summarize">> \in ScriptSteps
        BY DEF ScriptSteps, Phases, Operations, Arguments
    <2> HIDE DEF ScriptSteps
    <2> QED BY <2>1
<1>3. /\ Len(A) = 3 /\ A[1] = <<"judge", "freeze">> /\ A[2] = <<"judge", "tie">>
      /\ A[3] = <<"judge", "pool", "judge">>
      /\ Len(Z) = 2 /\ Z[1] = <<"summary", "freeze">> /\ Z[2] = <<"summary", "summarize">>
    OBVIOUS
<1>4. Judging = (A \o E) \o Z
    BY DEF Judging
<1> HIDE DEF A, E, Z
<1>5. A \o E \in Seq(ScriptSteps) /\ Len(A \o E) = 3 + K
    <2>1. A \o E \in Seq(ScriptSteps) /\ Len(A \o E) = Len(A) + Len(E)
        BY <1>1, <1>2, ConcatType
    <2> QED BY <1>1, <1>3, <2>1
<1>6. Judging \in Seq(ScriptSteps) /\ Len(Judging) = (3 + K) + 2
    <2>1. Judging \in Seq(ScriptSteps) /\ Len(Judging) = Len(A \o E) + Len(Z)
        BY <1>2, <1>4, <1>5, ConcatType
    <2> QED BY <1>3, <1>5, <2>1
<1>7. ASSUME NEW i \in {1, 2, 3} PROVE Judging[i] = A[i]
    <2>1. i \in 1 .. Len(A) /\ i \in 1 .. Len(A \o E)
        BY <1>1, <1>3, <1>5
    <2>2. (A \o E)[i] = A[i]
        BY <1>1, <1>2, <2>1, ConcatFirst
    <2>3. Judging[i] = (A \o E)[i]
        BY <1>2, <1>4, <1>5, <2>1, ConcatFirst
    <2> QED BY <2>2, <2>3
<1>8. ASSUME NEW b \in 1 .. K, NEW j \in Nat, j = 3 + b PROVE Judging[j] = E[b]
    <2>1. b \in 1 .. Len(E) /\ j = Len(A) + b /\ j \in 1 .. Len(A \o E)
        BY <1>1, <1>3, <1>5, <1>8
    <2>2. (A \o E)[j] = E[b]
        BY <1>1, <1>2, <2>1, ConcatSecond
    <2>3. Judging[j] = (A \o E)[j]
        BY <1>2, <1>4, <1>5, <2>1, ConcatFirst
    <2> QED BY <2>2, <2>3
<1>9. ASSUME NEW i \in {1, 2}, NEW j \in Nat, j = (3 + K) + i PROVE Judging[j] = Z[i]
    <2>1. i \in 1 .. Len(Z) /\ j = Len(A \o E) + i
        BY <1>3, <1>5, <1>9
    <2> QED BY <1>2, <1>4, <1>5, <2>1, ConcatSecond
<1>10. /\ (3 + K) + 2 = 0 + K + 5 /\ 0 + 1 = 1 /\ 0 + 2 = 2 /\ 0 + 3 = 3
       /\ 0 + K + 4 \in Nat /\ 0 + K + 4 = (3 + K) + 1 /\ 0 + K + 5 \in Nat /\ 0 + K + 5 = (3 + K) + 2
    BY <1>1
<1>11. ASSUME NEW b \in 1 .. K PROVE Judging[0 + 3 + b] = <<"judge", "verdict", b>>
    <2>1. 0 + 3 + b \in Nat /\ 0 + 3 + b = 3 + b
        BY <1>1
    <2> QED BY <1>1, <1>8, <2>1
<1>12. /\ Judging[1] = A[1] /\ Judging[2] = A[2] /\ Judging[3] = A[3]
       /\ Judging[0 + K + 4] = Z[1] /\ Judging[0 + K + 5] = Z[2]
    BY <1>7, <1>9, <1>10
<1> QED BY <1>3, <1>6, <1>10, <1>11, <1>12 DEF EndsIn

LEMMA Joined ==
  ASSUME NEW A \in Seq(ScriptSteps), NEW E \in Seq(ScriptSteps), NEW a \in Nat, NEW e \in Nat,
         Len(A) = a, Len(E) = e
  PROVE  LET s == A \o E \o Judging
         IN  /\ s \in Seq(ScriptSteps) /\ EndsIn(s, a + e)
             /\ \A i \in 1 .. a : s[i] = A[i]
<1> DEFINE s == A \o E \o Judging
<1>1. A \o E \in Seq(ScriptSteps) /\ Len(A \o E) = a + e
    BY ConcatType
<1>2. K \in Nat /\ Judging \in Seq(ScriptSteps) /\ Len(Judging) = K + 5 /\ a + e \in Nat /\ K + 5 \in Nat
    <2>1. Len(Judging) = 0 + K + 5
        BY JudgingEnds DEF EndsIn
    <2> QED BY Count_K, JudgingEnds, <2>1
<1>3. s \in Seq(ScriptSteps) /\ Len(s) = (a + e) + (K + 5)
    <2>1. s \in Seq(ScriptSteps) /\ Len(s) = Len(A \o E) + Len(Judging)
        BY <1>1, <1>2, ConcatType
    <2> QED BY <1>1, <1>2, <2>1
<1>4. ASSUME NEW i \in 1 .. K + 5, NEW j \in Nat, j = (a + e) + i PROVE s[j] = Judging[i]
    <2>1. i \in 1 .. Len(Judging) /\ j = Len(A \o E) + i
        BY <1>1, <1>2, <1>4
    <2> QED BY <1>1, <1>2, <2>1, ConcatSecond
<1>5. ASSUME NEW i \in 1 .. a + e PROVE s[i] = (A \o E)[i]
    <2>1. i \in 1 .. Len(A \o E)
        BY <1>1
    <2> QED BY <1>1, <1>2, <2>1, ConcatFirst
<1>6. ASSUME NEW i \in 1 .. a PROVE s[i] = A[i]
    <2>1. i \in 1 .. Len(A) /\ i \in 1 .. a + e
        OBVIOUS
    <2>2. (A \o E)[i] = A[i]
        BY <2>1, ConcatFirst
    <2> QED BY <1>5, <2>1, <2>2
<1>7. EndsIn(s, a + e)
    <2> HIDE DEF s
    <2>1. Len(s) = (a + e) + K + 5
        BY <1>2, <1>3
    <2>2. ASSUME NEW i \in {1, 2, 3} PROVE s[(a + e) + i] = Judging[i]
        <3>1. i \in 1 .. K + 5 /\ (a + e) + i \in Nat
            BY <1>2
        <3> QED BY <1>4, <3>1
    <2>3. s[(a + e) + K + 4] = Judging[K + 4] /\ s[(a + e) + K + 5] = Judging[K + 5]
        <3>1. /\ K + 4 \in 1 .. K + 5 /\ (a + e) + K + 4 \in Nat /\ (a + e) + K + 4 = (a + e) + (K + 4)
              /\ K + 5 \in 1 .. K + 5 /\ (a + e) + K + 5 \in Nat /\ (a + e) + K + 5 = (a + e) + (K + 5)
            BY <1>2
        <3> QED BY <1>4, <3>1
    <2>4. ASSUME NEW b \in 1 .. K PROVE s[(a + e) + 3 + b] = Judging[0 + 3 + b]
        <3>1. 0 + 3 + b \in 1 .. K + 5 /\ (a + e) + 3 + b \in Nat /\ (a + e) + 3 + b = (a + e) + (0 + 3 + b)
            BY <1>2
        <3> QED BY <1>4, <3>1
    <2>5. /\ Judging[1] = <<"judge", "freeze">> /\ Judging[2] = <<"judge", "tie">>
          /\ Judging[3] = <<"judge", "pool", "judge">>
          /\ \A b \in 1 .. K : Judging[0 + 3 + b] = <<"judge", "verdict", b>>
          /\ Judging[K + 4] = <<"summary", "freeze">> /\ Judging[K + 5] = <<"summary", "summarize">>
        <3>1. 0 + 1 = 1 /\ 0 + 2 = 2 /\ 0 + 3 = 3 /\ 0 + K + 4 = K + 4 /\ 0 + K + 5 = K + 5
            BY <1>2
        <3> QED BY <3>1, JudgingEnds DEF EndsIn
    <2> QED BY <2>1, <2>2, <2>3, <2>4, <2>5 DEF EndsIn
<1> QED BY <1>3, <1>6, <1>7 DEF s

LEMMA JoinedSecond ==
  ASSUME NEW A \in Seq(ScriptSteps), NEW E \in Seq(ScriptSteps), NEW i \in 1 .. Len(E),
         NEW j \in Nat, j = Len(A) + i
  PROVE  (A \o E \o Judging)[j] = E[i]
<1>1. A \o E \in Seq(ScriptSteps) /\ Len(A \o E) = Len(A) + Len(E) /\ Judging \in Seq(ScriptSteps)
    BY ConcatType, JudgingEnds
<1>2. Len(A) \in Nat /\ Len(E) \in Nat
    BY LenProperties
<1>3. j \in 1 .. Len(A \o E)
    BY <1>1, <1>2
<1>4. (A \o E)[j] = E[i]
    BY ConcatSecond
<1>5. (A \o E \o Judging)[j] = (A \o E)[j]
    BY <1>1, <1>3, ConcatFirst
<1> QED BY <1>4, <1>5

\* The harnesses that look at their sources before every phase
Guarded == {"matrix", "tournament", "replication"}
Late == {"audits", "judge", "summary"}

\* The plugin was copied, the reviews were written, before these steps
Prepared(step) == step[1] # "setup" \/ step[2] \notin {"freeze", "copy"}
Reviewed(step) == step[1] \in Late \/ step = <<"reviews", "keep">>

\* What two successive steps of their scripts may be
Follows(p, q) ==
  /\ q[2] = "summarize" => p = <<"summary", "freeze">> /\ q = <<"summary", "summarize">>
  /\ Prepared(q) => Prepared(p) \/ p = <<"setup", "copy">>
  /\ p[1] # q[1] => q[2] = "freeze"

FollowsReviews(p, q) ==
  /\ q = <<"reviews", "keep">> => p = <<"reviews", "pool", "review">>
  /\ q[1] \in Late => Reviewed(p)
  /\ p[1] = "reviews" => q[1] \in Late \union {"reviews"}

Ordered(s, matrix) ==
  /\ s \in Seq(ScriptSteps) /\ Len(s) \in Nat \ {0}
  /\ s[1] = <<"setup", "freeze">> /\ s[Len(s)] = <<"summary", "summarize">>
  /\ \A i, j \in 1 .. Len(s) :
        j = i + 1 => Follows(s[i], s[j]) /\ (matrix => FollowsReviews(s[i], s[j]))

LEMMA TailOf ==
  ASSUME NEW s \in Seq(ScriptSteps), NEW c \in Nat, EndsIn(s, c), NEW j \in c + 1 .. Len(s)
  PROVE  /\ s[j][1] \in Late /\ (s[j][2] = "summarize" => j = Len(s))
         /\ j = c + 1 \/ j = c + K + 4 => s[j][2] = "freeze"
         /\ s[j][1] = IF j <= c + K + 3 THEN "judge" ELSE "summary"
<1>1. K \in Nat /\ Len(s) = c + K + 5
    BY Count_K DEF EndsIn
<1>2. \/ j = c + 1 \/ j = c + 2 \/ j = c + 3
      \/ j - (c + 3) \in 1 .. K /\ j = c + 3 + (j - (c + 3))
      \/ j = c + K + 4 \/ j = c + K + 5
    BY <1>1
<1>3. CASE j = c + 1 \/ j = c + 2 \/ j = c + 3
    <2>1. /\ s[j] \in { <<"judge", "freeze">>, <<"judge", "tie">>, <<"judge", "pool", "judge">> }
          /\ j = c + 1 => s[j] = <<"judge", "freeze">>
        BY <1>3 DEF EndsIn
    <2>2. j <= c + K + 3 /\ j # c + K + 4
        BY <1>1, <1>3
    <2>3. s[j][1] = "judge" /\ s[j][2] # "summarize" /\ (j = c + 1 => s[j][2] = "freeze")
        BY <2>1
    <2> QED BY <2>2, <2>3 DEF Late
<1>4. CASE j - (c + 3) \in 1 .. K /\ j = c + 3 + (j - (c + 3))
    <2>1. s[j] = <<"judge", "verdict", j - (c + 3)>>
        BY <1>4 DEF EndsIn
    <2>2. j <= c + K + 3 /\ j # c + 1 /\ j # c + K + 4
        BY <1>1, <1>4
    <2>3. s[j][1] = "judge" /\ s[j][2] = "verdict"
        BY <2>1
    <2> QED BY <2>2, <2>3 DEF Late
<1>5. CASE j = c + K + 4
    <2>1. s[j] = <<"summary", "freeze">>
        BY <1>5 DEF EndsIn
    <2>2. ~(j <= c + K + 3)
        BY <1>1, <1>5
    <2>3. s[j][1] = "summary" /\ s[j][2] = "freeze"
        BY <2>1
    <2> QED BY <2>2, <2>3 DEF Late
<1>6. CASE j = c + K + 5
    <2>1. s[j] = <<"summary", "summarize">>
        BY <1>6 DEF EndsIn
    <2>2. ~(j <= c + K + 3)
        BY <1>1, <1>6
    <2>3. j # c + 1 /\ j # c + K + 4 /\ j = Len(s)
        BY <1>1, <1>6
    <2>4. s[j][1] = "summary"
        BY <2>1
    <2> QED BY <2>2, <2>3, <2>4 DEF Late
<1> QED BY <1>2, <1>3, <1>4, <1>5, <1>6

LEMMA JoinedInOrder ==
  ASSUME NEW A \in Seq(ScriptSteps), NEW E \in Seq(ScriptSteps), NEW a \in Nat \ {0}, NEW e \in Nat,
         Len(A) = a, Len(E) = e, NEW matrix,
         A[1] = <<"setup", "freeze">>, A[a][1] = "audits", A[a][2] # "summarize",
         \A i, j \in 1 .. a : j = i + 1 => Follows(A[i], A[j]) /\ (matrix => FollowsReviews(A[i], A[j])),
         \A i \in 1 .. e : E[i][1] = "audits" /\ E[i][2] # "summarize"
  PROVE  Ordered(A \o E \o Judging, matrix)
<1> DEFINE s == A \o E \o Judging
<1>1. s \in Seq(ScriptSteps) /\ EndsIn(s, a + e)
    BY Joined
<1>2. \A i \in 1 .. a : s[i] = A[i]
    BY Joined
<1>3. ASSUME NEW i \in 1 .. e, NEW j \in Nat, j = a + i PROVE s[j] = E[i]
    BY <1>3, JoinedSecond
<1> HIDE DEF s
<1>4. K \in Nat /\ a + e \in Nat /\ Len(s) = a + e + K + 5
    BY <1>1, Count_K DEF EndsIn
<1>5. ASSUME NEW j \in a .. Len(s) PROVE s[j][1] \in Late /\ (s[j][2] = "summarize" => j = Len(s))
    <2>1. CASE j = a
        BY <1>2, <2>1 DEF Late
    <2>2. CASE j > a /\ j <= a + e
        <3>1. j - a \in 1 .. e /\ j = a + (j - a) /\ j \in Nat
            BY <1>4, <2>2
        <3>2. s[j] = E[j - a]
            BY <1>3, <3>1
        <3> QED BY <3>1, <3>2 DEF Late
    <2>3. CASE j > a + e
        <3>1. j \in (a + e) + 1 .. Len(s)
            BY <1>4, <2>3
        <3> QED BY <1>1, <1>4, <3>1, TailOf
    <2> QED BY <1>4, <2>1, <2>2, <2>3
<1>6. /\ s[1] = <<"setup", "freeze">> /\ s[Len(s)] = <<"summary", "summarize">>
      /\ \A i \in Nat : i + 1 = Len(s) => s[i] = <<"summary", "freeze">>
    <2>1. s[a + e + K + 4] = <<"summary", "freeze">> /\ s[a + e + K + 5] = <<"summary", "summarize">>
        BY <1>1, <1>4 DEF EndsIn
    <2>2. ASSUME NEW i \in Nat, i + 1 = Len(s) PROVE i = a + e + K + 4
        <3>1. i + 1 = (a + e + K) + 5 /\ a + e + K \in Nat
            BY <1>4, <2>2
        <3> QED BY <3>1
    <2>3. s[1] = A[1]
        BY <1>2
    <2> QED BY <1>4, <2>1, <2>2, <2>3
\* a phase of the tail starts by looking at the sources
<1>9. ASSUME NEW i \in a .. Len(s), NEW j \in a .. Len(s), j = i + 1
      PROVE  s[i][1] # s[j][1] => s[j][2] = "freeze"
    <2>1. ASSUME NEW k \in a .. a + e PROVE s[k][1] = "audits"
        <3>1. CASE k = a
            BY <1>2, <3>1
        <3>2. CASE k > a
            <4>1. k - a \in 1 .. e /\ k = a + (k - a) /\ k \in Nat
                BY <1>4, <3>2
            <4>2. s[k] = E[k - a]
                BY <1>3, <4>1
            <4> QED BY <4>1, <4>2
        <3> QED BY <1>4, <3>1, <3>2
    <2>2. ASSUME NEW k \in (a + e) + 1 .. Len(s)
          PROVE  /\ k = (a + e) + 1 \/ k = (a + e) + K + 4 => s[k][2] = "freeze"
                 /\ s[k][1] = IF k <= (a + e) + K + 3 THEN "judge" ELSE "summary"
        <3>1. PICK c \in Nat : c = a + e
            BY <1>4
        <3>2. EndsIn(s, c) /\ k \in c + 1 .. Len(s)
            BY <1>1, <3>1
        <3>3. /\ k = c + 1 \/ k = c + K + 4 => s[k][2] = "freeze"
              /\ s[k][1] = IF k <= c + K + 3 THEN "judge" ELSE "summary"
            BY <1>1, <3>2, TailOf
        <3> QED BY <3>1, <3>3
    <2>3. CASE j <= a + e
        <3>1. i \in a .. a + e /\ j \in a .. a + e
            BY <1>4, <1>9, <2>3
        <3> QED BY <2>1, <3>1
    <2>4. CASE j = a + e + 1 \/ j = a + e + K + 4
        <3>1. j \in (a + e) + 1 .. Len(s)
            BY <1>4, <2>4
        <3> QED BY <2>2, <2>4, <3>1
    <2>5. CASE j > a + e + 1 /\ j # a + e + K + 4
        <3>1. PICK c \in Nat : c = a + e
            BY <1>4
        <3>2. /\ i \in a .. Len(s) /\ j \in a .. Len(s) /\ j = i + 1 /\ a \in Nat
              /\ j > c + 1 /\ j # c + K + 4 /\ Len(s) = c + K + 5 /\ Len(s) \in Nat
            BY <1>4, <1>9, <2>5, <3>1
        <3>3. i \in c + 1 .. Len(s) /\ j \in c + 1 .. Len(s)
            BY <3>2
        <3>4. i <= c + K + 3 <=> j <= c + K + 3
            BY <1>4, <3>2
        <3> QED BY <2>2, <3>1, <3>3, <3>4
    <2> QED BY <1>4, <2>3, <2>4, <2>5
<1>7. ASSUME NEW i \in 1 .. Len(s), NEW j \in 1 .. Len(s), j = i + 1
      PROVE  Follows(s[i], s[j]) /\ (matrix => FollowsReviews(s[i], s[j]))
    <2>1. CASE j <= a
        <3>1. i \in 1 .. a /\ j \in 1 .. a
            BY <1>7, <2>1
        <3> QED BY <1>2, <1>7, <3>1
    <2>2. CASE j > a
        <3>1. i \in a .. Len(s) /\ j \in a .. Len(s) /\ i \in Nat
            BY <1>4, <1>7, <2>2
        <3>2. s[i][1] \in Late /\ s[j][1] \in Late
            BY <1>5, <3>1
        <3>3. s[j][2] = "summarize" => s[j] = <<"summary", "summarize">> /\ s[i] = <<"summary", "freeze">>
            BY <1>5, <1>6, <1>7, <3>1
        <3>4. s[i][1] # s[j][1] => s[j][2] = "freeze"
            BY <1>7, <1>9, <3>1
        <3> QED BY <3>2, <3>3, <3>4 DEF Follows, FollowsReviews, Prepared, Reviewed, Late
    <2> QED BY <1>4, <2>1, <2>2
<1>8. Len(s) \in Nat \ {0}
    BY <1>4
<1> QED BY <1>1, <1>6, <1>7, <1>8 DEF Ordered, s

LEMMA NextOf ==
  ASSUME NEW i \in 1 .. 11, NEW j \in 1 .. 11, j = i + 1
  PROVE  \/ (i = 1 /\ j = 2) \/ (i = 2 /\ j = 3) \/ (i = 3 /\ j = 4) \/ (i = 4 /\ j = 5) \/ (i = 5 /\ j = 6)
         \/ (i = 6 /\ j = 7) \/ (i = 7 /\ j = 8) \/ (i = 8 /\ j = 9) \/ (i = 9 /\ j = 10) \/ (i = 10 /\ j = 11)
<1>1. /\ i \in Int /\ 1 <= i /\ i <= 11 /\ j <= 11
    OBVIOUS
<1>2. i = 1 \/ i = 2 \/ i = 3 \/ i = 4 \/ i = 5 \/ i >= 6
    BY <1>1
<1>3. i >= 6 => i = 6 \/ i = 7 \/ i = 8 \/ i = 9 \/ i = 10
    BY <1>1
<1> QED BY <1>2, <1>3

LEMMA Mended ==
  LET E == Each("audits", <<"mend", "admit">>)
  IN  /\ E \in Seq(ScriptSteps) /\ Len(E) = 2 * K /\ 2 * K \in Nat
      /\ \A i \in 1 .. 2 * K : E[i][1] = "audits" /\ E[i][2] # "summarize"
<1> DEFINE E == Each("audits", <<"mend", "admit">>)
<1>1. \A b \in 1 .. K : /\ E[2 * b - 1] = <<"audits", "mend", b>> /\ E[2 * b] = <<"audits", "admit", b>>
    BY EachTwo
<1>2. \A i \in 1 .. 2 * K : \E b \in 1 .. K : i \in {2 * b - 1, 2 * b}
    BY EachTwo
<1>3. E \in Seq(ScriptSteps) /\ Len(E) = 2 * K /\ 2 * K \in Nat
    BY EachTwo, Count_K
<1> HIDE DEF E
<1>4. ASSUME NEW i \in 1 .. 2 * K PROVE E[i][1] = "audits" /\ E[i][2] # "summarize"
    <2>1. PICK b \in 1 .. K : i \in {2 * b - 1, 2 * b}
        BY <1>2
    <2>2. E[i] = <<"audits", "mend", b>> \/ E[i] = <<"audits", "admit", b>>
        BY <1>1, <2>1
    <2> QED BY <2>2
<1> QED BY <1>3, <1>4 DEF E

LEMMA MatrixInOrder == Ordered(Scripts["matrix"], TRUE)
<1> DEFINE A == << <<"setup", "freeze">>, <<"setup", "copy">>,
                   <<"controls", "freeze">>, <<"controls", "pool", "control">>,
                   <<"controls", "mend", 0>>, <<"controls", "score">>,
                   <<"reviews", "freeze">>, <<"reviews", "pool", "review">>, <<"reviews", "keep">>,
                   <<"audits", "freeze">>, <<"audits", "pool", "audit">> >>
           E == Each("audits", <<"mend", "admit">>)
<1>1. Scripts["matrix"] = A \o E \o Judging
    BY DEF Scripts, matrix_main
<1>2. A \in Seq(ScriptSteps) /\ Len(A) = 11
    <2>1. \A i \in 1 .. 11 : A[i] \in ScriptSteps
        BY DEF ScriptSteps, Phases, Operations, Arguments
    <2> HIDE DEF ScriptSteps
    <2> QED BY <2>1
<1>3. /\ E \in Seq(ScriptSteps) /\ Len(E) = 2 * K /\ 2 * K \in Nat
      /\ \A i \in 1 .. 2 * K : E[i][1] = "audits" /\ E[i][2] # "summarize"
    BY Mended
<1>4. /\ A[1] = <<"setup", "freeze">> /\ A[11][1] = "audits" /\ A[11][2] # "summarize"
    OBVIOUS
<1>5. ASSUME NEW i \in 1 .. 11, NEW j \in 1 .. 11, j = i + 1
      PROVE  Follows(A[i], A[j]) /\ FollowsReviews(A[i], A[j])
    <2>1. /\ A[1] = <<"setup", "freeze">> /\ A[2] = <<"setup", "copy">> /\ A[3] = <<"controls", "freeze">>
          /\ A[4] = <<"controls", "pool", "control">> /\ A[5] = <<"controls", "mend", 0>>
          /\ A[6] = <<"controls", "score">> /\ A[7] = <<"reviews", "freeze">>
          /\ A[8] = <<"reviews", "pool", "review">> /\ A[9] = <<"reviews", "keep">>
          /\ A[10] = <<"audits", "freeze">> /\ A[11] = <<"audits", "pool", "audit">>
        OBVIOUS
    <2>2. \/ (i = 1 /\ j = 2) \/ (i = 2 /\ j = 3) \/ (i = 3 /\ j = 4) \/ (i = 4 /\ j = 5) \/ (i = 5 /\ j = 6)
          \/ (i = 6 /\ j = 7) \/ (i = 7 /\ j = 8) \/ (i = 8 /\ j = 9) \/ (i = 9 /\ j = 10) \/ (i = 10 /\ j = 11)
        BY <1>5, NextOf
    <2> HIDE DEF A
    <2>3. Follows(A[i], A[j])
        BY <2>1, <2>2 DEF Follows, Prepared
    <2>4. FollowsReviews(A[i], A[j])
        BY <2>1, <2>2 DEF FollowsReviews, Reviewed, Late
    <2> QED BY <2>3, <2>4
<1> HIDE DEF A, E
<1>6. 11 \in Nat \ {0}
    OBVIOUS
<1>7. Ordered(A \o E \o Judging, TRUE)
    BY <1>2, <1>3, <1>4, <1>5, <1>6, JoinedInOrder
<1> QED BY <1>1, <1>7

LEMMA TournamentInOrder == Ordered(Scripts["tournament"], FALSE)
<1> DEFINE A == << <<"setup", "freeze">>, <<"setup", "copy">>, <<"setup", "evidence">>,
                   <<"audits", "freeze">>, <<"audits", "pool", "audit">> >>
           E == Each("audits", <<"mend", "admit">>)
<1>1. Scripts["tournament"] = A \o E \o Judging
    BY DEF Scripts, tournament_main
<1>2. A \in Seq(ScriptSteps) /\ Len(A) = 5
    <2>1. \A i \in 1 .. 5 : A[i] \in ScriptSteps
        BY DEF ScriptSteps, Phases, Operations, Arguments
    <2> HIDE DEF ScriptSteps
    <2> QED BY <2>1
<1>3. /\ E \in Seq(ScriptSteps) /\ Len(E) = 2 * K /\ 2 * K \in Nat
      /\ \A i \in 1 .. 2 * K : E[i][1] = "audits" /\ E[i][2] # "summarize"
    BY Mended
<1>4. /\ A[1] = <<"setup", "freeze">> /\ A[5][1] = "audits" /\ A[5][2] # "summarize"
    OBVIOUS
<1>5. ASSUME NEW i \in 1 .. 5, NEW j \in 1 .. 5, j = i + 1 PROVE Follows(A[i], A[j])
    <2>1. /\ A[1] = <<"setup", "freeze">> /\ A[2] = <<"setup", "copy">> /\ A[3] = <<"setup", "evidence">>
          /\ A[4] = <<"audits", "freeze">> /\ A[5] = <<"audits", "pool", "audit">>
        OBVIOUS
    <2> HIDE DEF A
    <2>2. (i = 1 /\ j = 2) \/ (i = 2 /\ j = 3) \/ (i = 3 /\ j = 4) \/ (i = 4 /\ j = 5)
        BY <1>5, NextOf
    <2> QED BY <2>1, <2>2 DEF Follows, Prepared
<1> HIDE DEF A, E
<1>6. 5 \in Nat \ {0}
    OBVIOUS
<1>7. Ordered(A \o E \o Judging, FALSE)
    BY <1>2, <1>3, <1>4, <1>5, <1>6, JoinedInOrder
<1> QED BY <1>1, <1>7

LEMMA ReplicationInOrder == Ordered(Scripts["replication"], FALSE)
<1> DEFINE A == << <<"setup", "freeze">>, <<"setup", "copy">>, <<"setup", "evidence">>,
                   <<"audits", "freeze">>, <<"audits", "pool", "audit">>, <<"audits", "pool", "repair">> >>
           E == Each("audits", <<"admit">>)
<1>1. Scripts["replication"] = A \o E \o Judging
    BY DEF Scripts, replication_main
<1>2. A \in Seq(ScriptSteps) /\ Len(A) = 6
    <2>1. \A i \in 1 .. 6 : A[i] \in ScriptSteps
        BY DEF ScriptSteps, Phases, Operations, Arguments
    <2> HIDE DEF ScriptSteps
    <2> QED BY <2>1
<1>3. /\ E \in Seq(ScriptSteps) /\ Len(E) = K /\ K \in Nat
      /\ \A i \in 1 .. K : E[i][1] = "audits" /\ E[i][2] # "summarize"
    <2>1. /\ E \in Seq(ScriptSteps) /\ Len(E) = K
          /\ \A i \in 1 .. K : E[i] = <<"audits", "admit", i>>
        BY EachOne DEF Phases
    <2> HIDE DEF E
    <2> QED BY <2>1, Count_K
<1>4. /\ A[1] = <<"setup", "freeze">> /\ A[6][1] = "audits" /\ A[6][2] # "summarize"
    OBVIOUS
<1>5. ASSUME NEW i \in 1 .. 6, NEW j \in 1 .. 6, j = i + 1 PROVE Follows(A[i], A[j])
    <2>1. /\ A[1] = <<"setup", "freeze">> /\ A[2] = <<"setup", "copy">> /\ A[3] = <<"setup", "evidence">>
          /\ A[4] = <<"audits", "freeze">> /\ A[5] = <<"audits", "pool", "audit">>
          /\ A[6] = <<"audits", "pool", "repair">>
        OBVIOUS
    <2> HIDE DEF A
    <2>2. (i = 1 /\ j = 2) \/ (i = 2 /\ j = 3) \/ (i = 3 /\ j = 4) \/ (i = 4 /\ j = 5) \/ (i = 5 /\ j = 6)
        BY <1>5, NextOf
    <2> QED BY <2>1, <2>2 DEF Follows, Prepared
<1> HIDE DEF A, E
<1>6. 6 \in Nat \ {0}
    OBVIOUS
<1>7. Ordered(A \o E \o Judging, FALSE)
    BY <1>2, <1>3, <1>4, <1>5, <1>6, JoinedInOrder
<1> QED BY <1>1, <1>7

LEMMA InOrder == \A p \in Guarded : Ordered(Scripts[p], p = "matrix")
BY MatrixInOrder, TournamentInOrder, ReplicationInOrder DEF Guarded

\* Where the harness may be after a step that went through
LEMMA AdvanceTo ==
  ASSUME Ordered(script, program = "matrix"), at \in 1 .. Len(script), Advance, UNCHANGED <<program, script>>
  PROVE  /\ at' \in 0 .. Len(script)
         /\ (at' > 0 /\ Prepared(Step')) \/ reached' # {} =>
              Prepared(Step) \/ Step = <<"setup", "copy">> \/ reached # {}
         /\ at' > 0 /\ Step'[2] = "summarize" => Step = <<"summary", "freeze">>
         /\ program = "matrix" =>
              ((at' > 0 /\ Reviewed(Step')) \/ reached' \intersect (Late \union {"reviews"}) # {} =>
                 \/ Reviewed(Step) \/ Step = <<"reviews", "pool", "review">>
                 \/ reached \intersect (Late \union {"reviews"}) # {})
<1>1. Len(script) \in Nat \ {0} /\ script' = script
    BY DEF Ordered
<1>2. /\ at' = 0 \/ (at' = at + 1 /\ at' \in 1 .. Len(script))
      /\ reached' = reached \/
           (reached' = reached \union {Step[1]} /\ (at = Len(script) \/ script[at + 1][1] # Step[1]))
    BY <1>1 DEF Advance
<1>3. ASSUME NEW j \in 1 .. Len(script), j = at + 1
      PROVE  Follows(Step, script[j]) /\ (program = "matrix" => FollowsReviews(Step, script[j]))
    BY <1>3 DEF Ordered, Step
<1>4. at' > 0 => Step' = script[at'] /\ at' = at + 1 /\ at' \in 1 .. Len(script)
    BY <1>1, <1>2 DEF Step
<1>5. at = Len(script) => Step = <<"summary", "summarize">>
    BY DEF Ordered, Step
<1>6. at # Len(script) => at + 1 \in 1 .. Len(script)
    BY <1>1
<1>7. (at' > 0 /\ Prepared(Step')) \/ reached' # {} =>
              Prepared(Step) \/ Step = <<"setup", "copy">> \/ reached # {}
    <2>1. CASE at' > 0 /\ Prepared(Step')
        BY <1>3, <1>4, <2>1 DEF Follows
    <2>2. CASE reached' # {} /\ reached = {} /\ ~Prepared(Step)
        <3>1. at # Len(script) /\ script[at + 1][1] # Step[1]
            BY <1>2, <1>5, <2>2 DEF Prepared
        <3>2. Prepared(script[at + 1])
            BY <2>2, <3>1 DEF Prepared
        <3> QED BY <1>3, <1>6, <2>2, <3>1, <3>2 DEF Follows
    <2> QED BY <2>1, <2>2
<1>8. at' > 0 /\ Step'[2] = "summarize" => Step = <<"summary", "freeze">>
    BY <1>3, <1>4 DEF Follows
<1>9. ASSUME program = "matrix", (at' > 0 /\ Reviewed(Step')) \/ reached' \intersect (Late \union {"reviews"}) # {}
      PROVE  \/ Reviewed(Step) \/ Step = <<"reviews", "pool", "review">>
             \/ reached \intersect (Late \union {"reviews"}) # {}
    <2>1. CASE at' > 0 /\ Reviewed(Step')
        BY <1>3, <1>4, <1>9, <2>1 DEF FollowsReviews, Reviewed
    <2>2. CASE /\ reached' \intersect (Late \union {"reviews"}) # {}
               /\ reached \intersect (Late \union {"reviews"}) = {}
        <3>1. Step[1] \in Late \union {"reviews"} /\ (at = Len(script) \/ script[at + 1][1] # Step[1])
            BY <1>2, <2>2
        <3>2. CASE Step[1] \in Late
            BY <3>2 DEF Reviewed
        <3>3. CASE Step[1] = "reviews"
            <4>1. at # Len(script) /\ script[at + 1][1] # "reviews"
                BY <1>5, <3>1, <3>3
            <4>2. script[at + 1][1] \in Late
                BY <1>3, <1>6, <1>9, <3>3, <4>1 DEF FollowsReviews
            <4> QED BY <1>3, <1>6, <1>9, <4>1, <4>2 DEF FollowsReviews
        <3> QED BY <3>1, <3>2, <3>3
    <2> QED BY <1>9, <2>1, <2>2
<1>10. at' \in 0 .. Len(script)
    BY <1>1, <1>2
<1> QED BY <1>7, <1>8, <1>9, <1>10

\* Where the operator may start
LEMMA InvokeAt ==
  ASSUME Ordered(script, program = "matrix"), Invoke, UNCHANGED <<program, script>>
  PROVE  /\ at' \in 1 .. Len(script) /\ Step'[2] = "freeze"
         /\ Step' = <<"setup", "freeze">> \/ reached # {}
         /\ Prepared(Step') => reached # {}
         /\ program = "matrix" /\ Reviewed(Step') => reached \intersect (Late \union {"reviews"}) # {}
<1>1. /\ Len(script) \in Nat \ {0} /\ script' = script /\ script[1] = <<"setup", "freeze">>
    BY DEF Ordered
<1>2. at' = 1 \/ (at' \in 1 .. Len(script) /\ at' # 1 /\ script[at' - 1][1] # script[at'][1]
                   /\ script[at' - 1][1] \in reached)
    BY <1>1 DEF Invoke, Offered
<1>3. at' \in 1 .. Len(script) /\ Step' = script[at']
    BY <1>1, <1>2 DEF Step
<1>4. CASE at' = 1
    BY <1>1, <1>3, <1>4 DEF Prepared, Reviewed, Late
<1>5. CASE at' # 1
    <2> DEFINE i == at' - 1
    <2>1. /\ i \in 1 .. Len(script) /\ at' = i + 1
          /\ script[i][1] # script[at'][1] /\ script[i][1] \in reached
        BY <1>1, <1>2, <1>5
    <2> HIDE DEF i
    <2>2. Follows(script[i], script[at']) /\ (program = "matrix" => FollowsReviews(script[i], script[at']))
        BY <1>3, <2>1 DEF Ordered
    <2>3. script[at'][2] = "freeze"
        BY <2>1, <2>2 DEF Follows
    <2>4. program = "matrix" /\ Reviewed(script[at']) => script[i][1] \in Late \union {"reviews"}
        BY <2>2 DEF FollowsReviews, Reviewed
    <2> QED BY <1>3, <2>1, <2>3, <2>4
<1> QED BY <1>4, <1>5

-----------------------------------------------------------------------------
(* The harnesses: the sources their sessions ran *)

\* The attempts of a session: the one that runs has a number, and what was accepted was written
Tallied ==
  \A n \in DOMAIN sess :
    /\ sess[n].tries \in Nat
    /\ n \in running => sess[n].tries # 0
    /\ n \in written => sess[n].by = sess[n].tries
    /\ Accepted(n) => sess[n].by # 0

SameAnswer(n) == sess'[n].by = sess[n].by /\ sess'[n].about = sess[n].about

LEMMA SessionTallied ==
  ASSUME PoolInv, Tallied, NEW n, SessionMoves(n)
  PROVE  Tallied'
<1>1. /\ sess = [m \in DOMAIN sess |-> sess[m]] /\ \A m \in DOMAIN sess : SessionOK(m)
      /\ written \subseteq running /\ queue \intersect running = {}
    BY DEF PoolInv
<1>2. ASSUME NEW r, /\ sess' = [sess EXCEPT ![n] = r]
      PROVE  /\ DOMAIN sess' = DOMAIN sess /\ (n \in DOMAIN sess => sess'[n] = r)
             /\ \A m \in DOMAIN sess : m # n => sess'[m] = sess[m]
    BY <1>1, <1>2
<1>3. CASE StartSession(n)
    <2> DEFINE r == [sess[n] EXCEPT !.tries = sess[n].tries + 1]
    <2>1. /\ n \in queue /\ running' = running \union {n} /\ written' = written
          /\ sess' = [sess EXCEPT ![n] = r]
        BY <1>3 DEF StartSession
    <2>2. /\ DOMAIN sess' = DOMAIN sess /\ (n \in DOMAIN sess => sess'[n] = r)
          /\ \A m \in DOMAIN sess : m # n => sess'[m] = sess[m]
        BY <1>2, <2>1
    <2>3. ASSUME n \in DOMAIN sess
          PROVE  r.tries = sess[n].tries + 1 /\ r.by = sess[n].by /\ r.accepted = sess[n].accepted
        BY <1>1, <2>3 DEF SessionOK
    <2>4. ASSUME n \in DOMAIN sess
          PROVE  /\ sess'[n].tries \in Nat /\ sess'[n].tries # 0 /\ n \notin written'
                 /\ (sess'[n].accepted # 0 => sess'[n].by # 0)
        <3>1. sess[n].tries \in Nat /\ (sess[n].accepted # 0 => sess[n].by # 0)
            BY <2>4 DEF Tallied, Accepted
        <3>2. sess[n].tries + 1 \in Nat /\ sess[n].tries + 1 # 0
            BY <3>1
        <3>3. sess'[n].tries = sess[n].tries + 1 /\ sess'[n].by = sess[n].by
              /\ sess'[n].accepted = sess[n].accepted
            BY <2>2, <2>3, <2>4
        <3>4. n \notin written'
            BY <1>1, <2>1
        <3> QED BY <3>1, <3>2, <3>3, <3>4
    <2> HIDE DEF r
    <2> QED BY <2>1, <2>2, <2>4 DEF Tallied, Accepted
<1>4. CASE n \in running /\ \E result, about : WriteResult(n, result, about)
    <2>1. PICK result, about : WriteResult(n, result, about)
        BY <1>4
    <2> DEFINE old == sess[n]
               r == [[[old EXCEPT !.by = old.tries] EXCEPT !.result = result] EXCEPT !.about = about]
    <2>2. /\ n \in running /\ running' = running /\ written' = written \union {n}
          /\ sess' = [sess EXCEPT ![n].by = sess[n].tries, ![n].result = result, ![n].about = about]
        BY <1>4, <2>1 DEF WriteResult
    <2>3. /\ DOMAIN sess' = DOMAIN sess /\ \A m \in DOMAIN sess : m # n => sess'[m] = sess[m]
        BY <1>1, <2>2
    <2>4. n \in DOMAIN sess => sess'[n] = r
        BY <1>1, <2>2, Zenon
    <2>5. n \in DOMAIN sess => old = [tries |-> old.tries, accepted |-> old.accepted, by |-> old.by,
                                      result |-> old.result, about |-> old.about]
        BY <1>1 DEF SessionOK
    <2> HIDE DEF old
    <2>6. n \in DOMAIN sess =>
             sess'[n].tries = old.tries /\ sess'[n].by = old.tries /\ sess'[n].accepted = old.accepted
        BY <2>4, <2>5
    <2>7. n \in DOMAIN sess => old.tries \in Nat /\ old.tries # 0
        BY <2>2 DEF Tallied, old
    <2> HIDE DEF r
    <2> QED BY <2>2, <2>3, <2>6, <2>7 DEF Tallied, Accepted
<1>5. CASE AcceptSession(n)
    <2> DEFINE r == [sess[n] EXCEPT !.accepted = sess[n].tries]
    <2>1. /\ n \in written /\ running' = running \ {n} /\ written' = written \ {n}
          /\ sess' = [sess EXCEPT ![n] = r]
        BY <1>5 DEF AcceptSession
    <2>2. /\ DOMAIN sess' = DOMAIN sess /\ (n \in DOMAIN sess => sess'[n] = r)
          /\ \A m \in DOMAIN sess : m # n => sess'[m] = sess[m]
        BY <1>2, <2>1
    <2>3. n \in DOMAIN sess => r.tries = sess[n].tries /\ r.by = sess[n].by
        BY <1>1 DEF SessionOK
    <2>4. n \in DOMAIN sess => sess'[n].tries \in Nat /\ sess'[n].by # 0
        BY <1>1, <2>1, <2>2, <2>3 DEF Tallied
    <2> HIDE DEF r
    <2> QED BY <2>1, <2>2, <2>4 DEF Tallied, Accepted
<1>6. CASE FailSession(n)
    <2>1. n \in running \ written /\ running' = running \ {n} /\ UNCHANGED <<written, sess>>
        BY <1>6 DEF FailSession
    <2> QED BY <2>1 DEF Tallied, Accepted
<1> QED BY <1>3, <1>4, <1>5, <1>6 DEF SessionMoves

LEMMA MovesTallied == ASSUME PoolInv, Tallied, PoolMoves \/ UNCHANGED PoolFiles PROVE Tallied'
<1>1. CASE UNCHANGED PoolFiles
    BY <1>1 DEF PoolFiles, Tallied, Accepted
<1>2. ASSUME NEW names, Submit(names) PROVE Tallied'
    BY <1>2 DEF Submit, Tallied, Accepted
<1>3. CASE CancelQueued \/ NextRound \/ Returns \/ Gone
    <2>1. UNCHANGED sess /\ running' \subseteq running /\ written' \subseteq written
        BY <1>3 DEF CancelQueued, NextRound, Returns, Gone
    <2> QED BY <2>1 DEF Tallied, Accepted
<1>4. ASSUME NEW n \in queue \union running, SessionMoves(n) PROVE Tallied'
    BY <1>4, SessionTallied
<1> QED BY <1>1, <1>2, <1>3, <1>4 DEF PoolMoves

\* So long as no edit was taken back versions only grow; the provenance names the one first hashed, the
\* plugin is copied after that
Versions ==
  /\ sources \in Nat \ {0} /\ frozen \in Nat /\ plugin \in Nat
  /\ frozen <= sources
  /\ plugin # 0 => frozen # 0 /\ frozen <= plugin /\ plugin <= sources

Placed ==
  /\ (at > 0 /\ Step # <<"setup", "freeze">>) \/ reached # {} => frozen # 0
  /\ (at > 0 /\ Prepared(Step)) \/ reached # {} => plugin # 0

ReviewsIn == \A n \in DOMAIN sess : n[1] = "review" => Accepted(n)

AtReviews == at > 0 /\ Step = <<"reviews", "pool", "review">>

\* The matrix comes past its reviews only when each is accepted
ReviewsPlaced ==
  program = "matrix" =>
    /\ (at > 0 /\ Reviewed(Step)) \/ reached \intersect (Late \union {"reviews"}) # {} => ReviewsIn
    /\ failed # {} => raising
    /\ AtReviews /\ round # 0 /\ ~raising =>
         \A n \in DOMAIN sess : n[1] = "review" => Accepted(n) \/ n \in queue \union running

\* What __init__ read is not older than the provenance, and the same once a phase looked at the sources
Loaded ==
  at > 0 =>
    /\ loaded \in Nat /\ loaded <= sources
    /\ IF frozen = 0 THEN loaded = sources ELSE frozen <= loaded
    /\ Step[2] # "freeze" => loaded = frozen

\* Prkit is read from the repository, so a review is about the sources of its moment; a judge is given
\* what __init__ read; every other session runs the copy
AnswersOf ==
  \A n \in DOMAIN sess : sess[n].by # 0 =>
    CASE n[1] = "review" ->
           sess[n].about[1] \in Nat /\ frozen # 0 /\ frozen <= sess[n].about[1] /\ sess[n].about[1] <= sources
      [] n[1] = "judge" -> frozen # 0 /\ sess[n].about[1] = frozen
      [] OTHER -> plugin # 0 /\ sess[n].about[1] = plugin

\* The sources were still those of the provenance when the summary's turn came, so all that had been
\* copied or reviewed in between is of that version
Settled ==
  /\ frozen # 0 /\ plugin = frozen
  /\ \A n \in DOMAIN sess : n[1] = "review" => Accepted(n) /\ sess[n].about[1] = frozen

SettledInTime == (at > 0 /\ Step[2] = "summarize") \/ summary # "none" => Settled

InScript ==
  /\ program \in Guarded /\ script = Scripts[program] /\ DOMAIN sess = Sessions(program)
  /\ at \in 0 .. Len(script) /\ (at = 0 => round = 0)

SourcesInv == InScript /\ Versions /\ Placed /\ Loaded /\ ReviewsPlaced /\ AnswersOf /\ SettledInTime

LEMMA ScriptOrdered == ASSUME InScript PROVE Ordered(script, program = "matrix") /\ Len(script) \in Nat
BY InOrder DEF InScript, Ordered

LEMMA ReviewsInMatrix ==
  ASSUME InScript, NEW n \in DOMAIN sess, n[1] = "review" PROVE program = "matrix"
<1>1. CASE program = "tournament"
    <2>1. n \in {"audit", "repair", "judge"} \X Blocks
        BY <1>1 DEF InScript, Sessions
    <2> QED BY <2>1
<1>2. CASE program = "replication"
    <2>1. n \in {"audit", "repair", "judge"} \X Blocks
        BY <1>2 DEF InScript, Sessions
    <2> QED BY <2>1
<1> QED BY <1>1, <1>2 DEF InScript, Guarded

LEMMA SourcesStarted ==
  ASSUME SourcesInv, Started PROVE SourcesInv'
<1>1. /\ UNCHANGED <<program, script, reached, sess, queue, running, failed, raising, round>>
      /\ UNCHANGED <<sources, unseen, frozen, plugin, surface, blockVars>> /\ loaded' = sources /\ Invoke
    BY DEF Started, Invoke
<1>2. /\ at' \in 1 .. Len(script) /\ Step'[2] = "freeze"
      /\ Step' = <<"setup", "freeze">> \/ reached # {}
      /\ Prepared(Step') => reached # {}
      /\ program = "matrix" /\ Reviewed(Step') => reached \intersect (Late \union {"reviews"}) # {}
    BY <1>1, ScriptOrdered, InvokeAt DEF SourcesInv
<1>3. Len(script) \in Nat
    BY ScriptOrdered DEF SourcesInv
<1>4. InScript' /\ Versions'
    BY <1>1, <1>2, <1>3 DEF SourcesInv, InScript, Versions
<1>5. Placed' /\ Loaded'
    BY <1>1, <1>2 DEF SourcesInv, Placed, Loaded, Versions
<1>6. ReviewsPlaced'
    <2>1. round' = 0
        BY <1>1 DEF SourcesInv, InScript, Invoke
    <2> QED BY <1>1, <1>2, <2>1 DEF SourcesInv, ReviewsPlaced, ReviewsIn, Accepted
<1>7. AnswersOf' /\ SettledInTime'
    BY <1>1, <1>2 DEF SourcesInv, AnswersOf, SettledInTime, Settled, Accepted, blockVars
<1> QED BY <1>4, <1>5, <1>6, <1>7 DEF SourcesInv

LEMMA SourcesLeft ==
  ASSUME SourcesInv, at' = 0, UNCHANGED <<gapVars, blockVars, program, script, sess, reached>>,
         round' = 0, failed' = {} \/ UNCHANGED <<failed, raising>>
  PROVE  SourcesInv'
<1>1. InScript' /\ Versions'
    BY ScriptOrdered DEF SourcesInv, InScript, Versions, gapVars
<1>2. Placed' /\ Loaded' /\ ReviewsPlaced'
    BY DEF SourcesInv, Placed, Loaded, ReviewsPlaced, ReviewsIn, AtReviews, Accepted, gapVars
<1>3. AnswersOf' /\ SettledInTime'
    BY DEF SourcesInv, AnswersOf, SettledInTime, Settled, Accepted, gapVars, blockVars
<1> QED BY <1>1, <1>2, <1>3 DEF SourcesInv

LEMMA SourcesEdited ==
  ASSUME SourcesInv, EditSources, ~unseen' PROVE SourcesInv'
<1>a. MaxEdits + 1 \in Nat /\ sources \in Nat \ {0}
    BY BlocksAssumption DEF SourcesInv, Versions
<1>1. /\ sources' \in Nat \ {0} /\ sources <= sources' /\ ~(at > 0 /\ frozen = 0)
      /\ UNCHANGED <<program, script, at, reached, sess, queue, running, failed, raising, round,
                     loaded, frozen, plugin, summary>>
    <2>1. PICK v \in 1 .. MaxEdits + 1 :
            /\ v # sources /\ sources' = v
            /\ unseen' = (unseen \/ v < sources \/ (at > 0 /\ frozen = 0))
        BY DEF EditSources
    <2>2. ~(v < sources) /\ ~(at > 0 /\ frozen = 0)
        BY ONLY <2>1, ~unseen', Zenon
    <2>3. v \in Nat \ {0} /\ sources <= v
        BY <1>a, <2>1, <2>2
    <2>4. UNCHANGED <<program, script, at, reached, sess, queue, running, failed, raising, round,
                      loaded, frozen, plugin, summary>>
        BY DEF EditSources, phaseVars, blockVars
    <2> QED BY <2>1, <2>2, <2>3, <2>4
<1>2. InScript' /\ Placed' /\ Step' = Step
    BY <1>1 DEF SourcesInv, InScript, Placed, Step
<1>3. Versions' /\ Loaded'
    BY <1>1, <1>2 DEF SourcesInv, Versions, Loaded
<1>4. ReviewsPlaced' /\ SettledInTime'
    BY <1>1, <1>2 DEF SourcesInv, ReviewsPlaced, ReviewsIn, AtReviews, SettledInTime, Settled, Accepted
<1>5. AnswersOf'
    <2>1. \A v \in Nat : v <= sources => v <= sources'
        BY <1>1, <1>a
    <2> QED BY <1>1, <2>1 DEF SourcesInv, AnswersOf
<1> QED BY <1>2, <1>3, <1>4, <1>5 DEF SourcesInv

\* Any step that goes through and leaves the sessions as they are
LEMMA SourcesAdvance ==
  ASSUME SourcesInv, Tallied, at > 0, Advance, UNCHANGED <<program, script, sources, sess>>,
         round' = 0, failed' = {} \/ UNCHANGED <<failed, raising>>, Versions',
         loaded' = loaded, loaded = frozen', frozen' # 0, frozen \in {0, frozen'}, plugin \in {0, plugin'},
         Prepared(Step) \/ Step = <<"setup", "copy">> => plugin' # 0,
         program = "matrix" /\ Step = <<"reviews", "pool", "review">> => ReviewsIn,
         Step = <<"summary", "freeze">> => sources = frozen',
         summary' # "none" => summary # "none" \/ Step[2] = "summarize"
  PROVE  SourcesInv'
<1>0. /\ DOMAIN sess' = DOMAIN sess
      /\ \A n \in DOMAIN sess : sess'[n] = sess[n] /\ (Accepted(n)' <=> Accepted(n))
    BY DEF Accepted
<1>1. at \in 1 .. Len(script) /\ Ordered(script, program = "matrix")
    BY ScriptOrdered DEF SourcesInv, InScript
<1>2. /\ at' \in 0 .. Len(script)
      /\ (at' > 0 /\ Prepared(Step')) \/ reached' # {} =>
           Prepared(Step) \/ Step = <<"setup", "copy">> \/ reached # {}
      /\ at' > 0 /\ Step'[2] = "summarize" => Step = <<"summary", "freeze">>
      /\ program = "matrix" =>
           ((at' > 0 /\ Reviewed(Step')) \/ reached' \intersect (Late \union {"reviews"}) # {} =>
              \/ Reviewed(Step) \/ Step = <<"reviews", "pool", "review">>
              \/ reached \intersect (Late \union {"reviews"}) # {})
    BY <1>1, AdvanceTo
<1>3. InScript'
    BY <1>2 DEF SourcesInv, InScript
<1>4. reached # {} => plugin # 0
    BY DEF SourcesInv, Placed
<1>5. Placed' /\ Loaded'
    BY <1>2, <1>4 DEF Placed, Loaded, Versions
<1>6. ReviewsIn' <=> ReviewsIn
    BY DEF ReviewsIn, Accepted
<1>7. ReviewsPlaced'
    <2>1. program = "matrix" /\ Reviewed(Step) => ReviewsIn
        BY DEF SourcesInv, ReviewsPlaced
    <2>2. program = "matrix" /\ reached \intersect (Late \union {"reviews"}) # {} => ReviewsIn
        BY DEF SourcesInv, ReviewsPlaced
    <2>3. program = "matrix" => (failed' # {} => raising')
        BY DEF SourcesInv, ReviewsPlaced
    <2> QED BY <1>2, <1>6, <2>1, <2>2, <2>3 DEF ReviewsPlaced
<1>8. AnswersOf'
    <2>1. \A n \in DOMAIN sess : sess'[n] = sess[n]
        OBVIOUS
    <2>2. ASSUME NEW n \in DOMAIN sess, sess[n].by # 0, n[1] = "review"
          PROVE  sess[n].about[1] \in Nat /\ frozen' <= sess[n].about[1] /\ sess[n].about[1] <= sources
        BY <2>2 DEF SourcesInv, AnswersOf
    <2>3. ASSUME NEW n \in DOMAIN sess, sess[n].by # 0, n[1] \notin {"review", "judge"}
          PROVE  plugin' # 0 /\ sess[n].about[1] = plugin'
        BY <2>3 DEF SourcesInv, AnswersOf
    <2>4. ASSUME NEW n \in DOMAIN sess, sess[n].by # 0, n[1] = "judge"
          PROVE  sess[n].about[1] = frozen'
        BY <2>4 DEF SourcesInv, AnswersOf
    <2> QED BY <2>1, <2>2, <2>3, <2>4 DEF AnswersOf
<1>9. ASSUME at' > 0 /\ Step'[2] = "summarize" PROVE SettledInTime'
    <2>1. Step = <<"summary", "freeze">> /\ sources = frozen'
        BY <1>2, <1>9
    <2>2. Prepared(Step) /\ Reviewed(Step)
        BY <2>1 DEF Prepared, Reviewed, Late
    <2>3. plugin' # 0 /\ plugin' = frozen'
        BY <2>1, <2>2 DEF Versions
    <2>4. ASSUME NEW n \in DOMAIN sess, n[1] = "review" PROVE Accepted(n) /\ sess[n].about[1] = frozen'
        <3>1. program = "matrix"
            BY <2>4, ReviewsInMatrix DEF SourcesInv
        <3>2. Accepted(n)
            BY <2>2, <2>4, <3>1 DEF SourcesInv, ReviewsPlaced, ReviewsIn
        <3>3. sess[n].by # 0
            BY <3>2 DEF Tallied
        <3>4. sess[n].about[1] \in Nat /\ frozen' <= sess[n].about[1] /\ sess[n].about[1] <= sources
            BY <1>8, <2>4, <3>3 DEF AnswersOf
        <3>5. frozen' \in Nat
            BY DEF Versions
        <3>6. \A v \in Nat : frozen' <= v /\ v <= frozen' => v = frozen'
            BY <3>5
        <3> QED BY <2>1, <3>2, <3>4, <3>6
    <2>5. Settled'
        BY <1>0, <2>3, <2>4 DEF Settled
    <2> QED BY <2>5 DEF SettledInTime
<1>10. ASSUME ~(at' > 0 /\ Step'[2] = "summarize") PROVE SettledInTime'
    <2>1. CASE summary' # "none"
        <3>1. Settled
            BY <2>1 DEF SourcesInv, SettledInTime
        <3>2. frozen' = frozen /\ plugin' = plugin
            BY <3>1 DEF Settled
        <3>3. Settled'
            BY <1>0, <3>1, <3>2 DEF Settled
        <3> QED BY <3>3 DEF SettledInTime
    <2> QED BY <1>10, <2>1 DEF SettledInTime
<1> QED BY <1>3, <1>5, <1>7, <1>8, <1>9, <1>10 DEF SourcesInv

LEMMA SourcesFrozen ==
  ASSUME SourcesInv, Tallied, freeze_sources PROVE SourcesInv'
<1>1. /\ at > 0 /\ Step[2] = "freeze" /\ round = 0
      /\ UNCHANGED <<program, script, sess, failed, raising, round, sources, loaded, unseen, plugin, surface,
                     blockVars>>
    BY DEF freeze_sources, Doing, NoPool
<1>2. CASE frozen \in {0, sources} /\ frozen' = sources /\ Advance
    <2>1. Versions' /\ frozen' # 0
        BY <1>1, <1>2 DEF SourcesInv, Versions
    <2>2. Prepared(Step) => plugin # 0
        BY <1>1 DEF SourcesInv, Placed
    <2>3. Step # <<"setup", "copy">> /\ Step # <<"reviews", "pool", "review">>
        BY <1>1
    <2>4. loaded = frozen'
        BY <1>1, <1>2 DEF SourcesInv, Versions, Loaded
    <2> QED BY <1>1, <1>2, <2>1, <2>2, <2>3, <2>4, SourcesAdvance DEF blockVars
<1>3. CASE frozen' = frozen /\ Raise
    BY <1>1, <1>3, SourcesLeft DEF Raise, gapVars
<1> QED BY <1>2, <1>3 DEF freeze_sources

LEMMA SourcesCopied ==
  ASSUME SourcesInv, Tallied, setup PROVE SourcesInv'
<1>1. /\ at > 0 /\ Step[2] = "copy" /\ round = 0 /\ Advance
      /\ plugin' = IF plugin = 0 THEN sources ELSE plugin
      /\ UNCHANGED <<program, script, sess, failed, raising, round, sources, loaded, frozen, surface, blockVars>>
    BY DEF setup, Doing, Alone, NoPool, poolVars
<1>2. Step # <<"setup", "freeze">> /\ Step # <<"summary", "freeze">> /\ Step # <<"reviews", "pool", "review">>
    BY <1>1
<1>3. frozen # 0
    BY <1>1, <1>2 DEF SourcesInv, Placed
<1>4. Versions' /\ plugin' # 0 /\ loaded = frozen'
    BY <1>1, <1>3 DEF SourcesInv, Versions, Loaded
<1> QED BY <1>1, <1>2, <1>3, <1>4, SourcesAdvance DEF blockVars

Quiet == {"evidence", "score", "keep", "admit", "tie", "verdict", "summarize"}

\* The steps that look neither at the sources nor at Claude
LEMMA SourcesPassed ==
  ASSUME SourcesInv, Tallied, at > 0, Step[2] \in Quiet, Alone, Advance \/ Raise, UNCHANGED gapVars,
         summary' = summary \/ Step[2] = "summarize"
  PROVE  SourcesInv'
<1>1. /\ round' = 0 /\ UNCHANGED <<program, script, sess, failed, raising, sources, loaded, frozen, plugin>>
    BY DEF Alone, NoPool, poolVars, gapVars
<1>2. /\ Step # <<"setup", "freeze">> /\ Step # <<"summary", "freeze">> /\ Step # <<"setup", "copy">>
      /\ Step # <<"reviews", "pool", "review">>
    BY DEF Quiet
<1>3. frozen # 0 /\ (Prepared(Step) => plugin # 0) /\ loaded = frozen
    <2>1. Step[2] # "freeze"
        BY DEF Quiet
    <2> QED BY <1>2, <2>1 DEF SourcesInv, Placed, Loaded
<1>4. Versions'
    BY <1>1 DEF SourcesInv, Versions
<1>5. CASE Advance
    BY <1>1, <1>2, <1>3, <1>4, <1>5, SourcesAdvance
<1>6. CASE Raise
    <2>1. at' = 0 /\ reached' = reached
        BY <1>6 DEF Raise
    <2>2. InScript' /\ Placed' /\ Loaded' /\ ReviewsPlaced'
        BY <1>1, <2>1, ScriptOrdered
           DEF SourcesInv, InScript, Placed, Loaded, ReviewsPlaced, ReviewsIn, AtReviews, Accepted
    <2>3. AnswersOf'
        BY <1>1 DEF SourcesInv, AnswersOf
    <2>4. SettledInTime'
        <3>1. (at > 0 /\ Step[2] = "summarize") \/ summary # "none" => Settled
            BY DEF SourcesInv, SettledInTime
        <3>2. Settled => Settled'
            BY <1>1 DEF Settled, Accepted
        <3>3. at' > 0 => FALSE
            BY <2>1
        <3> QED BY <3>1, <3>2, <3>3 DEF SettledInTime
    <2> QED BY <1>4, <2>2, <2>3, <2>4 DEF SourcesInv
<1> QED BY <1>5, <1>6

LEMMA AboutFirst ==
  ASSUME NEW n
  PROVE  /\ n[1] = "review" => About(n)[1] = sources
         /\ n[1] = "judge" => About(n)[1] = loaded
         /\ n[1] \notin {"review", "judge"} => About(n)[1] = plugin
BY DEF About

\* A session answers about what its prompt is about, or nothing changes in its result.json
LEMMA AnswersMove ==
  ASSUME PoolInv, NEW n, RunSession(n, Answers, About)
  PROVE  \A m \in DOMAIN sess :
           \/ sess'[m].by = sess[m].by /\ sess'[m].about = sess[m].about
           \/ m = n /\ sess'[m].about = About(n)
<1>1. /\ sess = [m \in DOMAIN sess |-> sess[m]] /\ \A m \in DOMAIN sess : SessionOK(m)
    BY DEF PoolInv
<1>2. CASE StartSession(n)
    <2>1. sess' = [sess EXCEPT ![n] = [sess[n] EXCEPT !.tries = sess[n].tries + 1]]
        BY <1>2 DEF StartSession
    <2> QED BY <1>1, <2>1 DEF SessionOK
<1>3. CASE AcceptSession(n)
    <2>1. sess' = [sess EXCEPT ![n] = [sess[n] EXCEPT !.accepted = sess[n].tries]]
        BY <1>3 DEF AcceptSession
    <2> QED BY <1>1, <2>1 DEF SessionOK
<1>4. CASE FailSession(n)
    BY <1>4 DEF FailSession
<1>5. ASSUME NEW result, WriteResult(n, result, About(n))
      PROVE  \A m \in DOMAIN sess : \/ sess'[m].by = sess[m].by /\ sess'[m].about = sess[m].about
                                    \/ m = n /\ sess'[m].about = About(n)
    <2> DEFINE old == sess[n]
               about == About(n)
    <2>1. sess' = [sess EXCEPT ![n].by = old.tries, ![n].result = result, ![n].about = about]
        BY <1>5 DEF WriteResult
    <2>2. \A m \in DOMAIN sess : m # n => sess'[m] = sess[m]
        BY <1>1, <2>1
    <2>3. n \in DOMAIN sess =>
            sess'[n] = [[[old EXCEPT !.by = old.tries] EXCEPT !.result = result] EXCEPT !.about = about]
        BY <1>1, <2>1, Zenon
    <2>4. n \in DOMAIN sess => old = [tries |-> old.tries, accepted |-> old.accepted, by |-> old.by,
                                      result |-> old.result, about |-> old.about]
        BY <1>1 DEF SessionOK
    <2> HIDE DEF old, about
    <2>5. n \in DOMAIN sess => sess'[n].about = about
        BY <2>3, <2>4
    <2> QED BY <2>2, <2>5 DEF about
<1> QED BY <1>2, <1>3, <1>4, <1>5 DEF RunSession

\* Every review of the matrix is in the hands of the pool until it is accepted
LEMMA ReviewsHeld ==
  ASSUME PoolInv, Tallied, NEW n, program = "matrix", RunSession(n, Answers, About), ~raising',
         \A m \in DOMAIN sess : m[1] = "review" => Accepted(m) \/ m \in queue \union running
  PROVE  \A m \in DOMAIN sess : m[1] = "review" => Accepted(m)' \/ m \in queue' \union running'
<1>0. /\ sess = [m \in DOMAIN sess |-> sess[m]] /\ \A m \in DOMAIN sess : SessionOK(m)
      /\ written \subseteq running
    BY DEF PoolInv
<1>1. CASE StartSession(n)
    <2>1. /\ queue' = queue \ {n} /\ running' = running \union {n}
          /\ sess' = [sess EXCEPT ![n] = [sess[n] EXCEPT !.tries = sess[n].tries + 1]]
        BY <1>1 DEF StartSession
    <2>2. \A m \in DOMAIN sess : sess'[m].accepted = sess[m].accepted
        BY <1>0, <2>1 DEF SessionOK
    <2> QED BY <2>1, <2>2 DEF Accepted
<1>2. ASSUME NEW result, n \in running, WriteResult(n, result, About(n))
      PROVE  \A m \in DOMAIN sess : m[1] = "review" => Accepted(m)' \/ m \in queue' \union running'
    <2>1. UNCHANGED <<queue, running>>
        BY <1>2 DEF WriteResult
    <2>2. \A m \in DOMAIN sess : m # n => sess'[m] = sess[m]
        BY <1>0, <1>2 DEF WriteResult
    <2> QED BY <1>2, <2>1, <2>2 DEF Accepted
<1>3. CASE AcceptSession(n)
    <2>1. /\ n \in written /\ queue' = queue /\ running' = running \ {n}
          /\ sess' = [sess EXCEPT ![n] = [sess[n] EXCEPT !.accepted = sess[n].tries]]
        BY <1>3 DEF AcceptSession
    <2>2. /\ \A m \in DOMAIN sess : m # n => sess'[m] = sess[m]
          /\ n \in DOMAIN sess => sess'[n].accepted = sess[n].tries
        BY <1>0, <2>1 DEF SessionOK
    <2>3. n \in DOMAIN sess => sess[n].tries # 0
        BY <1>0, <2>1 DEF Tallied
    <2> QED BY <2>1, <2>2, <2>3 DEF Accepted
<1>4. CASE FailSession(n)
    BY <1>4 DEF FailSession, Strict
<1> QED BY <1>1, <1>2, <1>3, <1>4 DEF RunSession

\* A step inside a pool: the place stays
LEMMA SourcesPooled ==
  ASSUME SourcesInv, PoolInv, Tallied, Stands, Pooled,
         UNCHANGED <<gapVars, blockVars, program, script, at, reached>>,
         \/ \E names : Submit(names) /\ (AtReviews => names = {"review"} \X Blocks)
         \/ CancelQueued \/ (NextRound /\ program # "matrix")
         \/ \E n \in queue \union running : RunSession(n, Answers, About)
  PROVE  SourcesInv'
<1>1. /\ Step' = Step /\ at > 0 /\ Step[2] \in {"pool", "mend"} /\ AtReviews' = AtReviews
      /\ UNCHANGED <<sources, loaded, frozen, plugin, summary>>
    BY DEF Pooled, Doing, Step, AtReviews, gapVars, blockVars
<1>2. frozen # 0 /\ plugin # 0 /\ loaded = frozen
    BY <1>1 DEF SourcesInv, Placed, Prepared, Loaded
<1>3. InScript' /\ Versions' /\ Placed' /\ Loaded'
    BY <1>1 DEF SourcesInv, InScript, Versions, Placed, Loaded, Stands
<1>4. DOMAIN sess' = DOMAIN sess /\ (ReviewsIn => ReviewsIn')
    BY DEF Stands, ReviewsIn, Accepted
<1>5. AnswersOf'
    <2>1. CASE sess' = sess
        BY <1>1, <2>1 DEF SourcesInv, AnswersOf
    <2>2. ASSUME NEW n, RunSession(n, Answers, About) PROVE AnswersOf'
        <3>1. \A m \in DOMAIN sess :
                 \/ sess'[m].by = sess[m].by /\ sess'[m].about = sess[m].about
                 \/ m = n /\ sess'[m].about = About(n)
            BY <2>2, AnswersMove
        <3>2. /\ n[1] = "review" => About(n)[1] = sources
              /\ n[1] = "judge" => About(n)[1] = loaded
              /\ n[1] \notin {"review", "judge"} => About(n)[1] = plugin
            BY AboutFirst
        <3>3. sources \in Nat /\ frozen <= sources /\ sources <= sources
            BY DEF SourcesInv, Versions
        <3> HIDE DEF About
        <3> QED BY <1>1, <1>2, <1>4, <3>1, <3>2, <3>3 DEF SourcesInv, AnswersOf
    <2>3. UNCHANGED sess \/ \E n : RunSession(n, Answers, About)
        BY DEF Submit, CancelQueued, NextRound
    <2> QED BY <2>1, <2>2, <2>3
<1>6. SettledInTime'
    <2>1. ~(at' > 0 /\ Step'[2] = "summarize")
        BY <1>1
    <2>2. CASE summary # "none"
        <3>1. Settled
            BY <2>2 DEF SourcesInv, SettledInTime
        <3>2. Settled'
            BY <1>1, <1>4, <3>1 DEF Settled, Stands, Accepted
        <3> QED BY <3>2 DEF SettledInTime
    <2> QED BY <1>1, <2>1, <2>2 DEF SettledInTime
<1>7. ReviewsPlaced'
    <2> SUFFICES ASSUME program = "matrix" PROVE ReviewsPlaced'
        BY <1>1 DEF ReviewsPlaced
    <2>1. (at' > 0 /\ Reviewed(Step')) \/ reached' \intersect (Late \union {"reviews"}) # {} => ReviewsIn'
        BY <1>1, <1>4 DEF SourcesInv, ReviewsPlaced
    <2>2. failed # {} => raising
        BY DEF SourcesInv, ReviewsPlaced
    <2>3. AtReviews /\ round # 0 /\ ~raising =>
             \A n \in DOMAIN sess : n[1] = "review" => Accepted(n) \/ n \in queue \union running
        BY DEF SourcesInv, ReviewsPlaced
    <2>4. ASSUME NEW names, Submit(names), AtReviews => names = {"review"} \X Blocks
          PROVE  /\ failed' # {} => raising'
                 /\ AtReviews' /\ round' # 0 /\ ~raising' =>
                      \A n \in DOMAIN sess : n[1] = "review" => Accepted(n)' \/ n \in queue' \union running'
        <3>1. queue' = Unaccepted(names) /\ UNCHANGED <<running, failed, raising>>
              /\ \A n \in DOMAIN sess : Accepted(n)' <=> Accepted(n)
            BY <2>4 DEF Submit, Accepted
        <3>2. \A n \in DOMAIN sess : n[1] = "review" => n \in {"review"} \X Blocks
            <4>1. DOMAIN sess = {<<"control", 0>>, <<"repair", 0>>}
                                  \union ({"review", "audit", "repair", "judge"} \X Blocks)
                BY DEF SourcesInv, InScript, Sessions
            <4> QED BY <4>1
        <3>3. ASSUME AtReviews, NEW n \in DOMAIN sess, n[1] = "review"
              PROVE  Accepted(n)' \/ n \in queue' \union running'
            <4>1. n \in names
                BY <2>4, <3>2, <3>3
            <4> QED BY <3>1, <3>3, <4>1 DEF Unaccepted
        <3> QED BY <1>1, <2>2, <3>1, <3>3
    <2>5. ASSUME CancelQueued
          PROVE  (failed' # {} => raising') /\ raising'
        BY <2>5 DEF CancelQueued
    <2>6. ASSUME NEW n, RunSession(n, Answers, About)
          PROVE  /\ failed' # {} => raising'
                 /\ AtReviews' /\ round' # 0 /\ ~raising' =>
                      \A m \in DOMAIN sess : m[1] = "review" => Accepted(m)' \/ m \in queue' \union running'
        <3>1. round' = round /\ (failed' # {} => raising') /\ (~raising' => ~raising)
            <4>1. CASE UNCHANGED <<failed, raising, round>>
                BY <2>2, <4>1
            <4>2. CASE FailSession(n)
                <5>1. raising' /\ round' = round
                    BY <4>2, Zenon DEF FailSession, Strict
                <5> QED BY <5>1
            <4> QED BY <2>6, <4>1, <4>2 DEF RunSession, StartSession, WriteResult, AcceptSession
        <3>2. ASSUME AtReviews, round # 0, ~raising'
              PROVE  \A m \in DOMAIN sess : m[1] = "review" => Accepted(m)' \/ m \in queue' \union running'
            <4>1. \A m \in DOMAIN sess : m[1] = "review" => Accepted(m) \/ m \in queue \union running
                BY <2>3, <3>1, <3>2
            <4> QED BY <2>6, <3>2, <4>1, ReviewsHeld
        <3> QED BY <1>1, <3>1, <3>2
    <2>7. /\ failed' # {} => raising'
          /\ AtReviews' /\ round' # 0 /\ ~raising' =>
               \A n \in DOMAIN sess : n[1] = "review" => Accepted(n)' \/ n \in queue' \union running'
        BY <2>4, <2>5, <2>6
    <2> QED BY <1>4, <2>1, <2>7 DEF ReviewsPlaced
<1> QED BY <1>3, <1>5, <1>6, <1>7 DEF SourcesInv

LEMMA SourcesReturned ==
  ASSUME SourcesInv, PoolInv, Tallied, Pooled, PoolReturns, UNCHANGED <<gapVars, blockVars>>
  PROVE  SourcesInv'
<1>1. /\ at > 0 /\ Step[2] \in {"pool", "mend"} /\ Advance /\ PoolEmpty /\ ~raising /\ round' = 0 /\ failed' = {}
      /\ UNCHANGED <<program, script, sources, loaded, frozen, plugin, summary, sess>>
    BY DEF PoolReturns, Returns, Pooled, Doing, gapVars, blockVars
<1>2. frozen # 0 /\ plugin # 0 /\ loaded = frozen
    BY <1>1 DEF SourcesInv, Placed, Prepared, Loaded
<1>3. Versions'
    BY <1>1 DEF SourcesInv, Versions
<1>4. program = "matrix" /\ Step = <<"reviews", "pool", "review">> => ReviewsIn
    <2>1. round # 0 /\ queue \union running = {}
        BY <1>1 DEF PoolEmpty, PoolInv
    <2> QED BY <1>1, <2>1 DEF SourcesInv, ReviewsPlaced, AtReviews, ReviewsIn
<1>5. Step # <<"summary", "freeze">> /\ Step # <<"setup", "copy">>
    BY <1>1
<1> QED BY <1>1, <1>2, <1>3, <1>4, <1>5, SourcesAdvance

LEMMA SourcesKept ==
  ASSUME SourcesInv, PoolInv, Tallied, GapNext, ~unseen' PROVE SourcesInv'
<1>1. program \in Guarded /\ program # "mechanics" /\ program # "screen"
    BY DEF SourcesInv, InScript, Guarded
<1>2. CASE Started
    BY <1>2, SourcesStarted
<1>3. CASE (PoolRaises \/ Killed) /\ UNCHANGED <<gapVars, blockVars>>
    <2>1. Gone /\ Raise
        BY <1>3 DEF PoolRaises, Killed
    <2> QED BY <1>3, <2>1, SourcesLeft DEF Gone, Raise
<1>4. CASE freeze_sources
    BY <1>4, SourcesFrozen
<1>5. CASE setup
    BY <1>5, SourcesCopied
<1>6. CASE EditSources
    BY <1>6, SourcesEdited
<1>7. CASE GapPool
    <2>1. UNCHANGED <<gapVars, blockVars>>
        BY <1>7 DEF GapPool
    <2>2. Pooled /\ (Pool(Wanted, run_session) \/ (PoolRetries /\ program # "matrix") \/ PoolReturns)
        BY <1>1, <1>7 DEF GapPool, run_sessions, replication_run_resilient, mechanics_run_resilient, Strict,
                          Pool, PoolRetries, PoolReturns
    <2>3. Stands
        BY <1>7, PoolsMove, PoolMovesKeep DEF GapPool
    <2>4. AtReviews => Wanted = {"review"} \X Blocks
        BY DEF AtReviews, Wanted
    <2>5. CASE Pool(Wanted, run_session)
        <3>1. /\ UNCHANGED <<program, script, at, reached>>
              /\ \/ Submit(Wanted) \/ CancelQueued
                 \/ \E n \in queue \union running : RunSession(n, Answers, About)
            BY <2>5 DEF Pool, run_session, phaseVars
        <3> QED BY <2>1, <2>2, <2>3, <2>4, <3>1, SourcesPooled
    <2>6. CASE PoolRetries /\ program # "matrix"
        BY <2>1, <2>2, <2>3, <2>6, SourcesPooled DEF PoolRetries, phaseVars
    <2>7. CASE PoolReturns
        BY <2>1, <2>2, <2>7, SourcesReturned
    <2> QED BY <2>2, <2>5, <2>6, <2>7
<1>8. CASE tournament_setup \/ replication_setup \/ control_cases \/ reviews
    <2>1. /\ at > 0 /\ Step[2] \in Quiet /\ Alone /\ (Advance \/ Raise) /\ UNCHANGED <<gapVars, summary>>
        BY <1>8 DEF tournament_setup, replication_setup, control_cases, reviews, CopyReviews, Doing, Quiet,
                    gapVars, blockVars
    <2> QED BY <2>1, SourcesPassed
<1>9. CASE audits
    <2>1. /\ at > 0 /\ Step[2] \in Quiet /\ Alone /\ (Advance \/ Raise) /\ UNCHANGED <<gapVars, summary>>
        BY <1>9 DEF audits, matrix_audits, tournament_audits, replication_audits, mechanics_audits, Admit, Kept,
                    Doing, Quiet
    <2> QED BY <2>1, SourcesPassed
<1>10. CASE tie_judgment \/ judge \/ tournament_judge \/ replication_judge \/ mechanics_judge
    <2>1. /\ at > 0 /\ Step[2] \in Quiet /\ Alone /\ (Advance \/ Raise) /\ UNCHANGED <<gapVars, summary>>
        BY <1>10 DEF tie_judgment, judge, tournament_judge, replication_judge, mechanics_judge, Judged, Doing, Quiet
    <2> QED BY <2>1, SourcesPassed
<1>11. CASE summarize \/ tournament_summarize \/ replication_summarize \/ mechanics_summarize
    <2>1. /\ at > 0 /\ Step[2] = "summarize" /\ Alone /\ Advance /\ UNCHANGED gapVars
        BY <1>11 DEF summarize, tournament_summarize, replication_summarize, mechanics_summarize, Decide, Doing
    <2> QED BY <2>1, SourcesPassed DEF Quiet
<1>12. ~mechanics_setup
    BY <1>1 DEF mechanics_setup
<1> QED BY <1>2, <1>3, <1>4, <1>5, <1>6, <1>7, <1>8, <1>9, <1>10, <1>11, <1>12 DEF GapNext, Driven

HarnessInv ==
  /\ PoolInv /\ Tallied
  /\ program \in Guarded \union {"mechanics", "screen"}
  /\ program \in Guarded /\ ~unseen => SourcesInv

LEMMA HarnessStarts == Init => HarnessInv
<1> SUFFICES ASSUME Init PROVE HarnessInv
    OBVIOUS
<1>1. CASE ScreenInit
    <2>1. program = "screen" /\ program \notin Guarded
        BY <1>1 DEF ScreenInit, Guarded
    <2>2. PICK names : HarnessInit(names)
        BY <1>1 DEF ScreenInit
    <2>3. Tallied
        BY <2>2 DEF HarnessInit, NoSession, Tallied, Accepted
    <2> QED BY <2>1, <2>3, PoolInit DEF HarnessInv
<1>2. CASE GapInit
    <2>1. /\ program \in {"matrix", "tournament", "mechanics", "replication"} /\ script = Scripts[program]
          /\ HarnessInit(Sessions(program)) /\ BlocksInit(Blocks)
        BY <1>2 DEF GapInit, Scripts
    <2>2. Tallied
        BY <2>1 DEF HarnessInit, NoSession, Tallied, Accepted
    <2>3. ASSUME program \in Guarded PROVE SourcesInv
        <3>1. /\ at = 0 /\ reached = {} /\ round = 0 /\ failed = {} /\ DOMAIN sess = Sessions(program)
              /\ \A n \in DOMAIN sess : sess[n].by = 0
            BY <2>1 DEF HarnessInit, NoSession
        <3>2. sources = 1 /\ frozen = 0 /\ plugin = 0 /\ summary = "none"
            BY <2>1 DEF BlocksInit
        <3>3. Len(script) \in Nat
            BY <2>1, <2>3, InOrder DEF Ordered
        <3> QED BY <2>1, <2>3, <3>1, <3>2, <3>3
                   DEF SourcesInv, InScript, Versions, Placed, Loaded, ReviewsPlaced, AtReviews, AnswersOf, SettledInTime
    <2> QED BY <2>1, <2>2, <2>3, PoolInit DEF HarnessInv, Guarded
<1> QED BY <1>1, <1>2 DEF Init

LEMMA SameProgram == ASSUME [Next]_vars PROVE program' = program
<1>1. CASE Driven
    BY <1>1 DEF Driven, Started, Invoke, PoolRaises, Killed, Gone
<1>2. CASE GapPool \/ screen_run_sessions
    BY <1>2 DEF GapPool, run_sessions, replication_run_resilient, mechanics_run_resilient, screen_run_sessions,
                Pool, PoolRetries, PoolReturns
<1>3. CASE freeze_sources \/ setup \/ tournament_setup \/ replication_setup \/ mechanics_setup \/ control_cases
    BY <1>3 DEF freeze_sources, setup, tournament_setup, replication_setup, mechanics_setup, CopyReviews,
                control_cases, Alone
<1>4. CASE reviews \/ audits \/ tie_judgment \/ unleaked \/ prep \/ screen_reviews \/ approaches \/ assemble \/ audit
    BY <1>4 DEF reviews, audits, tie_judgment, unleaked, prep, screen_reviews, approaches, assemble, audit, Alone
<1>5. ASSUME NEW b, NEW verdict, Judged(b, verdict) PROVE program' = program
    BY <1>5 DEF Judged, Alone
<1>6. CASE judge \/ tournament_judge \/ replication_judge \/ mechanics_judge
    BY <1>5, <1>6 DEF judge, tournament_judge, replication_judge, mechanics_judge
<1>7. CASE summarize \/ tournament_summarize \/ replication_summarize \/ mechanics_summarize \/ screen_summarize
    BY <1>7 DEF summarize, tournament_summarize, replication_summarize, mechanics_summarize, screen_summarize,
                Decide, Alone
<1>8. CASE EditSources
    BY <1>8 DEF EditSources
<1>9. CASE screen_setup \/ screen_judge
    BY <1>3, <1>4, <1>5, <1>9 DEF screen_setup, screen_judge
<1>10. CASE UNCHANGED vars
    BY <1>10 DEF vars, harnessVars
<1> QED BY <1>1, <1>2, <1>3, <1>4, <1>6, <1>7, <1>8, <1>9, <1>10 DEF Next, ScreenNext, GapNext

LEMMA UnseenStays == ASSUME GapNext, unseen PROVE unseen'
<1>1. CASE Driven
    BY <1>1 DEF Driven, Started, gapVars
<1>2. CASE freeze_sources \/ setup \/ mechanics_setup \/ tournament_setup \/ replication_setup
    BY <1>2 DEF freeze_sources, setup, mechanics_setup, tournament_setup, replication_setup, CopyReviews
<1>3. CASE control_cases \/ reviews \/ audits \/ GapPool \/ tie_judgment
    BY <1>3 DEF control_cases, reviews, audits, Kept, GapPool, tie_judgment, gapVars
<1>4. CASE judge \/ tournament_judge \/ replication_judge \/ mechanics_judge
    BY <1>4 DEF judge, tournament_judge, replication_judge, mechanics_judge, Judged, gapVars
<1>5. CASE summarize \/ tournament_summarize \/ replication_summarize \/ mechanics_summarize
    BY <1>5 DEF summarize, tournament_summarize, replication_summarize, mechanics_summarize, Decide, gapVars
<1>6. CASE EditSources
    <2>1. \E v \in 1 .. MaxEdits + 1 : unseen' = (unseen \/ v < sources \/ (at > 0 /\ frozen = 0))
        BY <1>6 DEF EditSources
    <2> QED BY ONLY <2>1, unseen, Zenon
<1> QED BY <1>1, <1>2, <1>3, <1>4, <1>5, <1>6 DEF GapNext

LEMMA HarnessStepKeeps == HarnessInv /\ [Next]_vars => HarnessInv'
<1> SUFFICES ASSUME HarnessInv, [Next]_vars PROVE HarnessInv'
    OBVIOUS
<1>1. PoolInv' /\ Tallied'
    BY HarnessStep, PoolMovesKeep, MovesTallied DEF HarnessInv
<1>2. CASE program = "screen" /\ ScreenNext
    <2>1. program' = program
        BY SameProgram
    <2> QED BY <1>1, <1>2, <2>1 DEF HarnessInv, Guarded
<1>3. CASE GapNext
    <2>1. program' = program
        BY SameProgram
    <2>2. ASSUME program \in Guarded, ~unseen' PROVE SourcesInv'
        <3>1. ~unseen
            BY <1>3, <2>2, UnseenStays
        <3>2. SourcesInv /\ PoolInv /\ Tallied
            BY <2>2, <3>1 DEF HarnessInv
        <3> QED BY <1>3, <2>2, <3>2, SourcesKept
    <2> QED BY <1>1, <2>1, <2>2 DEF HarnessInv
<1>4. CASE UNCHANGED vars
    <2>1. UNCHANGED <<program, script, at, reached, sess, queue, running, failed, raising, round,
                      sources, loaded, unseen, frozen, plugin, summary>>
        BY <1>4 DEF vars, harnessVars, phaseVars, poolVars, gapVars, blockVars
    <2>2. Step' = Step
        BY <2>1 DEF Step
    <2> QED BY <1>1, <2>1, <2>2 DEF HarnessInv, SourcesInv, InScript, Versions, Placed, Loaded, ReviewsPlaced,
                                 ReviewsIn, AtReviews, AnswersOf, SettledInTime, Settled, Accepted
<1> QED BY <1>2, <1>3, <1>4 DEF Next

LEMMA HarnessKeeps == QaInit /\ [][QaNext]_<<vars, batteryVars, tool>> => []HarnessInv
<1>1. QaInit => HarnessInv
    BY HarnessStarts DEF QaInit
<1>2. HarnessInv /\ [QaNext]_<<vars, batteryVars, tool>> => HarnessInv'
    BY HarnessStepKeeps DEF QaNext
<1> QED BY <1>1, <1>2, PTL

\* When a summary is there, every accepted session ran the version of the sources that the provenance
\* names, and every judge was given its rubric, however they were edited meanwhile and however often the
\* harness was killed and resumed, unless an edit was taken back or fell between __init__ and the first
\* provenance: freeze_sources of the matrix, the tournament and the replication
THEOREM SummaryOfOneSource == QaSpec => []SameSources
<1>1. HarnessInv => SameSources
    <2> SUFFICES ASSUME HarnessInv, summary # "none", ~unseen, program \notin {"mechanics", "screen"},
                        NEW n \in DOMAIN sess, Accepted(n)
                 PROVE  sess[n].about[1] = frozen
        BY DEF SameSources
    <2>1. SourcesInv /\ sess[n].by # 0
        BY DEF HarnessInv, Tallied
    <2>2. Settled
        BY <2>1 DEF SourcesInv, SettledInTime
    <2>3. /\ n[1] = "judge" => sess[n].about[1] = frozen
          /\ n[1] \notin {"review", "judge"} => sess[n].about[1] = plugin
        BY <2>1 DEF SourcesInv, AnswersOf
    <2> QED BY <2>2, <2>3 DEF Settled
<1> QED BY <1>1, HarnessKeeps, PTL DEF QaSpec

-----------------------------------------------------------------------------
(* The screen: a sealed risk is decided once *)

AfterPrep == {"prep", "reviews", "approaches", "assemble", "judge", "audit"}
AfterMapping == {"approaches", "assemble", "judge", "audit"}
EdgeIndex == <<"edge-index", 0>>
Mapping == <<"coverage-map", 0>>

\* The risks are those of the accepted index of the brief
Briefed == Accepted(EdgeIndex) /\ sealed = Result(EdgeIndex).risks

\* The filter has its accepted answer
Filtered == approach = "coverage-filtered-per-risk" => Accepted(Mapping)

\* In the hands of the pool until it is accepted
Held(n) == Accepted(n) \/ n \in queue \union running

\* What the assembler has to say of a review it added to
DecidedOnce ==
  approach # "upfront-probes-only" /\ Len(augmented[Reviewer]) = 2 =>
    LET added == augmented[Reviewer][2]
    IN  /\ \A f, g \in added : f[3] = g[3] => f = g
        /\ \A f \in added : f[3] \in Expected \ Local

\* No session the assembler read, and no risk it was given, changes once a review was assembled
ScreenInv ==
  /\ script = ScreenScript /\ at \in 0 .. 24
  /\ EdgeIndex \in DOMAIN sess
  /\ approach = "coverage-filtered-per-risk" => Mapping \in DOMAIN sess
  /\ DOMAIN augmented = {Reviewer}
  /\ at > 4 => Accepted(EdgeIndex)
  /\ at > 5 \/ reached \intersect AfterPrep # {} => Briefed
  /\ at > 14 \/ reached \intersect AfterMapping # {} => Filtered
  /\ failed # {} => raising
  /\ at = 4 /\ round # 0 /\ ~raising => Held(EdgeIndex)
  /\ at = 14 /\ round # 0 /\ ~raising /\ approach = "coverage-filtered-per-risk" => Held(Mapping)
  /\ augmented[Reviewer] # <<>> => Briefed /\ Filtered
  /\ DecidedOnce

\* The places of the script that matter
LEMMA ScreenPlaces ==
  /\ Len(ScreenScript) = 24
  /\ \A i \in 1 .. 24 :
       /\ ScreenScript[i][1] = IF i = 1 THEN "setup" ELSE IF i <= 5 THEN "prep" ELSE IF i <= 8 THEN "reviews"
                               ELSE IF i <= 17 THEN "approaches" ELSE IF i = 18 THEN "assemble"
                               ELSE IF i <= 21 THEN "judge" ELSE "audit"
       /\ ScreenScript[i][2] = "seal" => i = 5
       /\ ScreenScript[i][2] = "assemble" => i = 18
       /\ i = 4 => ScreenScript[i] = <<"prep", "pool", "edge-index">>
       /\ i = 5 => ScreenScript[i][2] = "seal"
       /\ i = 14 => ScreenScript[i] = <<"approaches", "pool", "coverage-map">>
<1> USE DEF ScreenScript
<1>1. Len(ScreenScript) = 24
    OBVIOUS
<1>2. /\ ScreenScript[1] = <<"setup", "freeze">> /\ ScreenScript[2] = <<"prep", "pool", "edge">>
      /\ ScreenScript[3] = <<"prep", "unleaked">> /\ ScreenScript[4] = <<"prep", "pool", "edge-index">>
      /\ ScreenScript[5] = <<"prep", "seal">> /\ ScreenScript[6] = <<"reviews", "pool", "review">>
      /\ ScreenScript[7] = <<"reviews", "pool", "index">> /\ ScreenScript[8] = <<"reviews", "bind">>
    OBVIOUS
<1>3. /\ ScreenScript[9] = <<"approaches", "pool", "upfront">>
      /\ ScreenScript[10] = <<"approaches", "pool", "parallel-raw">>
      /\ ScreenScript[11] = <<"approaches", "pool", "parallel">>
      /\ ScreenScript[12] = <<"approaches", "pool", "batch">>
      /\ ScreenScript[13] = <<"approaches", "pool", "per-risk">>
      /\ ScreenScript[14] = <<"approaches", "pool", "coverage-map">>
      /\ ScreenScript[15] = <<"approaches", "mapped">>
      /\ ScreenScript[16] = <<"approaches", "pool", "coverage-verify">>
      /\ ScreenScript[17] = <<"approaches", "pool", "test-scenario">>
    OBVIOUS
<1>4. /\ ScreenScript[18] = <<"assemble", "assemble">> /\ ScreenScript[19] = <<"judge", "tie">>
      /\ ScreenScript[20] = <<"judge", "pool", "judge">> /\ ScreenScript[21] = <<"judge", "verdict", Reviewer>>
      /\ ScreenScript[22] = <<"audit", "pool", "risk-audit">> /\ ScreenScript[23] = <<"audit", "attributed">>
      /\ ScreenScript[24] = <<"audit", "summarize">>
    OBVIOUS
<1> HIDE DEF ScreenScript
<1>5. \A i \in 1 .. 24 :
        \/ i = 1 \/ i = 2 \/ i = 3 \/ i = 4 \/ i = 5 \/ i = 6 \/ i = 7 \/ i = 8 \/ i = 9 \/ i = 10 \/ i = 11
        \/ i = 12 \/ i = 13 \/ i = 14 \/ i = 15 \/ i = 16 \/ i = 17 \/ i = 18 \/ i = 19 \/ i = 20 \/ i = 21
        \/ i = 22 \/ i = 23 \/ i = 24
    OBVIOUS
<1>6. ASSUME NEW i \in 1 .. 24
      PROVE  ScreenScript[i][1] = IF i = 1 THEN "setup" ELSE IF i <= 5 THEN "prep" ELSE IF i <= 8 THEN "reviews"
                                  ELSE IF i <= 17 THEN "approaches" ELSE IF i = 18 THEN "assemble"
                                  ELSE IF i <= 21 THEN "judge" ELSE "audit"
    BY <1>2, <1>3, <1>4, <1>5
<1>7. ASSUME NEW i \in 1 .. 24
      PROVE  (ScreenScript[i][2] = "seal" => i = 5) /\ (ScreenScript[i][2] = "assemble" => i = 18)
    BY <1>2, <1>3, <1>4, <1>5
<1> QED BY <1>1, <1>2, <1>3, <1>6, <1>7

\* A step that goes through comes one further, and a phase is reached from its last step
LEMMA ScreenAdvance ==
  ASSUME script = ScreenScript, UNCHANGED script, at \in 1 .. 24, Advance
  PROVE  /\ at' \in 0 .. 24 /\ (at' = 0 \/ at' = at + 1)
         /\ reached' \intersect AfterPrep # {} => reached \intersect AfterPrep # {} \/ at > 4
         /\ reached' \intersect AfterMapping # {} => reached \intersect AfterMapping # {} \/ at > 13
<1>1. Len(script) = 24 /\ Step = ScreenScript[at]
    BY ScreenPlaces DEF Step
<1>2. /\ at' = 0 \/ (at' = at + 1 /\ at # 24)
      /\ \/ reached' = reached
         \/ /\ reached' = reached \union {Step[1]}
            /\ at = 24 \/ ScreenScript[at + 1][1] # Step[1]
    BY <1>1 DEF Advance
<1>3. Step[1] \in AfterPrep /\ (at = 24 \/ ScreenScript[at + 1][1] # Step[1]) => at > 4
    <2> SUFFICES ASSUME Step[1] \in AfterPrep, at # 24, ScreenScript[at + 1][1] # Step[1] PROVE at > 4
        OBVIOUS
    <2>1. at + 1 \in 1 .. 24
        OBVIOUS
    <2>2. at # 1
        BY <1>1, ScreenPlaces DEF AfterPrep
    <2>3. at \in 2 .. 4 => Step[1] = "prep" /\ ScreenScript[at + 1][1] = "prep"
        BY <1>1, <2>1, ScreenPlaces
    <2> QED BY <2>2, <2>3
<1>4. Step[1] \in AfterMapping /\ (at = 24 \/ ScreenScript[at + 1][1] # Step[1]) => at > 13
    <2> SUFFICES ASSUME Step[1] \in AfterMapping, at # 24, ScreenScript[at + 1][1] # Step[1] PROVE at > 13
        OBVIOUS
    <2>1. at + 1 \in 1 .. 24
        OBVIOUS
    <2>2. ~(at <= 8)
        BY <1>1, ScreenPlaces DEF AfterMapping
    <2>3. at \in 9 .. 13 => Step[1] = "approaches" /\ ScreenScript[at + 1][1] = "approaches"
        BY <1>1, <2>1, ScreenPlaces
    <2> QED BY <2>2, <2>3
<1>5. at' \in 0 .. 24
    BY <1>2
<1> QED BY <1>2, <1>3, <1>4, <1>5

\* Where the operator may start
LEMMA ScreenInvoke ==
  ASSUME script = ScreenScript, UNCHANGED script, Invoke
  PROVE  /\ at' \in 1 .. 24 /\ at' \notin {4, 5, 14}
         /\ at' > 4 => reached \intersect AfterPrep # {}
         /\ at' > 14 => reached \intersect AfterMapping # {}
<1>1. at' = 1 \/ (at' \in 2 .. 24 /\ script[at' - 1][1] # script[at'][1] /\ script[at' - 1][1] \in reached)
    BY ScreenPlaces DEF Invoke, Offered
<1>2. CASE at' # 1
    <2> DEFINE i == at' - 1
    <2>1. i \in 1 .. 23 /\ i + 1 \in 1 .. 24 /\ at' = i + 1 /\ ScreenScript[i][1] # ScreenScript[i + 1][1]
          /\ ScreenScript[i][1] \in reached
        BY <1>1, <1>2
    <2> HIDE DEF i
    <2>2. i \in {1, 5, 8, 17, 18, 21}
        BY <2>1, ScreenPlaces
    <2>3. i > 3 => ScreenScript[i][1] \in AfterPrep
        BY <2>1, <2>2, ScreenPlaces DEF AfterPrep
    <2>4. i > 13 => ScreenScript[i][1] \in AfterMapping
        BY <2>1, <2>2, ScreenPlaces DEF AfterMapping
    <2> QED BY <2>1, <2>2, <2>3, <2>4
<1> QED BY <1>1, <1>2

\* What is accepted stands, and with it the risks and what the filter said
LEMMA ScreenStands ==
  ASSUME ScreenInv, Stands, UNCHANGED approach
  PROVE  /\ EdgeIndex \in DOMAIN sess' /\ (Accepted(EdgeIndex) => Accepted(EdgeIndex)')
         /\ approach = "coverage-filtered-per-risk" => Mapping \in DOMAIN sess'
         /\ Filtered => Filtered'
         /\ Accepted(EdgeIndex) => Result(EdgeIndex)' = Result(EdgeIndex)
         /\ approach = "coverage-filtered-per-risk" /\ Accepted(Mapping) => CoverageMap' = CoverageMap
BY DEF ScreenInv, Stands, Accepted, Result, Filtered, CoverageMap, Mapping

LEMMA OnceStays ==
  ASSUME ScreenInv, Stands, UNCHANGED <<approach, augmented>>, sealed' = sealed \/ ~Briefed
  PROVE  DecidedOnce'
<1> SUFFICES ASSUME approach # "upfront-probes-only", Len(augmented[Reviewer]) = 2
             PROVE  LET added == augmented[Reviewer][2]
                    IN  /\ \A f, g \in added : f[3] = g[3] => f = g
                        /\ \A f \in added : f[3] \in Expected' \ Local'
    BY DEF DecidedOnce
<1>1. augmented[Reviewer] # <<>>
    OBVIOUS
<1>2. Briefed /\ Filtered /\ sealed' = sealed
    BY <1>1 DEF ScreenInv
<1>3. Expected' = Expected /\ Local' = Local
    BY <1>2, ScreenStands DEF Expected, Local, Filtered
<1> QED BY <1>3 DEF ScreenInv, DecidedOnce

\* A step between the pools, the seal and the assembler aside
LEMMA ScreenPassed ==
  ASSUME ScreenInv, at \in 1 .. 24, at \notin {4, 5, 14}, Advance \/ Raise,
         UNCHANGED <<script, approach, sealed, augmented, sess, failed, raising, round>>, round = 0
  PROVE  ScreenInv'
<1>1. Stands
    BY DEF Stands
<1>2. DecidedOnce'
    BY <1>1, OnceStays
<1>3. (Briefed <=> Briefed') /\ (Filtered <=> Filtered') /\ (Accepted(EdgeIndex) <=> Accepted(EdgeIndex)')
    BY DEF Briefed, Filtered, Accepted, Result
<1>4. CASE Raise
    BY <1>2, <1>3, <1>4 DEF ScreenInv, Raise
<1>5. CASE Advance
    <2>1. /\ at' \in 0 .. 24 /\ (at' = 0 \/ at' = at + 1)
          /\ reached' \intersect AfterPrep # {} => reached \intersect AfterPrep # {} \/ at > 4
          /\ reached' \intersect AfterMapping # {} => reached \intersect AfterMapping # {} \/ at > 13
        BY <1>5, ScreenAdvance DEF ScreenInv
    <2>2. at' > 4 \/ at' > 5 \/ reached' \intersect AfterPrep # {} => Briefed \/ at = 4
        BY <2>1 DEF ScreenInv
    <2>3. at' > 14 \/ reached' \intersect AfterMapping # {} => Filtered
        BY <2>1 DEF ScreenInv
    <2>4. at' > 4 => Accepted(EdgeIndex)
        BY <2>1 DEF ScreenInv
    <2> QED BY <1>2, <1>3, <2>1, <2>2, <2>3, <2>4 DEF ScreenInv
<1> QED BY <1>4, <1>5

\* prep: the risks are taken from the index, for the first time or once more
LEMMA ScreenSealed == ASSUME ScreenInv, prep PROVE ScreenInv'
<1>1. /\ at > 0 /\ Step[2] = "seal" /\ round = 0
      /\ UNCHANGED <<script, sess, failed, raising, round, approach, augmented>>
    BY DEF prep, Doing, Alone, NoPool, poolVars, blockVars
<1>2. at = 5
    <2>1. at \in 1 .. 24 /\ script = ScreenScript
        BY <1>1 DEF ScreenInv
    <2>2. script[at][2] = "seal"
        BY <1>1 DEF Step
    <2>3. \A i \in 1 .. 24 : ScreenScript[i][2] = "seal" => i = 5
        BY ScreenPlaces
    <2> QED BY <2>1, <2>2, <2>3
<1>3. Stands
    BY <1>1 DEF Stands
<1>4. Accepted(EdgeIndex)
    BY <1>2 DEF ScreenInv
<1>5. \/ Raise /\ sealed' = sealed
      \/ Advance /\ sealed' = Result(EdgeIndex).risks
    BY DEF prep, Proceed, EdgeIndex
<1>6. CASE Raise /\ sealed' = sealed
    <2>1. DecidedOnce'
        BY <1>1, <1>3, <1>6, OnceStays
    <2>2. (Briefed <=> Briefed') /\ (Filtered <=> Filtered') /\ (Accepted(EdgeIndex) <=> Accepted(EdgeIndex)')
        BY <1>1, <1>6 DEF Briefed, Filtered, Accepted, Result
    <2> QED BY <1>1, <1>6, <2>1, <2>2 DEF ScreenInv, Raise
<1>7. CASE Advance /\ sealed' = Result(EdgeIndex).risks
    <2>1. sealed' = sealed \/ ~Briefed
        BY <1>7 DEF Briefed
    <2>2. DecidedOnce'
        BY <1>1, <1>3, <2>1, OnceStays
    <2>3. Briefed' /\ (Filtered <=> Filtered') /\ Accepted(EdgeIndex)'
        BY <1>1, <1>4, <1>7 DEF Briefed, Filtered, Accepted, Result
    <2>4. /\ at' \in 0 .. 24 /\ (at' = 0 \/ at' = at + 1)
          /\ reached' \intersect AfterMapping # {} => reached \intersect AfterMapping # {} \/ at > 13
        BY <1>1, <1>7, <1>2, ScreenAdvance DEF ScreenInv
    <2>5. at' > 14 \/ reached' \intersect AfterMapping # {} => Filtered
        BY <1>2, <2>4 DEF ScreenInv
    <2> QED BY <1>1, <1>2, <2>2, <2>3, <2>4, <2>5 DEF ScreenInv
<1> QED BY <1>5, <1>6, <1>7

\* assemble: the assembler exits with an error unless each risk it was given is decided once
LEMMA ScreenAssembled == ASSUME ScreenInv, assemble PROVE ScreenInv'
<1>1. /\ at > 0 /\ Step[2] = "assemble" /\ round = 0
      /\ UNCHANGED <<script, sess, failed, raising, round, approach, sealed>>
    BY DEF assemble, Doing, Alone, NoPool, poolVars, screenVars
<1>2. at = 18
    <2>1. at \in 1 .. 24 /\ script = ScreenScript
        BY <1>1 DEF ScreenInv
    <2>2. script[at][2] = "assemble"
        BY <1>1 DEF Step
    <2>3. \A i \in 1 .. 24 : ScreenScript[i][2] = "assemble" => i = 18
        BY ScreenPlaces
    <2> QED BY <2>1, <2>2, <2>3
<1>3. Briefed /\ Filtered /\ Accepted(EdgeIndex)
    BY <1>2 DEF ScreenInv
<1>4. Briefed' /\ Filtered' /\ Accepted(EdgeIndex)' /\ Expected' = Expected /\ Local' = Local
    BY <1>1, <1>3 DEF Briefed, Filtered, Accepted, Result, Expected, Local, CoverageMap
<1>5. DOMAIN augmented' = {Reviewer} /\ DecidedOnce' /\ (Advance \/ Raise)
    <2>1. CASE approach = "upfront-probes-only"
        BY <1>1, <2>1 DEF assemble, Assembled, ScreenInv, DecidedOnce
    <2>2. CASE approach = "conditional-no-findings-challenger" /\ findings
        <3>1. augmented' = [augmented EXCEPT ![Reviewer] = Base] /\ Advance
            BY <2>2 DEF assemble, exact_base_policy, Assembled
        <3>2. DOMAIN augmented' = {Reviewer} /\ augmented'[Reviewer] = Base /\ Len(Base) = 1
            BY <3>1 DEF ScreenInv, Base
        <3> QED BY <3>1, <3>2 DEF DecidedOnce
    <2>3. CASE assemble_candidate(combined_candidate)
        <3> DEFINE decisions == combined_candidate
                   confirmed == {p \in decisions : p[3] = "confirmed"}
                   added == {<<p[1], sess[p[1]].by, p[2]>> : p \in confirmed}
        <3>1. CASE UNCHANGED augmented /\ Raise
            BY <1>1, <1>3, <1>4, <3>1 DEF ScreenInv, DecidedOnce
        <3>2. CASE /\ normalize_candidates(decisions) /\ Covers(decisions)
                   /\ Assembled(Appended(decisions)) /\ Advance
            <4>1. \A p, q \in decisions : p[2] = q[2] => p = q
                BY <3>2 DEF normalize_candidates
            <4>2. {p[2] : p \in decisions} = Expected
                BY <3>2 DEF Covers
            <4>3. \A r \in Local : <<<<"local", 0>>, r, "covered">> \in decisions
                BY DEF combined_candidate
            <4>4. DOMAIN augmented' = {Reviewer}
                  /\ (augmented'[Reviewer] = Base \/ augmented'[Reviewer] = <<"added", added>>)
                BY <3>2 DEF Assembled, Appended, Added, ScreenInv
            <4> HIDE DEF decisions
            <4>5. \A f, g \in added : f[3] = g[3] => f = g
                <5> SUFFICES ASSUME NEW p \in confirmed, NEW q \in confirmed, p[2] = q[2]
                             PROVE  <<p[1], sess[p[1]].by, p[2]>> = <<q[1], sess[q[1]].by, q[2]>>
                    OBVIOUS
                <5>1. p = q
                    BY <4>1
                <5> QED BY <5>1
            <4>6. \A f \in added : f[3] \in Expected \ Local
                <5> SUFFICES ASSUME NEW p \in confirmed PROVE p[2] \in Expected \ Local
                    OBVIOUS
                <5>1. p[2] \in Expected
                    BY <4>2
                <5>2. ASSUME p[2] \in Local PROVE FALSE
                    <6> DEFINE q == <<<<"local", 0>>, p[2], "covered">>
                    <6>1. q \in decisions /\ q[2] = p[2] /\ q[3] = "covered"
                        BY <4>3, <5>2
                    <6>2. p = q
                        BY <4>1, <6>1
                    <6>3. p[3] = "confirmed"
                        OBVIOUS
                    <6> QED BY <6>1, <6>2, <6>3
                <5> QED BY <5>1, <5>2
            <4> HIDE DEF added
            <4>7. Len(Base) = 1
                BY DEF Base
            <4>8. augmented'[Reviewer] # Base => augmented'[Reviewer][2] = added
                BY <4>4
            <4>9. Len(augmented'[Reviewer]) = 2 => augmented'[Reviewer] # Base
                BY <4>7
            <4> QED BY <1>4, <3>2, <4>4, <4>5, <4>6, <4>8, <4>9 DEF DecidedOnce
        <3> QED BY <2>3, <3>1, <3>2 DEF assemble_candidate
    <2> QED BY <2>1, <2>2, <2>3 DEF assemble
<1>6. CASE Raise
    BY <1>1, <1>4, <1>5, <1>6 DEF ScreenInv, Raise
<1>7. CASE Advance
    <2>1. at' \in 0 .. 24 /\ (at' = 0 \/ at' = at + 1)
        BY <1>1, <1>2, <1>7, ScreenAdvance DEF ScreenInv
    <2> QED BY <1>1, <1>2, <1>4, <1>5, <2>1 DEF ScreenInv
<1> QED BY <1>5, <1>6, <1>7

\* A step of a session leaves what is in the hands of the pool there, unless the session fails
LEMMA HeldStays ==
  ASSUME PoolInv, Tallied, program \in Strict, NEW n, SessionMoves(n), ~raising', NEW m \in DOMAIN sess, Held(m)
  PROVE  Held(m)'
<1>0. /\ sess = [k \in DOMAIN sess |-> sess[k]] /\ \A k \in DOMAIN sess : SessionOK(k)
      /\ written \subseteq running
    BY DEF PoolInv
<1>1. CASE StartSession(n)
    <2>1. /\ queue' = queue \ {n} /\ running' = running \union {n}
          /\ sess' = [sess EXCEPT ![n] = [sess[n] EXCEPT !.tries = sess[n].tries + 1]]
        BY <1>1 DEF StartSession
    <2>2. sess'[m].accepted = sess[m].accepted
        BY <1>0, <2>1 DEF SessionOK
    <2> QED BY <2>1, <2>2 DEF Held, Accepted
<1>2. ASSUME NEW result, NEW about, n \in running, WriteResult(n, result, about) PROVE Held(m)'
    <2>1. UNCHANGED <<queue, running>>
        BY <1>2 DEF WriteResult
    <2>2. m # n => sess'[m] = sess[m]
        BY <1>0, <1>2 DEF WriteResult
    <2> QED BY <1>2, <2>1, <2>2 DEF Held, Accepted
<1>3. CASE AcceptSession(n)
    <2>1. /\ n \in written /\ queue' = queue /\ running' = running \ {n}
          /\ sess' = [sess EXCEPT ![n] = [sess[n] EXCEPT !.accepted = sess[n].tries]]
        BY <1>3 DEF AcceptSession
    <2>2. /\ m # n => sess'[m] = sess[m]
          /\ m = n => sess'[m].accepted = sess[m].tries
        BY <1>0, <2>1 DEF SessionOK
    <2>3. m = n => sess[m].tries # 0
        BY <1>0, <2>1 DEF Tallied
    <2> QED BY <2>1, <2>2, <2>3 DEF Held, Accepted
<1>4. CASE FailSession(n)
    BY <1>4, Zenon DEF FailSession
<1> QED BY <1>1, <1>2, <1>3, <1>4 DEF SessionMoves

\* A step inside a pool: a failed session ends the group, so the pool returns when all it was given
\* is accepted
LEMMA ScreenPooled ==
  ASSUME ScreenInv, PoolInv, Tallied, program = "screen", Pool(ScreenWanted, screen_run_session),
         UNCHANGED <<gapVars, blockVars, screenVars>>
  PROVE  ScreenInv'
<1>1. /\ UNCHANGED <<script, at, reached, approach, sealed, augmented>> /\ at > 0
    BY DEF Pool, phaseVars, screenVars, blockVars, Pooled, Doing
<1>2. Stands
    BY PoolsMove, PoolMovesKeep DEF screen_run_sessions
<1>3. DecidedOnce'
    BY <1>1, <1>2, OnceStays
<1>4. /\ EdgeIndex \in DOMAIN sess' /\ (Accepted(EdgeIndex) => Accepted(EdgeIndex)')
      /\ approach = "coverage-filtered-per-risk" => Mapping \in DOMAIN sess'
      /\ (Filtered => Filtered') /\ (Briefed => Briefed')
    BY <1>1, <1>2, ScreenStands DEF Briefed
<1>5. /\ at = 4 => ScreenWanted = {EdgeIndex}
      /\ at = 14 /\ approach = "coverage-filtered-per-risk" => ScreenWanted = {Mapping}
    <2>1. CASE at = 4
        <3>1. Step[3] = "edge-index"
            BY <2>1, ScreenPlaces DEF ScreenInv, Step
        <3>2. "edge-index" \notin Kinds
            BY DEF Kinds
        <3>3. ScreenWanted = {<<"edge-index", 0>>}
            BY <3>1, <3>2 DEF ScreenWanted
        <3> QED BY <2>1, <3>3 DEF EdgeIndex
    <2>2. CASE at = 14 /\ approach = "coverage-filtered-per-risk"
        <3>1. Step[3] = "coverage-map"
            BY <2>2, ScreenPlaces DEF ScreenInv, Step
        <3>2. "coverage-map" \in Kinds
            BY <2>2 DEF Kinds
        <3>3. ScreenWanted = {<<"coverage-map", 0>>}
            BY <3>1, <3>2 DEF ScreenWanted
        <3> QED BY <2>2, <3>3 DEF Mapping
    <2> QED BY <2>1, <2>2
<1>6. /\ failed' # {} => raising'
      /\ at = 4 /\ round' # 0 /\ ~raising' => Held(EdgeIndex)'
      /\ at = 14 /\ round' # 0 /\ ~raising' /\ approach = "coverage-filtered-per-risk" => Held(Mapping)'
    <2>1. CASE Submit(ScreenWanted)
        <3>1. queue' = Unaccepted(ScreenWanted) /\ UNCHANGED <<sess, running, failed, raising>>
            BY <2>1 DEF Submit
        <3>2. \A n \in ScreenWanted : Held(n)'
            BY <3>1 DEF Unaccepted, Held, Accepted
        <3> QED BY <1>5, <3>1, <3>2 DEF ScreenInv
    <2>2. CASE CancelQueued
        BY <2>2 DEF CancelQueued
    <2>3. ASSUME NEW n, SessionMoves(n)
          PROVE  /\ failed' # {} => raising'
                 /\ at = 4 /\ round' # 0 /\ ~raising' => Held(EdgeIndex)'
                 /\ at = 14 /\ round' # 0 /\ ~raising' /\ approach = "coverage-filtered-per-risk" => Held(Mapping)'
        <3>1. round' = round /\ (failed' # {} => raising') /\ (~raising' => ~raising)
            <4>1. CASE UNCHANGED <<failed, raising, round>>
                BY <4>1 DEF ScreenInv
            <4>2. CASE FailSession(n)
                <5>1. raising' /\ round' = round
                    BY <4>2, Zenon DEF FailSession, Strict
                <5> QED BY <5>1
            <4> QED BY <2>3, <4>1, <4>2 DEF SessionMoves, StartSession, WriteResult, AcceptSession
        <3>2. program \in Strict
            BY DEF Strict
        <3>3. at = 4 /\ round' # 0 /\ ~raising' => Held(EdgeIndex)'
            BY <2>3, <3>1, <3>2, HeldStays DEF ScreenInv
        <3>4. at = 14 /\ round' # 0 /\ ~raising' /\ approach = "coverage-filtered-per-risk" => Held(Mapping)'
            BY <2>3, <3>1, <3>2, HeldStays DEF ScreenInv
        <3> QED BY <3>1, <3>3, <3>4
    <2> QED BY <2>1, <2>2, <2>3, SessionIsMove DEF Pool
<1> QED BY <1>1, <1>3, <1>4, <1>6 DEF ScreenInv, Stands

LEMMA ScreenReturned ==
  ASSUME ScreenInv, PoolInv, program = "screen", PoolReturns, UNCHANGED <<gapVars, blockVars, screenVars>>
  PROVE  ScreenInv'
<1>1. /\ at > 0 /\ Advance /\ PoolEmpty /\ ~raising /\ round' = 0 /\ failed' = {}
      /\ UNCHANGED <<script, sess, approach, sealed, augmented>> /\ Step[2] # "seal"
    BY DEF PoolReturns, Returns, Pooled, Doing, screenVars, blockVars
<1>2. Stands
    BY <1>1 DEF Stands
<1>3. DecidedOnce'
    BY <1>1, <1>2, OnceStays
<1>4. (Briefed <=> Briefed') /\ (Filtered <=> Filtered') /\ (Accepted(EdgeIndex) <=> Accepted(EdgeIndex)')
    BY <1>1 DEF Briefed, Filtered, Accepted, Result
<1>5. at \in 1 .. 24 /\ at # 5
    BY <1>1, ScreenPlaces DEF ScreenInv, Step
<1>6. /\ at' \in 0 .. 24 /\ (at' = 0 \/ at' = at + 1)
      /\ reached' \intersect AfterPrep # {} => reached \intersect AfterPrep # {} \/ at > 4
      /\ reached' \intersect AfterMapping # {} => reached \intersect AfterMapping # {} \/ at > 13
    BY <1>1, <1>5, ScreenAdvance DEF ScreenInv
<1>7. (at = 4 => Accepted(EdgeIndex)) /\ (at = 14 => Filtered)
    <2>1. round # 0 /\ queue \union running = {}
        BY <1>1 DEF PoolEmpty, PoolInv
    <2> QED BY <1>1, <2>1 DEF ScreenInv, Held, Filtered
<1>8. at' > 4 => Accepted(EdgeIndex)
    BY <1>5, <1>6, <1>7 DEF ScreenInv
<1>9. at' > 5 \/ reached' \intersect AfterPrep # {} => Briefed
    BY <1>5, <1>6 DEF ScreenInv
<1>10. at' > 14 \/ reached' \intersect AfterMapping # {} => Filtered
    BY <1>5, <1>6, <1>7 DEF ScreenInv
<1> QED BY <1>1, <1>3, <1>4, <1>6, <1>8, <1>9, <1>10 DEF ScreenInv

LEMMA ScreenKept == ASSUME ScreenInv, PoolInv, Tallied, program = "screen", ScreenNext PROVE ScreenInv'
<1>1. CASE Driven /\ UNCHANGED screenVars
    <2>1. UNCHANGED <<script, sess, approach, sealed, augmented>>
        BY <1>1 DEF Driven, Started, Invoke, PoolRaises, Killed, Gone, screenVars, blockVars
    <2>2. Stands
        BY <2>1 DEF Stands
    <2>3. DecidedOnce'
        BY <2>1, <2>2, OnceStays
    <2>4. (Briefed <=> Briefed') /\ (Filtered <=> Filtered') /\ (Accepted(EdgeIndex) <=> Accepted(EdgeIndex)')
        BY <2>1 DEF Briefed, Filtered, Accepted, Result
    <2>5. CASE Invoke
        <3>1. /\ at' \in 1 .. 24 /\ at' \notin {4, 5, 14}
              /\ at' > 4 => reached \intersect AfterPrep # {}
              /\ at' > 14 => reached \intersect AfterMapping # {}
            BY <2>1, <2>5, ScreenInvoke DEF ScreenInv
        <3>2. UNCHANGED <<reached, failed, raising>>
            BY <2>5 DEF Invoke
        <3>3. at' > 4 => Briefed /\ Accepted(EdgeIndex)
            BY <3>1 DEF ScreenInv, Briefed
        <3> QED BY <2>1, <2>3, <2>4, <3>1, <3>2, <3>3 DEF ScreenInv
    <2>6. CASE Gone /\ Raise
        BY <2>1, <2>3, <2>4, <2>6 DEF ScreenInv, Gone, Raise
    <2> QED BY <1>1, <2>5, <2>6 DEF Driven, Started, PoolRaises, Killed
<1>2. CASE prep
    BY <1>2, ScreenSealed
<1>3. CASE assemble
    BY <1>3, ScreenAssembled
<1>4. CASE screen_run_sessions
    BY <1>4, ScreenPooled, ScreenReturned DEF screen_run_sessions
<1>5. CASE screen_setup \/ unleaked \/ screen_reviews \/ approaches \/ screen_judge \/ audit \/ screen_summarize
    <2>1. /\ at > 0 /\ Step[2] \notin {"seal", "pool"} /\ (Advance \/ Raise) /\ round = 0
          /\ UNCHANGED <<script, approach, sealed, augmented, sess, failed, raising, round>>
        <3>1. CASE screen_setup
            BY <3>1 DEF screen_setup, freeze_sources, Doing, NoPool, blockVars, screenVars
        <3>2. CASE unleaked \/ approaches \/ audit
            BY <3>2 DEF unleaked, approaches, audit, Proceed, Doing, Alone, NoPool, poolVars, blockVars, screenVars
        <3>3. CASE screen_reviews
            BY <3>3 DEF screen_reviews, Proceed, Doing, Alone, NoPool, poolVars
        <3>4. CASE screen_judge \/ screen_summarize
            BY <3>4 DEF screen_judge, screen_summarize, tie_judgment, Judged, Decide, Doing, Alone, NoPool,
                        poolVars, screenVars
        <3> QED BY <1>5, <3>1, <3>2, <3>3, <3>4
    <2>2. at \in 1 .. 24 /\ at \notin {4, 5, 14}
        BY <2>1, ScreenPlaces DEF ScreenInv, Step
    <2> QED BY <2>1, <2>2, ScreenPassed
<1> QED BY <1>1, <1>2, <1>3, <1>4, <1>5 DEF ScreenNext

ScreenSafe == program = "screen" => ScreenInv

LEMMA ScreenStarts == Init => ScreenSafe
<1> SUFFICES ASSUME Init, program = "screen" PROVE ScreenInv
    BY DEF ScreenSafe
<1>1. ScreenInit
    BY DEF Init, GapInit, Scripts
<1>2. /\ script = ScreenScript /\ at = 0 /\ reached = {} /\ failed = {} /\ round = 0
      /\ augmented = [b \in {Reviewer} |-> <<>>]
      /\ DOMAIN sess = {n \in ScreenSessions :
                          n[1] \in Kinds \union {"edge", "edge-index", "review", "index", "judge", "risk-audit"}}
    BY <1>1 DEF ScreenInit, HarnessInit, BlocksInit
<1>3. EdgeIndex \in DOMAIN sess
    BY <1>2 DEF EdgeIndex, ScreenSessions
<1>4. ASSUME approach = "coverage-filtered-per-risk" PROVE Mapping \in DOMAIN sess
    <2>1. "coverage-map" \in Kinds
        BY <1>4 DEF Kinds
    <2> QED BY <1>2, <2>1 DEF Mapping, ScreenSessions
<1>5. augmented[Reviewer] = <<>> /\ Len(<<>>) = 0
    BY <1>2
<1> QED BY <1>2, <1>3, <1>4, <1>5 DEF ScreenInv, DecidedOnce

LEMMA ScreenKeeps == QaInit /\ [][QaNext]_<<vars, batteryVars, tool>> => []ScreenSafe
<1>1. QaInit => ScreenSafe
    BY ScreenStarts DEF QaInit
<1>2. HarnessInv /\ ScreenSafe /\ [QaNext]_<<vars, batteryVars, tool>> => ScreenSafe'
    <2> SUFFICES ASSUME HarnessInv, ScreenSafe, [Next]_vars, program' = "screen" PROVE ScreenInv'
        BY DEF QaNext, ScreenSafe
    <2>1. program = "screen"
        BY SameProgram
    <2>2. CASE ScreenNext
        BY <2>1, <2>2, ScreenKept DEF HarnessInv, ScreenSafe
    <2>3. CASE UNCHANGED vars
        <3>1. UNCHANGED <<script, at, reached, sess, queue, running, failed, raising, round, augmented,
                          approach, sealed>>
            BY <2>3 DEF vars, harnessVars, phaseVars, poolVars, blockVars, screenVars
        <3>2. Stands
            BY <3>1 DEF Stands
        <3>3. DecidedOnce'
            BY <2>1, <3>1, <3>2, OnceStays DEF ScreenSafe
        <3> QED BY <2>1, <3>1, <3>3 DEF ScreenSafe, ScreenInv, Briefed, Filtered, Held, Accepted, Result
    <2> QED BY <2>1, <2>2, <2>3 DEF Next
<1> QED BY <1>1, <1>2, HarnessKeeps, PTL

\* A sealed risk is decided once, by one session or by the filter, and nothing is added to the review
\* about a risk that is covered or was not asked for, through every resume, kill and second assembly:
\* assemble_review.py and run_role_matrix.py
THEOREM RiskIsDecidedOnce == QaSpec => []RisksOnce
<1>1. ScreenSafe => RisksOnce
    BY DEF ScreenSafe, ScreenInv, DecidedOnce, RisksOnce
<1> QED BY <1>1, ScreenKeeps, PTL DEF QaSpec

-----------------------------------------------------------------------------
(* The harnesses: the steps before a step *)

LEMMA BlocksAre == Blocks = 1 .. K /\ K \in Nat
BY BlocksAssumption, Count_K DEF K

Early(p) ==
  ({"setup", "controls", "reviews"} \X {"freeze", "copy", "evidence", "score", "keep"})
    \union {s \in {<<"controls", "pool", "control">>, <<"controls", "mend", 0>>, <<"reviews", "pool", "review">>} :
              p = "matrix"}

Auditors(p) ==
  IF p = "mechanics" THEN {"discovery", "coverage"} ELSE IF p \in Strict THEN {"audit"} ELSE {"audit", "repair"}

LateSteps(p) ==
  {<<"audits", "freeze">>, <<"judge", "freeze">>, <<"judge", "tie">>, <<"judge", "pool", "judge">>,
   <<"summary", "freeze">>, <<"summary", "summarize">>}
    \union ({"audits"} \X {"pool"} \X Auditors(p)) \union ({"audits"} \X {"admit"} \X Blocks)
    \union {s \in {"audits"} \X {"mend"} \X Blocks : p \in Strict}
    \union ({"judge"} \X {"verdict"} \X Blocks)

\* The step before one of the audits, the judges and the summary
Comes(p, s, t) ==
  /\ t[1] \notin Late => s[1] \notin Late
  /\ t = <<"audits", "freeze">> => s[1] \notin Late
  /\ t[1] = "audits" /\ t[2] = "pool" =>
       s = CASE t[3] = "repair" -> <<"audits", "pool", "audit">>
             [] t[3] = "coverage" -> <<"audits", "pool", "discovery">>
             [] OTHER -> <<"audits", "freeze">>
  /\ t[1] = "audits" /\ t[2] = "mend" =>
       s = IF t[3] = 1 THEN <<"audits", "pool", "audit">> ELSE <<"audits", "admit", t[3] - 1>>
  /\ t[1] = "audits" /\ t[2] = "admit" =>
       s = IF p \in Strict THEN <<"audits", "mend", t[3]>>
           ELSE IF t[3] = 1 THEN <<"audits", "pool", IF p = "mechanics" THEN "coverage" ELSE "repair">>
           ELSE <<"audits", "admit", t[3] - 1>>
  /\ t = <<"judge", "freeze">> => s[1] = "audits" /\ (K # 0 => s = <<"audits", "admit", K>>)
  /\ t = <<"judge", "tie">> => s = <<"judge", "freeze">>
  /\ t[1] = "judge" /\ t[2] = "pool" => s = <<"judge", "tie">>
  /\ t[1] = "judge" /\ t[2] = "verdict" =>
       s = IF t[3] = 1 THEN <<"judge", "pool", "judge">> ELSE <<"judge", "verdict", t[3] - 1>>
  /\ t = <<"summary", "freeze">> => s[1] = "judge"
  /\ t = <<"summary", "summarize">> => s = <<"summary", "freeze">>

Path(p, s) ==
  /\ s \in Seq(ScriptSteps) /\ Len(s) \in Nat \ {0}
  /\ s[1][1] = "setup" /\ s[Len(s)] = <<"summary", "summarize">>
  /\ \A i \in 1 .. Len(s) : s[i] \in Early(p) \union LateSteps(p)
  /\ \A i, j \in 1 .. Len(s) : j = i + 1 => Comes(p, s[i], s[j])

LEMMA TailPath ==
  ASSUME NEW p, NEW s \in Seq(ScriptSteps), NEW c \in Nat, EndsIn(s, c)
  PROVE  /\ \A j \in c + 1 .. Len(s) : s[j] \in LateSteps(p)
         /\ \A i, j \in c + 1 .. Len(s) : j = i + 1 => Comes(p, s[i], s[j])
<1>1. K \in Nat /\ Blocks = 1 .. K /\ Len(s) = c + K + 5
    BY BlocksAre DEF EndsIn
<1>2. /\ s[c + 1] = <<"judge", "freeze">> /\ s[c + 2] = <<"judge", "tie">>
      /\ s[c + 3] = <<"judge", "pool", "judge">>
      /\ \A b \in 1 .. K : s[c + 3 + b] = <<"judge", "verdict", b>>
      /\ s[c + K + 4] = <<"summary", "freeze">> /\ s[c + K + 5] = <<"summary", "summarize">>
    BY DEF EndsIn
<1>3. ASSUME NEW j \in c + 1 .. Len(s)
      PROVE  \/ j = c + 1 \/ j = c + 2 \/ j = c + 3
             \/ j - (c + 3) \in 1 .. K /\ j = c + 3 + (j - (c + 3))
             \/ j = c + K + 4 \/ j = c + K + 5
    BY <1>1
<1>4. ASSUME NEW j \in c + 1 .. Len(s) PROVE s[j] \in LateSteps(p)
    <2>1. ASSUME NEW b \in Blocks PROVE <<"judge", "verdict", b>> \in LateSteps(p)
        BY DEF LateSteps
    <2>2. CASE j - (c + 3) \in 1 .. K /\ j = c + 3 + (j - (c + 3))
        BY <1>1, <1>2, <2>1, <2>2
    <2>3. CASE j = c + 1 \/ j = c + 2 \/ j = c + 3 \/ j = c + K + 4 \/ j = c + K + 5
        <3>1. s[j] \in {<<"judge", "freeze">>, <<"judge", "tie">>, <<"judge", "pool", "judge">>,
                        <<"summary", "freeze">>, <<"summary", "summarize">>}
            BY <1>2, <2>3
        <3> QED BY <3>1 DEF LateSteps
    <2> QED BY <1>3, <2>2, <2>3
<1>5. ASSUME NEW i \in c + 1 .. Len(s), NEW j \in c + 1 .. Len(s), j = i + 1
      PROVE  Comes(p, s[i], s[j])
    <2>1. CASE i = c + 1
        <3>1. s[i] = <<"judge", "freeze">> /\ s[j] = <<"judge", "tie">>
            BY <1>2, <1>5, <2>1
        <3> QED BY <3>1 DEF Comes, Late
    <2>2. CASE i = c + 2
        <3>1. s[i] = <<"judge", "tie">> /\ s[j] = <<"judge", "pool", "judge">>
            BY <1>2, <1>5, <2>2
        <3> QED BY <3>1 DEF Comes, Late
    <2>3. CASE i = c + 3 /\ K = 0
        <3>1. s[i] = <<"judge", "pool", "judge">> /\ s[j] = <<"summary", "freeze">>
            BY <1>1, <1>2, <1>5, <2>3
        <3> QED BY <3>1 DEF Comes, Late
    <2>4. CASE i = c + 3 /\ K # 0
        <3>1. 1 \in 1 .. K /\ j = c + 3 + 1
            BY <1>1, <1>5, <2>4
        <3>2. s[i] = <<"judge", "pool", "judge">> /\ s[j] = <<"judge", "verdict", 1>>
            BY <1>2, <2>4, <3>1
        <3> QED BY <3>2 DEF Comes, Late
    <2>5. CASE i - (c + 3) \in 1 .. K - 1 /\ i = c + 3 + (i - (c + 3))
        <3> DEFINE b == i - (c + 3)
        <3>1. b \in 1 .. K /\ b + 1 \in 1 .. K /\ j = c + 3 + (b + 1) /\ b + 1 # 1 /\ (b + 1) - 1 = b
            BY <1>1, <1>5, <2>5
        <3>2. s[i] = <<"judge", "verdict", b>> /\ s[j] = <<"judge", "verdict", b + 1>>
            BY <1>2, <2>5, <3>1
        <3> HIDE DEF b
        <3> QED BY <3>1, <3>2 DEF Comes, Late
    <2>6. CASE i = c + 3 + K /\ K # 0
        <3>1. K \in 1 .. K /\ j = c + K + 4
            BY <1>1, <1>5, <2>6
        <3>2. s[i] = <<"judge", "verdict", K>> /\ s[j] = <<"summary", "freeze">>
            BY <1>2, <2>6, <3>1
        <3> QED BY <3>2 DEF Comes, Late
    <2>7. CASE i = c + K + 4
        <3>1. s[i] = <<"summary", "freeze">> /\ s[j] = <<"summary", "summarize">>
            BY <1>1, <1>2, <1>5, <2>7
        <3> QED BY <3>1 DEF Comes, Late
    <2>8. \/ i = c + 1 \/ i = c + 2 \/ i = c + 3
          \/ i - (c + 3) \in 1 .. K - 1 /\ i = c + 3 + (i - (c + 3))
          \/ (i = c + 3 + K /\ K # 0) \/ i = c + K + 4
        BY <1>1, <1>5
    <2> QED BY <2>1, <2>2, <2>3, <2>4, <2>5, <2>6, <2>7, <2>8
<1> QED BY <1>4, <1>5

LEMMA JoinedPath ==
  ASSUME NEW p, NEW A \in Seq(ScriptSteps), NEW E \in Seq(ScriptSteps), NEW a \in Nat \ {0}, NEW e \in Nat,
         Len(A) = a, Len(E) = e, A[1][1] = "setup", A[a][1] = "audits",
         \A i \in 1 .. a : A[i] \in Early(p) \union LateSteps(p),
         \A i, j \in 1 .. a : j = i + 1 => Comes(p, A[i], A[j]),
         \A i \in 1 .. e : E[i] \in LateSteps(p),
         \A i, j \in 1 .. e : j = i + 1 => Comes(p, E[i], E[j]),
         e = 0 => K = 0,
         e # 0 => Comes(p, A[a], E[1]) /\ E[e] = <<"audits", "admit", K>>
  PROVE  Path(p, A \o E \o Judging)
<1> DEFINE s == A \o E \o Judging
<1>1. s \in Seq(ScriptSteps) /\ EndsIn(s, a + e)
    BY Joined
<1>2. \A i \in 1 .. a : s[i] = A[i]
    BY Joined
<1>3. ASSUME NEW i \in 1 .. e, NEW j \in Nat, j = a + i PROVE s[j] = E[i]
    BY <1>3, JoinedSecond
<1> HIDE DEF s
<1>4. K \in Nat /\ a + e \in Nat /\ Len(s) = a + e + K + 5 /\ Len(s) \in Nat \ {0}
    BY <1>1, Count_K DEF EndsIn
<1>5. /\ \A j \in (a + e) + 1 .. Len(s) : s[j] \in LateSteps(p)
      /\ \A i, j \in (a + e) + 1 .. Len(s) : j = i + 1 => Comes(p, s[i], s[j])
    BY <1>1, <1>4, TailPath
<1>6. s[1][1] = "setup" /\ s[Len(s)] = <<"summary", "summarize">>
    <2>1. s[1] = A[1]
        BY <1>2
    <2>2. s[a + e + K + 5] = <<"summary", "summarize">>
        BY <1>1 DEF EndsIn
    <2> QED BY <1>4, <2>1, <2>2
<1>7. ASSUME NEW i \in 1 .. Len(s) PROVE s[i] \in Early(p) \union LateSteps(p)
    <2>1. CASE i <= a
        BY <1>2, <2>1
    <2>2. CASE i > a /\ i <= a + e
        <3>1. i - a \in 1 .. e /\ i = a + (i - a)
            BY <1>4, <2>2
        <3>2. s[i] = E[i - a]
            BY <1>3, <3>1
        <3> QED BY <3>1, <3>2
    <2>3. CASE i > a + e
        <3>1. i \in (a + e) + 1 .. Len(s)
            BY <1>4, <2>3
        <3> QED BY <1>5, <3>1
    <2> QED BY <1>4, <2>1, <2>2, <2>3
<1>8. ASSUME NEW i \in 1 .. Len(s), NEW j \in 1 .. Len(s), j = i + 1 PROVE Comes(p, s[i], s[j])
    <2>1. CASE j <= a
        <3>1. i \in 1 .. a /\ j \in 1 .. a
            BY <1>8, <2>1
        <3> QED BY <1>2, <1>8, <3>1
    <2>2. CASE i = a /\ e # 0
        <3>1. 1 \in 1 .. e /\ j = a + 1 /\ a \in 1 .. a
            BY <1>8, <2>2
        <3>2. s[i] = A[a] /\ s[j] = E[1]
            BY <1>2, <1>3, <2>2, <3>1
        <3> QED BY <2>2, <3>2
    <2>3. CASE i > a /\ j <= a + e
        <3>1. /\ i - a \in 1 .. e /\ i = a + (i - a) /\ j - a \in 1 .. e /\ j = a + (j - a)
              /\ j - a = (i - a) + 1
            BY <1>4, <1>8, <2>3
        <3>2. s[i] = E[i - a] /\ s[j] = E[j - a]
            BY <1>3, <3>1
        <3> QED BY <3>1, <3>2
    <2>4. CASE i = a + e
        <3>1. s[j] = <<"judge", "freeze">>
            BY <1>1, <1>4, <1>8, <2>4 DEF EndsIn
        <3>2. s[i][1] = "audits" /\ (K # 0 => s[i] = <<"audits", "admit", K>>)
            <4>1. CASE e = 0
                <5>1. i = a /\ a \in 1 .. a
                    BY <2>4, <4>1
                <5> QED BY <1>2, <4>1, <5>1
            <4>2. CASE e # 0
                <5>1. e \in 1 .. e /\ i = a + e
                    BY <2>4, <4>2
                <5>2. s[i] = E[e]
                    BY <1>3, <5>1
                <5> QED BY <4>2, <5>2
            <4> QED BY <4>1, <4>2
        <3> QED BY <3>1, <3>2 DEF Comes, Late
    <2>5. CASE i > a + e
        <3>1. i \in (a + e) + 1 .. Len(s) /\ j \in (a + e) + 1 .. Len(s)
            BY <1>4, <1>8, <2>5
        <3> QED BY <1>5, <1>8, <3>1
    <2> QED BY <1>4, <1>8, <2>1, <2>2, <2>3, <2>4, <2>5
<1> QED BY <1>1, <1>4, <1>6, <1>7, <1>8 DEF Path, s

LEMMA StepsOfBlock ==
  ASSUME NEW p, NEW b \in Blocks
  PROVE  /\ <<"audits", "admit", b>> \in LateSteps(p)
         /\ p \in Strict => <<"audits", "mend", b>> \in LateSteps(p)
<1>1. <<"audits", "admit", b>> \in {"audits"} \X {"admit"} \X Blocks
    OBVIOUS
<1>2. <<"audits", "mend", b>> \in {"audits"} \X {"mend"} \X Blocks
    OBVIOUS
<1> QED BY <1>1, <1>2 DEF LateSteps

LEMMA MendedPath ==
  ASSUME NEW p \in Strict
  PROVE  LET E == Each("audits", <<"mend", "admit">>)
         IN  /\ \A i \in 1 .. 2 * K : E[i] \in LateSteps(p)
             /\ \A i, j \in 1 .. 2 * K : j = i + 1 => Comes(p, E[i], E[j])
             /\ 2 * K = 0 => K = 0
             /\ 2 * K # 0 => E[1] = <<"audits", "mend", 1>> /\ E[2 * K] = <<"audits", "admit", K>>
<1> DEFINE E == Each("audits", <<"mend", "admit">>)
<1>1. /\ \A b \in 1 .. K : E[2 * b - 1] = <<"audits", "mend", b>> /\ E[2 * b] = <<"audits", "admit", b>>
      /\ \A i \in 1 .. 2 * K : \E b \in 1 .. K : i \in {2 * b - 1, 2 * b}
    BY EachTwo
<1>2. K \in Nat /\ Blocks = 1 .. K
    BY BlocksAre
<1> HIDE DEF E
<1>3. ASSUME NEW i \in 1 .. 2 * K PROVE E[i] \in LateSteps(p)
    <2>1. PICK b \in 1 .. K : i \in {2 * b - 1, 2 * b}
        BY <1>1
    <2>2. E[i] = <<"audits", "mend", b>> \/ E[i] = <<"audits", "admit", b>>
        BY <1>1, <2>1
    <2>3. b \in Blocks
        BY <1>2
    <2> QED BY <2>2, <2>3, StepsOfBlock
<1>4. ASSUME NEW i \in 1 .. 2 * K, NEW j \in 1 .. 2 * K, j = i + 1 PROVE Comes(p, E[i], E[j])
    <2>1. PICK b \in 1 .. K : i \in {2 * b - 1, 2 * b}
        BY <1>1
    <2>2. CASE i = 2 * b - 1
        <3>1. j = 2 * b
            BY <1>2, <1>4, <2>2
        <3>2. E[i] = <<"audits", "mend", b>> /\ E[j] = <<"audits", "admit", b>>
            BY <1>1, <2>2, <3>1
        <3> QED BY <3>2 DEF Comes, Late
    <2>3. CASE i = 2 * b
        <3>1. b + 1 \in 1 .. K /\ j = 2 * (b + 1) - 1 /\ b + 1 # 1 /\ (b + 1) - 1 = b
            BY <1>2, <1>4, <2>3
        <3>2. E[i] = <<"audits", "admit", b>> /\ E[j] = <<"audits", "mend", b + 1>>
            BY <1>1, <2>3, <3>1
        <3> QED BY <3>1, <3>2 DEF Comes, Late
    <2> QED BY <2>1, <2>2, <2>3
<1>5. ASSUME 2 * K # 0 PROVE E[1] = <<"audits", "mend", 1>> /\ E[2 * K] = <<"audits", "admit", K>>
    <2>1. 1 \in 1 .. K /\ K \in 1 .. K /\ 2 * 1 - 1 = 1
        BY <1>2, <1>5
    <2> QED BY <1>1, <2>1
<1>6. 2 * K = 0 => K = 0
    BY <1>2
<1> QED BY <1>3, <1>4, <1>5, <1>6 DEF E

LEMMA AdmitPath ==
  ASSUME NEW p, p \notin Strict
  PROVE  LET E == Each("audits", <<"admit">>)
         IN  /\ E \in Seq(ScriptSteps) /\ Len(E) = K
             /\ \A i \in 1 .. K : E[i] \in LateSteps(p)
             /\ \A i, j \in 1 .. K : j = i + 1 => Comes(p, E[i], E[j])
             /\ K # 0 => E[1] = <<"audits", "admit", 1>> /\ E[K] = <<"audits", "admit", K>>
<1> DEFINE E == Each("audits", <<"admit">>)
<1>1. E \in Seq(ScriptSteps) /\ Len(E) = K /\ \A i \in 1 .. K : E[i] = <<"audits", "admit", i>>
    BY EachOne DEF Phases
<1>2. K \in Nat /\ Blocks = 1 .. K
    BY BlocksAre
<1> HIDE DEF E
<1>3. \A i \in 1 .. K : E[i] \in LateSteps(p)
    BY <1>1, <1>2, StepsOfBlock
<1>4. ASSUME NEW i \in 1 .. K, NEW j \in 1 .. K, j = i + 1 PROVE Comes(p, E[i], E[j])
    <2>1. j # 1 /\ j - 1 = i /\ E[i] = <<"audits", "admit", i>> /\ E[j] = <<"audits", "admit", j>>
        BY <1>1, <1>4
    <2> QED BY <2>1 DEF Comes, Late
<1>5. K # 0 => 1 \in 1 .. K /\ K \in 1 .. K
    BY <1>2
<1> QED BY <1>1, <1>3, <1>4, <1>5 DEF E

LEMMA MatrixPath == Path("matrix", Scripts["matrix"])
<1> DEFINE A == << <<"setup", "freeze">>, <<"setup", "copy">>, <<"controls", "freeze">>,
                    <<"controls", "pool", "control">>, <<"controls", "mend", 0>>,
                    <<"controls", "score">>, <<"reviews", "freeze">>, <<"reviews", "pool", "review">>,
                    <<"reviews", "keep">>, <<"audits", "freeze">>, <<"audits", "pool", "audit">> >>
           E == Each("audits", <<"mend", "admit">>)
<1>1. Scripts["matrix"] = A \o E \o Judging
    BY DEF Scripts, matrix_main
<1>2. Len(A) = 11 /\ A[1] = <<"setup", "freeze">> /\ A[2] = <<"setup", "copy">> /\ A[3] = <<"controls", "freeze">> /\
      A[4] = <<"controls", "pool", "control">> /\ A[5] = <<"controls", "mend", 0>> /\
      A[6] = <<"controls", "score">> /\ A[7] = <<"reviews", "freeze">> /\
      A[8] = <<"reviews", "pool", "review">> /\ A[9] = <<"reviews", "keep">> /\
      A[10] = <<"audits", "freeze">> /\ A[11] = <<"audits", "pool", "audit">>
    OBVIOUS
<1>3. A \in Seq(ScriptSteps)
    <2>1. \A i \in 1 .. 11 : A[i] \in ScriptSteps
        BY DEF ScriptSteps, Phases, Operations, Arguments
    <2> HIDE DEF ScriptSteps
    <2> QED BY <2>1
<1>4. /\ E \in Seq(ScriptSteps) /\ Len(E) = 2 * K /\ 2 * K \in Nat /\ "matrix" \in Strict
    BY Mended DEF Strict
<1>5. /\ \A i \in 1 .. 2 * K : E[i] \in LateSteps("matrix")
      /\ \A i, j \in 1 .. 2 * K : j = i + 1 => Comes("matrix", E[i], E[j])
      /\ 2 * K = 0 => K = 0
      /\ 2 * K # 0 => E[1] = <<"audits", "mend", 1>> /\ E[2 * K] = <<"audits", "admit", K>>
    BY <1>4, MendedPath
<1> HIDE DEF A, E
<1>6. ASSUME NEW i \in 1 .. 11 PROVE A[i] \in Early("matrix") \union LateSteps("matrix")
    <2>1. i = 1 \/ i = 2 \/ i = 3 \/ i = 4 \/ i = 5 \/ i = 6 \/ i = 7 \/ i = 8 \/ i = 9 \/ i = 10 \/ i = 11
        OBVIOUS
    <2>2. A[i] \in {"setup", "controls", "reviews"} \X {"freeze", "copy", "evidence", "score", "keep"} => A[i] \in Early("matrix")
        BY DEF Early
    <2>3. A[i] \notin {"setup", "controls", "reviews"} \X {"freeze", "copy", "evidence", "score", "keep"} =>
             A[i] \in Early("matrix") \union LateSteps("matrix")
        BY <1>2, <2>1 DEF Early, LateSteps, Auditors, Strict
    <2> QED BY <2>2, <2>3
<1>7. ASSUME NEW i \in 1 .. 11, NEW j \in 1 .. 11, j = i + 1 PROVE Comes("matrix", A[i], A[j])
    <2>1. (i = 1 /\ j = 2) \/ (i = 2 /\ j = 3) \/ (i = 3 /\ j = 4) \/ (i = 4 /\ j = 5) \/
         (i = 5 /\ j = 6) \/ (i = 6 /\ j = 7) \/ (i = 7 /\ j = 8) \/ (i = 8 /\ j = 9) \/
         (i = 9 /\ j = 10) \/ (i = 10 /\ j = 11)
        BY <1>7, NextOf
    <2> QED BY <1>2, <2>1 DEF Comes, Late
<1>8. 2 * K # 0 => Comes("matrix", A[11], E[1])
    BY <1>2, <1>4, <1>5 DEF Comes, Late
<1>9. 11 \in Nat \ {0} /\ A[1][1] = "setup" /\ A[11][1] = "audits"
    BY <1>2
<1>10. Path("matrix", A \o E \o Judging)
    BY <1>2, <1>3, <1>4, <1>5, <1>6, <1>7, <1>8, <1>9, JoinedPath
<1> QED BY <1>1, <1>10

LEMMA TournamentPath == Path("tournament", Scripts["tournament"])
<1> DEFINE A == << <<"setup", "freeze">>, <<"setup", "copy">>, <<"setup", "evidence">>,
                    <<"audits", "freeze">>, <<"audits", "pool", "audit">> >>
           E == Each("audits", <<"mend", "admit">>)
<1>1. Scripts["tournament"] = A \o E \o Judging
    BY DEF Scripts, tournament_main
<1>2. Len(A) = 5 /\ A[1] = <<"setup", "freeze">> /\ A[2] = <<"setup", "copy">> /\ A[3] = <<"setup", "evidence">> /\
      A[4] = <<"audits", "freeze">> /\ A[5] = <<"audits", "pool", "audit">>
    OBVIOUS
<1>3. A \in Seq(ScriptSteps)
    <2>1. \A i \in 1 .. 5 : A[i] \in ScriptSteps
        BY DEF ScriptSteps, Phases, Operations, Arguments
    <2> HIDE DEF ScriptSteps
    <2> QED BY <2>1
<1>4. /\ E \in Seq(ScriptSteps) /\ Len(E) = 2 * K /\ 2 * K \in Nat /\ "tournament" \in Strict
    BY Mended DEF Strict
<1>5. /\ \A i \in 1 .. 2 * K : E[i] \in LateSteps("tournament")
      /\ \A i, j \in 1 .. 2 * K : j = i + 1 => Comes("tournament", E[i], E[j])
      /\ 2 * K = 0 => K = 0
      /\ 2 * K # 0 => E[1] = <<"audits", "mend", 1>> /\ E[2 * K] = <<"audits", "admit", K>>
    BY <1>4, MendedPath
<1> HIDE DEF A, E
<1>6. ASSUME NEW i \in 1 .. 5 PROVE A[i] \in Early("tournament") \union LateSteps("tournament")
    <2>1. i = 1 \/ i = 2 \/ i = 3 \/ i = 4 \/ i = 5
        OBVIOUS
    <2>2. A[i] \in {"setup", "controls", "reviews"} \X {"freeze", "copy", "evidence", "score", "keep"} => A[i] \in Early("tournament")
        BY DEF Early
    <2>3. A[i] \notin {"setup", "controls", "reviews"} \X {"freeze", "copy", "evidence", "score", "keep"} =>
             A[i] \in Early("tournament") \union LateSteps("tournament")
        BY <1>2, <2>1 DEF Early, LateSteps, Auditors, Strict
    <2> QED BY <2>2, <2>3
<1>7. ASSUME NEW i \in 1 .. 5, NEW j \in 1 .. 5, j = i + 1 PROVE Comes("tournament", A[i], A[j])
    <2>1. (i = 1 /\ j = 2) \/ (i = 2 /\ j = 3) \/ (i = 3 /\ j = 4) \/ (i = 4 /\ j = 5)
        BY <1>7
    <2> QED BY <1>2, <2>1 DEF Comes, Late
<1>8. 2 * K # 0 => Comes("tournament", A[5], E[1])
    BY <1>2, <1>4, <1>5 DEF Comes, Late
<1>9. 5 \in Nat \ {0} /\ A[1][1] = "setup" /\ A[5][1] = "audits"
    BY <1>2
<1>10. Path("tournament", A \o E \o Judging)
    BY <1>2, <1>3, <1>4, <1>5, <1>6, <1>7, <1>8, <1>9, JoinedPath
<1> QED BY <1>1, <1>10

LEMMA MechanicsPath == Path("mechanics", Scripts["mechanics"])
<1> DEFINE A == << <<"setup", "copy">>, <<"setup", "evidence">>, <<"audits", "freeze">>,
                    <<"audits", "pool", "discovery">>, <<"audits", "pool", "coverage">> >>
           E == Each("audits", <<"admit">>)
<1>1. Scripts["mechanics"] = A \o E \o Judging
    BY DEF Scripts, mechanics_main
<1>2. Len(A) = 5 /\ A[1] = <<"setup", "copy">> /\ A[2] = <<"setup", "evidence">> /\ A[3] = <<"audits", "freeze">> /\
      A[4] = <<"audits", "pool", "discovery">> /\ A[5] = <<"audits", "pool", "coverage">>
    OBVIOUS
<1>3. A \in Seq(ScriptSteps)
    <2>1. \A i \in 1 .. 5 : A[i] \in ScriptSteps
        BY DEF ScriptSteps, Phases, Operations, Arguments
    <2> HIDE DEF ScriptSteps
    <2> QED BY <2>1
<1>4. K \in Nat /\ "mechanics" \notin Strict
    BY Count_K DEF Strict
<1>5. /\ E \in Seq(ScriptSteps) /\ Len(E) = K
      /\ \A i \in 1 .. K : E[i] \in LateSteps("mechanics")
      /\ \A i, j \in 1 .. K : j = i + 1 => Comes("mechanics", E[i], E[j])
      /\ K # 0 => E[1] = <<"audits", "admit", 1>> /\ E[K] = <<"audits", "admit", K>>
    BY <1>4, AdmitPath
<1> HIDE DEF A, E
<1>6. ASSUME NEW i \in 1 .. 5 PROVE A[i] \in Early("mechanics") \union LateSteps("mechanics")
    <2>1. i = 1 \/ i = 2 \/ i = 3 \/ i = 4 \/ i = 5
        OBVIOUS
    <2>2. A[i] \in {"setup", "controls", "reviews"} \X {"freeze", "copy", "evidence", "score", "keep"} => A[i] \in Early("mechanics")
        BY DEF Early
    <2>3. A[i] \notin {"setup", "controls", "reviews"} \X {"freeze", "copy", "evidence", "score", "keep"} =>
             A[i] \in Early("mechanics") \union LateSteps("mechanics")
        BY <1>2, <2>1 DEF Early, LateSteps, Auditors, Strict
    <2> QED BY <2>2, <2>3
<1>7. ASSUME NEW i \in 1 .. 5, NEW j \in 1 .. 5, j = i + 1 PROVE Comes("mechanics", A[i], A[j])
    <2>1. (i = 1 /\ j = 2) \/ (i = 2 /\ j = 3) \/ (i = 3 /\ j = 4) \/ (i = 4 /\ j = 5)
        BY <1>7
    <2> QED BY <1>2, <2>1 DEF Comes, Late
<1>8. K # 0 => Comes("mechanics", A[5], E[1])
    BY <1>2, <1>4, <1>5 DEF Comes, Late
<1>9. 5 \in Nat \ {0} /\ A[1][1] = "setup" /\ A[5][1] = "audits"
    BY <1>2
<1>10. Path("mechanics", A \o E \o Judging)
    BY <1>2, <1>3, <1>4, <1>5, <1>6, <1>7, <1>8, <1>9, JoinedPath
<1> QED BY <1>1, <1>10

LEMMA ReplicationPath == Path("replication", Scripts["replication"])
<1> DEFINE A == << <<"setup", "freeze">>, <<"setup", "copy">>, <<"setup", "evidence">>,
                    <<"audits", "freeze">>, <<"audits", "pool", "audit">>,
                    <<"audits", "pool", "repair">> >>
           E == Each("audits", <<"admit">>)
<1>1. Scripts["replication"] = A \o E \o Judging
    BY DEF Scripts, replication_main
<1>2. Len(A) = 6 /\ A[1] = <<"setup", "freeze">> /\ A[2] = <<"setup", "copy">> /\ A[3] = <<"setup", "evidence">> /\
      A[4] = <<"audits", "freeze">> /\ A[5] = <<"audits", "pool", "audit">> /\
      A[6] = <<"audits", "pool", "repair">>
    OBVIOUS
<1>3. A \in Seq(ScriptSteps)
    <2>1. \A i \in 1 .. 6 : A[i] \in ScriptSteps
        BY DEF ScriptSteps, Phases, Operations, Arguments
    <2> HIDE DEF ScriptSteps
    <2> QED BY <2>1
<1>4. K \in Nat /\ "replication" \notin Strict
    BY Count_K DEF Strict
<1>5. /\ E \in Seq(ScriptSteps) /\ Len(E) = K
      /\ \A i \in 1 .. K : E[i] \in LateSteps("replication")
      /\ \A i, j \in 1 .. K : j = i + 1 => Comes("replication", E[i], E[j])
      /\ K # 0 => E[1] = <<"audits", "admit", 1>> /\ E[K] = <<"audits", "admit", K>>
    BY <1>4, AdmitPath
<1> HIDE DEF A, E
<1>6. ASSUME NEW i \in 1 .. 6 PROVE A[i] \in Early("replication") \union LateSteps("replication")
    <2>1. i = 1 \/ i = 2 \/ i = 3 \/ i = 4 \/ i = 5 \/ i = 6
        OBVIOUS
    <2>2. A[i] \in {"setup", "controls", "reviews"} \X {"freeze", "copy", "evidence", "score", "keep"} => A[i] \in Early("replication")
        BY DEF Early
    <2>3. A[i] \notin {"setup", "controls", "reviews"} \X {"freeze", "copy", "evidence", "score", "keep"} =>
             A[i] \in Early("replication") \union LateSteps("replication")
        BY <1>2, <2>1 DEF Early, LateSteps, Auditors, Strict
    <2> QED BY <2>2, <2>3
<1>7. ASSUME NEW i \in 1 .. 6, NEW j \in 1 .. 6, j = i + 1 PROVE Comes("replication", A[i], A[j])
    <2>1. (i = 1 /\ j = 2) \/ (i = 2 /\ j = 3) \/ (i = 3 /\ j = 4) \/ (i = 4 /\ j = 5) \/
         (i = 5 /\ j = 6)
        BY <1>7
    <2> QED BY <1>2, <2>1 DEF Comes, Late
<1>8. K # 0 => Comes("replication", A[6], E[1])
    BY <1>2, <1>4, <1>5 DEF Comes, Late
<1>9. 6 \in Nat \ {0} /\ A[1][1] = "setup" /\ A[6][1] = "audits"
    BY <1>2
<1>10. Path("replication", A \o E \o Judging)
    BY <1>2, <1>3, <1>4, <1>5, <1>6, <1>7, <1>8, <1>9, JoinedPath
<1> QED BY <1>1, <1>10

LEMMA InPath == \A p \in DOMAIN Scripts : Path(p, Scripts[p])
<1>1. DOMAIN Scripts = {"matrix", "tournament", "mechanics", "replication"}
    BY DEF Scripts
<1> QED BY <1>1, MatrixPath, TournamentPath, MechanicsPath, ReplicationPath

-----------------------------------------------------------------------------
(* The harnesses: what a review was added, and what was judged *)

Audit(b) == <<"audit", b>>
Repair(b) == <<"repair", b>>
Coverage(b) == <<"coverage", b>>
Judge(b) == <<"judge", b>>
Discovery == <<"discovery", 0>>

AddedTo(b) == augmented[b] \notin {<<>>, Base}

\* The sessions of the run that the prompt of another quoted
Cited(n) == Quoted(n) \intersect DOMAIN sess

InPool == queue \union running \union failed

\* A session is given to a pool only when what it will read is there for good
Ready(n) ==
  /\ \A m \in Cited(n) : Accepted(m)
  /\ n[1] = "judge" => AddedTo(n[2])

\* And what its answer is about is that, still
Told(n) ==
  sess[n].by # 0 =>
    /\ \A m \in Cited(n) : Accepted(m) /\ sess[n].about[2] = sess[m].by
    /\ n[1] = "judge" => AddedTo(n[2]) /\ sess[n].about[2] = augmented[n[2]]

AnswersTold ==
  /\ \A n \in DOMAIN sess : Told(n) /\ (Accepted(n) => sess[n].accepted = sess[n].by)
  /\ InPool \subseteq DOMAIN sess /\ \A n \in InPool : Ready(n)

\* A verdict is on the review that is there, and a judge's is that of an accepted session
JudgmentsStand ==
  \A b \in DOMAIN augmented :
    /\ judgment[b].verdict \in {"wins", "loses"} =>
         AddedTo(b) /\ judgment[b].of = augmented[b] /\ Accepted(Judge(b))
    /\ program \in Strict /\ judgment[b] # NoJudgment =>
         /\ augmented[b] # <<>> /\ judgment[b].of = augmented[b]
         /\ augmented[b] = Base => judgment[b].verdict = "tie"

Found(n) == Added({<<n, sess[n].by, 0>>})

\* What the admission of a block rests on when it cannot come out otherwise any more
Grounded(b) ==
  IF program = "mechanics"
  THEN /\ Accepted(Discovery) /\ Result(Discovery) = "claims"
       /\ Accepted(Coverage(b)) /\ Result(Coverage(b)) = "uncovered"
       /\ augmented[b] = Found(Coverage(b))
  ELSE LET n == Payload("audit", b)
       IN  /\ surface => Accepted(Audit(b)) /\ Accepted(n)
           /\ augmented[b] = IF surface /\ Result(n) = "finding" THEN Found(n) ELSE Base

Decided(n) == Accepted(n) \/ n \in lost

\* The sessions a step of the audits or the judges gives to its pool
Asked(step) ==
  IF step[2] = "mend"
  THEN IF surface /\ Result(Audit(step[3])) = "invalid" THEN {Repair(step[3])} ELSE {}
  ELSE CASE step[3] = "audit" -> IF surface THEN {"audit"} \X Blocks ELSE {}
         [] step[3] = "discovery" -> {Discovery}
         [] step[3] = "coverage" -> IF Claims THEN {"coverage"} \X Blocks ELSE {}
         [] step[3] = "repair" -> {n \in {"repair"} \X Blocks :
                                     Audit(n[2]) \notin lost /\ Result(Audit(n[2])) = "invalid"}
         [] step[3] = "judge" -> {n \in {"judge"} \X Blocks : augmented[n[2]] # Base}

\* The sessions that a step may take for done: accepted or given up on
Awaited(step) ==
  CASE step[1] = "audits" /\ step[2] = "pool" ->
         IF step[3] = "coverage" THEN {Discovery}
         ELSE IF step[3] = "repair" /\ surface THEN {"audit"} \X Blocks ELSE {}
    [] step[1] = "audits" /\ step[2] \in {"mend", "admit"} ->
         IF program = "mechanics"
         THEN {Discovery} \union (IF Claims THEN {"coverage"} \X Blocks ELSE {})
         ELSE IF ~surface THEN {}
         ELSE ({"audit"} \X Blocks)
                \union IF /\ step[2] = "admit" /\ program \in Strict
                          /\ Result(Audit(step[3])) = "invalid"
                       THEN {Repair(step[3])} ELSE {}
    [] step[1] = "judge" /\ step[2] = "verdict" -> {n \in {"judge"} \X Blocks : augmented[n[2]] # Base}
    [] OTHER -> {}

\* The blocks that were admitted before a step
Behind(step) ==
  CASE step[1] \in {"judge", "summary"} -> Blocks
    [] step[1] = "audits" /\ step[2] \in {"mend", "admit"} -> {b \in Blocks : b < step[3]}
    [] OTHER -> {}

\* What the pools of a phase have given up on when the next one starts
Spent(step) ==
  IF step[2] # "pool" THEN {} ELSE
  CASE step[3] = "repair" -> {"audit"} [] step[3] = "coverage" -> {"discovery"} [] OTHER -> {}

Tied == \A b \in Blocks : augmented[b] = Base => judgment[b] # NoJudgment

Past(step) ==
  /\ \A b \in Behind(step) : augmented[b] # <<>>
  /\ \A n \in Awaited(step) : Decided(n)
  /\ step[1] = "judge" /\ step[2] \in {"pool", "verdict"} => Tied

InPlace(step) ==
  /\ Past(step)
  /\ step[1] \in Late /\ step[2] \in {"pool", "tie"} => \A n \in lost : n[1] \in Spent(step)

Shape ==
  /\ program \in DOMAIN Scripts /\ script = Scripts[program] /\ DOMAIN sess = Sessions(program)
  /\ DOMAIN augmented = Blocks /\ DOMAIN judgment = Blocks
  /\ at \in 0 .. Len(script) /\ (at = 0 => round = 0) /\ (program # "matrix" => surface)

OnTheWay ==
  /\ \A step : at > 0 /\ step = Step => InPlace(step)
  /\ reached \intersect Late # {} => \A b \in Blocks : augmented[b] # <<>>

\* A pool holds what it was given
Holding ==
  /\ at > 0 /\ Step[2] = "pool" => \A n \in InPool : n[1] = Step[3]
  /\ at > 0 /\ Step[1] \in Late /\ Pooled /\ round # 0 /\ ~raising =>
       \A n \in Asked(Step) : Accepted(n) \/ n \in InPool

GivenUp ==
  /\ \A n \in lost : n \in DOMAIN sess /\ ~Accepted(n)
  /\ program \in Strict => lost = {} /\ (failed # {} => raising)

\* What was admitted for good
AdmissionsStand ==
  \A b \in Blocks : augmented[b] # <<>> /\ (program \in Strict \/ augmented[b] # Base) => Grounded(b)

AuditsInv ==
  Shape /\ OnTheWay /\ Holding /\ GivenUp /\ AnswersTold /\ JudgmentsStand /\ AdmissionsStand

\* What a step leaves done for the next
Done(step) ==
  /\ step[1] \in {"audits", "judge"} /\ step[2] \in {"pool", "mend"} => \A n \in Asked(step) : Decided(n)
  /\ step[1] = "audits" /\ step[2] = "admit" => augmented[step[3]] # <<>>
  /\ step = <<"judge", "tie">> => Tied /\ lost = {}
  /\ step[2] = "freeze" => lost = {}
  /\ step[1] \in Late /\ step[2] = "pool" => \A n \in lost : n[1] \in Spent(step) \union {step[3]}
  /\ program \in Strict => lost = {}

LEMMA NextPlace ==
  \A s, t : Past(s) /\ Done(s) /\ Comes(program, s, t) /\ t \in Early(program) \union LateSteps(program)
              /\ (program = "mechanics" => surface) => InPlace(t)
<1> SUFFICES ASSUME NEW s, NEW t, Past(s), Done(s), Comes(program, s, t),
                    t \in Early(program) \union LateSteps(program), program = "mechanics" => surface
             PROVE  InPlace(t)
    OBVIOUS
<1>0. Blocks = 1 .. K /\ K \in Nat /\ (program = "mechanics" => program \notin Strict)
    BY BlocksAre DEF Strict
<1>1. CASE t \in Early(program)
    <2>1. t[1] \in {"setup", "controls", "reviews"}
        BY <1>1 DEF Early
    <2> QED BY <2>1 DEF InPlace, Past, Behind, Awaited, Late
<1>2. CASE t = <<"audits", "freeze">>
    BY <1>2 DEF InPlace, Past, Behind, Awaited, Late
<1>3. CASE t \in {"audits"} \X {"pool"} \X Auditors(program)
    <2>1. t[1] = "audits" /\ t[2] = "pool" /\ t[3] \in Auditors(program)
        BY <1>3
    <2>2. Behind(t) = {}
        BY <2>1 DEF Behind
    <2>3. CASE t[3] = "repair"
        <3>1. s = <<"audits", "pool", "audit">>
            BY <2>1, <2>3 DEF Comes
        <3>2. Awaited(t) = IF surface THEN {"audit"} \X Blocks ELSE {}
            BY <2>1, <2>3 DEF Awaited
        <3>3. Asked(s) = IF surface THEN {"audit"} \X Blocks ELSE {}
            BY <3>1 DEF Asked
        <3>4. \A n \in Awaited(t) : Decided(n)
            BY <3>1, <3>2, <3>3 DEF Done
        <3>5. \A n \in lost : n[1] \in Spent(t)
            BY <2>1, <2>3, <3>1 DEF Done, Spent, Late
        <3> QED BY <2>1, <2>2, <3>4, <3>5 DEF InPlace, Past
    <2>4. CASE t[3] = "coverage"
        <3>1. s = <<"audits", "pool", "discovery">>
            BY <2>1, <2>4 DEF Comes
        <3>2. Awaited(t) = {Discovery} /\ Asked(s) = {Discovery}
            BY <2>1, <2>4, <3>1 DEF Awaited, Asked
        <3>3. \A n \in Awaited(t) : Decided(n)
            BY <3>1, <3>2 DEF Done
        <3>4. \A n \in lost : n[1] \in Spent(t)
            BY <2>1, <2>4, <3>1 DEF Done, Spent, Late
        <3> QED BY <2>1, <2>2, <3>3, <3>4 DEF InPlace, Past
    <2>5. CASE t[3] \in {"audit", "discovery"}
        <3>1. s = <<"audits", "freeze">>
            BY <2>1, <2>5 DEF Comes
        <3>2. Awaited(t) = {} /\ lost = {}
            BY <2>1, <2>5, <3>1 DEF Awaited, Done
        <3> QED BY <2>1, <2>2, <3>2 DEF InPlace, Past
    <2> QED BY <2>1, <2>3, <2>4, <2>5 DEF Auditors
<1>4. ASSUME NEW b \in Blocks, t = <<"audits", "mend", b>>, program \in Strict
      PROVE  InPlace(t)
    <2>1. Behind(t) = {c \in Blocks : c < b} /\ Awaited(t) = IF surface THEN {"audit"} \X Blocks ELSE {}
        BY <1>0, <1>4 DEF Behind, Awaited
    <2>2. CASE b = 1
        <3>1. s = <<"audits", "pool", "audit">>
            BY <1>4, <2>2 DEF Comes
        <3>2. Asked(s) = IF surface THEN {"audit"} \X Blocks ELSE {}
            BY <3>1 DEF Asked
        <3>3. \A n \in Awaited(t) : Decided(n)
            BY <2>1, <3>1, <3>2 DEF Done
        <3>4. Behind(t) = {}
            BY <1>0, <2>1, <2>2
        <3> QED BY <1>4, <3>3, <3>4 DEF InPlace, Past
    <2>3. CASE b # 1
        <3>1. s = <<"audits", "admit", b - 1>>
            BY <1>4, <2>3 DEF Comes
        <3>2. /\ Behind(s) = {c \in Blocks : c < b - 1}
              /\ surface => {"audit"} \X Blocks \subseteq Awaited(s)
            BY <1>0, <1>4, <3>1 DEF Behind, Awaited
        <3>3. Behind(t) = Behind(s) \union {b - 1}
            BY <1>0, <2>1, <2>3, <3>2
        <3>4. augmented[b - 1] # <<>>
            BY <3>1 DEF Done
        <3>5. \A c \in Behind(t) : augmented[c] # <<>>
            BY <3>3, <3>4 DEF InPlace, Past
        <3>6. \A n \in Awaited(t) : Decided(n)
            BY <2>1, <3>2 DEF InPlace, Past
        <3> QED BY <1>4, <3>5, <3>6 DEF InPlace, Past
    <2> QED BY <2>2, <2>3
<1>5. ASSUME NEW b \in Blocks, t = <<"audits", "admit", b>> PROVE InPlace(t)
    <2>1. Behind(t) = {c \in Blocks : c < b}
        BY <1>5 DEF Behind
    <2>2. CASE program \in Strict
        <3>1. s = <<"audits", "mend", b>>
            BY <1>5, <2>2 DEF Comes
        <3>2. /\ Behind(s) = Behind(t)
              /\ Awaited(s) = IF surface THEN {"audit"} \X Blocks ELSE {}
              /\ Asked(s) = IF surface /\ Result(Audit(b)) = "invalid" THEN {Repair(b)} ELSE {}
            BY <1>0, <2>1, <2>2, <3>1 DEF Behind, Awaited, Asked
        <3>3. \A n \in Awaited(t) : n \in Awaited(s) \/ n \in Asked(s)
            BY <1>0, <1>5, <2>2, <3>2 DEF Awaited
        <3>4. \A n \in Awaited(t) : Decided(n)
            BY <3>1, <3>3 DEF InPlace, Past, Done
        <3>5. \A c \in Behind(t) : augmented[c] # <<>>
            BY <3>2 DEF InPlace, Past
        <3> QED BY <1>5, <3>4, <3>5 DEF InPlace, Past
    <2>3. CASE program \notin Strict /\ b # 1
        <3>1. s = <<"audits", "admit", b - 1>>
            BY <1>5, <2>3 DEF Comes
        <3>2. Behind(s) = {c \in Blocks : c < b - 1} /\ Awaited(t) = Awaited(s)
            BY <1>0, <1>5, <2>3, <3>1 DEF Behind, Awaited
        <3>3. Behind(t) = Behind(s) \union {b - 1}
            BY <1>0, <2>1, <2>3, <3>2
        <3>4. augmented[b - 1] # <<>>
            BY <3>1 DEF Done
        <3>5. \A c \in Behind(t) : augmented[c] # <<>>
            BY <3>3, <3>4 DEF InPlace, Past
        <3> QED BY <1>5, <3>2, <3>5 DEF InPlace, Past
    <2>4. CASE program \notin Strict /\ b = 1
        <3>1. s = <<"audits", "pool", IF program = "mechanics" THEN "coverage" ELSE "repair">>
            BY <1>5, <2>4 DEF Comes
        <3>2. Behind(t) = {}
            BY <1>0, <2>1, <2>4
        <3>3. \A n \in Awaited(t) : n \in Awaited(s) \/ n \in Asked(s)
            <4>1. CASE program = "mechanics"
                <5>1. Awaited(t) = {Discovery} \union (IF Claims THEN {"coverage"} \X Blocks ELSE {})
                    BY <1>5, <4>1 DEF Awaited
                <5>2. Awaited(s) = {Discovery} /\ Asked(s) = IF Claims THEN {"coverage"} \X Blocks ELSE {}
                    BY <3>1, <4>1 DEF Awaited, Asked
                <5> QED BY <5>1, <5>2
            <4>2. CASE program # "mechanics"
                <5>1. Awaited(t) = IF surface THEN {"audit"} \X Blocks ELSE {}
                    BY <1>5, <2>4, <4>2 DEF Awaited
                <5>2. Awaited(s) = IF surface THEN {"audit"} \X Blocks ELSE {}
                    BY <3>1, <4>2 DEF Awaited
                <5> QED BY <5>1, <5>2
            <4> QED BY <4>1, <4>2
        <3>4. \A n \in Awaited(t) : Decided(n)
            BY <3>1, <3>3 DEF InPlace, Past, Done
        <3> QED BY <1>5, <3>2, <3>4 DEF InPlace, Past
    <2> QED BY <2>2, <2>3, <2>4
<1>6. CASE t = <<"judge", "freeze">>
    <2>1. s[1] = "audits" /\ (K # 0 => s = <<"audits", "admit", K>>)
        BY <1>6 DEF Comes
    <2>2. ASSUME NEW b \in Blocks PROVE augmented[b] # <<>>
        <3>1. K # 0 /\ K \in Blocks
            BY <1>0
        <3>2. Behind(s) = {c \in Blocks : c < K} /\ augmented[K] # <<>>
            BY <2>1, <3>1 DEF Behind, Done
        <3>3. b = K \/ b \in Behind(s)
            BY <1>0, <3>2
        <3> QED BY <3>2, <3>3 DEF InPlace, Past
    <2>3. Behind(t) = Blocks /\ Awaited(t) = {}
        BY <1>6 DEF Behind, Awaited
    <2> QED BY <1>6, <2>2, <2>3 DEF InPlace, Past
<1>7. CASE t = <<"judge", "tie">>
    <2>1. s = <<"judge", "freeze">>
        BY <1>7 DEF Comes
    <2>2. Behind(t) = Behind(s) /\ Awaited(t) = {} /\ lost = {}
        BY <1>7, <2>1 DEF Behind, Awaited, Done
    <2> QED BY <1>7, <2>2 DEF InPlace, Past
<1>8. CASE t = <<"judge", "pool", "judge">>
    <2>1. s = <<"judge", "tie">>
        BY <1>8 DEF Comes
    <2>2. Behind(t) = Behind(s) /\ Awaited(t) = {} /\ Tied /\ Spent(s) = {} /\ Spent(t) = {} /\ lost = {}
        BY <1>8, <2>1 DEF Behind, Awaited, Done, Spent
    <2> QED BY <1>8, <2>1, <2>2 DEF InPlace, Past
<1>9. ASSUME NEW b \in Blocks, t = <<"judge", "verdict", b>> PROVE InPlace(t)
    <2>1. Awaited(t) = {n \in {"judge"} \X Blocks : augmented[n[2]] # Base} /\ Behind(t) = Blocks
        BY <1>9 DEF Awaited, Behind
    <2>2. CASE b = 1
        <3>1. s = <<"judge", "pool", "judge">>
            BY <1>9, <2>2 DEF Comes
        <3>2. Asked(s) = Awaited(t) /\ Behind(s) = Blocks
            BY <2>1, <3>1 DEF Asked, Behind
        <3>3. Tied /\ \A n \in Awaited(t) : Decided(n)
            BY <3>1, <3>2 DEF InPlace, Past, Done
        <3> QED BY <1>9, <2>1, <3>2, <3>3 DEF InPlace, Past
    <2>3. CASE b # 1
        <3>1. s = <<"judge", "verdict", b - 1>>
            BY <1>9, <2>3 DEF Comes
        <3>2. Awaited(s) = Awaited(t) /\ Behind(s) = Blocks
            BY <2>1, <3>1 DEF Awaited, Behind
        <3>3. Tied
            BY <3>1 DEF InPlace, Past
        <3> QED BY <1>9, <2>1, <3>2, <3>3 DEF InPlace, Past
    <2> QED BY <2>2, <2>3
<1>10. CASE t \in {<<"summary", "freeze">>, <<"summary", "summarize">>}
    <2>1. Behind(s) = Blocks
        BY <1>10 DEF Comes, Behind
    <2>2. Behind(t) = Blocks /\ Awaited(t) = {} /\ t[1] = "summary" /\ t[2] \notin {"pool", "tie"}
        BY <1>10 DEF Behind, Awaited
    <2> QED BY <2>1, <2>2 DEF InPlace, Past
<1> QED BY <1>1, <1>2, <1>3, <1>4, <1>5, <1>6, <1>7, <1>8, <1>9, <1>10 DEF LateSteps

LEMMA NextPlaceLater ==
  (\A s, t : Past(s) /\ Done(s) /\ Comes(program, s, t) /\ t \in Early(program) \union LateSteps(program)
               /\ (program = "mechanics" => surface) => InPlace(t))'
BY NextPlace, PTL

LEMMA StepShape ==
  ASSUME Shape, at > 0
  PROVE  /\ Path(program, script) /\ at \in 1 .. Len(script)
         /\ Step \in Early(program) \union LateSteps(program)
<1>1. Path(program, script) /\ Len(script) \in Nat
    BY InPath DEF Shape, Path
<1>2. at \in 1 .. Len(script)
    BY <1>1 DEF Shape
<1> QED BY <1>1, <1>2 DEF Path, Step

\* Some steps ask nothing of the ones before them
LEMMA FreshPlace ==
  /\ \A t : t \in Early(program) \/ t = <<"audits", "freeze">> => InPlace(t)
  /\ \A t : t \in {<<"judge", "freeze">>, <<"summary", "freeze">>} /\ (\A b \in Blocks : augmented[b] # <<>>)
              => InPlace(t)
<1>1. ASSUME NEW t \in Early(program) PROVE InPlace(t)
    <2>1. t[1] \in {"setup", "controls", "reviews"}
        BY DEF Early
    <2> QED BY <2>1 DEF InPlace, Past, Behind, Awaited, Late
<1>2. InPlace(<<"audits", "freeze">>)
    BY DEF InPlace, Past, Behind, Awaited, Late
<1>3. ASSUME NEW t \in {<<"judge", "freeze">>, <<"summary", "freeze">>}, \A b \in Blocks : augmented[b] # <<>>
      PROVE  InPlace(t)
    <2>1. Awaited(t) = {} /\ Behind(t) \subseteq Blocks
        BY DEF Awaited, Behind
    <2> QED BY <1>3, <2>1 DEF InPlace, Past
<1> QED BY <1>1, <1>2, <1>3

LEMMA FreshPlaceLater ==
  (/\ \A t : t \in Early(program) \/ t = <<"audits", "freeze">> => InPlace(t)
   /\ \A t : t \in {<<"judge", "freeze">>, <<"summary", "freeze">>} /\ (\A b \in Blocks : augmented[b] # <<>>)
               => InPlace(t))'
BY FreshPlace, PTL

\* A step that went through leads to the next, and the last of a phase finishes it
LEMMA Onwards ==
  ASSUME Shape, OnTheWay, at > 0, Advance, UNCHANGED <<program, script, surface>>, NEW s, s = Step,
         Past(s)', Done(s)', \A b \in Blocks : augmented[b] # <<>> => augmented'[b] # <<>>
  PROVE  OnTheWay' /\ at' \in 0 .. Len(script)
<1>1. /\ Path(program, script) /\ at \in 1 .. Len(script) /\ Len(script) \in Nat
      /\ s = script[at]
    BY StepShape DEF Path, Step
<1>2. ASSUME at + 1 \in 1 .. Len(script), NEW t, t = script[at + 1]
      PROVE  InPlace(t)' /\ Comes(program, s, t)
    <2>1. Comes(program, s, t) /\ t \in Early(program) \union LateSteps(program)
        BY <1>1, <1>2 DEF Path
    <2>2. program' = program /\ (program = "mechanics" => surface) /\ surface' = surface
        BY DEF Shape
    <2>3. Comes(program', s, t) /\ t \in Early(program') \union LateSteps(program')
        BY <2>1, <2>2
    <2>4. InPlace(t)'
        BY <2>2, <2>3, NextPlaceLater
    <2> QED BY <2>1, <2>4
<1>3. /\ at' = 0 \/ (at' = at + 1 /\ at' \in 1 .. Len(script))
      /\ reached' = reached \/
           (reached' = reached \union {s[1]} /\ (at = Len(script) \/ script[at + 1][1] # s[1]))
    BY <1>1 DEF Advance, Step
<1>4. ASSUME NEW step, at' > 0, step = Step' PROVE InPlace(step)'
    <2>1. step = script[at'] /\ at' = at + 1 /\ at' \in 1 .. Len(script)
        BY <1>3, <1>4 DEF Step
    <2> QED BY <1>2, <2>1
<1>5. ASSUME reached' \intersect Late # {}, NEW b \in Blocks PROVE augmented'[b] # <<>>
    <2>1. CASE reached \intersect Late # {}
        BY <2>1 DEF OnTheWay
    <2>2. CASE reached \intersect Late = {}
        <3>1. s[1] \in Late /\ (at = Len(script) \/ script[at + 1][1] # s[1])
            BY <1>3, <1>5, <2>2
        <3>2. CASE s[1] \in {"judge", "summary"}
            <4>1. Behind(s)' = Blocks
                BY <3>2 DEF Behind
            <4> QED BY <4>1 DEF Past
        <3>3. CASE s[1] = "audits"
            <4>1. at # Len(script)
                BY <1>1, <3>3 DEF Path
            <4>2. at + 1 \in 1 .. Len(script) /\ script[at + 1][1] # "audits"
                BY <1>1, <3>1, <3>3, <4>1
            <4>3. PICK t : t = script[at + 1]
                OBVIOUS
            <4>4. InPlace(t)' /\ Comes(program, s, t)
                BY <1>2, <4>2, <4>3
            <4>5. t[1] \in {"judge", "summary"}
                BY <3>3, <4>2, <4>4, <4>3 DEF Comes, Late
            <4>6. Behind(t)' = Blocks
                BY <4>5 DEF Behind
            <4> QED BY <4>4, <4>6 DEF InPlace, Past
        <3> QED BY <3>1, <3>2, <3>3 DEF Late
    <2> QED BY <2>1, <2>2
<1>6. at' \in 0 .. Len(script)
    BY <1>1, <1>3
<1> QED BY <1>4, <1>5, <1>6 DEF OnTheWay

LEMMA InvokedPlace ==
  ASSUME Shape, OnTheWay, Invoke, UNCHANGED <<program, script, surface, augmented>>
  PROVE  OnTheWay' /\ at' \in 0 .. Len(script)
<1>1. Path(program, script) /\ Len(script) \in Nat \ {0} /\ reached' = reached
    BY InPath DEF Shape, Path, Invoke
<1>2. at' = 1 \/ (at' \in 1 .. Len(script) /\ at' # 1 /\ script[at' - 1][1] # script[at'][1]
                   /\ script[at' - 1][1] \in reached)
    BY <1>1 DEF Invoke, Offered
<1>3. at' \in 1 .. Len(script) /\ Step' = script[at']
    BY <1>1, <1>2 DEF Step
<1>4. ASSUME NEW t, t = script[at'] PROVE InPlace(t)'
    <2>1. t \in Early(program') \union LateSteps(program')
        BY <1>1, <1>3, <1>4 DEF Path
    <2>2. CASE t \in Early(program') \/ t = <<"audits", "freeze">>
        BY <2>2, FreshPlaceLater
    <2>3. CASE t \notin Early(program') /\ t # <<"audits", "freeze">>
        <3>1. PICK s : s = script[at' - 1]
            OBVIOUS
        <3>2. at' # 1
            <4>1. script[1][1] = "setup"
                BY <1>1 DEF Path
            <4>2. \A u \in LateSteps(program') : u[1] # "setup"
                BY DEF LateSteps
            <4> QED BY <1>4, <2>1, <2>3, <4>1, <4>2
        <3>3. Comes(program, s, t) /\ s[1] # t[1] /\ s[1] \in reached
            <4>1. at' \in 1 .. Len(script) /\ Len(script) \in Nat /\ at' \in Nat
                BY <1>1, <1>3
            <4>2. \A i, k \in Nat : i \in 1 .. k /\ i # 1 => i - 1 \in 1 .. k /\ i = (i - 1) + 1
                OBVIOUS
            <4>3. at' - 1 \in 1 .. Len(script) /\ at' = (at' - 1) + 1
                BY <3>2, <4>1, <4>2
            <4> QED BY <1>1, <1>2, <1>3, <1>4, <3>1, <3>2, <4>3 DEF Path
        <3>4. t \in {<<"judge", "freeze">>, <<"summary", "freeze">>}
            <4>1. CASE t[1] = "audits" /\ t[2] \in {"pool", "mend", "admit"}
                BY <3>3, <4>1 DEF Comes, Strict
            <4>2. CASE t[1] = "judge" /\ t # <<"judge", "freeze">>
                BY <2>1, <2>3, <3>3, <4>2 DEF Comes, LateSteps
            <4>3. CASE t = <<"summary", "summarize">>
                BY <3>3, <4>3 DEF Comes
            <4> QED BY <2>1, <2>3, <4>1, <4>2, <4>3 DEF LateSteps
        <3>5. s[1] \in Late
            BY <3>3, <3>4 DEF Comes, Late
        <3>6. \A b \in Blocks : augmented'[b] # <<>>
            BY <3>3, <3>5 DEF OnTheWay
        <3> QED BY <3>4, <3>6, FreshPlaceLater
    <2> QED BY <2>1, <2>2, <2>3
<1> QED BY <1>1, <1>3, <1>4 DEF OnTheWay

\* A step that touches neither a session nor a review
LEMMA DataStay ==
  ASSUME AuditsInv, UNCHANGED <<program, sess, augmented, judgment, surface>>,
         lost' \in {lost, {}}, UNCHANGED <<queue, running, failed, raising>> \/ InPool' = {}
  PROVE  GivenUp' /\ AnswersTold' /\ JudgmentsStand' /\ AdmissionsStand'
<1>1. InPool' \subseteq InPool /\ (failed' # {} => failed' = failed /\ raising' = raising)
    BY DEF InPool
<1>2. \A n : /\ Accepted(n)' <=> Accepted(n)
             /\ Cited(n)' = Cited(n) /\ (Ready(n)' <=> Ready(n)) /\ (Told(n)' <=> Told(n))
    BY DEF Accepted, Cited, Quoted, Ready, Told, AddedTo
<1>3. GivenUp'
    BY <1>1, <1>2 DEF AuditsInv, GivenUp
<1>4. AnswersTold'
    BY <1>1, <1>2 DEF AuditsInv, AnswersTold
<1>5. JudgmentsStand'
    BY <1>2 DEF AuditsInv, JudgmentsStand, AddedTo
<1>6. AdmissionsStand'
    BY <1>2 DEF AuditsInv, AdmissionsStand, Grounded, Payload, Result, Found, Accepted
<1> QED BY <1>3, <1>4, <1>5, <1>6

LEMMA NoPoolHolds ==
  ASSUME PoolInv', round' = 0 PROVE InPool' = {} /\ Holding'
BY DEF PoolInv, InPool, Holding

\* The harness is started, is left by an exception, or is killed
LEMMA AuditsDriven ==
  ASSUME AuditsInv, PoolInv, PoolInv', Driven PROVE AuditsInv'
<1>1. UNCHANGED <<program, script, sess, augmented, judgment, surface>> /\ round' = 0
    <2>1. CASE Invoke
        BY <2>1 DEF Invoke, Driven, Started, gapVars, blockVars, AuditsInv, Shape
    <2>2. CASE PoolRaises \/ Killed
        BY <2>2 DEF PoolRaises, Killed, Gone, Driven, Started, gapVars, blockVars
    <2> QED BY <2>1, <2>2 DEF Driven, Started
<1>2. InPool' = {} /\ Holding'
    BY <1>1, NoPoolHolds
<1>3. lost' \in {lost, {}}
    BY DEF Driven, Started, Invoke, PoolRaises, Killed, Gone
<1>4. GivenUp' /\ AnswersTold' /\ JudgmentsStand' /\ AdmissionsStand'
    BY <1>1, <1>2, <1>3, DataStay
<1>5. OnTheWay' /\ at' \in 0 .. Len(script)
    <2>1. CASE Invoke
        BY <1>1, <2>1, InvokedPlace DEF AuditsInv
    <2>2. CASE PoolRaises \/ Killed
        <3>1. at' = 0 /\ reached' = reached
            BY <2>2 DEF PoolRaises, Killed, Raise
        <3>2. Len(script) \in Nat
            BY InPath DEF AuditsInv, Shape, Path
        <3> QED BY <1>1, <3>1, <3>2 DEF AuditsInv, OnTheWay
    <2> QED BY <2>1, <2>2 DEF Driven, Started
<1>6. Shape'
    BY <1>1, <1>5 DEF AuditsInv, Shape
<1> QED BY <1>2, <1>4, <1>5, <1>6 DEF AuditsInv

\* Between pools: a step raises or leads on
LEMMA AuditsBetween ==
  ASSUME AuditsInv, PoolInv', at > 0, round' = 0, UNCHANGED <<program, script, surface>>,
         DOMAIN sess' = DOMAIN sess, DOMAIN augmented' = Blocks, DOMAIN judgment' = Blocks,
         \A b \in Blocks : augmented[b] # <<>> => augmented'[b] # <<>>,
         NEW s, s = Step, Raise \/ (Advance /\ Past(s)' /\ Done(s)'),
         GivenUp' /\ AnswersTold' /\ JudgmentsStand' /\ AdmissionsStand'
  PROVE  AuditsInv'
<1>1. Holding'
    BY NoPoolHolds
<1>2. OnTheWay' /\ at' \in 0 .. Len(script)
    <2>1. CASE Raise
        <3>1. Len(script) \in Nat
            BY InPath DEF AuditsInv, Shape, Path
        <3> QED BY <2>1, <3>1 DEF AuditsInv, OnTheWay, Raise
    <2>2. CASE Advance /\ Past(s)' /\ Done(s)'
        BY <2>2, Onwards DEF AuditsInv
    <2> QED BY <2>1, <2>2
<1>3. Shape'
    BY <1>2 DEF AuditsInv, Shape
<1> QED BY <1>1, <1>2, <1>3 DEF AuditsInv

LEMMA AuditsFrozen ==
  ASSUME AuditsInv, PoolInv', freeze_sources PROVE AuditsInv'
<1>1. /\ at > 0 /\ Step[2] = "freeze" /\ round' = 0 /\ lost' = {}
      /\ UNCHANGED <<program, script, sess, augmented, judgment, surface>>
      /\ Advance \/ Raise
    BY DEF freeze_sources, Doing, NoPool, blockVars
<1>2. GivenUp' /\ AnswersTold' /\ JudgmentsStand' /\ AdmissionsStand'
    BY <1>1, NoPoolHolds, DataStay
<1>3. PICK s : s = Step
    OBVIOUS
<1>4. InPlace(s)
    BY <1>1, <1>3 DEF AuditsInv, OnTheWay
<1>5. Past(s)'
    <2>1. Awaited(s)' = {} /\ Behind(s)' = Behind(s)
        BY <1>1, <1>3 DEF Awaited, Behind
    <2> QED BY <1>1, <1>3, <1>4, <2>1 DEF InPlace, Past
<1>6. Done(s)'
    BY <1>1, <1>3 DEF Done
<1>7. DOMAIN augmented' = Blocks /\ DOMAIN judgment' = Blocks
    BY <1>1 DEF AuditsInv, Shape
<1> QED BY <1>1, <1>2, <1>3, <1>5, <1>6, <1>7, AuditsBetween

\* The steps that admit, judge and pool nothing
LEMMA AuditsPassed ==
  ASSUME AuditsInv, PoolInv', at > 0, Step[2] \in {"copy", "evidence", "score", "keep", "summarize"}, Alone,
         Advance \/ Raise, UNCHANGED <<augmented, judgment, surface>>
  PROVE  AuditsInv'
<1>1. round' = 0 /\ UNCHANGED <<program, script, sess, lost>>
    BY DEF Alone, NoPool, poolVars
<1>2. GivenUp' /\ AnswersTold' /\ JudgmentsStand' /\ AdmissionsStand'
    BY <1>1, NoPoolHolds, DataStay
<1>3. PICK s : s = Step
    OBVIOUS
<1>4. InPlace(s)
    BY <1>3 DEF AuditsInv, OnTheWay
<1>5. Past(s)'
    <2>1. Awaited(s)' = {} /\ Behind(s)' = Behind(s)
        BY <1>1, <1>3 DEF Awaited, Behind
    <2> QED BY <1>3, <1>4, <2>1 DEF InPlace, Past
<1>6. Done(s)'
    BY <1>1, <1>3 DEF Done, AuditsInv, GivenUp
<1>7. DOMAIN augmented' = Blocks /\ DOMAIN judgment' = Blocks
    BY DEF AuditsInv, Shape
<1> QED BY <1>1, <1>2, <1>3, <1>5, <1>6, <1>7, AuditsBetween

LEMMA AuditsEdited ==
  ASSUME AuditsInv, EditSources PROVE AuditsInv'
<1>1. UNCHANGED <<program, script, at, reached, sess, queue, running, failed, lost, raising, round,
                  augmented, judgment, surface>>
    BY DEF EditSources, phaseVars, blockVars
<1>2. GivenUp' /\ AnswersTold' /\ JudgmentsStand' /\ AdmissionsStand'
    BY <1>1, DataStay
<1>3. Step' = Step /\ InPool' = InPool /\ Shape'
    BY <1>1 DEF Step, InPool, AuditsInv, Shape
<1>4. \A s : /\ InPlace(s)' <=> InPlace(s)
             /\ Asked(s)' = Asked(s)
    BY <1>1 DEF InPlace, Past, Behind, Awaited, Asked, Decided, Accepted, Result, Claims, Tied
<1>5. OnTheWay' /\ Holding'
    BY <1>1, <1>3, <1>4 DEF AuditsInv, OnTheWay, Holding, Pooled, Doing, Accepted
<1> QED BY <1>2, <1>3, <1>5 DEF AuditsInv

LEMMA AddedIs == \A x : Added(x) # <<>> /\ Added(x) # Base /\ Base # <<>> /\ Len(Added(x)) = 2 /\ Added(x)[2] = x
<1>1. \A x : Len(Added(x)) = 2 /\ Added(x)[2] = x
    BY DEF Added
<1>2. Len(Base) = 1 /\ Len(<<>>) = 0
    BY DEF Base
<1> QED BY <1>1, <1>2

\* The review of a block, and what it rests on, before the judges are asked
LEMMA AdmitIsFinal ==
  ASSUME AuditsInv, PoolInv, Tallied, audits, NEW b \in Blocks, Step = <<"audits", "admit", b>>
  PROVE  \/ Raise /\ augmented' = augmented
         \/ /\ Advance
            /\ \E review :
                 /\ augmented' = [augmented EXCEPT ![b] = review]
                 /\ review # <<>>
                 /\ augmented[b] # <<>> /\ (program \in Strict \/ augmented[b] # Base) => review = augmented[b]
                 /\ program \in Strict \/ review # Base => Grounded(b)'
<1>0. /\ Step[3] = b /\ UNCHANGED <<program, sess, surface, lost>> /\ DOMAIN augmented = Blocks
      /\ b \in DOMAIN augmented
    BY DEF audits, Alone, poolVars, Kept, gapVars, AuditsInv, Shape
<1>1. \A n \in Awaited(<<"audits", "admit", b>>) : Decided(n)
    <2>1. at > 0
        BY DEF audits, Doing
    <2> QED BY <2>1 DEF AuditsInv, OnTheWay, InPlace, Past
<1>2. \A n : n \in lost => ~Accepted(n)
    BY DEF AuditsInv, GivenUp
<1>3. \A n : /\ Accepted(n)' <=> Accepted(n)
             /\ Result(n)' = Result(n) /\ Found(n)' = Found(n)
      /\ Payload("audit", b)' = Payload("audit", b)
    BY <1>0 DEF Accepted, Result, Found, Payload
<1>4. augmented[b] # <<>> /\ (program \in Strict \/ augmented[b] # Base) => Grounded(b)
    BY DEF AuditsInv, AdmissionsStand
<1>5. ASSUME NEW review, augmented' = [augmented EXCEPT ![b] = review] PROVE augmented'[b] = review
    BY <1>0, <1>5
<1>6. CASE program \in Strict
    <2> DEFINE n == Payload("audit", b)
               review == IF surface /\ Result(n) = "finding" THEN Found(n) ELSE Base
    <2>1. program # "mechanics" /\ program # "replication" /\ lost = {}
        BY <1>6 DEF Strict, AuditsInv, GivenUp
    <2>2. surface => Accepted(Audit(b)) /\ Accepted(n)
        <3>1. surface => {"audit"} \X Blocks \subseteq Awaited(<<"audits", "admit", b>>)
            BY <2>1 DEF Awaited
        <3>2. surface => Accepted(Audit(b))
            BY <1>1, <2>1, <3>1 DEF Audit, Decided
        <3>3. surface /\ Result(Audit(b)) = "invalid" => Repair(b) \in Awaited(<<"audits", "admit", b>>)
            BY <1>6, <2>1 DEF Awaited
        <3>4. n = IF Result(Audit(b)) = "invalid" THEN Repair(b) ELSE Audit(b)
            BY DEF Payload, Audit, Repair
        <3> QED BY <1>1, <2>1, <3>2, <3>3, <3>4 DEF Decided
    <2>3. \/ Raise /\ augmented' = augmented
          \/ Advance /\ augmented' = [augmented EXCEPT ![b] = review]
        <3>1. program = "matrix" \/ program = "tournament"
            BY <1>6, <2>1 DEF AuditsInv, Shape, Scripts
        <3>2. CASE program = "matrix"
            <4>1. matrix_audits(b)
                BY <1>0, <3>2 DEF audits, tournament_audits, replication_audits, mechanics_audits
            <4>2. CASE surface /\ Result(n) = "invalid"
                BY <4>1, <4>2 DEF matrix_audits
            <4>3. CASE ~(surface /\ Result(n) = "invalid")
                <5>1. Admit(n, b, surface /\ Result(n) = "finding", TRUE)
                    BY <4>1, <4>3 DEF matrix_audits
                <5> QED BY <5>1 DEF Admit, Found
            <4> QED BY <4>2, <4>3
        <3>3. CASE program = "tournament"
            <4>1. tournament_audits(b) /\ surface
                BY <1>0, <3>3 DEF audits, matrix_audits, replication_audits, mechanics_audits, AuditsInv, Shape
            <4>2. Admit(n, b, Result(n) = "finding", Result(n) # "invalid")
                BY <4>1 DEF tournament_audits
            <4> QED BY <4>1, <4>2 DEF Admit, Found
        <3> QED BY <3>1, <3>2, <3>3
    <2>4. review # <<>>
        BY AddedIs DEF Found
    <2>5. augmented[b] # <<>> => review = augmented[b]
        BY <1>4, <1>6, <2>1 DEF Grounded
    <2>6. augmented' = [augmented EXCEPT ![b] = review] => Grounded(b)'
        <3>1. augmented' = [augmented EXCEPT ![b] = review] => augmented'[b] = review
            BY <1>5
        <3>2. n' = n /\ Result(n)' = Result(n) /\ Found(n)' = Found(n) /\ (Accepted(n)' <=> Accepted(n))
            BY <1>0, <1>3 DEF Accepted, Result, Found
        <3>3. Grounded(b)' <=>
                /\ surface => Accepted(Audit(b)) /\ Accepted(n)
                /\ augmented'[b] = review
            BY <1>0, <1>3, <2>1, <3>2 DEF Grounded, Audit
        <3> QED BY <2>2, <3>1, <3>3
    <2> HIDE DEF review
    <2> QED BY <2>3, <2>4, <2>5, <2>6
<1>7. CASE program = "replication"
    <2> DEFINE n == Payload("audit", b)
               usable == /\ Audit(b) \notin lost /\ sess[Audit(b)].by # 0
                         /\ n[1] = "repair" => n \notin lost /\ Accepted(n)
               review == IF usable /\ Result(n) = "finding" THEN Found(n) ELSE Base
    <2>1. surface /\ program \notin Strict /\ program # "mechanics"
        BY <1>7 DEF Strict, AuditsInv, Shape
    <2>2. Decided(Audit(b))
        <3>1. Audit(b) \in Awaited(<<"audits", "admit", b>>)
            BY <2>1 DEF Awaited, Audit
        <3> QED BY <1>1, <3>1
    <2>3. n = IF Result(Audit(b)) = "invalid" THEN Repair(b) ELSE Audit(b)
        BY DEF Payload, Audit, Repair
    <2>4. Advance /\ augmented' = [augmented EXCEPT ![b] = review]
        <3>1. replication_audits(b)
            BY <1>0, <1>7 DEF audits, matrix_audits, tournament_audits, mechanics_audits
        <3>2. Admit(n, b, usable /\ Result(n) = "finding", usable /\ n[1] = "audit")
            BY <3>1 DEF replication_audits, Audit
        <3> QED BY <3>2 DEF Admit, Found
    <2>5. usable => Accepted(Audit(b)) /\ Accepted(n)
        BY <2>2, <2>3 DEF Decided, Repair
    <2>6. Accepted(Audit(b)) /\ Accepted(n) => usable
        <3>1. Audit(b) \in DOMAIN sess
            BY <1>7 DEF AuditsInv, Shape, Sessions, Audit
        <3> QED BY <1>2, <3>1 DEF Tallied
    <2> HIDE DEF usable
    <2>7. augmented[b] # <<>> /\ augmented[b] # Base => review = augmented[b]
        BY <1>4, <2>1, <2>6 DEF Grounded
    <2>8. augmented' = [augmented EXCEPT ![b] = review] /\ review # Base => Grounded(b)'
        <3>1. augmented' = [augmented EXCEPT ![b] = review] => augmented'[b] = review
            BY <1>5
        <3>2. n' = n /\ Result(n)' = Result(n) /\ Found(n)' = Found(n) /\ (Accepted(n)' <=> Accepted(n))
            BY <1>0, <1>3 DEF Accepted, Result, Found
        <3>3. Grounded(b)' <=>
                /\ surface => Accepted(Audit(b)) /\ Accepted(n)
                /\ augmented'[b] = IF surface /\ Result(n) = "finding" THEN Found(n) ELSE Base
            BY <1>0, <1>3, <2>1, <3>2 DEF Grounded, Audit
        <3> QED BY <2>1, <2>5, <3>1, <3>3
    <2>9. review # <<>>
        BY AddedIs DEF Found
    <2> HIDE DEF review
    <2> QED BY <2>1, <2>4, <2>7, <2>8, <2>9
<1>8. CASE program = "mechanics"
    <2> DEFINE n == Coverage(b)
               found == Claims /\ n \notin lost /\ Result(n) = "uncovered"
               review == IF found THEN Found(n) ELSE Base
    <2>1. program \notin Strict
        BY <1>8 DEF Strict
    <2>2. /\ Decided(Discovery)
          /\ Claims => Decided(n)
        <3>1. Awaited(<<"audits", "admit", b>>) = {Discovery} \union (IF Claims THEN {"coverage"} \X Blocks ELSE {})
            BY <1>8 DEF Awaited
        <3> QED BY <1>1, <3>1 DEF Coverage
    <2>3. Advance /\ augmented' = [augmented EXCEPT ![b] = review]
        <3>1. mechanics_audits(b)
            BY <1>0, <1>8 DEF audits, matrix_audits, tournament_audits, replication_audits
        <3>2. \E complete : Admit(n, b, found, complete)
            BY <3>1 DEF mechanics_audits, Coverage
        <3> QED BY <3>2 DEF Admit, Found
    <2>4. found <=> /\ Accepted(Discovery) /\ Result(Discovery) = "claims"
                    /\ Accepted(n) /\ Result(n) = "uncovered"
        BY <1>2, <2>2 DEF Decided, Claims, Discovery
    <2> HIDE DEF found
    <2>5. augmented[b] # <<>> /\ augmented[b] # Base => review = augmented[b]
        BY <1>4, <1>8, <2>1, <2>4 DEF Grounded
    <2>6. augmented' = [augmented EXCEPT ![b] = review] /\ review # Base => Grounded(b)'
        <3>1. augmented' = [augmented EXCEPT ![b] = review] => augmented'[b] = review
            BY <1>5
        <3>2. Grounded(b)' <=>
                /\ Accepted(Discovery) /\ Result(Discovery) = "claims"
                /\ Accepted(n) /\ Result(n) = "uncovered"
                /\ augmented'[b] = Found(n)
            BY <1>0, <1>3, <1>8 DEF Grounded
        <3> QED BY <2>4, <3>1, <3>2
    <2>7. review # <<>>
        BY AddedIs DEF Found
    <2> HIDE DEF review
    <2> QED BY <2>1, <2>3, <2>5, <2>6, <2>7
<1> QED BY <1>6, <1>7, <1>8 DEF AuditsInv, Shape, Scripts, Strict

\* A block is admitted, for the first time or once more
LEMMA AuditsAdmitted ==
  ASSUME AuditsInv, PoolInv, PoolInv', Tallied, audits PROVE AuditsInv'
<1>1. /\ at > 0 /\ Step[2] = "admit" /\ round' = 0
      /\ UNCHANGED <<program, script, sess, queue, running, failed, lost, raising, surface, judgment>>
      /\ DOMAIN augmented = Blocks /\ DOMAIN judgment = Blocks
    BY DEF audits, Doing, Alone, NoPool, poolVars, Kept, gapVars, AuditsInv, Shape
<1>2. PICK b \in Blocks : Step = <<"audits", "admit", b>>
    BY <1>1, StepShape DEF AuditsInv, Early, LateSteps
<1>3. CASE Raise /\ augmented' = augmented
    <2>1. GivenUp' /\ AnswersTold' /\ JudgmentsStand' /\ AdmissionsStand'
        BY <1>1, <1>3, DataStay
    <2>2. PICK s : s = Step
        OBVIOUS
    <2>3. /\ DOMAIN augmented' = Blocks /\ DOMAIN judgment' = Blocks
          /\ \A c \in Blocks : augmented[c] # <<>> => augmented'[c] # <<>>
        BY <1>1, <1>3
    <2> QED BY <1>1, <1>3, <2>1, <2>2, <2>3, AuditsBetween
<1>4. ASSUME NEW review, Advance, augmented' = [augmented EXCEPT ![b] = review], review # <<>>,
             augmented[b] # <<>> /\ (program \in Strict \/ augmented[b] # Base) => review = augmented[b],
             program \in Strict \/ review # Base => Grounded(b)'
      PROVE  AuditsInv'
    <2>1. /\ DOMAIN augmented' = Blocks /\ augmented'[b] = review
          /\ \A c \in Blocks : c # b => augmented'[c] = augmented[c]
        BY <1>1, <1>4
    <2>2. \A c \in Blocks : augmented[c] # <<>> /\ (program \in Strict \/ augmented[c] # Base) =>
                              augmented'[c] = augmented[c]
        BY <1>4, <2>1
    <2>3. \A c \in Blocks : augmented[c] # <<>> => augmented'[c] # <<>>
        BY <1>4, <2>1
    <2>4. \A c \in Blocks : AddedTo(c) => AddedTo(c)' /\ augmented'[c] = augmented[c]
        BY <2>2 DEF AddedTo
    <2>5. GivenUp'
        BY <1>1 DEF AuditsInv, GivenUp, Accepted
    <2>6. \A n \in DOMAIN sess : n[1] = "judge" => n[2] \in Blocks
        BY DEF AuditsInv, Shape, Sessions
    <2>7. AnswersTold'
        <3>1. InPool' = InPool
            BY <1>1 DEF InPool
        <3>2. ASSUME NEW n \in DOMAIN sess PROVE /\ Told(n) => Told(n)'
                                                 /\ Ready(n) => Ready(n)'
                                                 /\ Accepted(n)' <=> Accepted(n)
            <4>1. Cited(n)' = Cited(n) /\ \A m : Accepted(m)' <=> Accepted(m)
                BY <1>1 DEF Cited, Quoted, Accepted
            <4> QED BY <1>1, <2>4, <2>6, <4>1 DEF Told, Ready
        <3> QED BY <1>1, <3>1, <3>2 DEF AuditsInv, AnswersTold
    <2>8. JudgmentsStand'
        <3>1. \A n : Accepted(n)' <=> Accepted(n)
            BY <1>1 DEF Accepted
        <3>2. ASSUME NEW c \in Blocks
              PROVE  /\ judgment[c].verdict \in {"wins", "loses"} =>
                          AddedTo(c)' /\ judgment[c].of = augmented'[c] /\ Accepted(Judge(c))
                     /\ program \in Strict /\ judgment[c] # NoJudgment =>
                          /\ augmented'[c] # <<>> /\ judgment[c].of = augmented'[c]
                          /\ augmented'[c] = Base => judgment[c].verdict = "tie"
            BY <1>1, <2>2, <2>4 DEF AuditsInv, JudgmentsStand
        <3> QED BY <1>1, <2>1, <3>1, <3>2 DEF JudgmentsStand
    <2>9. AdmissionsStand'
        <3>1. ASSUME NEW c \in Blocks, c # b PROVE Grounded(c)' <=> Grounded(c)
            BY <1>1, <2>1, <3>1 DEF Grounded, Payload, Result, Found, Accepted
        <3> QED BY <1>1, <1>4, <2>1, <3>1 DEF AuditsInv, AdmissionsStand
    <2>10. PICK s : s = Step
        OBVIOUS
    <2>11. Past(s)
        BY <1>1, <2>10 DEF AuditsInv, OnTheWay, InPlace
    <2>12. Past(s)'
        <3>1. Behind(s)' = Behind(s) /\ Behind(s) \subseteq Blocks /\ Awaited(s)' = Awaited(s)
            BY <1>1, <1>2, <2>10 DEF Behind, Awaited, Claims, Result
        <3> QED BY <1>1, <1>2, <2>3, <2>10, <2>11, <3>1 DEF Past, Decided, Accepted
    <2>13. Done(s)'
        BY <1>1, <1>2, <1>4, <2>1, <2>10 DEF Done, AuditsInv, GivenUp
    <2>14. DOMAIN judgment' = Blocks /\ DOMAIN sess' = DOMAIN sess
        BY <1>1
    <2> QED BY <1>1, <1>4, <2>1, <2>3, <2>5, <2>7, <2>8, <2>9, <2>10, <2>12, <2>13, <2>14, AuditsBetween
<1> QED BY <1>2, <1>3, <1>4, AdmitIsFinal

\* What judging leaves as it was
LEMMA JudgingStays ==
  ASSUME AuditsInv, UNCHANGED <<program, sess, queue, running, failed, lost, raising, surface, augmented>>
  PROVE  GivenUp' /\ AnswersTold' /\ AdmissionsStand'
<1>1. InPool' = InPool
    BY DEF InPool
<1>2. \A n : /\ Accepted(n)' <=> Accepted(n)
             /\ Cited(n)' = Cited(n) /\ (Ready(n)' <=> Ready(n)) /\ (Told(n)' <=> Told(n))
    BY DEF Accepted, Cited, Quoted, Ready, Told, AddedTo
<1>3. GivenUp'
    BY <1>2 DEF AuditsInv, GivenUp
<1>4. AnswersTold'
    BY <1>1, <1>2 DEF AuditsInv, AnswersTold
<1>5. AdmissionsStand'
    BY <1>2 DEF AuditsInv, AdmissionsStand, Grounded, Payload, Result, Found, Accepted
<1> QED BY <1>3, <1>4, <1>5

LEMMA AuditsTied ==
  ASSUME AuditsInv, PoolInv', tie_judgment PROVE AuditsInv'
<1>1. /\ at > 0 /\ Step[2] = "tie" /\ round' = 0 /\ Advance
      /\ UNCHANGED <<program, script, sess, queue, running, failed, lost, raising, surface, augmented>>
      /\ judgment' = [b \in DOMAIN augmented |->
                        IF augmented[b] = Base THEN [verdict |-> "tie", of |-> Base] ELSE judgment[b]]
      /\ DOMAIN augmented = Blocks /\ DOMAIN judgment = Blocks
    BY DEF tie_judgment, Doing, Alone, NoPool, poolVars, gapVars, AuditsInv, Shape
<1>2. Step = <<"judge", "tie">>
    BY <1>1, StepShape DEF AuditsInv, Early, LateSteps
<1>3. GivenUp' /\ AnswersTold' /\ AdmissionsStand'
    BY <1>1, JudgingStays
<1>4. PICK s : s = Step
    OBVIOUS
<1>5. Past(s) /\ lost = {}
    <2>1. InPlace(s)
        BY <1>1, <1>4 DEF AuditsInv, OnTheWay
    <2>2. Spent(s) = {}
        BY <1>2, <1>4 DEF Spent
    <2> QED BY <1>2, <1>4, <2>1, <2>2 DEF InPlace, Late
<1>6. JudgmentsStand'
    <2>1. ASSUME NEW b \in Blocks
          PROVE  /\ judgment'[b].verdict \in {"wins", "loses"} =>
                      AddedTo(b) /\ judgment'[b].of = augmented[b] /\ Accepted(Judge(b))
                 /\ program \in Strict /\ judgment'[b] # NoJudgment =>
                      /\ augmented[b] # <<>> /\ judgment'[b].of = augmented[b]
                      /\ augmented[b] = Base => judgment'[b].verdict = "tie"
        <3>1. CASE augmented[b] = Base
            <4>1. judgment'[b] = [verdict |-> "tie", of |-> Base]
                BY <1>1, <3>1
            <4>2. judgment'[b].verdict = "tie" /\ judgment'[b].of = Base
                BY <4>1
            <4> QED BY <3>1, <4>2, AddedIs
        <3>2. CASE augmented[b] # Base
            <4>1. judgment'[b] = judgment[b]
                BY <1>1, <3>2
            <4> QED BY <1>1, <3>2, <4>1 DEF AuditsInv, JudgmentsStand
        <3> QED BY <3>1, <3>2
    <2> QED BY <1>1, <2>1 DEF JudgmentsStand, AddedTo, Accepted
<1>7. Past(s)'
    <2>1. Behind(s)' = Behind(s) /\ Awaited(s)' = {}
        BY <1>2, <1>4 DEF Behind, Awaited
    <2> QED BY <1>1, <1>2, <1>4, <1>5, <2>1 DEF Past
<1>8. Tied'
    <2>1. ASSUME NEW b \in Blocks, augmented[b] = Base PROVE judgment'[b] # NoJudgment
        <3>1. judgment'[b] = [verdict |-> "tie", of |-> Base]
            BY <1>1, <2>1
        <3>2. judgment'[b].verdict = "tie" /\ NoJudgment.verdict = "none"
            BY <3>1 DEF NoJudgment
        <3> QED BY <3>2
    <2> QED BY <1>1, <2>1 DEF Tied
<1>9. Done(s)'
    BY <1>1, <1>2, <1>4, <1>5, <1>8 DEF Done
<1>10. /\ DOMAIN augmented' = Blocks /\ DOMAIN judgment' = Blocks /\ DOMAIN sess' = DOMAIN sess
       /\ \A c \in Blocks : augmented[c] # <<>> => augmented'[c] # <<>>
    BY <1>1
<1> QED BY <1>1, <1>3, <1>4, <1>6, <1>7, <1>9, <1>10, AuditsBetween

\* What each harness takes for the judgment of a block
LEMMA VerdictIs ==
  ASSUME AuditsInv, Tallied, NEW b \in Blocks, AddedTo(b), Decided(Judge(b)), NEW verdict,
         \/ program \in Strict /\ verdict = Ruling(b)
         \/ program \notin Strict /\ verdict = IF Given(b) THEN Ruling(b) ELSE Unjudged(b)
  PROVE  verdict.of = augmented[b] /\ (verdict.verdict \in {"wins", "loses"} => Accepted(Judge(b)))
<1>1. Judge(b) \in DOMAIN sess
    BY DEF AuditsInv, Shape, Scripts, Sessions, Judge
<1>2. Told(Judge(b)) /\ (Accepted(Judge(b)) => sess[Judge(b)].by # 0)
    BY <1>1 DEF AuditsInv, AnswersTold, Tallied
<1>3. Accepted(Judge(b)) => Ruling(b).of = augmented[b]
    BY <1>2 DEF Told, Judge, Ruling
<1>4. program \in Strict => Accepted(Judge(b))
    BY DEF AuditsInv, GivenUp, Decided
<1>5. Given(b) => Accepted(Judge(b))
    BY DEF Given, Decided, Judge
<1>6. Unjudged(b).of = augmented[b] /\ Unjudged(b).verdict = "unjudged"
    BY DEF Unjudged
<1> QED BY <1>3, <1>4, <1>5, <1>6

LEMMA AuditsJudged ==
  ASSUME AuditsInv, PoolInv', Tallied,
         judge \/ tournament_judge \/ replication_judge \/ mechanics_judge
  PROVE  AuditsInv'
<1>1. PICK verdict : /\ Judged(Step[3], verdict)
                     /\ \/ program \in Strict /\ verdict = Ruling(Step[3])
                        \/ /\ program \notin Strict
                           /\ verdict = IF Given(Step[3]) THEN Ruling(Step[3]) ELSE Unjudged(Step[3])
    BY DEF judge, tournament_judge, replication_judge, mechanics_judge, Strict
<1>2. /\ at > 0 /\ Step[2] = "verdict" /\ round' = 0 /\ Advance
      /\ UNCHANGED <<program, script, sess, queue, running, failed, lost, raising, surface, augmented>>
      /\ DOMAIN augmented = Blocks /\ DOMAIN judgment = Blocks
    BY <1>1 DEF Judged, Doing, Alone, NoPool, poolVars, gapVars, AuditsInv, Shape
<1>3. PICK b \in Blocks : Step = <<"judge", "verdict", b>>
    BY <1>2, StepShape DEF AuditsInv, Early, LateSteps
<1>4. /\ judgment' = IF judgment[b] # NoJudgment THEN judgment ELSE [judgment EXCEPT ![b] = verdict]
      /\ Step[3] = b
    BY <1>1, <1>3 DEF Judged
<1>5. GivenUp' /\ AnswersTold' /\ AdmissionsStand'
    BY <1>2, JudgingStays
<1>6. PICK s : s = Step
    OBVIOUS
<1>7. Past(s)
    BY <1>2, <1>6 DEF AuditsInv, OnTheWay, InPlace
<1>8. Behind(s) = Blocks /\ Awaited(s) = {n \in {"judge"} \X Blocks : augmented[n[2]] # Base} /\ Tied
    BY <1>3, <1>6, <1>7 DEF Behind, Awaited, Past
<1>9. judgment[b] = NoJudgment => AddedTo(b) /\ Decided(Judge(b))
    <2>1. augmented[b] # <<>> /\ (judgment[b] = NoJudgment => augmented[b] # Base)
        BY <1>7, <1>8 DEF Past, Tied
    <2>2. augmented[b] # Base => Judge(b) \in Awaited(s)
        BY <1>8 DEF Judge
    <2> QED BY <1>7, <2>1, <2>2 DEF Past, AddedTo
<1>10. JudgmentsStand'
    <2>1. ASSUME NEW c \in Blocks
          PROVE  /\ judgment'[c].verdict \in {"wins", "loses"} =>
                      AddedTo(c) /\ judgment'[c].of = augmented[c] /\ Accepted(Judge(c))
                 /\ program \in Strict /\ judgment'[c] # NoJudgment =>
                      /\ augmented[c] # <<>> /\ judgment'[c].of = augmented[c]
                      /\ augmented[c] = Base => judgment'[c].verdict = "tie"
        <3>1. CASE c = b /\ judgment[b] = NoJudgment
            <4>1. judgment'[c] = verdict
                BY <1>2, <1>4, <3>1
            <4>2. verdict.of = augmented[b] /\ (verdict.verdict \in {"wins", "loses"} => Accepted(Judge(b)))
                BY <1>1, <1>4, <1>9, <3>1, VerdictIs
            <4> QED BY <1>9, <3>1, <4>1, <4>2 DEF AddedTo
        <3>2. CASE ~(c = b /\ judgment[b] = NoJudgment)
            <4>1. judgment'[c] = judgment[c]
                BY <1>2, <1>4, <3>2
            <4> QED BY <1>2, <4>1 DEF AuditsInv, JudgmentsStand
        <3> QED BY <3>1, <3>2
    <2>2. \A n : (Accepted(n)' <=> Accepted(n)) /\ (AddedTo(n)' <=> AddedTo(n))
        BY <1>2 DEF Accepted, AddedTo
    <2> QED BY <1>2, <2>1, <2>2 DEF JudgmentsStand
<1>11. Tied'
    <2>1. ASSUME NEW c \in Blocks, augmented[c] = Base PROVE judgment'[c] # NoJudgment
        <3>1. judgment[c] # NoJudgment
            BY <1>8, <2>1 DEF Tied
        <3>2. judgment'[c] = judgment[c]
            BY <1>2, <1>4, <1>9, <2>1, <3>1 DEF AddedTo
        <3> QED BY <3>1, <3>2
    <2> QED BY <1>2, <2>1 DEF Tied
<1>12. Past(s)'
    <2>1. Behind(s)' = Behind(s) /\ Awaited(s)' = Awaited(s)
        BY <1>2, <1>3, <1>6 DEF Behind, Awaited
    <2> QED BY <1>2, <1>7, <1>11, <2>1 DEF Past, Decided, Accepted
<1>13. Done(s)'
    BY <1>2, <1>3, <1>6 DEF Done, AuditsInv, GivenUp
<1>14. /\ DOMAIN augmented' = Blocks /\ DOMAIN judgment' = Blocks /\ DOMAIN sess' = DOMAIN sess
       /\ \A c \in Blocks : augmented[c] # <<>> => augmented'[c] # <<>>
    BY <1>2, <1>4
<1> QED BY <1>2, <1>5, <1>6, <1>10, <1>12, <1>13, <1>14, AuditsBetween

\* The steps that have a pool, and what it does not touch
LEMMA PoolPlace ==
  ASSUME AuditsInv, Pooled, NEW s, s = Step
  PROVE  /\ at > 0 /\ InPlace(s) /\ s[2] \in {"pool", "mend"}
         /\ \/ program = "matrix" /\ s \in {<<"controls", "pool", "control">>, <<"controls", "mend", 0>>,
                                            <<"reviews", "pool", "review">>}
            \/ s = <<"judge", "pool", "judge">>
            \/ \E k \in Auditors(program) : s = <<"audits", "pool", k>>
            \/ program \in Strict /\ \E b \in Blocks : s = <<"audits", "mend", b>>
         /\ lost \intersect InPool = {}
<1>1. at > 0 /\ s[2] \in {"pool", "mend"}
    BY DEF Pooled, Doing
<1>2. InPlace(s)
    BY <1>1 DEF AuditsInv, OnTheWay
<1>3. s \in Early(program) \union LateSteps(program)
    BY <1>1, StepShape DEF AuditsInv
<1>4. \/ program = "matrix" /\ s \in {<<"controls", "pool", "control">>, <<"controls", "mend", 0>>,
                                      <<"reviews", "pool", "review">>}
      \/ s = <<"judge", "pool", "judge">>
      \/ \E k \in Auditors(program) : s = <<"audits", "pool", k>>
      \/ program \in Strict /\ \E b \in Blocks : s = <<"audits", "mend", b>>
    <2>1. CASE s \in Early(program)
        BY <1>1, <2>1 DEF Early
    <2>2. CASE s \in LateSteps(program)
        BY <1>1, <2>2 DEF LateSteps
    <2> QED BY <1>3, <2>1, <2>2
<1>5. lost \intersect InPool = {}
    <2>1. CASE program \in Strict
        BY <2>1 DEF AuditsInv, GivenUp
    <2>2. CASE program \notin Strict
        <3>1. s[1] \in Late /\ s[2] = "pool" /\ s[3] \in {"judge", "audit", "repair", "discovery", "coverage"}
            BY <1>4, <2>2 DEF Strict, Late, Auditors
        <3>2. \A n \in lost : n[1] \in Spent(s)
            BY <1>2, <3>1 DEF InPlace
        <3>3. \A n \in InPool : n[1] = s[3]
            BY <1>1, <3>1 DEF AuditsInv, Holding
        <3>4. s[3] \notin Spent(s)
            BY <3>1 DEF Spent
        <3> QED BY <3>2, <3>3, <3>4
    <2> QED BY <2>1, <2>2
<1> QED BY <1>1, <1>2, <1>4, <1>5

\* What a pool was asked for was decided before it was given its first session
LEMMA PlaceStays ==
  ASSUME AuditsInv, Pooled, NEW s, s = Step, Stands, UNCHANGED <<program, surface, augmented, judgment>>,
         lost \subseteq lost'
  PROVE  Past(s)' /\ (s[1] \in Late => Asked(s)' \subseteq Asked(s))
<1>1. /\ at > 0 /\ Past(s) /\ s[2] \in {"pool", "mend"}
      /\ \/ program = "matrix" /\ s \in {<<"controls", "pool", "control">>, <<"controls", "mend", 0>>,
                                         <<"reviews", "pool", "review">>}
         \/ s = <<"judge", "pool", "judge">>
         \/ \E k \in Auditors(program) : s = <<"audits", "pool", k>>
         \/ program \in Strict /\ \E b \in Blocks : s = <<"audits", "mend", b>>
    BY PoolPlace DEF InPlace
<1>2. /\ DOMAIN sess = Sessions(program) /\ \A n \in lost : n \in DOMAIN sess /\ ~Accepted(n)
      /\ program \in Strict => lost = {}
    BY DEF AuditsInv, Shape, GivenUp
<1>3. \A n \in DOMAIN sess : Decided(n) => Decided(n)'
    BY <1>2 DEF Stands, Decided, Accepted
<1>4. Awaited(s)' = Awaited(s) /\ Behind(s)' = Behind(s) /\ (Tied' <=> Tied)
    <2>1. s[2] = "mend" => program # "mechanics"
        BY <1>1 DEF Auditors, Strict
    <2> QED BY <1>1, <2>1 DEF Awaited, Behind, Tied
<1>5. Awaited(s) \subseteq DOMAIN sess
    <2>1. CASE s[1] # "audits"
        BY <1>1, <2>1 DEF Awaited
    <2>2. ASSUME NEW k \in Auditors(program), s = <<"audits", "pool", k>> PROVE Awaited(s) \subseteq DOMAIN sess
        <3>1. Awaited(s) = IF k = "coverage" THEN {Discovery} ELSE IF k = "repair" /\ surface THEN {"audit"} \X Blocks ELSE {}
            BY <2>2 DEF Awaited
        <3>2. k = "coverage" => Discovery \in DOMAIN sess
            BY <1>2, <2>2 DEF Auditors, Sessions, Discovery
        <3>3. k = "repair" => {"audit"} \X Blocks \subseteq DOMAIN sess
            BY <1>2, <2>2 DEF Auditors, Sessions, Strict
        <3> QED BY <3>1, <3>2, <3>3
    <2>3. ASSUME NEW b \in Blocks, s = <<"audits", "mend", b>>, program \in Strict PROVE Awaited(s) \subseteq DOMAIN sess
        <3>1. Awaited(s) \subseteq {"audit"} \X Blocks
            BY <2>3 DEF Awaited, Strict
        <3>2. {"audit"} \X Blocks \subseteq DOMAIN sess
            BY <1>2, <2>3 DEF Sessions, Strict
        <3> QED BY <3>1, <3>2
    <2> QED BY <1>1, <2>1, <2>2, <2>3
<1>6. Past(s)'
    BY <1>1, <1>3, <1>4, <1>5 DEF Past
<1>7. \A n \in Awaited(s) : Decided(n)
    BY <1>1 DEF Past
<1>8. \A n \in Awaited(s) : n \notin lost' => Accepted(n) /\ Result(n)' = Result(n)
    BY <1>5, <1>7 DEF Decided, Stands, Result
<1>9. ASSUME s[1] \in Late PROVE Asked(s)' \subseteq Asked(s)
    <2>1. CASE s = <<"judge", "pool", "judge">>
        BY <2>1 DEF Asked
    <2>2. ASSUME NEW k \in Auditors(program), s = <<"audits", "pool", k>> PROVE Asked(s)' \subseteq Asked(s)
        <3>1. CASE k \in {"audit", "discovery"}
            BY <2>2, <3>1 DEF Asked
        <3>2. CASE k = "coverage"
            <4>1. Discovery \in Awaited(s)
                BY <2>2, <3>2 DEF Awaited
            <4>2. Claims' => Claims
                BY <1>8, <4>1 DEF Claims, Discovery
            <4> QED BY <2>2, <3>2, <4>2 DEF Asked
        <3>3. CASE k = "repair"
            <4>1. surface
                BY <2>2, <3>3 DEF Auditors, Strict, AuditsInv, Shape
            <4>2. Awaited(s) = {"audit"} \X Blocks
                BY <2>2, <3>3, <4>1 DEF Awaited
            <4>3. \A b \in Blocks : Audit(b) \in Awaited(s)
                BY <4>2 DEF Audit
            <4>4. \A b \in Blocks : Audit(b) \notin lost' /\ Result(Audit(b))' = "invalid" =>
                                      Audit(b) \notin lost /\ Result(Audit(b)) = "invalid"
                BY <1>8, <4>3 DEF Audit
            <4>5. /\ Asked(s) = {n \in {"repair"} \X Blocks : Audit(n[2]) \notin lost /\ Result(Audit(n[2])) = "invalid"}
                  /\ Asked(s)' = {n \in {"repair"} \X Blocks :
                                    Audit(n[2]) \notin lost' /\ Result(Audit(n[2]))' = "invalid"}
                BY <2>2, <3>3 DEF Asked, Audit, Result
            <4>6. \A n \in {"repair"} \X Blocks : n[2] \in Blocks
                OBVIOUS
            <4> QED BY <4>4, <4>5, <4>6
        <3> QED BY <2>2, <3>1, <3>2, <3>3 DEF Auditors
    <2>3. ASSUME NEW b \in Blocks, s = <<"audits", "mend", b>>, program \in Strict PROVE Asked(s)' \subseteq Asked(s)
        <3>1. surface => Audit(b) \in Awaited(s)
            BY <2>3 DEF Awaited, Strict, Audit
        <3>2. surface => Accepted(Audit(b)) /\ Audit(b) \in DOMAIN sess
            BY <1>2, <1>5, <1>7, <2>3, <3>1 DEF Decided
        <3>3. surface => Result(Audit(b))' = Result(Audit(b))
            BY <3>2 DEF Stands, Result, Audit
        <3>4. /\ Asked(s) = IF surface /\ Result(Audit(b)) = "invalid" THEN {Repair(b)} ELSE {}
              /\ Asked(s)' = IF surface /\ Result(Audit(b))' = "invalid" THEN {Repair(b)} ELSE {}
            BY <2>3 DEF Asked, Audit, Result, Repair
        <3> QED BY <3>3, <3>4
    <2> QED BY <1>1, <1>9, <2>1, <2>2, <2>3 DEF Late
<1> QED BY <1>6, <1>9

\* A pool is given the sessions its step asks for, and what each will read is there for good
LEMMA WantedReady ==
  ASSUME AuditsInv, Pooled, NEW s, s = Step
  PROVE  /\ Wanted \subseteq DOMAIN sess /\ \A n \in Wanted : Ready(n)
         /\ s[1] \in Late => Wanted = Asked(s)
         /\ s[2] = "pool" => \A n \in Wanted : n[1] = s[3]
<1>1. /\ at > 0 /\ Past(s) /\ s[2] \in {"pool", "mend"}
      /\ \/ program = "matrix" /\ s \in {<<"controls", "pool", "control">>, <<"controls", "mend", 0>>,
                                         <<"reviews", "pool", "review">>}
         \/ s = <<"judge", "pool", "judge">>
         \/ \E k \in Auditors(program) : s = <<"audits", "pool", k>>
         \/ program \in Strict /\ \E b \in Blocks : s = <<"audits", "mend", b>>
    BY PoolPlace DEF InPlace
<1>2. /\ DOMAIN sess = Sessions(program) /\ program \in {"matrix", "tournament", "mechanics", "replication"}
      /\ program \in Strict => lost = {} /\ program \in {"matrix", "tournament"}
      /\ program # "matrix" => surface
    BY DEF AuditsInv, Shape, GivenUp, Scripts, Strict
<1>3. 0 \notin Blocks /\ \A b \in Blocks : b # 0
    BY BlocksAre
<1>4. \A n \in Awaited(s) : n \notin lost => Accepted(n)
    BY <1>1 DEF Past, Decided
<1>5. CASE program = "matrix" /\ s = <<"controls", "pool", "control">>
    <2>1. Wanted = {<<"control", 0>>}
        BY <1>5 DEF Wanted
    <2> QED BY <1>2, <1>5, <2>1 DEF Sessions, Ready, Cited, Quoted, Late
<1>6. CASE program = "matrix" /\ s = <<"controls", "mend", 0>>
    <2>1. Wanted \subseteq {<<"repair", 0>>}
        BY <1>6 DEF Wanted
    <2>2. <<"audit", 0>> \notin DOMAIN sess /\ <<"repair", 0>> \in DOMAIN sess
        BY <1>2, <1>3, <1>6 DEF Sessions
    <2>3. Cited(<<"repair", 0>>) = {}
        BY <2>2 DEF Cited, Quoted
    <2> QED BY <1>6, <2>1, <2>2, <2>3 DEF Ready, Late
<1>7. CASE program = "matrix" /\ s = <<"reviews", "pool", "review">>
    <2>1. Wanted = {"review"} \X Blocks
        BY <1>7 DEF Wanted
    <2> QED BY <1>2, <1>7, <2>1 DEF Sessions, Ready, Cited, Quoted, Late
<1>8. CASE s = <<"judge", "pool", "judge">>
    <2>1. Wanted = {n \in {"judge"} \X Blocks : augmented[n[2]] # Base} /\ Wanted = Asked(s)
        BY <1>8 DEF Wanted, Asked
    <2>2. \A b \in Blocks : augmented[b] # <<>>
        BY <1>1, <1>8 DEF Past, Behind
    <2>3. {"judge"} \X Blocks \subseteq DOMAIN sess
        BY <1>2 DEF Sessions
    <2>4. \A n \in Wanted : n[1] = "judge" /\ n[2] \in Blocks /\ AddedTo(n[2])
        BY <2>1, <2>2 DEF AddedTo
    <2>5. \A n \in Wanted : Cited(n) = {}
        BY <2>4 DEF Cited, Quoted
    <2> QED BY <1>8, <2>1, <2>3, <2>4, <2>5 DEF Ready
<1>9. ASSUME NEW k \in Auditors(program), s = <<"audits", "pool", k>>
      PROVE  /\ Wanted \subseteq DOMAIN sess /\ Wanted = Asked(s)
             /\ \A n \in Wanted : n[1] = k /\ \A m \in Cited(n) : Accepted(m)
    <2>1. CASE k = "audit"
        <3>1. Wanted = (IF surface THEN {"audit"} \X Blocks ELSE {}) /\ Wanted = Asked(s)
            BY <1>9, <2>1 DEF Wanted, Asked
        <3>2. {"audit"} \X Blocks \subseteq DOMAIN sess
            BY <1>2, <1>9, <2>1 DEF Auditors, Sessions, Strict
        <3>3. \A n \in Wanted : n[1] = "audit"
            BY <3>1
        <3> QED BY <2>1, <3>1, <3>2, <3>3 DEF Cited, Quoted
    <2>2. CASE k = "discovery"
        <3>1. Wanted = {Discovery} /\ Wanted = Asked(s)
            BY <1>9, <2>2 DEF Wanted, Asked, Discovery
        <3>2. Discovery \in DOMAIN sess
            BY <1>2, <1>9, <2>2 DEF Auditors, Sessions, Strict, Discovery
        <3> QED BY <2>2, <3>1, <3>2 DEF Cited, Quoted, Discovery
    <2>3. CASE k = "coverage"
        <3>1. Wanted = (IF Claims THEN {"coverage"} \X Blocks ELSE {}) /\ Wanted = Asked(s)
            BY <1>9, <2>3 DEF Wanted, Asked
        <3>2. {"coverage"} \X Blocks \subseteq DOMAIN sess
            BY <1>2, <1>9, <2>3 DEF Auditors, Sessions, Strict
        <3>3. Discovery \in Awaited(s)
            BY <1>9, <2>3 DEF Awaited
        <3>4. Claims => Accepted(Discovery)
            BY <1>4, <3>3 DEF Claims, Discovery
        <3>5. \A n \in Wanted : n[1] = "coverage" /\ Claims
            BY <3>1
        <3>6. \A n \in Wanted : \A m \in Cited(n) : m = Discovery
            BY <3>5 DEF Cited, Quoted, Discovery
        <3> QED BY <2>3, <3>1, <3>2, <3>4, <3>5, <3>6
    <2>4. CASE k = "repair"
        <3>1. /\ Wanted = {n \in {"repair"} \X Blocks : Audit(n[2]) \notin lost /\ Result(Audit(n[2])) = "invalid"}
              /\ Wanted = Asked(s)
            BY <1>9, <2>4 DEF Wanted, Asked, Audit
        <3>2. surface /\ {"repair"} \X Blocks \subseteq DOMAIN sess
            BY <1>2, <1>9, <2>4 DEF Auditors, Sessions, Strict
        <3>3. Awaited(s) = {"audit"} \X Blocks
            BY <1>9, <2>4, <3>2 DEF Awaited
        <3>4. \A n \in Wanted : n[1] = "repair" /\ n[2] \in Blocks /\ Audit(n[2]) \notin lost
            BY <3>1
        <3>5. \A n \in Wanted : Accepted(Audit(n[2]))
            BY <1>4, <3>3, <3>4 DEF Audit
        <3>6. \A n \in Wanted : \A m \in Cited(n) : m = Audit(n[2])
            BY <3>4 DEF Cited, Quoted, Audit
        <3> QED BY <2>4, <3>1, <3>2, <3>4, <3>5, <3>6
    <2> QED BY <1>9, <2>1, <2>2, <2>3, <2>4 DEF Auditors
<1>10. ASSUME NEW b \in Blocks, s = <<"audits", "mend", b>>, program \in Strict
       PROVE  /\ Wanted \subseteq DOMAIN sess /\ Wanted = Asked(s)
              /\ \A n \in Wanted : n[1] = "repair" /\ \A m \in Cited(n) : Accepted(m)
    <2>1. Payload("audit", b)[1] = "repair" <=> Result(Audit(b)) = "invalid"
        BY DEF Payload, Audit
    <2>2. /\ Wanted = IF surface /\ Result(Audit(b)) = "invalid" THEN {Repair(b)} ELSE {}
          /\ Wanted = Asked(s)
        BY <1>3, <1>10, <2>1 DEF Wanted, Asked, Repair
    <2>3. Repair(b) \in DOMAIN sess
        BY <1>2, <1>10 DEF Sessions, Repair
    <2>4. surface => Audit(b) \in Awaited(s)
        BY <1>10 DEF Awaited, Strict, Audit
    <2>5. surface => Accepted(Audit(b))
        BY <1>2, <1>4, <1>10, <2>4
    <2>6. Cited(Repair(b)) \subseteq {Audit(b)} /\ Repair(b)[1] = "repair"
        BY DEF Cited, Quoted, Audit, Repair
    <2> QED BY <2>2, <2>3, <2>5, <2>6
<1>11. ASSUME NEW k \in Auditors(program) PROVE k # "judge"
    BY DEF Auditors
<1>12. ASSUME NEW k \in Auditors(program), s = <<"audits", "pool", k>>
       PROVE  (\A n \in Wanted : Ready(n)) /\ s[3] = k
    BY <1>9, <1>11, <1>12 DEF Ready
<1>13. ASSUME NEW b \in Blocks, s = <<"audits", "mend", b>>, program \in Strict
       PROVE  (\A n \in Wanted : Ready(n)) /\ s[2] # "pool"
    BY <1>10, <1>13 DEF Ready
<1> QED BY <1>1, <1>5, <1>6, <1>7, <1>8, <1>9, <1>10, <1>12, <1>13

\* Answers that are accepted stand, and so does what was admitted and judged on them
LEMMA HeldFiles ==
  ASSUME AuditsInv, Stands, UNCHANGED <<program, surface, augmented, judgment>>
  PROVE  JudgmentsStand' /\ AdmissionsStand'
<1>1. DOMAIN sess = Sessions(program) /\ DOMAIN augmented = Blocks
      /\ program \in {"matrix", "tournament", "mechanics", "replication"}
    BY DEF AuditsInv, Shape, Scripts
<1>2. \A b \in Blocks : Judge(b) \in DOMAIN sess
    BY <1>1 DEF Sessions, Judge
<1>3. JudgmentsStand'
    BY <1>1, <1>2 DEF AuditsInv, JudgmentsStand, AddedTo, Stands, Accepted
<1>4. ASSUME NEW b \in Blocks, Grounded(b) PROVE Grounded(b)'
    <2>1. CASE program = "mechanics"
        <3>1. Discovery \in DOMAIN sess /\ Coverage(b) \in DOMAIN sess
            BY <1>1, <2>1 DEF Sessions, Discovery, Coverage
        <3>2. /\ Accepted(Discovery) /\ Result(Discovery) = "claims"
              /\ Accepted(Coverage(b)) /\ Result(Coverage(b)) = "uncovered"
              /\ augmented[b] = Found(Coverage(b))
            BY <1>4, <2>1 DEF Grounded
        <3>3. sess'[Discovery] = sess[Discovery] /\ sess'[Coverage(b)] = sess[Coverage(b)]
            BY <3>1, <3>2 DEF Stands
        <3>4. Discovery' = Discovery /\ Coverage(b)' = Coverage(b)
            BY DEF Discovery, Coverage
        <3> QED BY <2>1, <3>2, <3>3, <3>4 DEF Grounded, Accepted, Result, Found
    <2>2. CASE program # "mechanics" /\ surface
        <3> DEFINE n == Payload("audit", b)
        <3>1. n \in {Audit(b), Repair(b)} /\ n = IF Result(Audit(b)) = "invalid" THEN Repair(b) ELSE Audit(b)
            BY DEF Payload, Audit, Repair
        <3>2. Audit(b) \in DOMAIN sess /\ Repair(b) \in DOMAIN sess
            BY <1>1, <2>2 DEF Sessions, Audit, Repair
        <3>3. /\ Accepted(Audit(b)) /\ Accepted(n)
              /\ augmented[b] = IF Result(n) = "finding" THEN Found(n) ELSE Base
            BY <1>4, <2>2 DEF Grounded
        <3>4. sess'[Audit(b)] = sess[Audit(b)] /\ sess'[n] = sess[n]
            BY <3>1, <3>2, <3>3 DEF Stands
        <3>5. n' = n
            BY <3>4 DEF Payload, Result, Audit
        <3>6. Accepted(Audit(b))' /\ Accepted(n)' /\ Result(n)' = Result(n) /\ Found(n)' = Found(n)
            BY <3>3, <3>4, <3>5 DEF Accepted, Result, Found, Audit
        <3>7. Grounded(b)' <=> /\ Accepted(Audit(b))' /\ Accepted(n)'
                               /\ augmented[b] = IF Result(n)' = "finding" THEN Found(n)' ELSE Base
            BY <2>2 DEF Grounded
        <3> HIDE DEF n
        <3> QED BY <3>3, <3>6, <3>7
    <2>3. CASE program # "mechanics" /\ ~surface
        BY <1>4, <2>3 DEF Grounded
    <2> QED BY <2>1, <2>2, <2>3
<1>5. AdmissionsStand'
    BY <1>4 DEF AuditsInv, AdmissionsStand
<1> QED BY <1>3, <1>5

\* What a step of run_session does to the files of its session and to its pool
LEMMA SessionEffect ==
  ASSUME PoolInv, Tallied, NEW n \in queue \union running, n \in DOMAIN sess, SessionMoves(n)
  PROVE  /\ ~Accepted(n) /\ UNCHANGED <<round, lost>> /\ (raising => raising')
         /\ DOMAIN sess' = DOMAIN sess /\ \A m \in DOMAIN sess : m # n => sess'[m] = sess[m]
         /\ StartSession(n) \/ AcceptSession(n) \/ FailSession(n) =>
              /\ SameAnswer(n) /\ sess'[n].result = sess[n].result
              /\ Accepted(n)' => sess'[n].accepted = sess'[n].by
         /\ \A result, about : n \in running /\ WriteResult(n, result, about) =>
              sess'[n].result = result /\ sess'[n].about = about /\ ~Accepted(n)'
         /\ InPool' \subseteq InPool /\ \A m \in InPool : m \in InPool' \/ (m = n /\ Accepted(m)')
         /\ program \in Strict /\ (failed # {} => raising) => (failed' # {} => raising')
<1>1. /\ sess = [m \in DOMAIN sess |-> sess[m]] /\ SessionOK(n)
      /\ written \subseteq running /\ ~Accepted(n) /\ queue \intersect running = {}
    BY DEF PoolInv
<1>2. ASSUME NEW result, NEW about, WriteResult(n, result, about)
      PROVE  /\ sess'[n].result = result /\ sess'[n].about = about /\ ~Accepted(n)'
             /\ DOMAIN sess' = DOMAIN sess /\ \A m \in DOMAIN sess : m # n => sess'[m] = sess[m]
             /\ UNCHANGED <<queue, running, failed, lost, raising, round>> /\ InPool' = InPool
             /\ n \in running \ written /\ written' = written \union {n}
    <2> DEFINE old == sess[n]
    <2>1. /\ sess' = [sess EXCEPT ![n].by = old.tries, ![n].result = result, ![n].about = about]
          /\ UNCHANGED <<queue, running, failed, lost, raising, round>>
          /\ n \in running \ written /\ written' = written \union {n}
        BY <1>2 DEF WriteResult
    <2>2. sess'[n] = [[[old EXCEPT !.by = old.tries] EXCEPT !.result = result] EXCEPT !.about = about]
        BY <1>1, <2>1, Zenon
    <2>3. DOMAIN sess' = DOMAIN sess /\ \A m \in DOMAIN sess : m # n => sess'[m] = sess[m]
        BY <1>1, <2>1
    <2>4. old = [tries |-> old.tries, accepted |-> old.accepted, by |-> old.by,
                 result |-> old.result, about |-> old.about]
        BY <1>1 DEF SessionOK
    <2> HIDE DEF old
    <2>5. sess'[n].result = result /\ sess'[n].about = about /\ sess'[n].accepted = old.accepted
        BY <2>2, <2>4
    <2>6. ~Accepted(n)'
        BY <1>1, <2>5 DEF Accepted, old
    <2>7. InPool' = InPool
        BY <2>1 DEF InPool
    <2> QED BY <2>1, <2>3, <2>5, <2>6, <2>7
<1>3. CASE StartSession(n)
    <2>1. /\ n \in queue /\ queue' = queue \ {n} /\ running' = running \union {n}
          /\ UNCHANGED <<failed, lost, raising, round>>
          /\ sess' = [sess EXCEPT ![n] = [sess[n] EXCEPT !.tries = sess[n].tries + 1]]
        BY <1>3 DEF StartSession
    <2>2. /\ sess'[n] = [sess[n] EXCEPT !.tries = sess[n].tries + 1]
          /\ DOMAIN sess' = DOMAIN sess /\ \A m \in DOMAIN sess : m # n => sess'[m] = sess[m]
        BY <1>1, <2>1
    <2>3. /\ sess'[n].by = sess[n].by /\ sess'[n].about = sess[n].about /\ sess'[n].result = sess[n].result
          /\ sess'[n].accepted = sess[n].accepted
        BY <1>1, <2>2 DEF SessionOK
    <2>4. InPool' = InPool
        BY <2>1 DEF InPool
    <2>5. n \notin running
        BY <1>1, <2>1
    <2> QED BY <1>1, <2>1, <2>2, <2>3, <2>4, <2>5 DEF Accepted, SameAnswer
<1>4. CASE AcceptSession(n)
    <2>1. /\ n \in written /\ queue' = queue /\ running' = running \ {n}
          /\ UNCHANGED <<failed, lost, raising, round>>
          /\ sess' = [sess EXCEPT ![n] = [sess[n] EXCEPT !.accepted = sess[n].tries]]
        BY <1>4 DEF AcceptSession
    <2>2. /\ sess'[n] = [sess[n] EXCEPT !.accepted = sess[n].tries]
          /\ DOMAIN sess' = DOMAIN sess /\ \A m \in DOMAIN sess : m # n => sess'[m] = sess[m]
        BY <1>1, <2>1
    <2>3. /\ sess'[n].by = sess[n].by /\ sess'[n].about = sess[n].about /\ sess'[n].result = sess[n].result
          /\ sess'[n].accepted = sess[n].tries
        BY <1>1, <2>2 DEF SessionOK
    <2>4. sess[n].by = sess[n].tries /\ sess[n].tries # 0
        BY <1>1, <2>1 DEF Tallied
    <2>5. InPool' \subseteq InPool /\ \A m \in InPool : m \in InPool' \/ m = n
        BY <2>1 DEF InPool
    <2>6. \A result, about : ~WriteResult(n, result, about)
        BY <1>2, <2>1
    <2> QED BY <1>1, <2>1, <2>2, <2>3, <2>4, <2>5, <2>6 DEF Accepted, SameAnswer
<1>5. CASE FailSession(n)
    <2>1. /\ n \in running \ written /\ running' = running \ {n} /\ failed' = failed \union {n}
          /\ UNCHANGED <<queue, written, sess, lost, round>>
        BY <1>5 DEF FailSession
    <2>2. InPool' = InPool
        BY <2>1 DEF InPool
    <2>3. (raising => raising') /\ (program \in Strict => raising')
        BY <1>5, Zenon DEF FailSession
    <2>4. \A result, about : ~WriteResult(n, result, about)
        BY <1>2, <2>1
    <2> QED BY <1>1, <2>1, <2>2, <2>3, <2>4 DEF Accepted, SameAnswer
<1>6. ASSUME NEW result, NEW about, n \in running, WriteResult(n, result, about)
      PROVE  ~StartSession(n) /\ ~AcceptSession(n) /\ ~FailSession(n)
    <2>1. /\ n \in running /\ n \notin queue /\ n \notin written /\ running' = running
        BY <1>1, <1>2, <1>6
    <2> QED BY <2>1 DEF StartSession, AcceptSession, FailSession
<1>7. CASE n \in running /\ \E result, about : WriteResult(n, result, about)
    <2>1. PICK result, about : WriteResult(n, result, about)
        BY <1>7
    <2> QED BY <1>1, <1>2, <1>6, <1>7, <2>1
<1> QED BY <1>3, <1>4, <1>5, <1>7 DEF SessionMoves

\* What a prompt quotes is what the session will be held to
LEMMA AboutIs ==
  ASSUME AuditsInv, NEW n \in DOMAIN sess
  PROVE  /\ \A m \in Cited(n) : m # n /\ About(n)[2] = sess[m].by
         /\ n[1] = "judge" => About(n)[2] = augmented[n[2]]
<1>1. DOMAIN sess = Sessions(program)
    BY DEF AuditsInv, Shape
<1>2. CASE n[1] = "coverage"
    BY <1>2 DEF Cited, Quoted, About
<1>3. CASE n[1] = "repair"
    <2>1. <<"audit", 0>> \notin DOMAIN sess
        <3>1. 0 \notin Blocks
            BY BlocksAre
        <3> QED BY <1>1, <3>1 DEF Sessions
    <2>2. n[2] = 0 => Cited(n) = {}
        BY <1>3, <2>1 DEF Cited, Quoted
    <2>3. Cited(n) \subseteq {<<"audit", n[2]>>}
        BY <1>3 DEF Cited, Quoted
    <2>4. n[2] # 0 => About(n)[2] = sess[<<"audit", n[2]>>].by
        BY <1>3 DEF About
    <2> QED BY <1>3, <2>2, <2>3, <2>4
<1>4. CASE n[1] \notin {"coverage", "repair"}
    <2>1. Cited(n) = {}
        BY <1>4 DEF Cited, Quoted
    <2>2. n[1] = "judge" => About(n)[2] = augmented[n[2]]
        BY DEF About
    <2> QED BY <2>1, <2>2
<1> QED BY <1>2, <1>3, <1>4

\* A session runs: what it answers is about what is there for good
LEMMA SessionTold ==
  ASSUME AnswersTold, PoolInv, Tallied, NEW n \in queue \union running, SessionMoves(n), UNCHANGED augmented,
         SameAnswer(n) \/ ((\A m \in Cited(n) : sess'[n].about[2] = sess[m].by)
                            /\ (n[1] = "judge" => sess'[n].about[2] = augmented[n[2]]))
  PROVE  AnswersTold'
<1>1. n \in DOMAIN sess /\ n \in InPool /\ Ready(n) /\ InPool \subseteq DOMAIN sess
    BY DEF AnswersTold, InPool
<1>2. /\ DOMAIN sess' = DOMAIN sess /\ \A m \in DOMAIN sess : m # n => sess'[m] = sess[m]
      /\ ~Accepted(n) /\ InPool' \subseteq InPool
      /\ Accepted(n)' => sess'[n].accepted = sess'[n].by
    BY <1>1, SessionEffect DEF SessionMoves
<1>3. \A m \in DOMAIN sess : Accepted(m) => m # n /\ sess'[m] = sess[m] /\ Accepted(m)'
    BY <1>2 DEF Accepted
<1>4. \A m : Cited(m)' = Cited(m) /\ Cited(m) \subseteq DOMAIN sess /\ (AddedTo(m)' <=> AddedTo(m))
    BY <1>2 DEF Cited, Quoted, AddedTo
<1>5. \A m : Ready(m) => Ready(m)'
    BY <1>3, <1>4 DEF Ready
<1>6. ASSUME NEW m \in DOMAIN sess, m # n PROVE Told(m)' /\ (Accepted(m)' => sess'[m].accepted = sess'[m].by)
    <2>1. Told(m) /\ (Accepted(m) => sess[m].accepted = sess[m].by) /\ sess'[m] = sess[m]
        BY <1>2, <1>6 DEF AnswersTold
    <2> QED BY <1>3, <1>4, <2>1 DEF Told, Accepted
<1>7. Told(n)'
    <2>1. Told(n) /\ (\A m \in Cited(n) : Accepted(m)) /\ (n[1] = "judge" => AddedTo(n[2]))
        BY <1>1 DEF AnswersTold, Ready
    <2>2. \A m \in Cited(n) : Accepted(m)' /\ sess'[m].by = sess[m].by
        BY <1>3, <1>4, <2>1
    <2>3. /\ Cited(n)' = Cited(n) /\ (AddedTo(n[2])' <=> AddedTo(n[2]))
          /\ augmented'[n[2]] = augmented[n[2]]
        BY <1>4
    <2>4. Told(n)' <=>
            (sess'[n].by # 0 =>
               /\ \A m \in Cited(n) : Accepted(m)' /\ sess'[n].about[2] = sess'[m].by
               /\ n[1] = "judge" => AddedTo(n[2]) /\ sess'[n].about[2] = augmented[n[2]])
        BY <2>3 DEF Told
    <2>5. CASE SameAnswer(n)
        <3>1. sess[n].by # 0 =>
                /\ \A m \in Cited(n) : sess[n].about[2] = sess[m].by
                /\ n[1] = "judge" => AddedTo(n[2]) /\ sess[n].about[2] = augmented[n[2]]
            BY <2>1 DEF Told
        <3>2. sess'[n].about[2] = sess[n].about[2] /\ sess'[n].by = sess[n].by
            BY <2>5 DEF SameAnswer
        <3> QED BY <2>2, <2>4, <3>1, <3>2
    <2>6. CASE /\ \A m \in Cited(n) : sess'[n].about[2] = sess[m].by
               /\ n[1] = "judge" => sess'[n].about[2] = augmented[n[2]]
        BY <2>1, <2>2, <2>4, <2>6
    <2> QED BY <2>5, <2>6
<1> QED BY <1>1, <1>2, <1>5, <1>6, <1>7 DEF AnswersTold

\* In the harnesses of the gaps
LEMMA AuditsTold ==
  ASSUME AuditsInv, PoolInv, Tallied, NEW n \in queue \union running, RunSession(n, Answers, About),
         Pooled, UNCHANGED <<program, surface, augmented, judgment>>
  PROVE  AnswersTold' /\ GivenUp'
<1>1. n \in DOMAIN sess /\ n \in InPool /\ SessionMoves(n)
    BY DEF AuditsInv, AnswersTold, InPool, RunSession, SessionMoves
<1>2. SameAnswer(n) \/ sess'[n].about = About(n)
    BY <1>1, SessionEffect DEF RunSession
<1>3. /\ \A m \in Cited(n) : About(n)[2] = sess[m].by
      /\ n[1] = "judge" => About(n)[2] = augmented[n[2]]
    BY <1>1, AboutIs
<1>4. SameAnswer(n) \/ ((\A m \in Cited(n) : sess'[n].about[2] = sess[m].by)
                         /\ (n[1] = "judge" => sess'[n].about[2] = augmented[n[2]]))
    <2>1. sess'[n].about = About(n) => sess'[n].about[2] = About(n)[2]
        OBVIOUS
    <2> HIDE DEF About
    <2> QED BY <1>2, <1>3, <2>1
<1>5. AnswersTold'
    BY <1>1, <1>4, SessionTold DEF AuditsInv
<1>6. GivenUp'
    <2>1. lost \intersect InPool = {}
        BY PoolPlace
    <2>2. /\ DOMAIN sess' = DOMAIN sess /\ \A m \in DOMAIN sess : m # n => sess'[m] = sess[m]
          /\ lost' = lost /\ (program \in Strict /\ (failed # {} => raising) => (failed' # {} => raising'))
        BY <1>1, SessionEffect
    <2>3. \A m \in lost : m \in DOMAIN sess /\ ~Accepted(m) /\ m # n
        BY <1>1, <2>1 DEF AuditsInv, GivenUp
    <2>4. \A m \in lost : ~Accepted(m)'
        BY <2>2, <2>3 DEF Accepted
    <2> QED BY <2>2, <2>3, <2>4 DEF AuditsInv, GivenUp
<1> QED BY <1>5, <1>6

\* A step inside a pool
LEMMA AuditsPooled ==
  ASSUME AuditsInv, PoolInv, Tallied, Stands, Pooled, UNCHANGED <<gapVars, blockVars, program, script, at, reached>>,
         \/ Submit(Wanted) \/ CancelQueued \/ (NextRound /\ program \notin Strict)
         \/ \E n \in queue \union running : RunSession(n, Answers, About)
  PROVE  AuditsInv'
<1>0. UNCHANGED <<surface, augmented, judgment>>
    BY DEF gapVars, blockVars
<1>1. PICK s : s = Step
    OBVIOUS
<1>2. Step' = s /\ at > 0 /\ InPlace(s) /\ DOMAIN sess' = DOMAIN sess
    BY <1>1, PoolPlace DEF Step, Stands
<1>3. JudgmentsStand' /\ AdmissionsStand'
    BY <1>0, HeldFiles
<1>4. Shape'
    BY <1>0, <1>2 DEF AuditsInv, Shape
<1>5. \A n \in DOMAIN sess : Accepted(n) => Accepted(n)'
    BY DEF Stands, Accepted
<1>6. InPool \subseteq DOMAIN sess /\ \A n \in InPool : Ready(n)
    BY DEF AuditsInv, AnswersTold
<1>7. \A m : Ready(m) => Ready(m)'
    BY <1>0, <1>2, <1>5 DEF Ready, Cited, Quoted, AddedTo
<1>8. s[2] = "pool" => \A n \in InPool : n[1] = s[3]
    BY <1>1, <1>2 DEF AuditsInv, Holding
<1>9. s[1] \in Late /\ round # 0 /\ ~raising => \A n \in Asked(s) : Accepted(n) \/ n \in InPool
    BY <1>1, <1>2 DEF AuditsInv, Holding
<1>10. ASSUME sess' = sess, InPool' \subseteq InPool \union Wanted
       PROVE  AnswersTold'
    <2>1. InPool' \subseteq DOMAIN sess /\ \A n \in InPool' : Ready(n)
        BY <1>1, <1>6, <1>10, WantedReady
    <2>2. \A n \in DOMAIN sess : Told(n)' <=> Told(n)
        BY <1>0, <1>10 DEF Told, Accepted, Cited, Quoted, AddedTo
    <2> QED BY <1>2, <1>7, <1>10, <2>1, <2>2 DEF AuditsInv, AnswersTold, Accepted
<1>11. ASSUME sess' = sess, lost' = lost, program \in Strict => (failed' # {} => failed' = failed /\ raising' = raising)
       PROVE  GivenUp'
    BY <1>0, <1>11 DEF AuditsInv, GivenUp, Accepted
<1>12. /\ AnswersTold' /\ GivenUp' /\ lost' = lost
       /\ s[2] = "pool" => \A n \in InPool' : n[1] = s[3]
       /\ s[1] \in Late /\ round' # 0 /\ ~raising' => \A n \in Asked(s) : Accepted(n)' \/ n \in InPool'
    <2>1. CASE Submit(Wanted)
        <3>1. /\ round = 0 /\ queue' = Unaccepted(Wanted) /\ UNCHANGED <<sess, running, failed, lost, raising>>
            BY <2>1 DEF Submit, NoPool
        <3>2. InPool' = Unaccepted(Wanted) /\ Unaccepted(Wanted) \subseteq Wanted
            BY <3>1 DEF InPool, Unaccepted, PoolInv
        <3>3. AnswersTold' /\ GivenUp'
            BY <1>10, <1>11, <3>1, <3>2
        <3>4. s[2] = "pool" => \A n \in InPool' : n[1] = s[3]
            BY <1>1, <3>2, WantedReady
        <3>5. \A n \in Wanted : Accepted(n)' \/ n \in InPool'
            BY <3>1, <3>2 DEF Unaccepted, Accepted
        <3>6. s[1] \in Late => Wanted = Asked(s)
            BY <1>1, WantedReady
        <3> QED BY <3>1, <3>3, <3>4, <3>5, <3>6
    <2>2. CASE CancelQueued
        <3>1. raising /\ queue' = {} /\ UNCHANGED <<sess, running, failed, lost, raising>>
            BY <2>2 DEF CancelQueued
        <3>2. InPool' \subseteq InPool
            BY <3>1 DEF InPool
        <3>3. AnswersTold' /\ GivenUp'
            BY <1>10, <1>11, <3>1, <3>2
        <3> QED BY <1>8, <3>1, <3>2, <3>3
    <2>3. CASE NextRound /\ program \notin Strict
        <3>1. /\ ~raising /\ round # 0 /\ queue = {} /\ running = {} /\ queue' = failed /\ failed' = {}
              /\ UNCHANGED <<sess, running, lost, raising>>
            BY <2>3 DEF NextRound, PoolEmpty, PoolInv
        <3>2. InPool' = InPool
            BY <3>1 DEF InPool
        <3>3. AnswersTold' /\ GivenUp'
            BY <1>10, <1>11, <3>1, <3>2
        <3>4. s[1] \in Late => \A n \in Asked(s) : Accepted(n)' \/ n \in InPool'
            BY <1>9, <3>1, <3>2 DEF Accepted
        <3> QED BY <1>8, <3>1, <3>2, <3>3, <3>4
    <2>4. ASSUME NEW n \in queue \union running, RunSession(n, Answers, About)
          PROVE  /\ AnswersTold' /\ GivenUp' /\ lost' = lost
                 /\ s[2] = "pool" => \A m \in InPool' : m[1] = s[3]
                 /\ s[1] \in Late /\ round' # 0 /\ ~raising' => \A m \in Asked(s) : Accepted(m)' \/ m \in InPool'
        <3>1. n \in DOMAIN sess
            BY <1>6 DEF InPool
        <3>2. /\ UNCHANGED <<round, lost>> /\ (raising => raising')
              /\ InPool' \subseteq InPool /\ \A m \in InPool : m \in InPool' \/ Accepted(m)'
            BY <2>4, <3>1, SessionEffect DEF RunSession, SessionMoves
        <3>3. AnswersTold' /\ GivenUp'
            BY <1>0, <2>4, AuditsTold
        <3>4. ASSUME s[1] \in Late, round' # 0, ~raising', NEW m \in Asked(s) PROVE Accepted(m)' \/ m \in InPool'
            <4>1. Accepted(m) \/ m \in InPool
                BY <1>9, <3>2, <3>4
            <4>2. m \in DOMAIN sess
                BY <1>1, <3>4, WantedReady
            <4> QED BY <1>5, <3>2, <4>1, <4>2
        <3> QED BY <1>8, <3>2, <3>3, <3>4
    <2> QED BY <2>1, <2>2, <2>3, <2>4
<1>13. Past(s)' /\ (s[1] \in Late => Asked(s)' \subseteq Asked(s))
    BY <1>0, <1>1, <1>12, PlaceStays
<1>14. InPlace(s)'
    <2>1. Spent(s)' = Spent(s)
        BY DEF Spent
    <2> QED BY <1>2, <1>12, <1>13, <2>1 DEF InPlace
<1>15. OnTheWay'
    BY <1>0, <1>2, <1>14 DEF AuditsInv, OnTheWay
<1>16. Holding'
    <2>1. ASSUME s[1] \in Late, round' # 0, ~raising', NEW n \in Asked(s)' PROVE Accepted(n)' \/ n \in InPool'
        BY <1>12, <1>13, <2>1
    <2> QED BY <1>2, <1>12, <2>1 DEF Holding
<1> QED BY <1>3, <1>4, <1>12, <1>15, <1>16 DEF AuditsInv

\* A pool returns: all it was given is accepted or given up
LEMMA AuditsReturned ==
  ASSUME AuditsInv, PoolInv, PoolInv', PoolReturns, UNCHANGED <<gapVars, blockVars>>
  PROVE  AuditsInv'
<1>0. /\ Pooled /\ round > 0 /\ queue = {} /\ running = {} /\ ~raising /\ round' = 0 /\ Advance
      /\ lost' = lost \union failed /\ failed' = {}
      /\ UNCHANGED <<program, script, sess, queue, running, raising, surface, augmented, judgment>>
    BY DEF PoolReturns, Returns, PoolEmpty, gapVars, blockVars
<1>1. PICK s : s = Step
    OBVIOUS
<1>2. at > 0 /\ InPlace(s) /\ s[2] \in {"pool", "mend"} /\ round # 0 /\ InPool = failed /\ InPool' = {}
    BY <1>0, <1>1, PoolPlace DEF InPool, PoolInv
<1>3. Stands
    BY <1>0 DEF Stands
<1>4. JudgmentsStand' /\ AdmissionsStand'
    BY <1>0, <1>3, HeldFiles
<1>5. AnswersTold'
    <2>1. \A n : Told(n)' <=> Told(n)
        BY <1>0 DEF Told, Accepted, Cited, Quoted, AddedTo
    <2> QED BY <1>0, <1>2, <2>1 DEF AuditsInv, AnswersTold, Accepted
<1>6. GivenUp' /\ (program \in Strict => lost' = {})
    <2>1. \A n \in failed : n \in DOMAIN sess /\ ~Accepted(n)
        BY <1>2 DEF AuditsInv, AnswersTold, PoolInv
    <2>2. program \in Strict => failed = {} /\ lost = {}
        BY <1>0 DEF AuditsInv, GivenUp
    <2> QED BY <1>0, <2>1, <2>2 DEF AuditsInv, GivenUp, Accepted
<1>7. Past(s)' /\ (s[1] \in Late => Asked(s)' \subseteq Asked(s))
    BY <1>0, <1>1, <1>3, PlaceStays
<1>8. Done(s)'
    <2>1. ASSUME s[1] \in {"audits", "judge"}, NEW n \in Asked(s)' PROVE Decided(n)'
        <3>1. Accepted(n) \/ n \in failed
            BY <1>0, <1>1, <1>2, <1>7, <2>1 DEF AuditsInv, Holding, Late
        <3> QED BY <1>0, <3>1 DEF Decided, Accepted
    <2>2. ASSUME s[1] \in Late, s[2] = "pool", NEW n \in lost' PROVE n[1] \in Spent(s) \union {s[3]}
        BY <1>0, <1>1, <1>2, <2>2 DEF AuditsInv, Holding, InPlace
    <2>3. Spent(s)' = Spent(s)
        BY DEF Spent
    <2>4. s[2] # "admit" /\ s # <<"judge", "tie">> /\ s[2] # "freeze"
        BY <1>2
    <2> QED BY <1>0, <1>6, <2>1, <2>2, <2>3, <2>4 DEF Done
<1>9. DOMAIN augmented' = Blocks /\ DOMAIN judgment' = Blocks
    BY <1>0 DEF AuditsInv, Shape
<1> QED BY <1>0, <1>1, <1>2, <1>4, <1>5, <1>6, <1>7, <1>8, <1>9, AuditsBetween

LEMMA AuditsKept ==
  ASSUME AuditsInv, PoolInv, PoolInv', Tallied, GapNext PROVE AuditsInv'
<1>1. CASE Driven
    BY <1>1, AuditsDriven
<1>2. CASE freeze_sources
    BY <1>2, AuditsFrozen
<1>3. CASE setup \/ tournament_setup \/ replication_setup \/ mechanics_setup \/ control_cases \/ reviews
    <2>1. /\ at > 0 /\ Step[2] \in {"copy", "evidence", "score", "keep"} /\ Alone /\ (Advance \/ Raise)
          /\ UNCHANGED <<augmented, judgment, surface>>
        BY <1>3 DEF setup, tournament_setup, replication_setup, mechanics_setup, CopyReviews, control_cases,
                    reviews, Doing, gapVars, blockVars
    <2> QED BY <2>1, AuditsPassed
<1>4. CASE summarize \/ tournament_summarize \/ replication_summarize \/ mechanics_summarize
    <2>1. /\ at > 0 /\ Step[2] = "summarize" /\ Alone /\ Advance /\ UNCHANGED <<augmented, judgment, surface>>
        BY <1>4 DEF summarize, tournament_summarize, replication_summarize, mechanics_summarize, Decide, Doing, gapVars
    <2> QED BY <2>1, AuditsPassed
<1>5. CASE audits
    BY <1>5, AuditsAdmitted
<1>6. CASE tie_judgment
    BY <1>6, AuditsTied
<1>7. CASE judge \/ tournament_judge \/ replication_judge \/ mechanics_judge
    BY <1>7, AuditsJudged
<1>8. CASE GapPool
    <2>1. UNCHANGED <<gapVars, blockVars>>
        BY <1>8 DEF GapPool
    <2>2. Pooled /\ (Pool(Wanted, run_session) \/ (PoolRetries /\ program \notin Strict) \/ PoolReturns)
        BY <1>8 DEF GapPool, run_sessions, replication_run_resilient, mechanics_run_resilient, Strict,
                    Pool, PoolRetries, PoolReturns
    <2>3. Stands
        BY <1>8, PoolsMove, PoolMovesKeep DEF GapPool
    <2>4. CASE Pool(Wanted, run_session)
        <3>1. /\ UNCHANGED <<program, script, at, reached>>
              /\ \/ Submit(Wanted) \/ CancelQueued
                 \/ \E n \in queue \union running : RunSession(n, Answers, About)
            BY <2>4 DEF Pool, run_session, phaseVars
        <3> QED BY <2>1, <2>2, <2>3, <3>1, AuditsPooled
    <2>5. CASE PoolRetries /\ program \notin Strict
        BY <2>1, <2>2, <2>3, <2>5, AuditsPooled DEF PoolRetries, phaseVars
    <2>6. CASE PoolReturns
        BY <2>1, <2>6, AuditsReturned
    <2> QED BY <2>2, <2>4, <2>5, <2>6
<1>9. CASE EditSources
    BY <1>9, AuditsEdited
<1> QED BY <1>1, <1>2, <1>3, <1>4, <1>5, <1>6, <1>7, <1>8, <1>9 DEF GapNext

AuditsSafe == program # "screen" => AuditsInv

LEMMA AuditsStart == Init => AuditsSafe
<1> SUFFICES ASSUME Init, program # "screen" PROVE AuditsInv
    BY DEF AuditsSafe
<1>1. /\ program \in DOMAIN Scripts /\ script = Scripts[program] /\ (program # "matrix" => surface)
      /\ HarnessInit(Sessions(program)) /\ BlocksInit(Blocks)
    BY DEF Init, GapInit, ScreenInit
<1>2. /\ at = 0 /\ reached = {} /\ round = 0 /\ queue = {} /\ running = {} /\ failed = {} /\ lost = {}
      /\ sess = [n \in Sessions(program) |-> NoSession]
      /\ augmented = [b \in Blocks |-> <<>>] /\ judgment = [b \in Blocks |-> NoJudgment]
    BY <1>1 DEF HarnessInit, BlocksInit
<1>3. \A n \in DOMAIN sess : sess[n].by = 0 /\ ~Accepted(n)
    BY <1>2 DEF NoSession, Accepted
<1>4. Len(script) \in Nat
    BY <1>1, InPath DEF Path
<1>5. Shape /\ OnTheWay /\ Holding /\ GivenUp
    BY <1>1, <1>2, <1>3, <1>4 DEF Shape, OnTheWay, Holding, GivenUp
<1>6. AnswersTold
    BY <1>2, <1>3 DEF AnswersTold, Told, InPool
<1>7. JudgmentsStand
    <2>1. \A b \in Blocks : judgment[b] = NoJudgment /\ NoJudgment.verdict = "none"
        BY <1>2 DEF NoJudgment
    <2> QED BY <1>2, <2>1 DEF JudgmentsStand
<1>8. AdmissionsStand
    BY <1>2 DEF AdmissionsStand
<1> QED BY <1>5, <1>6, <1>7, <1>8 DEF AuditsInv

LEMMA AuditsKeep == QaInit /\ [][QaNext]_<<vars, batteryVars, tool>> => []AuditsSafe
<1>1. QaInit => AuditsSafe
    BY AuditsStart DEF QaInit
<1>2. HarnessInv /\ AuditsSafe /\ [QaNext]_<<vars, batteryVars, tool>> => AuditsSafe'
    <2> SUFFICES ASSUME HarnessInv, AuditsSafe, [Next]_vars, program' # "screen" PROVE AuditsInv'
        BY DEF QaNext, AuditsSafe
    <2>1. program # "screen" /\ AuditsInv
        BY SameProgram DEF AuditsSafe
    <2>2. PoolInv /\ PoolInv' /\ Tallied
        BY HarnessStepKeeps DEF HarnessInv
    <2>3. CASE GapNext
        BY <2>1, <2>2, <2>3, AuditsKept
    <2>4. CASE UNCHANGED vars
        <3>1. UNCHANGED <<program, script, at, reached, sess, queue, running, failed, lost, raising, round,
                          augmented, judgment, surface>>
            BY <2>4 DEF vars, harnessVars, phaseVars, poolVars, gapVars, blockVars
        <3>2. GivenUp' /\ AnswersTold' /\ JudgmentsStand' /\ AdmissionsStand'
            BY <2>1, <3>1, DataStay
        <3>3. Step' = Step /\ InPool' = InPool /\ Shape'
            BY <2>1, <3>1 DEF Step, InPool, AuditsInv, Shape
        <3>4. \A s : (InPlace(s)' <=> InPlace(s)) /\ Asked(s)' = Asked(s)
            BY <3>1 DEF InPlace, Past, Behind, Awaited, Asked, Decided, Accepted, Result, Claims, Tied
        <3>5. OnTheWay' /\ Holding'
            BY <2>1, <3>1, <3>3, <3>4 DEF AuditsInv, OnTheWay, Holding, Pooled, Doing, Accepted
        <3> QED BY <3>2, <3>3, <3>5 DEF AuditsInv
    <2> QED BY <2>1, <2>3, <2>4 DEF Next
<1> QED BY <1>1, <1>2, HarnessKeeps, PTL

\* What the four gap harnesses add to a review
LEMMA AuditsFailClosed == ASSUME AuditsInv PROVE FailClosed
<1> SUFFICES ASSUME NEW b \in DOMAIN augmented, Len(augmented[b]) = 2, NEW f \in augmented[b][2], NEW n, n = f[1]
             PROVE  /\ sess[n].accepted = f[2] /\ sess[n].by = f[2]
                    /\ IF f[3] = 0 THEN Result(n) \in {"finding", "uncovered", "text"}
                       ELSE <<f[3], "confirmed">> \in Result(n)
                    /\ \A m \in Quoted(n) : sess[m].accepted = sess[m].by /\ sess[n].about[2] = sess[m].by
    BY DEF FailClosed
<1>1. /\ b \in Blocks /\ DOMAIN sess = Sessions(program)
      /\ program \in {"matrix", "tournament", "mechanics", "replication"}
    BY DEF AuditsInv, Shape, Scripts
<1>2. augmented[b] # <<>> /\ augmented[b] # Base
    <2>1. Len(<<>>) = 0 /\ Len(Base) = 1
        BY DEF Base
    <2> QED BY <2>1
<1>3. Grounded(b)
    BY <1>1, <1>2 DEF AuditsInv, AdmissionsStand
<1>4. PICK k : /\ augmented[b] = Found(k) /\ Accepted(k) /\ Result(k) \in {"finding", "uncovered"}
               /\ k \in DOMAIN sess /\ \A m \in Quoted(k) : m \in DOMAIN sess
    <2>1. CASE program = "mechanics"
        <3>1. /\ augmented[b] = Found(Coverage(b)) /\ Accepted(Coverage(b)) /\ Result(Coverage(b)) = "uncovered"
            BY <1>3, <2>1 DEF Grounded
        <3>2. Coverage(b) \in DOMAIN sess /\ Quoted(Coverage(b)) = {Discovery} /\ Discovery \in DOMAIN sess
            BY <1>1, <2>1 DEF Sessions, Coverage, Discovery, Quoted
        <3> QED BY <3>1, <3>2
    <2>2. CASE program # "mechanics"
        <3> DEFINE p == Payload("audit", b)
        <3>1. /\ augmented[b] = Found(p) /\ Accepted(p) /\ Result(p) = "finding"
            BY <1>2, <1>3, <2>2 DEF Grounded
        <3>2. p = Audit(b) \/ p = Repair(b)
            BY DEF Payload, Audit, Repair
        <3>3. /\ Audit(b) \in DOMAIN sess /\ Repair(b) \in DOMAIN sess
              /\ Quoted(Audit(b)) = {} /\ Quoted(Repair(b)) = {Audit(b)}
            BY <1>1, <2>2 DEF Sessions, Audit, Repair, Quoted
        <3> HIDE DEF p
        <3> QED BY <3>1, <3>2, <3>3
    <2> QED BY <2>1, <2>2
<1>5. f = <<k, sess[k].by, 0>> /\ n = k
    BY <1>4, AddedIs DEF Found
<1>6. sess[k].accepted = sess[k].by /\ sess[k].by # 0
    BY <1>4 DEF AuditsInv, AnswersTold, Accepted
<1>7. \A m \in Quoted(k) : sess[m].accepted = sess[m].by /\ sess[k].about[2] = sess[m].by
    <2>1. Told(k)
        BY <1>4 DEF AuditsInv, AnswersTold
    <2>2. \A m \in Quoted(k) : m \in Cited(k)
        BY <1>4 DEF Cited
    <2> QED BY <1>4, <1>6, <2>1, <2>2 DEF Told, AuditsInv, AnswersTold
<1> QED BY <1>4, <1>5, <1>6, <1>7

LEMMA AuditsStand == ASSUME AuditsInv PROVE JudgedAsItStands
<1>1. DOMAIN judgment = DOMAIN augmented
    BY DEF AuditsInv, Shape
<1> QED BY <1>1 DEF AuditsInv, JudgmentsStand, JudgedAsItStands, Judge

-----------------------------------------------------------------------------
(* The screen: what its review was added, and what was judged *)

ReviewIndex == <<"index", 0>>
AfterReviews == {"reviews", "approaches", "assemble", "judge", "audit"}
AfterAssembly == {"assemble", "judge", "audit"}

\* The sessions an approach is given all of before it is put together, and the place of their pool
ConsultedAt ==
  CASE approach = "upfront-probes-only" -> 9
    [] approach = "parallel-independent-challenger" -> 11
    [] approach = "late-batch-confirmed" -> 12
    [] approach = "coverage-filtered-per-risk" -> 16
    [] approach = "test-scenario-confirmed" -> 17
    [] OTHER -> 13

Consulted ==
  IF approach = "upfront-probes-only" THEN {<<"upfront", 0>>} ELSE IF sealed = {} THEN {} ELSE
  CASE approach = "parallel-independent-challenger" -> {<<"parallel", 0>>}
    [] approach = "late-batch-confirmed" -> {<<"batch", 0>>}
    [] approach = "coverage-filtered-per-risk" -> {"coverage-verify"} \X (sealed \ CoverageMap.covered)
    [] approach = "test-scenario-confirmed" -> {"test-scenario"} \X sealed
    [] OTHER -> {"per-risk"} \X sealed

\* The findings are those of the accepted index of the review
Indexed == Accepted(ReviewIndex) /\ findings = Result(ReviewIndex).findings

\* The review as the approach puts it together
Assembly ==
  IF approach = "upfront-probes-only" THEN Found(<<"upfront", 0>>)
  ELSE IF approach = "conditional-no-findings-challenger" /\ findings THEN Base
  ELSE Appended(combined_candidate)

\* What the answer of a session can be
WellFormed(n) ==
  sess[n].by # 0 =>
    /\ n = EdgeIndex => \E k \in 0 .. Cardinality(Risks) : Result(n).risks = 1 .. k
    /\ n = <<"upfront", 0>> => Result(n) = "text"
    /\ n[1] \in PerRisk \union {"parallel", "batch"} => \A d \in Result(n) : d = <<d[1], d[2]>>

ScreenFiles ==
  /\ approach \in AUTOMATIC_APPROACHES /\ DOMAIN judgment = {Reviewer}
  /\ augmented = [b \in {Reviewer} |-> augmented[b]]
  /\ DOMAIN sess = {n \in ScreenSessions :
                      n[1] \in Kinds \union {"edge", "edge-index", "review", "index", "judge", "risk-audit"}}
  /\ at = 0 => round = 0
  /\ \A n \in DOMAIN sess : WellFormed(n)

\* Where the harness is, what it builds on is there
ScreenPlaced ==
  /\ at = 8 => Accepted(ReviewIndex)
  /\ at > 8 \/ reached \intersect AfterReviews # {} => Indexed
  /\ at > ConsultedAt \/ reached \intersect AfterMapping # {} => \A n \in Consulted : Accepted(n)
  /\ at > 18 \/ reached \intersect AfterAssembly # {} => augmented[Reviewer] # <<>>
  /\ at \in 20 .. 21 /\ augmented[Reviewer] = Base => judgment[Reviewer] # NoJudgment
  /\ at = 21 /\ augmented[Reviewer] # Base => Accepted(Judge(Reviewer))

\* A pool holds what it was given until that is accepted
ScreenHeld ==
  round # 0 /\ ~raising =>
    /\ at = 7 => Held(ReviewIndex)
    /\ at = ConsultedAt => \A n \in Consulted : Held(n)
    /\ at = 20 /\ augmented[Reviewer] # Base => Held(Judge(Reviewer))

\* A review that is there is what the approach would put together once more
ReviewStands ==
  augmented[Reviewer] # <<>> =>
    Indexed /\ (\A n \in Consulted : Accepted(n)) /\ augmented[Reviewer] = Assembly

ScreenMore == ScreenFiles /\ ScreenPlaced /\ ScreenHeld /\ ReviewStands /\ AnswersTold /\ JudgmentsStand

\* The sessions an approach is put together from are sessions of the run
LEMMA ConsultedKnown ==
  ASSUME ScreenInv, ScreenFiles, Tallied, Briefed
  PROVE  /\ sealed \subseteq Risks /\ 0 \notin sealed
         /\ Consulted \subseteq DOMAIN sess
         /\ Sources \subseteq Consulted \/ approach = "upfront-probes-only"
<1>1. EdgeIndex \in DOMAIN sess /\ sess[EdgeIndex].by # 0 /\ WellFormed(EdgeIndex)
    BY DEF ScreenInv, ScreenFiles, Tallied, Briefed
<1>2. PICK k \in 0 .. Cardinality(Risks) : sealed = 1 .. k
    BY <1>1 DEF WellFormed, Briefed
<1>3. Cardinality(Risks) \in Nat /\ Risks = 1 .. Cardinality(Risks)
    BY RisksAssumption, FS_CardinalityType
<1>4. sealed \subseteq Risks /\ 0 \notin sealed
    BY <1>2, <1>3
<1>5. Consulted \subseteq DOMAIN sess
    <2>1. CASE approach = "upfront-probes-only"
        <3>1. Consulted = {<<"upfront", 0>>} /\ "upfront" \in Kinds
            BY <2>1 DEF Consulted, Kinds
        <3> QED BY <3>1 DEF ScreenFiles, ScreenSessions
    <2>2. CASE approach = "parallel-independent-challenger"
        <3>1. Consulted \subseteq {<<"parallel", 0>>} /\ "parallel" \in Kinds
            BY <2>2 DEF Consulted, Kinds
        <3> QED BY <3>1 DEF ScreenFiles, ScreenSessions
    <2>3. CASE approach = "late-batch-confirmed"
        <3>1. Consulted \subseteq {<<"batch", 0>>} /\ "batch" \in Kinds
            BY <2>3 DEF Consulted, Kinds
        <3> QED BY <3>1 DEF ScreenFiles, ScreenSessions
    <2>4. CASE approach = "coverage-filtered-per-risk"
        <3>1. Consulted \subseteq {"coverage-verify"} \X Risks /\ "coverage-verify" \in Kinds
            BY <1>4, <2>4 DEF Consulted, Kinds
        <3> QED BY <3>1 DEF ScreenFiles, ScreenSessions, PerRisk
    <2>5. CASE approach = "test-scenario-confirmed"
        <3>1. Consulted \subseteq {"test-scenario"} \X Risks /\ "test-scenario" \in Kinds
            BY <1>4, <2>5 DEF Consulted, Kinds
        <3> QED BY <3>1 DEF ScreenFiles, ScreenSessions, PerRisk
    <2>6. CASE approach \notin {"upfront-probes-only", "parallel-independent-challenger", "late-batch-confirmed",
                                "coverage-filtered-per-risk", "test-scenario-confirmed"}
        <3>1. Consulted \subseteq {"per-risk"} \X Risks /\ "per-risk" \in Kinds
            BY <1>4, <2>6 DEF Consulted, Kinds
        <3> QED BY <3>1 DEF ScreenFiles, ScreenSessions, PerRisk
    <2> QED BY <2>1, <2>2, <2>3, <2>4, <2>5, <2>6
<1>6. ASSUME approach # "upfront-probes-only" PROVE Sources \subseteq Consulted
    BY <1>6 DEF Sources, Consulted
<1> QED BY <1>4, <1>5, <1>6

\* Once they are accepted, the approach comes to the same review
LEMMA ConsultedStay ==
  ASSUME ScreenInv, ScreenFiles, Tallied, Briefed, Filtered, Stands, UNCHANGED <<approach, sealed>>
  PROVE  /\ Consulted' = Consulted
         /\ \A n \in Consulted : Accepted(n) => Accepted(n)' /\ sess'[n] = sess[n]
<1>1. approach = "coverage-filtered-per-risk" => CoverageMap' = CoverageMap
    BY ScreenStands DEF Filtered
<1>2. Consulted' = Consulted
    BY <1>1 DEF Consulted
<1>3. \A n \in Consulted : Accepted(n) => Accepted(n)' /\ sess'[n] = sess[n]
    BY ConsultedKnown DEF Stands, Accepted
<1> QED BY <1>2, <1>3

LEMMA AssemblyStays ==
  ASSUME ScreenInv, ScreenFiles, Tallied, Briefed, Filtered, Stands, UNCHANGED <<approach, sealed, findings>>,
         \A n \in Consulted : Accepted(n)
  PROVE  Assembly' = Assembly
<1>1. \A n \in Consulted : sess'[n] = sess[n]
    BY ConsultedStay
<1>2. CASE approach = "upfront-probes-only"
    <2>1. <<"upfront", 0>> \in Consulted
        BY <1>2 DEF Consulted
    <2>2. Found(<<"upfront", 0>>)' = Found(<<"upfront", 0>>)
        BY <1>1, <2>1 DEF Found
    <2> QED BY <1>2, <2>2 DEF Assembly
<1>3. CASE approach # "upfront-probes-only"
    <2>1. /\ approach = "coverage-filtered-per-risk" => CoverageMap' = CoverageMap
          /\ Local' = Local
        BY ScreenStands DEF Filtered, Local
    <2>2. Sources \subseteq Consulted
        BY <1>3, ConsultedKnown
    <2>3. \A n \in {"per-risk"} \X sealed : approach = "conditional-high-impact-challenger" /\ sealed # {} => n \in Consulted
        BY DEF Consulted
    <2>4. Sources' = Sources
        BY <1>1, <2>1, <2>3 DEF Sources, Result
    <2>5. combined_candidate' = combined_candidate
        BY <1>1, <2>1, <2>2, <2>4 DEF combined_candidate, Result
    <2>6. \A p \in combined_candidate : p[3] = "confirmed" => p[1] \in Sources
        BY DEF combined_candidate
    <2> DEFINE confirmed == {p \in combined_candidate : p[3] = "confirmed"}
               added == {<<p[1], sess[p[1]].by, p[2]>> : p \in confirmed}
    <2>7. \A p \in confirmed : sess'[p[1]].by = sess[p[1]].by
        BY <1>1, <2>2, <2>6
    <2>8. confirmed' = confirmed /\ added' = added
        BY <2>5, <2>7
    <2>9. Appended(combined_candidate) = IF confirmed = {} THEN Base ELSE Added(added)
        BY DEF Appended
    <2>10. Appended(combined_candidate)' = IF confirmed' = {} THEN Base ELSE Added(added')
        BY DEF Appended, Base, Added
    <2> HIDE DEF confirmed, added
    <2>11. Appended(combined_candidate)' = Appended(combined_candidate)
        BY <2>8, <2>9, <2>10
    <2> QED BY <1>3, <2>11 DEF Assembly
<1> QED BY <1>2, <1>3

\* More places of the script, and where a step that goes through comes to
LEMMA ScreenPools ==
  /\ \A i \in 1 .. 24 :
       /\ ScreenScript[i][2] = "bind" => i = 8
       /\ ScreenScript[i][2] = "tie" => i = 19
       /\ ScreenScript[i][2] = "verdict" => i = 21
       /\ ScreenScript[i][2] \in {"pool", "mend"} =>
            ScreenScript[i][2] = "pool" /\ i \in {2, 4, 6, 7, 20, 22} \union (9 .. 14) \union {16, 17}
  /\ ScreenScript[7][3] = "index" /\ ScreenScript[9][3] = "upfront" /\ ScreenScript[11][3] = "parallel"
  /\ ScreenScript[12][3] = "batch" /\ ScreenScript[13][3] = "per-risk"
  /\ ScreenScript[16][3] = "coverage-verify" /\ ScreenScript[17][3] = "test-scenario"
  /\ ScreenScript[20][3] = "judge"
<1> USE DEF ScreenScript
<1>1. /\ ScreenScript[1] = <<"setup", "freeze">> /\ ScreenScript[2] = <<"prep", "pool", "edge">>
      /\ ScreenScript[3] = <<"prep", "unleaked">> /\ ScreenScript[4] = <<"prep", "pool", "edge-index">>
      /\ ScreenScript[5] = <<"prep", "seal">> /\ ScreenScript[6] = <<"reviews", "pool", "review">>
      /\ ScreenScript[7] = <<"reviews", "pool", "index">> /\ ScreenScript[8] = <<"reviews", "bind">>
    OBVIOUS
<1>2. /\ ScreenScript[9] = <<"approaches", "pool", "upfront">>
      /\ ScreenScript[10] = <<"approaches", "pool", "parallel-raw">>
      /\ ScreenScript[11] = <<"approaches", "pool", "parallel">>
      /\ ScreenScript[12] = <<"approaches", "pool", "batch">>
      /\ ScreenScript[13] = <<"approaches", "pool", "per-risk">>
      /\ ScreenScript[14] = <<"approaches", "pool", "coverage-map">>
      /\ ScreenScript[15] = <<"approaches", "mapped">>
      /\ ScreenScript[16] = <<"approaches", "pool", "coverage-verify">>
      /\ ScreenScript[17] = <<"approaches", "pool", "test-scenario">>
    OBVIOUS
<1>3. /\ ScreenScript[18] = <<"assemble", "assemble">> /\ ScreenScript[19] = <<"judge", "tie">>
      /\ ScreenScript[20] = <<"judge", "pool", "judge">> /\ ScreenScript[21] = <<"judge", "verdict", Reviewer>>
      /\ ScreenScript[22] = <<"audit", "pool", "risk-audit">> /\ ScreenScript[23] = <<"audit", "attributed">>
      /\ ScreenScript[24] = <<"audit", "summarize">>
    OBVIOUS
<1> HIDE DEF ScreenScript
<1>4. \A i \in 1 .. 24 :
        \/ i = 1 \/ i = 2 \/ i = 3 \/ i = 4 \/ i = 5 \/ i = 6 \/ i = 7 \/ i = 8 \/ i = 9 \/ i = 10 \/ i = 11
        \/ i = 12 \/ i = 13 \/ i = 14 \/ i = 15 \/ i = 16 \/ i = 17 \/ i = 18 \/ i = 19 \/ i = 20 \/ i = 21
        \/ i = 22 \/ i = 23 \/ i = 24
    OBVIOUS
<1>5. ASSUME NEW i \in 1 .. 24
      PROVE  /\ ScreenScript[i][2] = "bind" => i = 8
             /\ ScreenScript[i][2] = "tie" => i = 19
             /\ ScreenScript[i][2] = "verdict" => i = 21
    BY <1>1, <1>2, <1>3, <1>4
<1>6. ASSUME NEW i \in 1 .. 24, ScreenScript[i][2] \in {"pool", "mend"}
      PROVE  ScreenScript[i][2] = "pool" /\ i \in {2, 4, 6, 7, 20, 22} \union (9 .. 14) \union {16, 17}
    <2>1. /\ i # 1 /\ i # 3 /\ i # 5 /\ i # 8 /\ i # 15 /\ i # 18 /\ i # 19 /\ i # 21 /\ i # 23 /\ i # 24
        BY <1>1, <1>2, <1>3, <1>6
    <2>2. i \in {2, 4, 6, 7, 20, 22} \union (9 .. 14) \union {16, 17}
        BY <2>1
    <2> QED BY <1>1, <1>2, <1>3, <1>4, <1>6, <2>2
<1> QED BY <1>1, <1>2, <1>3, <1>5, <1>6

LEMMA ScreenReaches ==
  ASSUME script = ScreenScript, UNCHANGED script, at \in 1 .. 24, Advance
  PROVE  /\ reached' \intersect AfterReviews # {} => reached \intersect AfterReviews # {} \/ at > 7
         /\ reached' \intersect AfterMapping # {} => reached \intersect AfterMapping # {} \/ at > 16
         /\ reached' \intersect AfterAssembly # {} => reached \intersect AfterAssembly # {} \/ at > 17
<1>1. Len(script) = 24 /\ Step = ScreenScript[at]
    BY ScreenPlaces DEF Step
<1>2. \/ reached' = reached
      \/ /\ reached' = reached \union {Step[1]}
         /\ at = 24 \/ ScreenScript[at + 1][1] # Step[1]
    BY <1>1 DEF Advance
<1>3. ASSUME at = 24 \/ ScreenScript[at + 1][1] # Step[1]
      PROVE  /\ Step[1] \in AfterReviews => at > 7
             /\ Step[1] \in AfterMapping => at > 16
             /\ Step[1] \in AfterAssembly => at > 17
    <2>1. at # 24 => at + 1 \in 1 .. 24
        OBVIOUS
    <2>2. at \notin 2 .. 4 /\ at \notin 6 .. 7 /\ at \notin 9 .. 16
        BY <1>1, <1>3, <2>1, ScreenPlaces
    <2>3. at \in 1 .. 5 => Step[1] \in {"setup", "prep"}
        BY <1>1, ScreenPlaces
    <2>4. at = 8 => Step[1] = "reviews"
        BY <1>1, ScreenPlaces
    <2>5. at = 17 => Step[1] = "approaches"
        BY <1>1, ScreenPlaces
    <2> QED BY <2>2, <2>3, <2>4, <2>5 DEF AfterReviews, AfterMapping, AfterAssembly
<1> QED BY <1>2, <1>3

LEMMA ScreenPhases ==
  ASSUME script = ScreenScript, UNCHANGED script, Invoke
  PROVE  /\ at' \in {1, 2, 6, 9, 18, 19, 22}
         /\ at' > 8 => reached \intersect AfterReviews # {}
         /\ at' > 17 => reached \intersect AfterMapping # {}
         /\ at' > 18 => reached \intersect AfterAssembly # {}
<1>1. at' = 1 \/ (at' \in 2 .. 24 /\ script[at' - 1][1] # script[at'][1] /\ script[at' - 1][1] \in reached)
    BY ScreenPlaces DEF Invoke, Offered
<1>2. CASE at' # 1
    <2> DEFINE i == at' - 1
    <2>1. i \in 1 .. 23 /\ i + 1 \in 1 .. 24 /\ at' = i + 1 /\ ScreenScript[i][1] # ScreenScript[i + 1][1]
          /\ ScreenScript[i][1] \in reached
        BY <1>1, <1>2
    <2> HIDE DEF i
    <2>2. i \in {1, 5, 8, 17, 18, 21}
        BY <2>1, ScreenPlaces
    <2>3. i > 7 => ScreenScript[i][1] \in AfterReviews
        BY <2>1, <2>2, ScreenPlaces DEF AfterReviews
    <2>4. i > 16 => ScreenScript[i][1] \in AfterMapping
        BY <2>1, <2>2, ScreenPlaces DEF AfterMapping
    <2>5. i > 17 => ScreenScript[i][1] \in AfterAssembly
        BY <2>1, <2>2, ScreenPlaces DEF AfterAssembly
    <2> QED BY <2>1, <2>2, <2>3, <2>4, <2>5
<1> QED BY <1>1, <1>2

\* Before a session is consulted, the brief is sealed and the filter has answered
LEMMA ConsultedAfter ==
  ASSUME ScreenInv
  PROVE  /\ ConsultedAt \in {9, 11, 12, 13, 16, 17}
         /\ at >= ConsultedAt \/ reached \intersect AfterMapping # {} => Briefed /\ Filtered
<1>1. ConsultedAt \in {9, 11, 12, 13, 16, 17} /\ (approach = "coverage-filtered-per-risk" => ConsultedAt = 16)
    BY DEF ConsultedAt
<1>2. at \in 0 .. 24 /\ AfterMapping \subseteq AfterPrep
    BY DEF ScreenInv, AfterMapping, AfterPrep
<1>3. ASSUME at >= ConsultedAt PROVE Briefed /\ Filtered
    <2>1. at > 5 /\ (approach = "coverage-filtered-per-risk" => at > 14)
        BY <1>1, <1>2, <1>3
    <2> QED BY <2>1 DEF ScreenInv, Filtered
<1>4. ASSUME reached \intersect AfterMapping # {} PROVE Briefed /\ Filtered
    BY <1>2, <1>4 DEF ScreenInv
<1> QED BY <1>1, <1>3, <1>4

LEMMA IndexedStays ==
  ASSUME ScreenFiles, Stands, findings' = findings \/ ~Indexed
  PROVE  /\ Indexed => Indexed' /\ findings' = findings
         /\ Accepted(ReviewIndex) => Accepted(ReviewIndex)'
<1>1. ReviewIndex \in DOMAIN sess
    BY DEF ScreenFiles, ScreenSessions, ReviewIndex
<1> QED BY <1>1 DEF Indexed, Stands, Accepted, Result

LEMMA ReviewStays ==
  ASSUME ScreenInv, ScreenFiles, ReviewStands, Tallied, Stands, UNCHANGED <<approach, augmented>>,
         sealed' = sealed \/ ~Briefed, findings' = findings \/ ~Indexed
  PROVE  ReviewStands'
<1> SUFFICES ASSUME augmented[Reviewer] # <<>>
             PROVE  Indexed' /\ (\A n \in Consulted' : Accepted(n)') /\ augmented[Reviewer] = Assembly'
    BY DEF ReviewStands
<1>1. Briefed /\ Filtered /\ Indexed /\ (\A n \in Consulted : Accepted(n)) /\ augmented[Reviewer] = Assembly
    BY DEF ScreenInv, ReviewStands
<1>2. UNCHANGED <<sealed, findings>> /\ Indexed'
    BY <1>1, IndexedStays
<1>3. Consulted' = Consulted /\ \A n \in Consulted : Accepted(n)'
    BY <1>1, <1>2, ConsultedStay
<1>4. Assembly' = Assembly
    BY <1>1, <1>2, AssemblyStays
<1> QED BY <1>1, <1>2, <1>3, <1>4

\* Where the harness comes to, or whether it is left, what it builds on is there
LEMMA ScreenOnwards ==
  ASSUME ScreenInv, ScreenMore, Tallied, Stands, at \in 1 .. 24, Advance \/ Raise, UNCHANGED <<script, approach>>,
         sealed' = sealed \/ ~Briefed, findings' = findings \/ ~Indexed,
         augmented' = augmented \/ (at = 18 /\ augmented'[Reviewer] # <<>>),
         judgment'[Reviewer] = judgment[Reviewer] \/ judgment'[Reviewer] # NoJudgment,
         Advance /\ at = 7 => Accepted(ReviewIndex),
         Advance /\ at = 8 => Indexed',
         Advance /\ at = ConsultedAt => \A n \in Consulted : Accepted(n),
         Advance /\ at = 18 => augmented'[Reviewer] # <<>>,
         Advance /\ at = 19 /\ augmented[Reviewer] = Base => judgment'[Reviewer] # NoJudgment,
         Advance /\ at = 20 /\ augmented[Reviewer] # Base => Accepted(Judge(Reviewer))
  PROVE  ScreenPlaced'
<1>1. Indexed => Indexed'
    BY IndexedStays DEF ScreenMore
<1>2. ASSUME Briefed, Filtered PROVE Consulted' = Consulted /\ \A n \in Consulted : Accepted(n) => Accepted(n)'
    BY <1>2, ConsultedStay DEF ScreenMore
<1>3. augmented[Reviewer] # <<>> => augmented'[Reviewer] # <<>>
    OBVIOUS
<1>4. ConsultedAt' = ConsultedAt /\ ConsultedAt \in {9, 11, 12, 13, 16, 17}
    BY ConsultedAfter DEF ConsultedAt
<1>5. ScreenPlaced
    BY DEF ScreenMore
<1>6. ASSUME at >= ConsultedAt \/ reached \intersect AfterMapping # {}, at = ConsultedAt => Advance
      PROVE  \A n \in Consulted' : Accepted(n)'
    <2>1. Briefed /\ Filtered
        BY <1>6, ConsultedAfter
    <2>2. \A n \in Consulted : Accepted(n)
        <3>1. CASE at = ConsultedAt
            BY <1>6, <3>1
        <3>2. CASE at > ConsultedAt \/ reached \intersect AfterMapping # {}
            BY <1>5, <3>2 DEF ScreenPlaced
        <3> QED BY <1>4, <1>6, <3>1, <3>2
    <2> QED BY <1>2, <2>1, <2>2
<1>7. CASE Raise
    <2>1. at' = 0 /\ reached' = reached
        BY <1>7 DEF Raise
    <2>2. reached \intersect AfterReviews # {} => Indexed'
        BY <1>1, <1>5 DEF ScreenPlaced
    <2>3. reached \intersect AfterMapping # {} => \A n \in Consulted' : Accepted(n)'
        <3>1. ASSUME reached \intersect AfterMapping # {} PROVE \A n \in Consulted' : Accepted(n)'
            <4>1. Briefed /\ Filtered /\ \A n \in Consulted : Accepted(n)
                BY <1>5, <3>1, ConsultedAfter DEF ScreenPlaced
            <4> QED BY <1>2, <4>1
        <3> QED BY <3>1
    <2>4. reached \intersect AfterAssembly # {} => augmented'[Reviewer] # <<>>
        BY <1>3, <1>5 DEF ScreenPlaced
    <2> QED BY <1>4, <2>1, <2>2, <2>3, <2>4 DEF ScreenPlaced
<1>8. CASE Advance
    <2>1. /\ at' \in 0 .. 24 /\ (at' = 0 \/ at' = at + 1)
          /\ reached' \intersect AfterReviews # {} => reached \intersect AfterReviews # {} \/ at > 7
          /\ reached' \intersect AfterMapping # {} => reached \intersect AfterMapping # {} \/ at > 16
          /\ reached' \intersect AfterAssembly # {} => reached \intersect AfterAssembly # {} \/ at > 17
        BY <1>8, ScreenAdvance, ScreenReaches DEF ScreenInv
    <2>2. at' = 8 => Accepted(ReviewIndex)'
        BY <1>8, <2>1, IndexedStays DEF ScreenMore
    <2>3. at' > 8 \/ reached' \intersect AfterReviews # {} => Indexed'
        <3>1. at > 8 \/ reached \intersect AfterReviews # {} => Indexed'
            BY <1>1, <1>5 DEF ScreenPlaced
        <3> QED BY <1>8, <2>1, <3>1
    <2>4. at' > ConsultedAt \/ reached' \intersect AfterMapping # {} => \A n \in Consulted' : Accepted(n)'
        <3>1. at' > ConsultedAt \/ reached' \intersect AfterMapping # {} =>
                at >= ConsultedAt \/ reached \intersect AfterMapping # {}
            <4>0. PICK c \in 9 .. 17 : c = ConsultedAt
                BY <1>4
            <4>1. at' > ConsultedAt => at >= ConsultedAt
                <5>1. CASE at' = 0
                    BY <4>0, <5>1
                <5>2. CASE at' = at + 1
                    BY <4>0, <5>2
                <5> QED BY <2>1, <5>1, <5>2
            <4>2. at > 16 => at >= ConsultedAt
                BY <1>4
            <4> QED BY <2>1, <4>1, <4>2
        <3>2. at >= ConsultedAt \/ reached \intersect AfterMapping # {} => \A n \in Consulted' : Accepted(n)'
            BY <1>6, <1>8
        <3> QED BY <3>1, <3>2
    <2>5. at' > 18 \/ reached' \intersect AfterAssembly # {} => augmented'[Reviewer] # <<>>
        <3>1. at > 18 \/ reached \intersect AfterAssembly # {} => augmented'[Reviewer] # <<>>
            BY <1>3, <1>5 DEF ScreenPlaced
        <3> QED BY <1>8, <2>1, <3>1
    <2>6. at' \in 20 .. 21 /\ augmented'[Reviewer] = Base => judgment'[Reviewer] # NoJudgment
        <3> SUFFICES ASSUME at' \in 20 .. 21, augmented'[Reviewer] = Base PROVE judgment'[Reviewer] # NoJudgment
            OBVIOUS
        <3>1. at \in 19 .. 20 /\ augmented' = augmented
            BY <2>1
        <3>2. at = 20 => judgment[Reviewer] # NoJudgment
            BY <1>5, <3>1 DEF ScreenPlaced
        <3> QED BY <1>8, <3>1, <3>2
    <2>7. at' = 21 /\ augmented'[Reviewer] # Base => Accepted(Judge(Reviewer))'
        <3>1. Judge(Reviewer) \in DOMAIN sess
            BY DEF ScreenMore, ScreenFiles, ScreenSessions, Judge
        <3>2. Accepted(Judge(Reviewer)) => Accepted(Judge(Reviewer))'
            BY <3>1 DEF Stands, Accepted
        <3>3. at' = 21 => at = 20 /\ augmented' = augmented
            BY <2>1
        <3> QED BY <1>8, <3>2, <3>3
    <2> QED BY <1>4, <2>2, <2>3, <2>4, <2>5, <2>6, <2>7 DEF ScreenPlaced
<1> QED BY <1>7, <1>8

\* The answers and the judgments, when no session runs
LEMMA ScreenFilesStay ==
  ASSUME ScreenFiles, UNCHANGED <<approach, sess>>, DOMAIN judgment' = DOMAIN judgment, at' = 0 => round' = 0,
         augmented' = augmented \/ augmented' = [augmented EXCEPT ![Reviewer] = Assembly]
  PROVE  ScreenFiles'
<1>1. Kinds' = Kinds
    BY DEF Kinds
<1>2. \A n : WellFormed(n)' <=> WellFormed(n)
    BY DEF WellFormed, Result
<1>3. augmented' = [b \in {Reviewer} |-> augmented'[b]]
    BY DEF ScreenFiles
<1> QED BY <1>1, <1>2, <1>3 DEF ScreenFiles

LEMMA ScreenTellingStays ==
  ASSUME ScreenFiles, AnswersTold, DOMAIN augmented = {Reviewer}, sess' = sess, InPool' \subseteq InPool,
         augmented' = augmented \/ (augmented[Reviewer] = <<>> /\ DOMAIN augmented' = {Reviewer})
  PROVE  AnswersTold'
<1>1. \A n \in DOMAIN sess : n[1] = "judge" => n[2] = Reviewer
    BY DEF ScreenFiles, ScreenSessions, PerRisk
<1>2. AddedTo(Reviewer) => augmented' = augmented /\ AddedTo(Reviewer)'
    BY DEF AddedTo
<1>3. \A n : Cited(n)' = Cited(n) /\ (Accepted(n)' <=> Accepted(n))
    BY DEF Cited, Quoted, Accepted
<1>4. ASSUME NEW n \in DOMAIN sess PROVE (Told(n) => Told(n)') /\ (Ready(n) => Ready(n)')
    BY <1>1, <1>2, <1>3, <1>4 DEF Told, Ready
<1> QED BY <1>3, <1>4 DEF AnswersTold

LEMMA ScreenJudgingStays ==
  ASSUME ScreenFiles, JudgmentsStand, DOMAIN augmented = {Reviewer}, Stands, UNCHANGED <<program, judgment>>,
         augmented' = augmented \/ (augmented[Reviewer] = <<>> /\ DOMAIN augmented' = {Reviewer}),
         program \in Strict
  PROVE  JudgmentsStand'
<1>1. Judge(Reviewer) \in DOMAIN sess
    BY DEF ScreenFiles, ScreenSessions, Judge
<1>2. Accepted(Judge(Reviewer)) => Accepted(Judge(Reviewer))'
    BY <1>1 DEF Stands, Accepted
<1>3. judgment[Reviewer] # NoJudgment => augmented' = augmented
    BY DEF JudgmentsStand
<1>4. judgment[Reviewer].verdict \in {"wins", "loses"} => judgment[Reviewer] # NoJudgment
    BY DEF NoJudgment
<1>5. DOMAIN augmented' = {Reviewer}
    OBVIOUS
<1> QED BY <1>2, <1>3, <1>4, <1>5 DEF JudgmentsStand, AddedTo

\* A step between the pools that adds nothing to the review and judges nothing
LEMMA ScreenBetween ==
  ASSUME ScreenInv, ScreenMore, Tallied, PoolInv', program = "screen", at \in 1 .. 24, Advance \/ Raise, round' = 0,
         UNCHANGED <<program, script, sess, approach, augmented, judgment>>,
         at \notin {7, 18, 19, 20}, at # ConsultedAt,
         sealed' = sealed \/ ~Briefed, findings' = findings \/ ~Indexed, Advance /\ at = 8 => Indexed'
  PROVE  ScreenMore'
<1>1. Stands /\ InPool' = {} /\ program \in Strict
    BY NoPoolHolds DEF Stands, Strict
<1>2. ScreenPlaced'
    BY <1>1, ScreenOnwards
<1>3. ReviewStands'
    BY <1>1, ReviewStays DEF ScreenMore
<1>4. ScreenFiles' /\ ScreenHeld'
    BY ScreenFilesStay DEF ScreenMore, ScreenHeld
<1>5. AnswersTold' /\ JudgmentsStand'
    BY <1>1, ScreenTellingStays, ScreenJudgingStays DEF ScreenMore, ScreenInv
<1> QED BY <1>2, <1>3, <1>4, <1>5 DEF ScreenMore

\* The harness is started, is left by an exception, or is killed
LEMMA ScreenDriven ==
  ASSUME ScreenInv, ScreenMore, Tallied, PoolInv', program = "screen", Driven, UNCHANGED screenVars
  PROVE  ScreenMore'
<1>1. /\ UNCHANGED <<program, script, sess, approach, sealed, findings, augmented, judgment>> /\ round' = 0
      /\ Stands
    <2>1. CASE Invoke
        BY <2>1 DEF Invoke, Driven, Started, blockVars, screenVars, ScreenMore, ScreenFiles, Stands
    <2>2. CASE PoolRaises \/ Killed
        BY <2>2 DEF PoolRaises, Killed, Gone, Driven, Started, blockVars, screenVars, Stands
    <2> QED BY <2>1, <2>2 DEF Driven, Started
<1>2. InPool' = {} /\ program \in Strict
    BY <1>1, NoPoolHolds DEF Strict
<1>3. ReviewStands' /\ ScreenHeld'
    BY <1>1, ReviewStays DEF ScreenMore, ScreenHeld
<1>4. ScreenFiles'
    BY <1>1, ScreenFilesStay DEF ScreenMore
<1>5. AnswersTold' /\ JudgmentsStand'
    BY <1>1, <1>2, ScreenTellingStays, ScreenJudgingStays DEF ScreenMore, ScreenInv
<1>6. /\ Indexed' <=> Indexed
      /\ Consulted' = Consulted /\ \A n : Accepted(n)' <=> Accepted(n)
      /\ ConsultedAt' = ConsultedAt /\ ConsultedAt \in {9, 11, 12, 13, 16, 17}
    BY <1>1, ConsultedAfter DEF Indexed, Accepted, Result, Consulted, CoverageMap, ConsultedAt
<1>7. ScreenPlaced'
    <2>1. CASE Invoke
        <3>1. /\ at' \in {1, 2, 6, 9, 18, 19, 22} /\ reached' = reached
              /\ at' > 8 => reached \intersect AfterReviews # {}
              /\ at' > 17 => reached \intersect AfterMapping # {}
              /\ at' > 18 => reached \intersect AfterAssembly # {}
            BY <1>1, <2>1, ScreenPhases DEF ScreenInv, Invoke
        <3>2. at' > ConsultedAt => at' > 17
            BY <1>6, <3>1
        <3>3. at' \notin {8, 20, 21}
            BY <3>1
        <3>4. at' \notin 20 .. 21
            BY <3>3
        <3> QED BY <1>1, <1>6, <3>1, <3>2, <3>3, <3>4 DEF ScreenMore, ScreenPlaced
    <2>2. CASE PoolRaises \/ Killed
        <3>1. at' = 0 /\ reached' = reached
            BY <2>2 DEF PoolRaises, Killed, Raise
        <3> QED BY <1>1, <1>6, <3>1 DEF ScreenMore, ScreenPlaced
    <2> QED BY <2>1, <2>2 DEF Driven, Started
<1> QED BY <1>3, <1>4, <1>5, <1>7 DEF ScreenMore

\* The steps that look, and those that write what is not the review's
LEMMA ScreenQuiet ==
  ASSUME ScreenInv, ScreenMore, Tallied, PoolInv', program = "screen",
         screen_setup \/ unleaked \/ approaches \/ audit \/ screen_summarize
  PROVE  ScreenMore'
<1>1. /\ at > 0 /\ Step[2] \in {"freeze", "unleaked", "mapped", "attributed", "counted", "summarize"}
      /\ Advance \/ Raise
      /\ UNCHANGED <<program, script, sess, approach, sealed, findings, augmented, judgment>> /\ round' = 0
    <2>1. CASE screen_setup
        BY <2>1 DEF screen_setup, freeze_sources, Doing, NoPool, blockVars, screenVars
    <2>2. CASE unleaked \/ approaches \/ audit
        BY <2>2 DEF unleaked, approaches, audit, Proceed, Doing, Alone, NoPool, poolVars, blockVars, screenVars
    <2>3. CASE screen_summarize
        BY <2>3 DEF screen_summarize, Decide, Doing, Alone, NoPool, poolVars, screenVars
    <2> QED BY <2>1, <2>2, <2>3
<1>2. at \in 1 .. 24 /\ Step = ScreenScript[at]
    BY <1>1 DEF ScreenInv, Step
<1>3. /\ ScreenScript[7][2] = "pool" /\ ScreenScript[8][2] = "bind" /\ ScreenScript[18][2] = "assemble"
      /\ ScreenScript[19][2] = "tie" /\ ScreenScript[20][2] = "pool"
      /\ ScreenScript[9][2] = "pool" /\ ScreenScript[11][2] = "pool" /\ ScreenScript[12][2] = "pool"
      /\ ScreenScript[13][2] = "pool" /\ ScreenScript[16][2] = "pool" /\ ScreenScript[17][2] = "pool"
    BY DEF ScreenScript
<1>4. at \notin {7, 8, 18, 19, 20} /\ at # ConsultedAt
    BY <1>1, <1>2, <1>3, ConsultedAfter
<1> QED BY <1>1, <1>2, <1>4, ScreenBetween

\* prep: the brief is sealed
LEMMA ScreenBriefed ==
  ASSUME ScreenInv, ScreenMore, Tallied, PoolInv', program = "screen", prep PROVE ScreenMore'
<1>1. /\ at > 0 /\ Step[2] = "seal" /\ round' = 0
      /\ UNCHANGED <<program, script, sess, approach, findings, augmented, judgment>>
      /\ \/ Raise /\ sealed' = sealed
         \/ Advance /\ sealed' = Result(EdgeIndex).risks
    BY DEF prep, Doing, Alone, NoPool, poolVars, blockVars, Proceed, EdgeIndex
<1>2. at = 5
    <2>1. at \in 1 .. 24 /\ ScreenScript[at][2] = "seal"
        BY <1>1 DEF ScreenInv, Step
    <2> QED BY <2>1, ScreenPlaces
<1>3. sealed' = sealed \/ ~Briefed
    BY <1>1 DEF Briefed
<1>4. at # ConsultedAt
    BY <1>2, ConsultedAfter
<1> QED BY <1>1, <1>2, <1>3, <1>4, ScreenBetween

\* reviews: what the index says of the review is bound to it
LEMMA ScreenBound ==
  ASSUME ScreenInv, ScreenMore, Tallied, PoolInv', program = "screen", screen_reviews PROVE ScreenMore'
<1>1. /\ at > 0 /\ Step[2] = "bind" /\ round' = 0
      /\ UNCHANGED <<program, script, sess, approach, sealed, augmented, judgment>>
      /\ \/ Raise /\ findings' = findings
         \/ Advance /\ findings' = Result(ReviewIndex).findings
    BY DEF screen_reviews, Doing, Alone, NoPool, poolVars, Proceed, ReviewIndex
<1>2. at = 8
    <2>1. at \in 1 .. 24 /\ ScreenScript[at][2] = "bind"
        BY <1>1 DEF ScreenInv, Step
    <2> QED BY <2>1, ScreenPools
<1>3. Accepted(ReviewIndex)
    BY <1>2 DEF ScreenMore, ScreenPlaced
<1>4. findings' = findings \/ ~Indexed
    BY <1>1 DEF Indexed
<1>5. at # ConsultedAt
    BY <1>2, ConsultedAfter
<1>6. findings' = Result(ReviewIndex).findings => Indexed'
    BY <1>1, <1>3 DEF Indexed, Accepted, Result
<1>7. ASSUME Raise, Advance, findings' = findings PROVE Indexed'
    <2>1. ScreenScript[8] = <<"reviews", "bind">> /\ ScreenScript[9][1] = "approaches"
        BY DEF ScreenScript
    <2>2. reached' = reached \union {"reviews"} /\ reached' = reached
        BY <1>2, <1>7, <2>1 DEF Advance, Raise, Step, ScreenInv
    <2>3. Indexed
        BY <2>2 DEF ScreenMore, ScreenPlaced, AfterReviews
    <2> QED BY <1>1, <1>7, <2>3 DEF Indexed, Accepted, Result
<1>8. Advance /\ at = 8 => Indexed'
    BY <1>1, <1>6, <1>7
<1> QED BY <1>1, <1>2, <1>4, <1>5, <1>8, ScreenBetween

LEMMA AssemblyIs == Assembly # <<>>
BY AddedIs DEF Assembly, Found, Appended

\* assemble: the review is put together, for the first time or once more the same
LEMMA ScreenPutTogether ==
  ASSUME ScreenInv, ScreenMore, Tallied, PoolInv', program = "screen", assemble PROVE ScreenMore'
<1>1. /\ at > 0 /\ Step[2] = "assemble" /\ round' = 0
      /\ UNCHANGED <<program, script, sess, approach, sealed, findings, judgment>>
    BY DEF assemble, Doing, Alone, NoPool, poolVars, screenVars
<1>2. at = 18
    <2>1. at \in 1 .. 24 /\ ScreenScript[at][2] = "assemble"
        BY <1>1 DEF ScreenInv, Step
    <2> QED BY <2>1, ScreenPlaces
<1>3. \/ augmented' = [augmented EXCEPT ![Reviewer] = Assembly] /\ Advance
      \/ augmented' = augmented /\ Raise
    <2>1. CASE approach = "upfront-probes-only"
        BY <2>1 DEF assemble, Assembled, Assembly, Found
    <2>2. CASE approach = "conditional-no-findings-challenger" /\ findings
        BY <2>2 DEF assemble, exact_base_policy, Assembled, Assembly
    <2>3. CASE approach # "upfront-probes-only" /\ ~(approach = "conditional-no-findings-challenger" /\ findings)
        <3>1. assemble_candidate(combined_candidate) /\ Assembly = Appended(combined_candidate)
            BY <2>3 DEF assemble, Assembly
        <3> QED BY <3>1 DEF assemble_candidate, Assembled
    <2> QED BY <2>1, <2>2, <2>3
<1>4. Stands /\ InPool' = {} /\ program \in Strict
    BY <1>1, NoPoolHolds DEF Stands, Strict
<1>5. Briefed /\ Filtered /\ Indexed /\ \A n \in Consulted : Accepted(n)
    BY <1>2, ConsultedAfter DEF ScreenMore, ScreenPlaced
<1>6. DOMAIN augmented = {Reviewer}
    BY DEF ScreenInv
<1>7. augmented' = augmented \/ (augmented[Reviewer] = <<>> /\ DOMAIN augmented' = {Reviewer})
    <2>1. ASSUME augmented' = [augmented EXCEPT ![Reviewer] = Assembly], augmented[Reviewer] # <<>>
          PROVE  augmented' = augmented
        <3>1. augmented[Reviewer] = Assembly /\ augmented[Reviewer] = augmented'[Reviewer]
            BY <1>6, <2>1 DEF ScreenMore, ReviewStands
        <3>2. augmented = [b \in {Reviewer} |-> augmented[b]]
            BY DEF ScreenMore, ScreenFiles
        <3> QED BY <2>1, <3>1, <3>2
    <2> QED BY <1>3, <1>6, <2>1
<1>8. augmented' = augmented \/ (at = 18 /\ augmented'[Reviewer] # <<>>)
    BY <1>2, <1>3, <1>6, AssemblyIs
<1>9. Advance => augmented'[Reviewer] # <<>> \/ Raise
    BY <1>3, <1>6, AssemblyIs
<1>10. ASSUME Raise, Advance, augmented' = augmented PROVE augmented'[Reviewer] # <<>>
    <2>1. ScreenScript[18][1] = "assemble" /\ ScreenScript[19][1] = "judge"
        BY DEF ScreenScript
    <2>2. reached' = reached \union {"assemble"} /\ reached' = reached
        BY <1>2, <1>10, <2>1 DEF Advance, Raise, Step, ScreenInv
    <2> QED BY <1>10, <2>2 DEF ScreenMore, ScreenPlaced, AfterAssembly
<1>11. ScreenPlaced'
    <2>1. at # ConsultedAt
        BY <1>2, ConsultedAfter
    <2>2. Advance => augmented'[Reviewer] # <<>>
        BY <1>3, <1>6, <1>10, AssemblyIs
    <2> QED BY <1>1, <1>2, <1>3, <1>4, <1>8, <2>1, <2>2, ScreenOnwards
<1>12. ReviewStands'
    <2>1. CASE augmented' = augmented
        BY <1>1, <1>4, <2>1, ReviewStays DEF ScreenMore
    <2>2. CASE augmented' = [augmented EXCEPT ![Reviewer] = Assembly]
        <3>1. augmented'[Reviewer] = Assembly
            BY <1>6, <2>2
        <3>2. Assembly' = Assembly /\ Consulted' = Consulted /\ \A n \in Consulted : Accepted(n)'
            BY <1>1, <1>4, <1>5, AssemblyStays, ConsultedStay DEF ScreenMore
        <3>3. Indexed'
            BY <1>1, <1>5 DEF Indexed, Accepted, Result
        <3> QED BY <3>1, <3>2, <3>3 DEF ReviewStands
    <2> QED BY <1>3, <2>1, <2>2
<1>13. ScreenFiles' /\ ScreenHeld'
    BY <1>1, <1>3, ScreenFilesStay DEF ScreenMore, ScreenHeld
<1>14. AnswersTold' /\ JudgmentsStand'
    BY <1>1, <1>4, <1>6, <1>7, ScreenTellingStays, ScreenJudgingStays DEF ScreenMore
<1> QED BY <1>11, <1>12, <1>13, <1>14 DEF ScreenMore

\* judge: identical bytes are a tie, the rest is for the judge to say
LEMMA ScreenJudged ==
  ASSUME ScreenInv, ScreenMore, Tallied, PoolInv', program = "screen", screen_judge PROVE ScreenMore'
<1>1. /\ at > 0 /\ Step[2] \in {"tie", "verdict"} /\ round' = 0 /\ Advance
      /\ UNCHANGED <<program, script, sess, approach, sealed, findings, augmented>>
    BY DEF screen_judge, tie_judgment, Judged, Doing, Alone, NoPool, poolVars, screenVars
<1>2. /\ at \in 1 .. 24 /\ (Step[2] = "tie" => at = 19) /\ (Step[2] = "verdict" => at = 21)
    <2>1. at \in 1 .. 24 /\ Step = ScreenScript[at]
        BY <1>1 DEF ScreenInv, Step
    <2> QED BY <2>1, ScreenPools
<1>3. Stands /\ InPool' = {} /\ program \in Strict
    BY <1>1, NoPoolHolds DEF Stands, Strict
<1>4. DOMAIN augmented = {Reviewer} /\ DOMAIN judgment = {Reviewer}
    BY DEF ScreenInv, ScreenMore, ScreenFiles
<1>5. augmented[Reviewer] # <<>>
    BY <1>1, <1>2 DEF ScreenMore, ScreenPlaced
<1>6. /\ DOMAIN judgment' = {Reviewer} /\ JudgmentsStand'
      /\ judgment'[Reviewer] = judgment[Reviewer] \/ judgment'[Reviewer] # NoJudgment
      /\ at = 19 /\ augmented[Reviewer] = Base => judgment'[Reviewer] # NoJudgment
    <2>1. CASE tie_judgment
        <3>1. judgment' = [b \in {Reviewer} |->
                             IF augmented[b] = Base THEN [verdict |-> "tie", of |-> Base] ELSE judgment[b]]
            BY <1>4, <2>1 DEF tie_judgment
        <3>2. CASE augmented[Reviewer] = Base
            <4>1. judgment'[Reviewer].verdict = "tie" /\ judgment'[Reviewer].of = Base
                BY <3>1, <3>2
            <4>2. judgment'[Reviewer] # NoJudgment
                BY <4>1 DEF NoJudgment
            <4> QED BY <1>1, <1>4, <3>1, <3>2, <4>1, <4>2, AddedIs DEF JudgmentsStand
        <3>3. CASE augmented[Reviewer] # Base
            <4>1. judgment'[Reviewer] = judgment[Reviewer] /\ DOMAIN judgment' = {Reviewer}
                BY <3>1, <3>3
            <4>2. Accepted(Judge(Reviewer))' <=> Accepted(Judge(Reviewer))
                BY <1>1 DEF Accepted
            <4> QED BY <1>1, <1>4, <3>3, <4>1, <4>2 DEF ScreenMore, JudgmentsStand, AddedTo
        <3> QED BY <3>2, <3>3
    <2>2. CASE Judged(Reviewer, Ruling(Reviewer))
        <3>1. at = 21 /\ judgment' = IF judgment[Reviewer] # NoJudgment THEN judgment
                                    ELSE [judgment EXCEPT ![Reviewer] = Ruling(Reviewer)]
            BY <1>2, <2>2 DEF Judged, Doing
        <3>2. CASE judgment[Reviewer] # NoJudgment
            BY <1>1, <1>3, <1>4, <3>1, <3>2, ScreenJudgingStays DEF ScreenMore
        <3>3. CASE judgment[Reviewer] = NoJudgment
            <4>1. augmented[Reviewer] # Base /\ Accepted(Judge(Reviewer))
                BY <3>1, <3>3 DEF ScreenMore, ScreenPlaced
            <4>2. Judge(Reviewer) \in DOMAIN sess
                BY DEF ScreenMore, ScreenFiles, ScreenSessions, Judge
            <4>3. sess[Judge(Reviewer)].by # 0 /\ Told(Judge(Reviewer))
                BY <4>1, <4>2 DEF Tallied, ScreenMore, AnswersTold
            <4>4. Ruling(Reviewer).of = augmented[Reviewer]
                BY <4>3 DEF Told, Ruling, Judge
            <4>5. judgment'[Reviewer] = Ruling(Reviewer) /\ DOMAIN judgment' = {Reviewer}
                BY <1>4, <3>1, <3>3
            <4>6. Ruling(Reviewer) # NoJudgment
                BY <1>5, <4>4 DEF NoJudgment
            <4>7. Accepted(Judge(Reviewer))'
                BY <1>1, <4>1 DEF Accepted
            <4>8. AddedTo(Reviewer)'
                BY <1>1, <1>5, <4>1 DEF AddedTo
            <4> QED BY <1>1, <1>4, <1>5, <3>1, <4>1, <4>4, <4>5, <4>6, <4>7, <4>8 DEF JudgmentsStand
        <3> QED BY <3>2, <3>3
    <2> QED BY <2>1, <2>2 DEF screen_judge
<1>7. ScreenPlaced'
    <2>1. at \notin {7, 8, 18, 20} /\ at # ConsultedAt
        BY <1>1, <1>2, ConsultedAfter
    <2> QED BY <1>1, <1>2, <1>3, <1>6, <2>1, ScreenOnwards
<1>8. ReviewStands'
    BY <1>1, <1>3, ReviewStays DEF ScreenMore
<1>9. ScreenFiles' /\ ScreenHeld'
    BY <1>1, <1>4, <1>6, ScreenFilesStay DEF ScreenMore, ScreenHeld
<1>10. AnswersTold'
    BY <1>1, <1>3, <1>4, ScreenTellingStays DEF ScreenMore
<1> QED BY <1>6, <1>7, <1>8, <1>9, <1>10 DEF ScreenMore

\* No prompt of the screen quotes the answer of a session by its number
LEMMA ScreenCites == ASSUME ScreenFiles PROVE \A n \in DOMAIN sess : Cited(n) = {}
BY DEF ScreenFiles, ScreenSessions, PerRisk, Cited, Quoted

LEMMA ScreenKinds ==
  ASSUME NEW i \in 9 .. 22, ScreenScript[i][3] = "judge" PROVE i \in {15, 18, 19, 20, 21}
<1>1. /\ ScreenScript[9][3] = "upfront" /\ ScreenScript[10][3] = "parallel-raw" /\ ScreenScript[11][3] = "parallel"
      /\ ScreenScript[12][3] = "batch" /\ ScreenScript[13][3] = "per-risk" /\ ScreenScript[14][3] = "coverage-map"
      /\ ScreenScript[16][3] = "coverage-verify" /\ ScreenScript[17][3] = "test-scenario"
      /\ ScreenScript[22][3] = "risk-audit"
    BY DEF ScreenScript
<1> QED BY <1>1

\* What each pool of the screen is given
LEMMA ScreenGiven ==
  ASSUME ScreenInv, ScreenMore, Tallied, Pooled
  PROVE  /\ at \in 1 .. 24 /\ at \notin {5, 8, 18, 19, 21}
         /\ ScreenWanted \subseteq DOMAIN sess /\ \A n \in ScreenWanted : Ready(n)
         /\ at = 7 => ReviewIndex \in ScreenWanted
         /\ at = ConsultedAt => Consulted \subseteq ScreenWanted
         /\ at = 20 /\ augmented[Reviewer] # Base => Judge(Reviewer) \in ScreenWanted
<1>1. at \in 1 .. 24 /\ Step = ScreenScript[at] /\ at \in {2, 4, 6, 7, 20, 22} \union (9 .. 14) \union {16, 17}
    <2>1. at \in 1 .. 24 /\ Step = ScreenScript[at] /\ Step[2] \in {"pool", "mend"}
        BY DEF Pooled, Doing, ScreenInv, Step
    <2> QED BY <2>1, ScreenPools
<1>2. at \notin {5, 8, 18, 19, 21}
    BY <1>1
<1>3. PICK kind : kind = Step[3]
    OBVIOUS
<1>4. /\ at = 2 => kind = "edge"
      /\ at = 4 => kind = "edge-index"
      /\ at = 6 => kind = "review"
    BY <1>1, <1>3, ScreenPlaces DEF ScreenScript
<1>5. /\ at = 7 => kind = "index"
      /\ at = 20 => kind = "judge"
    BY <1>1, <1>3, ScreenPools
<1>6. Kinds \subseteq {"upfront", "parallel-raw", "parallel", "batch", "coverage-map", "coverage-verify",
                       "test-scenario", "per-risk"}
    BY DEF Kinds
<1>7. Kinds \intersect {"edge", "edge-index", "review", "index", "risk-audit", "judge"} = {}
    BY <1>6
<1>8. /\ kind = "judge" => ScreenWanted = IF augmented[Reviewer] = Base THEN {} ELSE {Judge(Reviewer)}
      /\ kind \in {"edge", "edge-index", "review", "index", "risk-audit"} => ScreenWanted = {<<kind, 0>>}
      /\ kind \in Kinds /\ kind \in {"upfront", "coverage-map"} => ScreenWanted = {<<kind, 0>>}
      /\ kind \in Kinds /\ kind \in {"parallel-raw", "parallel", "batch"} =>
           ScreenWanted = IF sealed = {} THEN {} ELSE {<<kind, 0>>}
      /\ kind \in Kinds /\ kind = "coverage-verify" => ScreenWanted = {kind} \X (sealed \ CoverageMap.covered)
      /\ kind \in Kinds /\ kind \in {"test-scenario", "per-risk"} => ScreenWanted = {kind} \X sealed
    BY <1>3, <1>7 DEF ScreenWanted, Judge
<1>9. kind \notin Kinds \union {"edge", "edge-index", "review", "index", "risk-audit", "judge"} => ScreenWanted = {}
    BY <1>3 DEF ScreenWanted
<1>10. ASSUME kind \in Kinds PROVE sealed \subseteq Risks
    <2>1. at \notin {2, 4, 6, 7}
        BY <1>4, <1>5, <1>7, <1>10
    <2>2. at > 5
        BY <1>1, <2>1
    <2>3. Briefed
        BY <2>2 DEF ScreenInv
    <2> QED BY <2>3, ConsultedKnown DEF ScreenMore
<1>11. ScreenWanted \subseteq DOMAIN sess
    <2>1. ASSUME kind \in Kinds, NEW n \in ScreenWanted
          PROVE  (n = <<kind, 0>> /\ kind \notin PerRisk) \/ (kind \in PerRisk /\ n \in {kind} \X Risks)
        BY <1>6, <1>8, <1>10, <2>1 DEF PerRisk
    <2>2. ASSUME kind \in Kinds, NEW n \in ScreenWanted PROVE n \in DOMAIN sess
        BY <1>6, <2>1, <2>2 DEF ScreenMore, ScreenFiles, ScreenSessions, PerRisk
    <2>3. CASE kind \in {"edge", "edge-index", "review", "index", "risk-audit"}
        BY <1>8, <2>3 DEF ScreenMore, ScreenFiles, ScreenSessions
    <2>4. CASE kind = "judge"
        BY <1>8, <2>4 DEF ScreenMore, ScreenFiles, ScreenSessions, Judge
    <2> QED BY <1>9, <2>2, <2>3, <2>4
<1>12. \A n \in ScreenWanted : Ready(n)
    <2>1. ASSUME NEW n \in DOMAIN sess PROVE Cited(n) = {}
        BY <2>1, ScreenCites DEF ScreenMore
    <2>2. ASSUME NEW n \in ScreenWanted, n[1] = "judge" PROVE AddedTo(n[2])
        <3>1. n \in DOMAIN sess /\ n[2] = Reviewer
            BY <1>11, <2>2 DEF ScreenMore, ScreenFiles, ScreenSessions, PerRisk
        <3>2. kind = "judge" /\ augmented[Reviewer] # Base
            <4>1. kind \in Kinds => n[1] = kind
                BY <1>6, <1>8, <2>2
            <4>2. kind \in {"edge", "edge-index", "review", "index", "risk-audit"} => n[1] = kind
                BY <1>8, <2>2
            <4>3. kind = "judge"
                BY <1>7, <1>9, <2>2, <4>1, <4>2
            <4> QED BY <1>8, <2>2, <4>3
        <3>3. at = 20 \/ at = 22 \/ at \in 9 .. 17
            BY <1>1, <1>4, <1>5, <3>2
        <3>4. at = 20
            <4>1. at \in 9 .. 22 /\ ScreenScript[at][3] = "judge"
                BY <1>1, <1>3, <3>2, <3>3
            <4>2. at \in {15, 18, 19, 20, 21}
                BY <4>1, ScreenKinds
            <4> QED BY <1>1, <4>2
        <3> QED BY <3>1, <3>2, <3>4 DEF ScreenMore, ScreenPlaced, AddedTo
    <2> QED BY <1>11, <2>1, <2>2 DEF Ready
<1>13. at = ConsultedAt => Consulted \subseteq ScreenWanted
    <2> SUFFICES ASSUME at = ConsultedAt PROVE Consulted \subseteq ScreenWanted
        OBVIOUS
    <2>1. CASE approach = "upfront-probes-only"
        <3>1. kind = "upfront" /\ kind \in Kinds /\ Consulted = {<<"upfront", 0>>}
            BY <1>1, <1>3, <2>1, ScreenPools DEF ConsultedAt, Kinds, Consulted
        <3> QED BY <1>8, <3>1
    <2>2. CASE approach = "parallel-independent-challenger"
        <3>1. kind = "parallel" /\ kind \in Kinds /\ Consulted = IF sealed = {} THEN {} ELSE {<<"parallel", 0>>}
            BY <1>1, <1>3, <2>2, ScreenPools DEF ConsultedAt, Kinds, Consulted
        <3> QED BY <1>8, <3>1
    <2>3. CASE approach = "late-batch-confirmed"
        <3>1. kind = "batch" /\ kind \in Kinds /\ Consulted = IF sealed = {} THEN {} ELSE {<<"batch", 0>>}
            BY <1>1, <1>3, <2>3, ScreenPools DEF ConsultedAt, Kinds, Consulted
        <3> QED BY <1>8, <3>1
    <2>4. CASE approach = "coverage-filtered-per-risk"
        <3>1. kind = "coverage-verify" /\ kind \in Kinds
            BY <1>1, <1>3, <2>4, ScreenPools DEF ConsultedAt, Kinds
        <3>2. Consulted \subseteq {"coverage-verify"} \X (sealed \ CoverageMap.covered)
            BY <2>4 DEF Consulted
        <3> QED BY <1>8, <3>1, <3>2
    <2>5. CASE approach = "test-scenario-confirmed"
        <3>1. kind = "test-scenario" /\ kind \in Kinds
            BY <1>1, <1>3, <2>5, ScreenPools DEF ConsultedAt, Kinds
        <3>2. Consulted \subseteq {"test-scenario"} \X sealed
            BY <2>5 DEF Consulted
        <3> QED BY <1>8, <3>1, <3>2
    <2>6. CASE approach \notin {"upfront-probes-only", "parallel-independent-challenger", "late-batch-confirmed",
                                "coverage-filtered-per-risk", "test-scenario-confirmed"}
        <3>1. kind = "per-risk" /\ kind \in Kinds
            BY <1>1, <1>3, <2>6, ScreenPools DEF ConsultedAt, Kinds
        <3>2. Consulted \subseteq {"per-risk"} \X sealed
            BY <2>6 DEF Consulted
        <3> QED BY <1>8, <3>1, <3>2
    <2> QED BY <2>1, <2>2, <2>3, <2>4, <2>5, <2>6
<1>14. /\ at = 7 => ReviewIndex \in ScreenWanted
       /\ at = 20 /\ augmented[Reviewer] # Base => Judge(Reviewer) \in ScreenWanted
    BY <1>5, <1>8 DEF ReviewIndex
<1> QED BY <1>1, <1>2, <1>11, <1>12, <1>13, <1>14

\* A candidate is a set of decisions
LEMMA DecisionsArePairs == \A given : \A answer \in Decisions(given) : \A d \in answer : d = <<d[1], d[2]>>
<1> SUFFICES ASSUME NEW given, NEW answer \in Decisions(given), NEW d \in answer PROVE d = <<d[1], d[2]>>
    OBVIOUS
<1>1. \/ \E f \in [given -> {"confirmed", "defeated", "unanchored"}] : answer = {<<r, f[r]>> : r \in given}
      \/ \E r \in Risks : answer = {<<r, "confirmed">>}
      \/ answer = {}
    BY DEF Decisions
<1>2. \E x, y : d = <<x, y>>
    BY <1>1
<1> QED BY <1>2

LEMMA RepliesAre ==
  ASSUME ScreenFiles, NEW n \in DOMAIN sess, NEW answer \in Replies(n)
  PROVE  /\ n = EdgeIndex => \E k \in 0 .. Cardinality(Risks) : answer.risks = 1 .. k
         /\ n = <<"upfront", 0>> => answer = "text"
         /\ n[1] \in PerRisk \union {"parallel", "batch"} => \A d \in answer : d = <<d[1], d[2]>>
<1>1. CASE n = EdgeIndex
    <2>1. n[1] = "edge-index"
        BY <1>1 DEF EdgeIndex
    <2>2. answer \in [base : BOOLEAN, risks : {1 .. k : k \in 0 .. Cardinality(Risks)}]
        BY <2>1 DEF Replies, PerRisk
    <2>3. \E k \in 0 .. Cardinality(Risks) : answer.risks = 1 .. k
        BY <2>2
    <2> QED BY <1>1, <2>1, <2>3 DEF PerRisk
<1>2. CASE n[1] = "upfront"
    BY <1>2 DEF Replies, PerRisk, EdgeIndex
<1>3. CASE n[1] \in {"parallel", "batch"}
    BY <1>3, DecisionsArePairs DEF Replies, EdgeIndex
<1>4. CASE n[1] \in PerRisk
    BY <1>4, DecisionsArePairs DEF Replies, EdgeIndex, PerRisk
<1>5. CASE n # EdgeIndex /\ n[1] \notin PerRisk \union {"parallel", "batch", "upfront"}
    BY <1>5
<1> QED BY <1>1, <1>2, <1>3, <1>4, <1>5

\* What a session of the screen writes
LEMMA ScreenWritten ==
  ASSUME ScreenInv, ScreenMore, PoolInv, Tallied, NEW n \in queue \union running, screen_run_session(n),
         UNCHANGED <<approach, sealed, sources, augmented>>
  PROVE  AnswersTold' /\ \A m \in DOMAIN sess : WellFormed(m)'
<1>1. n \in DOMAIN sess /\ SessionMoves(n) /\ ScreenFiles /\ AnswersTold
    BY SessionIsMove DEF ScreenMore, AnswersTold, InPool
<1>2. /\ DOMAIN sess' = DOMAIN sess /\ \A m \in DOMAIN sess : m # n => sess'[m] = sess[m]
      /\ StartSession(n) \/ AcceptSession(n) \/ FailSession(n) =>
           SameAnswer(n) /\ sess'[n].result = sess[n].result
      /\ \A result, about : n \in running /\ WriteResult(n, result, about) =>
           sess'[n].result = result /\ sess'[n].about = about
    BY <1>1, SessionEffect
<1>3. \/ SameAnswer(n) /\ sess'[n].result = sess[n].result
      \/ sess'[n].result \in Replies(n) /\ sess'[n].about = Quotes(n)
    <2>1. CASE StartSession(n) \/ AcceptSession(n) \/ FailSession(n)
        BY <1>2, <2>1
    <2>2. CASE n \in running /\ \E answer \in Replies(n) : WriteResult(n, answer, Quotes(n))
        <3>1. PICK answer \in Replies(n) : WriteResult(n, answer, Quotes(n))
            BY <2>2
        <3> QED BY <1>2, <2>2, <3>1
    <2> QED BY <2>1, <2>2 DEF screen_run_session, RunSession
<1>4. n[1] = "judge" => n[2] = Reviewer /\ Quotes(n)[2] = augmented[n[2]]
    <2>1. n[1] = "judge" => n[2] = Reviewer
        BY <1>1 DEF ScreenFiles, ScreenSessions, PerRisk
    <2> QED BY <2>1 DEF Quotes
<1>5. AnswersTold'
    <2>1. Cited(n) = {}
        BY <1>1, ScreenCites
    <2>2. \/ SameAnswer(n)
          \/ /\ \A m \in Cited(n) : sess'[n].about[2] = sess[m].by
             /\ n[1] = "judge" => sess'[n].about[2] = augmented[n[2]]
        BY <1>3, <1>4, <2>1
    <2> QED BY <1>1, <2>2, SessionTold
<1>6. \A m \in DOMAIN sess : m # n => (WellFormed(m) => WellFormed(m)')
    BY <1>2 DEF WellFormed, Result
<1>7. WellFormed(n)'
    <2>1. CASE SameAnswer(n) /\ sess'[n].result = sess[n].result
        BY <1>1, <2>1 DEF ScreenFiles, WellFormed, Result, SameAnswer
    <2>2. CASE sess'[n].result \in Replies(n)
        BY <1>1, <2>2, RepliesAre DEF WellFormed, Result
    <2> QED BY <1>3, <2>1, <2>2
<1> QED BY <1>1, <1>5, <1>6, <1>7 DEF ScreenFiles

\* A pool keeps what it was given
LEMMA ScreenHolds ==
  ASSUME ScreenInv, ScreenMore, PoolInv, Tallied, program = "screen", Pool(ScreenWanted, screen_run_session),
         UNCHANGED <<gapVars, blockVars, screenVars>>
  PROVE  ScreenHeld'
<1>1. Pooled /\ UNCHANGED <<at, approach, sealed, augmented>>
    BY DEF Pool, phaseVars, blockVars, screenVars
<1>2. /\ at = 7 => ReviewIndex \in ScreenWanted
      /\ at = ConsultedAt => Consulted \subseteq ScreenWanted
      /\ at = 20 /\ augmented[Reviewer] # Base => Judge(Reviewer) \in ScreenWanted
      /\ ScreenWanted \subseteq DOMAIN sess
    BY <1>1, ScreenGiven
<1>3. Stands
    BY PoolsMove, PoolMovesKeep DEF screen_run_sessions
<1>4. ConsultedAt' = ConsultedAt /\ (at = ConsultedAt => Consulted' = Consulted)
    <2>1. ASSUME at = ConsultedAt PROVE Consulted' = Consulted
        <3>1. Briefed /\ Filtered
            BY <2>1, ConsultedAfter DEF ScreenInv
        <3> QED BY <1>1, <1>3, <3>1, ConsultedStay DEF ScreenMore
    <2> QED BY <1>1, <2>1 DEF ConsultedAt
<1>5. CASE Submit(ScreenWanted)
    <2>1. queue' = Unaccepted(ScreenWanted) /\ UNCHANGED <<sess, running>>
        BY <1>5 DEF Submit
    <2>2. \A n \in ScreenWanted : Held(n)'
        BY <2>1 DEF Unaccepted, Held, Accepted
    <2> QED BY <1>1, <1>2, <1>4, <2>2 DEF ScreenHeld
<1>6. CASE CancelQueued
    BY <1>6 DEF CancelQueued, ScreenHeld
<1>7. ASSUME NEW n, SessionMoves(n) PROVE ScreenHeld'
    <2> SUFFICES ASSUME round' # 0, ~raising' PROVE ScreenHeld'
        BY DEF ScreenHeld
    <2>1. round' = round /\ ~raising /\ program \in Strict
        <3>1. program \in Strict
            BY DEF Strict
        <3>2. FailSession(n) => raising'
            BY <3>1, Zenon DEF FailSession
        <3>3. UNCHANGED <<raising, round>>
            BY <1>7, <3>2 DEF SessionMoves, StartSession, WriteResult, AcceptSession
        <3>4. ~raising
            BY <3>3, Zenon
        <3> QED BY <3>1, <3>3, <3>4
    <2>2. \A m \in DOMAIN sess : Held(m) => Held(m)'
        BY <1>7, <2>1, HeldStays
    <2>3. at = 7 => Held(ReviewIndex)'
        BY <1>2, <2>1, <2>2 DEF ScreenMore, ScreenHeld
    <2>4. at = ConsultedAt => \A m \in Consulted : Held(m)'
        BY <1>2, <2>1, <2>2 DEF ScreenMore, ScreenHeld
    <2>5. at = 20 /\ augmented[Reviewer] # Base => Held(Judge(Reviewer))'
        BY <1>2, <2>1, <2>2 DEF ScreenMore, ScreenHeld
    <2> QED BY <1>1, <1>4, <2>3, <2>4, <2>5 DEF ScreenHeld
<1> QED BY <1>5, <1>6, <1>7, SessionIsMove DEF Pool

\* A step inside a pool
LEMMA ScreenInPool ==
  ASSUME ScreenInv, ScreenMore, PoolInv, Tallied, program = "screen", Pool(ScreenWanted, screen_run_session),
         UNCHANGED <<gapVars, blockVars, screenVars>>
  PROVE  ScreenMore'
<1>1. /\ Pooled /\ at > 0
      /\ UNCHANGED <<program, script, at, reached, approach, sealed, findings, sources, augmented, judgment>>
    BY DEF Pool, phaseVars, gapVars, blockVars, screenVars, Pooled, Doing
<1>2. Stands /\ program \in Strict
    BY PoolsMove, PoolMovesKeep DEF screen_run_sessions, Strict
<1>3. ScreenWanted \subseteq DOMAIN sess /\ (\A n \in ScreenWanted : Ready(n)) /\ at \in 1 .. 24
    BY <1>1, ScreenGiven
<1>4. ReviewStands' /\ JudgmentsStand'
    BY <1>1, <1>2, ReviewStays, ScreenJudgingStays DEF ScreenMore, ScreenInv
<1>5. AnswersTold' /\ \A n \in DOMAIN sess : WellFormed(n)'
    <2>1. ASSUME sess' = sess, InPool' \subseteq InPool \union ScreenWanted
          PROVE  AnswersTold' /\ \A n \in DOMAIN sess : WellFormed(n)'
        <3>1. \A n : /\ Accepted(n)' <=> Accepted(n)
                     /\ Cited(n)' = Cited(n) /\ (Ready(n)' <=> Ready(n)) /\ (Told(n)' <=> Told(n))
            BY <1>1, <2>1 DEF Accepted, Cited, Quoted, Ready, Told, AddedTo
        <3>2. \A n : WellFormed(n)' <=> WellFormed(n)
            BY <2>1 DEF WellFormed, Result
        <3> QED BY <1>3, <2>1, <3>1, <3>2 DEF ScreenMore, ScreenFiles, AnswersTold
    <2>2. CASE Submit(ScreenWanted)
        <3>1. sess' = sess /\ queue' = Unaccepted(ScreenWanted) /\ UNCHANGED <<running, failed>>
            BY <2>2 DEF Submit
        <3>2. InPool' \subseteq InPool \union ScreenWanted
            BY <3>1 DEF InPool, Unaccepted
        <3> QED BY <2>1, <3>1, <3>2
    <2>3. CASE CancelQueued
        <3>1. sess' = sess /\ InPool' \subseteq InPool
            BY <2>3 DEF CancelQueued, InPool
        <3> QED BY <2>1, <3>1
    <2>4. ASSUME NEW n \in queue \union running, screen_run_session(n)
          PROVE  AnswersTold' /\ \A m \in DOMAIN sess : WellFormed(m)'
        BY <1>1, <2>4, ScreenWritten
    <2> QED BY <2>2, <2>3, <2>4 DEF Pool
<1>6. ScreenFiles'
    <2>1. Kinds' = Kinds /\ DOMAIN sess' = DOMAIN sess
        BY <1>1, <1>2 DEF Kinds, Stands
    <2> QED BY <1>1, <1>5, <2>1 DEF ScreenMore, ScreenFiles
<1>7. ScreenPlaced'
    <2>1. (Accepted(ReviewIndex) => Accepted(ReviewIndex)') /\ (Indexed => Indexed')
        BY <1>1, <1>2, IndexedStays DEF ScreenMore
    <2>2. ConsultedAt' = ConsultedAt
        BY <1>1 DEF ConsultedAt
    <2>3. at > ConsultedAt \/ reached \intersect AfterMapping # {} => \A n \in Consulted' : Accepted(n)'
        <3> SUFFICES ASSUME at > ConsultedAt \/ reached \intersect AfterMapping # {}
                     PROVE  \A n \in Consulted' : Accepted(n)'
            OBVIOUS
        <3>1. at >= ConsultedAt \/ reached \intersect AfterMapping # {}
            <4>1. PICK c \in 9 .. 17 : c = ConsultedAt
                BY ConsultedAfter
            <4> QED BY <1>3, <4>1
        <3>2. Briefed /\ Filtered /\ \A n \in Consulted : Accepted(n)
            BY <3>1, ConsultedAfter DEF ScreenMore, ScreenPlaced
        <3> QED BY <1>1, <1>2, <3>2, ConsultedStay DEF ScreenMore
    <2>4. Accepted(Judge(Reviewer)) => Accepted(Judge(Reviewer))'
        <3>1. Judge(Reviewer) \in DOMAIN sess
            BY DEF ScreenMore, ScreenFiles, ScreenSessions, Judge
        <3> QED BY <1>2, <3>1 DEF Stands, Accepted
    <2> QED BY <1>1, <2>1, <2>2, <2>3, <2>4 DEF ScreenMore, ScreenPlaced
<1>8. ScreenHeld'
    BY ScreenHolds
<1> QED BY <1>4, <1>5, <1>6, <1>7, <1>8 DEF ScreenMore

\* A pool returns: all it was given is accepted
LEMMA ScreenPoolReturned ==
  ASSUME ScreenInv, ScreenMore, PoolInv, PoolInv', Tallied, program = "screen", PoolReturns,
         UNCHANGED <<gapVars, blockVars, screenVars>>
  PROVE  ScreenMore'
<1>1. /\ Pooled /\ Advance /\ round > 0 /\ queue = {} /\ running = {} /\ ~raising /\ round' = 0
      /\ UNCHANGED <<program, script, sess, approach, sealed, findings, augmented, judgment>>
    BY DEF PoolReturns, Returns, PoolEmpty, blockVars, screenVars
<1>2. at \in 1 .. 24 /\ at \notin {5, 8, 18, 19, 21}
    BY <1>1, ScreenGiven
<1>3. Stands /\ InPool' = {} /\ program \in Strict
    BY <1>1, NoPoolHolds DEF Stands, Strict
<1>4. \A n : Held(n) => Accepted(n)
    BY <1>1 DEF Held
<1>5. /\ at = 7 => Accepted(ReviewIndex)
      /\ at = ConsultedAt => \A n \in Consulted : Accepted(n)
      /\ at = 20 /\ augmented[Reviewer] # Base => Accepted(Judge(Reviewer))
    BY <1>1, <1>4 DEF ScreenMore, ScreenHeld
<1>6. ScreenPlaced'
    BY <1>1, <1>2, <1>3, <1>5, ScreenOnwards
<1>7. ReviewStands' /\ ScreenHeld'
    BY <1>1, <1>3, ReviewStays DEF ScreenMore, ScreenHeld
<1>8. ScreenFiles'
    BY <1>1, ScreenFilesStay DEF ScreenMore
<1>9. AnswersTold' /\ JudgmentsStand'
    BY <1>1, <1>3, ScreenTellingStays, ScreenJudgingStays DEF ScreenMore, ScreenInv
<1> QED BY <1>6, <1>7, <1>8, <1>9 DEF ScreenMore

LEMMA ScreenMoreKept ==
  ASSUME ScreenInv, ScreenMore, PoolInv, PoolInv', Tallied, program = "screen", ScreenNext PROVE ScreenMore'
<1>1. CASE Driven /\ UNCHANGED screenVars
    BY <1>1, ScreenDriven
<1>2. CASE screen_setup \/ unleaked \/ approaches \/ audit \/ screen_summarize
    BY <1>2, ScreenQuiet
<1>3. CASE prep \/ screen_reviews
    BY <1>3, ScreenBriefed, ScreenBound
<1>4. CASE assemble \/ screen_judge
    BY <1>4, ScreenPutTogether, ScreenJudged
<1>5. CASE screen_run_sessions
    BY <1>5, ScreenInPool, ScreenPoolReturned DEF screen_run_sessions
<1> QED BY <1>1, <1>2, <1>3, <1>4, <1>5 DEF ScreenNext

ScreenSound == program = "screen" => ScreenMore

LEMMA ScreenSoundAtFirst == Init => ScreenSound
<1> SUFFICES ASSUME Init, program = "screen" PROVE ScreenMore
    BY DEF ScreenSound
<1>1. ScreenInit
    BY DEF Init, GapInit, Scripts
<1>2. /\ at = 0 /\ reached = {} /\ round = 0 /\ queue = {} /\ running = {} /\ failed = {}
      /\ approach \in AUTOMATIC_APPROACHES
      /\ augmented = [b \in {Reviewer} |-> <<>>] /\ judgment = [b \in {Reviewer} |-> NoJudgment]
      /\ sess = [n \in {n \in ScreenSessions :
                          n[1] \in Kinds \union {"edge", "edge-index", "review", "index", "judge", "risk-audit"}}
                   |-> NoSession]
    BY <1>1 DEF ScreenInit, HarnessInit, BlocksInit
<1>3. \A n \in DOMAIN sess : sess[n].by = 0 /\ ~Accepted(n)
    BY <1>2 DEF NoSession, Accepted
<1>4. ScreenFiles
    BY <1>2, <1>3 DEF ScreenFiles, WellFormed
<1>5. ScreenPlaced
    <2>1. ConsultedAt \in {9, 11, 12, 13, 16, 17}
        BY DEF ConsultedAt
    <2> QED BY <1>2, <2>1 DEF ScreenPlaced
<1>6. ScreenHeld /\ ReviewStands
    BY <1>2 DEF ScreenHeld, ReviewStands
<1>7. AnswersTold
    BY <1>2, <1>3 DEF AnswersTold, Told, InPool
<1>8. JudgmentsStand
    <2>1. judgment[Reviewer] = NoJudgment /\ NoJudgment.verdict = "none"
        BY <1>2 DEF NoJudgment
    <2> QED BY <1>2, <2>1 DEF JudgmentsStand
<1> QED BY <1>4, <1>5, <1>6, <1>7, <1>8 DEF ScreenMore

LEMMA ScreenSoundKeeps == QaInit /\ [][QaNext]_<<vars, batteryVars, tool>> => []ScreenSound
<1>1. QaInit => ScreenSound
    BY ScreenSoundAtFirst DEF QaInit
<1>2. HarnessInv /\ ScreenSafe /\ ScreenSound /\ [QaNext]_<<vars, batteryVars, tool>> => ScreenSound'
    <2> SUFFICES ASSUME HarnessInv, ScreenSafe, ScreenSound, [Next]_vars, program' = "screen" PROVE ScreenMore'
        BY DEF QaNext, ScreenSound
    <2>1. program = "screen" /\ ScreenInv /\ ScreenMore
        BY SameProgram DEF ScreenSafe, ScreenSound
    <2>2. PoolInv /\ PoolInv' /\ Tallied
        BY HarnessStepKeeps DEF HarnessInv
    <2>3. CASE ScreenNext
        BY <2>1, <2>2, <2>3, ScreenMoreKept
    <2>4. CASE UNCHANGED vars
        <3>1. UNCHANGED <<program, script, at, reached, sess, queue, running, failed, raising, round,
                          augmented, judgment, approach, sealed, findings>>
            BY <2>4 DEF vars, harnessVars, phaseVars, poolVars, blockVars, screenVars
        <3>2. Stands /\ InPool' = InPool /\ program \in Strict
            BY <2>1, <3>1 DEF Stands, InPool, Strict
        <3>3. ReviewStands' /\ AnswersTold' /\ JudgmentsStand' /\ ScreenFiles'
            <4>1. ReviewStands'
                BY <2>1, <2>2, <3>1, <3>2, ReviewStays DEF ScreenMore
            <4>2. AnswersTold' /\ JudgmentsStand'
                BY <2>1, <3>1, <3>2, ScreenTellingStays, ScreenJudgingStays DEF ScreenMore, ScreenInv
            <4>3. ScreenFiles'
                BY <2>1, <3>1, ScreenFilesStay DEF ScreenMore, ScreenFiles
            <4> QED BY <4>1, <4>2, <4>3
        <3>4. /\ Indexed' <=> Indexed
              /\ Consulted' = Consulted /\ \A n : Accepted(n)' <=> Accepted(n)
              /\ ConsultedAt' = ConsultedAt /\ \A n : Held(n)' <=> Held(n)
            BY <3>1 DEF Indexed, Accepted, Result, Consulted, CoverageMap, ConsultedAt, Held
        <3>5. ScreenPlaced' /\ ScreenHeld'
            BY <2>1, <3>1, <3>4 DEF ScreenMore, ScreenPlaced, ScreenHeld
        <3> QED BY <3>3, <3>5 DEF ScreenMore
    <2> QED BY <2>1, <2>3, <2>4 DEF Next
<1> QED BY <1>1, <1>2, HarnessKeeps, ScreenKeeps, PTL

\* What the screen adds to the review
LEMMA ScreenFailClosed == ASSUME ScreenInv, ScreenMore, Tallied PROVE FailClosed
<1> SUFFICES ASSUME Len(augmented[Reviewer]) = 2, NEW f \in augmented[Reviewer][2], NEW n, n = f[1]
             PROVE  /\ sess[n].accepted = f[2] /\ sess[n].by = f[2]
                    /\ IF f[3] = 0 THEN Result(n) \in {"finding", "uncovered", "text"}
                       ELSE <<f[3], "confirmed">> \in Result(n)
                    /\ \A m \in Quoted(n) : sess[m].accepted = sess[m].by /\ sess[n].about[2] = sess[m].by
    BY DEF FailClosed, ScreenInv
<1>1. augmented[Reviewer] # <<>> /\ augmented[Reviewer] # Base
    <2>1. Len(<<>>) = 0 /\ Len(Base) = 1
        BY DEF Base
    <2> QED BY <2>1
<1>2. (\A k \in Consulted : Accepted(k)) /\ augmented[Reviewer] = Assembly /\ Briefed
    BY <1>1 DEF ScreenInv, ScreenMore, ReviewStands
<1>3. /\ Consulted \subseteq DOMAIN sess /\ 0 \notin sealed
      /\ approach # "upfront-probes-only" => Sources \subseteq Consulted
    BY <1>2, ConsultedKnown DEF ScreenMore
<1>4. ASSUME NEW k \in Consulted
      PROVE  sess[k].by # 0 /\ sess[k].accepted = sess[k].by /\ WellFormed(k) /\ Quoted(k) = {}
    <2>1. k \in DOMAIN sess /\ Accepted(k)
        BY <1>2, <1>3, <1>4
    <2>2. Quoted(k) = {}
        BY <2>1 DEF ScreenMore, ScreenFiles, ScreenSessions, PerRisk, Quoted
    <2> QED BY <2>1, <2>2 DEF Tallied, ScreenMore, AnswersTold, ScreenFiles
<1>5. CASE approach = "upfront-probes-only"
    <2>1. Assembly = Found(<<"upfront", 0>>) /\ <<"upfront", 0>> \in Consulted
        BY <1>5 DEF Assembly, Consulted
    <2>2. f = <<<<"upfront", 0>>, sess[<<"upfront", 0>>].by, 0>>
        BY <1>2, <2>1, AddedIs DEF Found
    <2>3. n = <<"upfront", 0>> /\ f[2] = sess[n].by /\ f[3] = 0
        BY <2>2
    <2>4. Result(n) = "text"
        BY <1>4, <2>1, <2>3 DEF WellFormed
    <2> QED BY <1>4, <2>1, <2>3, <2>4
<1>6. CASE approach # "upfront-probes-only"
    <2> DEFINE confirmed == {p \in combined_candidate : p[3] = "confirmed"}
               added == {<<p[1], sess[p[1]].by, p[2]>> : p \in confirmed}
    <2>1. augmented[Reviewer] = Added(added)
        BY <1>1, <1>2, <1>6 DEF Assembly, Appended
    <2>2. f \in added
        BY <2>1, AddedIs
    <2>3. PICK p \in combined_candidate : p[3] = "confirmed" /\ f = <<p[1], sess[p[1]].by, p[2]>>
        BY <2>2
    <2>4. PICK k \in Sources : \E d \in Result(k) : p = <<k, d[1], d[2]>>
        BY <2>3 DEF combined_candidate
    <2>a. PICK d \in Result(k) : p = <<k, d[1], d[2]>>
        BY <2>4
    <2>5. n = k /\ f[2] = sess[k].by /\ f[3] = d[1] /\ d[2] = "confirmed"
        BY <2>3, <2>a
    <2>6. k \in Consulted
        BY <1>3, <1>6, <2>4
    <2>7. k[1] \in PerRisk \union {"parallel", "batch"}
        BY <1>6, <2>4 DEF Sources, PerRisk
    <2>8. d = <<d[1], "confirmed">>
        BY <1>4, <2>a, <2>5, <2>6, <2>7 DEF WellFormed
    <2>9. f[3] # 0
        <3>1. f[3] \in Expected
            BY <1>6 DEF ScreenInv, DecidedOnce
        <3>2. Expected \subseteq sealed
            BY DEF Expected
        <3> QED BY <1>3, <3>1, <3>2
    <2> QED BY <1>4, <2>a, <2>5, <2>6, <2>8, <2>9
<1> QED BY <1>5, <1>6

LEMMA ScreenStand == ASSUME ScreenInv, ScreenMore PROVE JudgedAsItStands
<1>1. DOMAIN judgment = DOMAIN augmented
    BY DEF ScreenInv, ScreenMore, ScreenFiles
<1> QED BY <1>1 DEF ScreenMore, JudgmentsStand, JudgedAsItStands, Judge

\* Nothing is added to a frozen review but from the answer of an accepted session, the one that is
\* still there, and what that session was shown is an accepted answer too: the assembly and run_session
\* of the five run_*.py, through failures, retries, resumes and kills
THEOREM FindingsFailClosed == QaSpec => []FailClosed
<1>1. HarnessInv /\ AuditsSafe /\ ScreenSafe /\ ScreenSound => FailClosed
    BY AuditsFailClosed, ScreenFailClosed DEF HarnessInv, AuditsSafe, ScreenSafe, ScreenSound
<1> QED BY <1>1, HarnessKeeps, AuditsKeep, ScreenKeeps, ScreenSoundKeeps, PTL DEF QaSpec

\* A verdict is on the two reviews that are there, read by an accepted judge, and no strict harness
\* keeps one on another review or rules on identical bytes: judge of the five run_*.py
THEOREM VerdictsStand == QaSpec => []JudgedAsItStands
<1>1. AuditsSafe /\ ScreenSafe /\ ScreenSound => JudgedAsItStands
    BY AuditsStand, ScreenStand DEF AuditsSafe, ScreenSafe, ScreenSound
<1> QED BY <1>1, AuditsKeep, ScreenKeeps, ScreenSoundKeeps, PTL DEF QaSpec

=============================================================================
