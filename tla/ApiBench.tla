------------------------------ MODULE ApiBench ------------------------------
(***************************************************************************)
(* api_bench.py run: a tool-use loop against a model provider, or against  *)
(* a file of canned answers, under caps on turns, requests, tokens and     *)
(* dollars.  Each turn sends the whole conversation; the transport retries *)
(* transient HTTP errors; the answer's usage is added up and compared with *)
(* the caps; then its stop reason decides: tool calls are answered from    *)
(* stubs, a pause goes on, a scripted user turn is appended, or the run    *)
(* ends.  Whatever ends the loop, a finally clause writes summary.json.     *)
(*                                                                         *)
(* A message is its role and how many tool calls it makes or answers.      *)
(***************************************************************************)
EXTENDS Naturals, Sequences

CONSTANTS MaxTurns, MaxRequests,  \* max_turns and budget.max_requests
          TokenCap, UsdCap,       \* budget.max_total_tokens and max_usd, or NoCap
          NoCap,
          Prices,                 \* pricing: input, output, cacheRead, cacheWrite
          MaxRetries,             \* MAX_RETRIES: 2 in the code
          Script,                 \* how many scripted user turns there are
          MaxCalls, Usages,       \* what an answer may contain
          MaxRuns, MaxFaults      \* bounds

UsageType == [input : Nat, output : Nat, cacheRead : Nat, cacheWrite : Nat]

ASSUME BenchAssumption ==
    /\ MaxTurns \in Nat \ {0} /\ MaxRequests \in Nat \ {0}
    /\ TokenCap # NoCap => TokenCap \in Nat
    /\ UsdCap # NoCap => UsdCap \in Nat
    /\ Prices \in UsageType /\ Usages \subseteq UsageType
    /\ MaxRetries \in Nat /\ Script \in Nat /\ MaxCalls \in Nat
    /\ MaxRuns \in Nat /\ MaxFaults \in Nat

VARIABLES
    pc,            \* the next step of the run
    run,           \* its number
    provider, mock, \* whom it talks to, and whether the answers are canned
    turn, requests, attempt,
    conversation,  \* the messages
    pending,       \* pending_user_turns, the number of those left
    usage,         \* usage_total
    response,      \* the last answer that was parsed
    status, raised, \* what the summary says, and whether an exception is on its way
    exit,          \* how the process ended
    transcript, summary, \* the run that transcript.jsonl and summary.json are of,
                   \* 0 for no file
    faults         \* interrupts and kills left

spec == <<run, provider, mock>>
talk == <<turn, conversation, pending, usage, response>>
wire == <<requests, attempt>>
outcome == <<status, raised>>
files == <<transcript, summary>>
vars == <<pc, spec, talk, wire, outcome, exit, files, faults>>

Stops == {"tool_use", "pause_turn", "max_tokens", "refusal", "end_turn", "other"}
Answers == [stop : Stops, calls : 0 .. MaxCalls, usage : Usages]
Statuses == {"completed", "turn_limit", "budget_exceeded", "truncated", "refusal",
             "provider_error", "mock_exhausted", "protocol_error", "request_too_large"}
Messages == [role : {"user", "assistant", "results"}, calls : 0 .. MaxCalls]

NoUsage == [k \in {"input", "output", "cacheRead", "cacheWrite"} |-> 0]
NoAnswer == [stop |-> "none", calls |-> 0, usage |-> NoUsage]
User == [role |-> "user", calls |-> 0]

Looping == {"loop", "send", "sleep", "parse", "stop"}
Over == {"idle", "done", "killed"}

RunType ==
    /\ pc \in Looping \cup {"finally"} \cup Over
    /\ run \in Nat /\ provider \in {"anthropic", "openai-compatible"} /\ mock \in BOOLEAN
    /\ turn \in 0 .. MaxTurns /\ requests \in Nat /\ attempt \in 0 .. MaxRetries

TalkType ==
    /\ conversation \in Seq(Messages) /\ pending \in 0 .. Script
    /\ usage \in UsageType /\ response \in Answers \cup {NoAnswer}

EndType ==
    /\ status \in Statuses /\ raised \in BOOLEAN
    /\ exit \in {"none", "0", "1", "2", "signal"}
    /\ transcript \in Nat /\ summary \in Nat /\ faults \in Nat

TypeOK == RunType /\ TalkType /\ EndType

-----------------------------------------------------------------------------
(* Usage and caps *)

Plus(u, v) == [k \in DOMAIN u |-> u[k] + v[k]]

\* Input tokens count as uncached as far as they exceed the cached ones.  The
\* rounding of estimate_usd, to a millionth of a dollar, is left out: prices and
\* caps are whole numbers of that unit.
Spend(u) ==
    (IF u.input > u.cacheRead THEN u.input - u.cacheRead ELSE 0) * Prices.input
    + u.output * Prices.output + u.cacheRead * Prices.cacheRead
    + u.cacheWrite * Prices.cacheWrite

Exceeds(u) == \/ TokenCap # NoCap /\ u.input + u.output > TokenCap
              \/ UsdCap # NoCap /\ Spend(u) > UsdCap

-----------------------------------------------------------------------------
(* Start and end *)

\* cmd_run refuses a directory that is not empty, unless it is told --force
Refuse ==
    /\ pc \in Over /\ run < MaxRuns /\ transcript # 0
    /\ run' = run + 1 /\ exit' = "1"
    /\ UNCHANGED <<pc, provider, mock, talk, wire, outcome, files, faults>>

Start ==
    /\ pc \in Over /\ run < MaxRuns
    /\ run' = run + 1 /\ transcript' = run + 1
    /\ provider' \in {"anthropic", "openai-compatible"} /\ mock' \in BOOLEAN
    /\ turn' = 0 /\ requests' = 0 /\ attempt' = 0
    /\ conversation' = <<User>> /\ pending' \in 0 .. Script
    /\ usage' = NoUsage /\ response' = NoAnswer
    /\ status' = "completed" /\ raised' = FALSE /\ exit' = "none"
    /\ pc' = "loop"
    /\ UNCHANGED <<summary, faults>>

At(p) == pc = p /\ UNCHANGED <<spec, exit, files, faults>>
Stop(s) == pc' = "finally" /\ status' = s /\ UNCHANGED raised
Raise == pc' = "finally" /\ raised' = TRUE /\ UNCHANGED status
Go(p) == pc' = p /\ UNCHANGED outcome

\* The finally clause, and what cmd_run and main make of its result: 1 stands for
\* every exit with an exception
Summarize ==
    /\ pc = "finally"
    /\ summary' = run
    /\ exit' = IF raised THEN "1" ELSE IF status = "completed" THEN "0" ELSE "2"
    /\ pc' = "done"
    /\ UNCHANGED <<spec, talk, wire, outcome, transcript, faults>>

-----------------------------------------------------------------------------
(* One turn *)

\* The head of the loop
NextTurn ==
    /\ At("loop") /\ UNCHANGED <<conversation, pending, usage, response, requests>>
    /\ \/ turn >= MaxTurns /\ Stop("turn_limit") /\ UNCHANGED <<turn, attempt>>
       \/ /\ turn < MaxTurns /\ requests >= MaxRequests
          /\ Stop("budget_exceeded") /\ UNCHANGED <<turn, attempt>>
       \/ /\ turn < MaxTurns /\ requests < MaxRequests
          /\ turn' = turn + 1 /\ attempt' = 0 /\ Go("send")

\* The body is larger than 4 MB
TooLarge == At("send") /\ attempt = 0 /\ Stop("request_too_large") /\ UNCHANGED <<talk, wire>>

\* The canned answers, of which there is at least one, are used up
MockExhausted ==
    At("send") /\ mock /\ requests > 0 /\ Stop("mock_exhausted") /\ UNCHANGED <<talk, wire>>

\* (mutant) one retry too many
RetryOnceMore ==
    /\ At("send") /\ ~mock /\ attempt <= MaxRetries
    /\ requests' = requests + 1 /\ attempt' = attempt + 1
    /\ Go("sleep") /\ UNCHANGED talk

\* A status that may be retried
Retry ==
    /\ At("send") /\ ~mock /\ attempt < MaxRetries
    /\ requests' = requests + 1 /\ attempt' = attempt + 1
    /\ Go("sleep") /\ UNCHANGED talk

Wake == At("sleep") /\ Go("send") /\ UNCHANGED <<talk, wire>>

\* Another error, an answer that is too long or no object, or the last retry
HttpError ==
    /\ At("send") /\ ~mock
    /\ requests' = requests + 1 /\ UNCHANGED attempt
    /\ Stop("provider_error") /\ UNCHANGED talk

\* http_post raises: the request is not counted
NoResponse == At("send") /\ ~mock /\ Stop("provider_error") /\ UNCHANGED <<talk, wire>>

\* An object without the parts that parse_anthropic or parse_openai needs: the
\* exception passes the clause that would set the status
Unparseable ==
    /\ At("send")
    /\ requests' = requests + 1 /\ UNCHANGED attempt
    /\ Raise /\ UNCHANGED talk

Receive ==
    /\ At("send")
    /\ requests' = requests + 1 /\ UNCHANGED attempt
    /\ \E r \in Answers :
          /\ response' = r /\ usage' = Plus(usage, r.usage)
          /\ conversation' = Append(conversation, [role |-> "assistant", calls |-> r.calls])
    /\ Go("parse") /\ UNCHANGED <<turn, pending>>

\* (mutant) the last answer is compared, not the sum
CheckLast ==
    /\ At("parse") /\ UNCHANGED <<talk, wire>>
    /\ IF Exceeds(response.usage) THEN Stop("budget_exceeded") ELSE Go("stop")

\* The caps on tokens and dollars
CheckBudget ==
    /\ At("parse") /\ UNCHANGED <<talk, wire>>
    /\ IF Exceeds(usage) THEN Stop("budget_exceeded") ELSE Go("stop")

-----------------------------------------------------------------------------
(* The stop reason *)

\* (mutant) tool calls count only under the stop reason for them
StopsForTools(r) == r.stop = "tool_use"

ForTools(r) == r.stop = "tool_use" \/ (r.calls > 0 /\ r.stop \notin {"max_tokens", "refusal"})

\* anthropic_tool_results and openai_tool_results
Results(n) ==
    IF provider = "anthropic" THEN <<[role |-> "results", calls |-> n]>>
    ELSE [k \in 1 .. n |-> [role |-> "results", calls |-> 1]]

\* Every call is answered from the stubs, a call without a stub by an error
CallTools ==
    /\ At("stop") /\ ForTools(response) /\ UNCHANGED <<turn, pending, usage, response, wire>>
    /\ \/ response.calls = 0 /\ Stop("protocol_error") /\ UNCHANGED conversation
       \/ /\ response.calls > 0
          /\ conversation' = conversation \o Results(response.calls)
          /\ Go("loop")

Pause ==
    /\ At("stop") /\ ~ForTools(response) /\ response.stop = "pause_turn"
    /\ Go("loop") /\ UNCHANGED <<talk, wire>>

\* (mutant) the scripted turns are not looked at
EndAtOnce ==
    /\ At("stop") /\ ~ForTools(response) /\ response.stop = "end_turn"
    /\ Stop("completed") /\ UNCHANGED <<talk, wire>>

\* The next scripted user turn, or the end of the conversation
EndTurn ==
    /\ At("stop") /\ ~ForTools(response) /\ response.stop = "end_turn"
    /\ UNCHANGED <<turn, usage, response, wire>>
    /\ \/ /\ pending > 0 /\ pending' = pending - 1
          /\ conversation' = Append(conversation, User) /\ Go("loop")
       \/ pending = 0 /\ Stop("completed") /\ UNCHANGED <<pending, conversation>>

OtherStop ==
    /\ At("stop") /\ ~ForTools(response) /\ response.stop \in {"max_tokens", "refusal", "other"}
    /\ Stop(CASE response.stop = "max_tokens" -> "truncated"
              [] response.stop = "refusal" -> "refusal"
              [] OTHER -> "protocol_error")
    /\ UNCHANGED <<talk, wire>>

Bench ==
    \/ NextTurn \/ TooLarge \/ MockExhausted \/ Retry \/ Wake \/ HttpError \/ NoResponse
    \/ Unparseable \/ Receive \/ CheckBudget \/ CallTools \/ Pause \/ EndTurn \/ OtherStop
    \/ Summarize

-----------------------------------------------------------------------------
(* Interruptions *)

Fault == faults > 0 /\ faults' = faults - 1 /\ UNCHANGED <<spec, talk, wire, transcript>>

\* Ctrl-C, or an OSError of the recorder, inside the try statement
Interrupt == Fault /\ pc \in Looping /\ Raise /\ UNCHANGED <<exit, summary>>

\* summary.json after a death in the finally clause: what was there, an incomplete
\* file, or the run's own
Left == IF pc = "finally" THEN {summary, 0, run} ELSE {summary}

\* Ctrl-C, or a failing write, outside the try statement: of run_start, of run_end,
\* of summary.json, or of what cmd_run prints at last
Uncaught ==
    /\ Fault
    /\ pc = "finally" \/ (pc = "loop" /\ turn = 0)
    /\ summary' \in Left
    /\ pc' = "done" /\ exit' = "1" /\ raised' = TRUE /\ UNCHANGED status

\* SIGKILL, or a signal that Python does not turn into an exception
Kill == /\ Fault /\ pc \notin Over
        /\ summary' \in Left
        /\ pc' = "killed" /\ exit' = "signal" /\ UNCHANGED outcome

-----------------------------------------------------------------------------
Init ==
    /\ pc = "idle" /\ run = 0 /\ provider = "anthropic" /\ mock = FALSE
    /\ turn = 0 /\ requests = 0 /\ attempt = 0
    /\ conversation = <<>> /\ pending = 0 /\ usage = NoUsage /\ response = NoAnswer
    /\ status = "completed" /\ raised = FALSE /\ exit = "none"
    /\ transcript = 0 /\ summary = 0 /\ faults = MaxFaults

\* No further run is started
Rest == pc \in Over /\ UNCHANGED vars

Next == Refuse \/ Start \/ Bench \/ Interrupt \/ Uncaught \/ Kill \/ Rest

Spec == Init /\ [][Next]_vars

-----------------------------------------------------------------------------
(* Properties *)

\* max_requests counts every request, but it is looked at once a turn: a run
\* sends at most the retries of its last turn more.
RequestsBounded == requests <= MaxRequests + MaxRetries

\* Once the tokens or the dollars of all answers so far exceed their cap, nothing
\* is sent any more, whatever the answers asked for.
SilentPastCap == [][requests' > requests => ~Exceeds(usage)]_vars

\* The tool calls of message i are answered by the messages right after it
Answered(i) ==
    conversation[i].role = "assistant" /\ conversation[i].calls > 0 =>
        LET results == Results(conversation[i].calls) IN
        /\ i + Len(results) <= Len(conversation)
        /\ \A k \in DOMAIN results : conversation[i + k] = results[k]

\* Whatever the stop reason of an answer was, its tool calls are answered before
\* the next request: in one message for Anthropic, in one for each call for the
\* others.
CallsAnswered == pc = "send" => \A i \in DOMAIN conversation : Answered(i)

\* The model has ended its turn, within the budget, and the script is used up
Finished == /\ response.stop = "end_turn" /\ response.calls = 0
            /\ pending = 0 /\ ~Exceeds(usage)

\* The exit code is 0 only for a conversation that ended by itself, and with the
\* run's own summary beside its transcript, never that of an earlier run in the
\* same directory.
ExitZero == exit = "0" => Finished /\ summary = transcript

=============================================================================
