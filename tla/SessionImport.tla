--------------------------- MODULE SessionImport ---------------------------
(***************************************************************************)
(* import-codex-session.mjs and import-claude-session.mjs: one import reads *)
(* the log of a session, maps it to rows and posts them in requests of at   *)
(* most MAX_EVENTS_PER_REQUEST, until one fails.  A hook starts one after    *)
(* each turn, while the log grows and an earlier import may still post.     *)
(* No request is given up or called back: what a failed or killed import    *)
(* sent last may reach the collector after later imports have posted.       *)
(*                                                                         *)
(* A record of a log has a kind and the call or message it belongs to; its  *)
(* time is its position.  A row keeps its id, its parent, its end and the    *)
(* position of the newest record that is in it.  Redaction, truncation and  *)
(* the fields' contents are left out.  The agents and the collector are     *)
(* external.                                                               *)
(***************************************************************************)
EXTENDS Naturals, FiniteSetsExt, SequencesExt

CONSTANTS Threads,    \* the sessions (numbers, 0 is none)
          Imports,    \* the processes
          Refs,       \* ids of calls and of messages (numbers)
          RowsPerRequest,  \* MAX_EVENTS_PER_REQUEST
          MaxRecords, MaxRuns, MaxFailures  \* bounds

ASSUME ImportAssumption ==
    /\ Threads \subseteq Nat \ {0} /\ Refs \subseteq Nat \ {0}
    /\ RowsPerRequest \in Nat \ {0}
    /\ MaxRecords \in Nat /\ MaxRuns \in Nat /\ MaxFailures \in Nat

VARIABLES
    agent,     \* whose logs: codex or claude
    logs,      \* the records of each session
    newest,    \* the session whose log was written last, or 0
    written,   \* how many records there are
    imports,   \* of each process: its session, the one it was told, how much it read,
               \* the rows left to post, whether it met no other import and no late request
    adrift,    \* requests of imports that failed or were killed, still on their way
    rows,      \* the collector's rows of each session
    alone,     \* history: how much of a session the last import read, if that one
               \* met no other, no failure and no late request, and none came since; else 0
    runs, failures

importVars == <<agent, logs, newest, written, imports, adrift, rows, alone, runs, failures>>

Idle == [of |-> 0, told |-> 0, read |-> 0, left |-> <<>>, clean |-> FALSE]
Line(kind, ref) == [kind |-> kind, ref |-> ref]
CodexLines ==
    {Line(k, 0) : k \in {"task_started", "task_complete", "token_count", "patch_apply_end", "message"}}
      \cup {Line(k, c) : k \in {"call", "call_output", "mcp_tool_call_end"}, c \in Refs}
ClaudeLines ==
    {Line(k, 0) : k \in {"user", "other"}}
      \cup {Line(k, c) : k \in {"tool_result", "assistant", "tool_use"}, c \in Refs}

-----------------------------------------------------------------------------
(* What a mapping has gathered so far.  open: generations without usage *)

Nothing == [turns |-> <<>>, gens |-> <<>>, open |-> {}, tools |-> <<>>, extra |-> <<>>, output |-> 0]

turn(m) == Len(m.turns)
Span(id, parent, end, at) == [id |-> id, parent |-> parent, end |-> end, at |-> at]

\* An open turn ends where the next one starts, or where it completes
Closed(m, at) ==
    IF turn(m) = 0 \/ Last(m.turns).end # 0 THEN m
    ELSE [m EXCEPT !.turns[turn(m)] = [@ EXCEPT !.end = at, !.at = at]]

NewTurn(m, at) ==
    [m EXCEPT !.turns = Append(@, Span(<<"turn", Len(@) + 1>>, 0, 0, at))]

task_started(m, r, at) == NewTurn(Closed(m, at), at)
task_complete(m, r, at) == [Closed(m, at) EXCEPT !.output = at]

\* The usage belongs to the generations since the last count
token_count(m, r, at) ==
    [m EXCEPT !.gens = [k \in DOMAIN @ |-> IF k \in m.open THEN [@[k] EXCEPT !.at = at] ELSE @[k]],
              !.open = {}]

mcp_tool_call_end(m, r, at) ==
    [m EXCEPT !.extra = Append(@, Span(<<"tool", r.ref>>, turn(m), at, at))]

patch_apply_end(m, r, at) ==
    [m EXCEPT !.extra = Append(@, Span(<<"patch", Len(@)>>, turn(m), at, at))]

message(m, r, at) ==
    [m EXCEPT !.gens = Append(@, Span(<<"gen", Len(@)>>, turn(m), at, at)),
              !.open = @ \cup {Len(m.gens) + 1}, !.output = at]

ToolAt(m, c) == SelectInSeq(m.tools, LAMBDA s : s.id = <<"tool", c>>)
Used(m, c, at) ==
    LET span == Span(<<"tool", c>>, turn(m), 0, at)
    IN IF ToolAt(m, c) = 0 THEN [m EXCEPT !.tools = Append(@, span)]
       ELSE [m EXCEPT !.tools[ToolAt(m, c)] = span]

\* (mutant) a finished call gets another name
ReturnedRenamed(m, c, at) ==
    IF ToolAt(m, c) = 0 THEN m
    ELSE [m EXCEPT !.tools[ToolAt(m, c)] = [@ EXCEPT !.id = <<"done", c>>, !.end = at, !.at = at]]

Returned(m, c, at) ==
    IF ToolAt(m, c) = 0 THEN m
    ELSE [m EXCEPT !.tools[ToolAt(m, c)] = [@ EXCEPT !.end = at, !.at = at]]

call(m, r, at) == Used(m, r.ref, at)
call_output(m, r, at) == Returned(m, r.ref, at)

mapCodexSession(m, r, at) ==
    CASE r.kind = "task_started" -> task_started(m, r, at)
      [] r.kind = "task_complete" -> task_complete(m, r, at)
      [] r.kind = "token_count" -> token_count(m, r, at)
      [] r.kind = "mcp_tool_call_end" -> mcp_tool_call_end(m, r, at)
      [] r.kind = "patch_apply_end" -> patch_apply_end(m, r, at)
      [] r.kind = "message" -> message(m, r, at)
      [] r.kind = "call" -> call(m, r, at)
      [] r.kind = "call_output" -> call_output(m, r, at)

\* A prompt starts a turn
user(m, r, at) == NewTurn(Closed(m, at), at)
tool_result(m, r, at) == Returned(m, r.ref, at)

\* The chunks of one message are merged
assistant(m, r, at) ==
    LET k == SelectInSeq(m.gens, LAMBDA g : g.id = <<"gen", r.ref>>)
    IN IF k = 0 THEN [m EXCEPT !.gens = Append(@, Span(<<"gen", r.ref>>, turn(m), at, at))]
       ELSE [m EXCEPT !.gens[k] = [@ EXCEPT !.end = at, !.at = at]]

\* A chunk with a call in it: message and call share the number here
tool_use(m, r, at) == Used(assistant(m, r, at), r.ref, at)

mapClaudeSession(m, r, at) ==
    CASE r.kind = "user" -> user(m, r, at)
      [] r.kind = "tool_result" -> tool_result(m, r, at)
      [] r.kind = "assistant" -> assistant(m, r, at)
      [] r.kind = "tool_use" -> tool_use(m, r, at)
      [] r.kind = "other" -> m

codexGathered(log) ==
    FoldLeft(LAMBDA m, k : mapCodexSession(m, log[k], k), Nothing, [k \in DOMAIN log |-> k])

claudeGathered(log) ==
    FoldLeft(LAMBDA m, k : mapClaudeSession(m, log[k], k), Nothing, [k \in DOMAIN log |-> k])

\* The rows in the order they are posted; what is open ends with the log
RowsOf(spans, output, lastTs) ==
    <<Span(<<"trace", 0>>, 0, 0, output)>>
      \o [k \in DOMAIN spans |-> IF spans[k].end = 0 THEN [spans[k] EXCEPT !.end = lastTs] ELSE spans[k]]

codexEvents(m, lastTs) == RowsOf(m.turns \o m.gens \o m.tools \o m.extra, m.output, lastTs)

\* Its output is the text of the last message
claudeEvents(m, lastTs) ==
    RowsOf(m.turns \o m.gens \o m.tools, IF m.gens = <<>> THEN 0 ELSE Last(m.gens).at, lastTs)

\* Nothing is mapped of a log without a record
EventsOf(log) ==
    CASE log = <<>> -> <<>>
      [] log # <<>> /\ agent = "codex" -> codexEvents(codexGathered(log), Len(log))
      [] log # <<>> /\ agent = "claude" -> claudeEvents(claudeGathered(log), Len(log))

IdsOf(events) == {events[k].id : k \in DOMAIN events}

\* Full-row replace, in the order of the events
Stored(old, events) ==
    [i \in DOMAIN old \cup IdsOf(events) |->
        IF i \in IdsOf(events) THEN events[SelectLastInSeq(events, LAMBDA s : s.id = i)] ELSE old[i]]

-----------------------------------------------------------------------------
(* The processes *)

\* An agent writes a record
Grow(s) ==
    /\ written < MaxRecords /\ written' = written + 1
    /\ newest' = s
    /\ \E r \in IF agent = "codex" THEN CodexLines ELSE ClaudeLines :
          logs' = [logs EXCEPT ![s] = Append(@, r)]
    /\ UNCHANGED <<agent, imports, adrift, rows, alone, runs, failures>>

Importing(s) == {j \in Imports : imports[j].of # 0 /\ (imports[j].of = s \/ imports[j].told = s)}

\* What an import of s, or a late request of one, makes of process j
Met(s, j) == [imports[j] EXCEPT !.clean = @ /\ j \notin Importing(s)]

\* main: read the log, map it; what is posted is what was read
Begin(i, s, told) ==
    LET events == EventsOf(logs[s])
    IN /\ imports[i] = Idle /\ runs < MaxRuns /\ events # <<>>
       /\ runs' = runs + 1
       /\ imports' = [j \in Imports |->
             IF j = i THEN [of |-> s, told |-> told, read |-> Len(logs[s]), left |-> events,
                            clean |-> Importing(s) = {}]
             ELSE Met(s, j)]
       /\ alone' = [alone EXCEPT ![told] = 0]
       /\ UNCHANGED <<agent, logs, newest, written, adrift, rows, failures>>

\* Claude's Stop hook passes the path of its log
hooked(i, s) == agent = "claude" /\ Begin(i, s, s)

\* A notification of Codex names its thread: the one log of it
notified(i, s) == agent = "codex" /\ Begin(i, s, s)

\* --latest: the log written last
latest(i) == agent = "codex" /\ newest # 0 /\ Begin(i, newest, newest)

Request(i) == SubSeq(imports[i].left, 1, Min({RowsPerRequest, Len(imports[i].left)}))
Later(i) == SubSeq(imports[i].left, RowsPerRequest + 1, Len(imports[i].left))
Arrives(i) == rows' = [rows EXCEPT ![imports[i].of] = Stored(@, Request(i))]

\* (mutant) the last request is left out unless it is full
PostFull(i) ==
    /\ imports[i] # Idle
    /\ IF Len(imports[i].left) < RowsPerRequest THEN UNCHANGED rows ELSE Arrives(i)
    /\ IF Later(i) = <<>>
       THEN /\ alone' = [alone EXCEPT ![imports[i].told] = IF imports[i].clean THEN imports[i].read ELSE 0]
            /\ imports' = [imports EXCEPT ![i] = Idle]
       ELSE imports' = [imports EXCEPT ![i].left = Later(i)] /\ UNCHANGED alone
    /\ UNCHANGED <<agent, logs, newest, written, adrift, runs, failures>>

\* One request is answered; after the last one the import is done
postEvents(i) ==
    /\ imports[i] # Idle /\ Arrives(i)
    /\ IF Later(i) = <<>>
       THEN /\ alone' = [alone EXCEPT ![imports[i].told] = IF imports[i].clean THEN imports[i].read ELSE 0]
            /\ imports' = [imports EXCEPT ![i] = Idle]
       ELSE imports' = [imports EXCEPT ![i].left = Later(i)] /\ UNCHANGED alone
    /\ UNCHANGED <<agent, logs, newest, written, adrift, runs, failures>>

\* It fails, or the process is killed: the rest is not posted.  The request may
\* have reached the collector all the same, or never does, or does later
PostFails(i) ==
    /\ imports[i] # Idle /\ failures < MaxFailures
    /\ failures' = failures + 1
    /\ \/ Arrives(i) /\ UNCHANGED adrift
       \/ UNCHANGED <<rows, adrift>>
       \/ adrift' = adrift \cup {[of |-> imports[i].of, left |-> Request(i)]} /\ UNCHANGED rows
    /\ imports' = [imports EXCEPT ![i] = Idle]
    /\ UNCHANGED <<agent, logs, newest, written, alone, runs>>

\* The collector takes it as any other: older rows replace newer ones
ArrivesAdrift(q) ==
    /\ adrift' = adrift \ {q}
    /\ rows' = [rows EXCEPT ![q.of] = Stored(@, q.left)]
    /\ imports' = [j \in Imports |-> Met(q.of, j)]
    /\ alone' = [alone EXCEPT ![q.of] = 0]
    /\ UNCHANGED <<agent, logs, newest, written, runs, failures>>

ImportInit ==
    /\ agent \in {"codex", "claude"}
    /\ logs = [s \in Threads |-> <<>>] /\ newest = 0 /\ written = 0
    /\ imports = [i \in Imports |-> Idle] /\ adrift = {}
    /\ rows = [s \in Threads |-> <<>>]
    /\ alone = [s \in Threads |-> 0]
    /\ runs = 0 /\ failures = 0

ImportNext ==
    \/ \E s \in Threads : Grow(s)
    \/ \E i \in Imports :
          \/ \E s \in Threads : hooked(i, s) \/ notified(i, s)
          \/ latest(i)
          \/ postEvents(i) \/ PostFails(i)
    \/ \E q \in adrift : ArrivesAdrift(q)

ImportSpec == ImportInit /\ [][ImportNext]_importVars

-----------------------------------------------------------------------------
(* Properties *)

\* Importing a growing log again adds no second row for what is in it already:
\* the collector has no row that the whole log does not map to.
NoStray == \A s \in Threads : DOMAIN rows[s] \subseteq IdsOf(EventsOf(logs[s]))

\* After an import that met no other, no failure and no late request the collector has
\* the rows of the log it read, all of them and whatever failed or overlapped before,
\* until a request of an earlier one that failed still arrives.
CaughtUp ==
    \A s \in Threads : alone[s] # 0 =>
        rows[s] = Stored(<<>>, EventsOf(SubSeq(logs[s], 1, alone[s])))
=============================================================================
