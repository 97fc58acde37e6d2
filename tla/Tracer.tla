------------------------------- MODULE Tracer -------------------------------
(***************************************************************************)
(* ironside-tracer.ts: a pi extension that turns the events of a session    *)
(* into rows of a trace (mapTracerEvent), queues them (IngestBatcher) and   *)
(* posts them to a collector, where a row replaces the row of the same id.  *)
(*                                                                         *)
(* A row keeps its id, the number of its emission, whether it has an end,   *)
(* and which optional fields of a trace it carries.  A session may be       *)
(* resumed under its id, start before the last one was shut down, or be cut *)
(* off; a request may fail, or reach the collector after its timeout.  pi   *)
(* and the collector are external.                                          *)
(***************************************************************************)
EXTENDS Naturals, FiniteSets, SequencesExt

CONSTANTS Sessions,   \* session ids (numbers)
          Calls,      \* tool call ids
          maxBatchSize, MAX_EVENTS_PER_REQUEST,
          MaxEvents, MaxStarts, MaxFaults  \* bounds

ASSUME TracerAssumption ==
    /\ Sessions \subseteq Nat
    /\ maxBatchSize \in Nat \ {0} /\ MAX_EVENTS_PER_REQUEST \in Nat \ {0}
    /\ MaxEvents \in Nat /\ MaxStarts \in Nat /\ MaxFaults \in Nat

VARIABLES
    trace,       \* TracerState: the trace, its optional fields,
    fields,
    currentTurn, \* the open turn's span,
    openTools,   \* the open tools' spans
    spans,       \* newId: how many spans there have been
    batcher,     \* the present batcher, or 0
    queues,      \* of each batcher: its buffer, the chain of sends, whether closed
    late,        \* requests that timed out and may still arrive
    stored,      \* the collector's rows
    last,        \* history: the last row emitted of each id
    faulty,      \* history: ids of rows in a request that failed or timed out
    crossed,     \* history: ids emitted while another batcher still held a row of them
    leaked,      \* history: spans open when a session started or was cut off
    events, starts, faults

stateVars == <<trace, fields, currentTurn, openTools, spans>>
history == <<last, crossed, leaked>>
tracerVars == <<stateVars, batcher, queues, late, stored, history, faulty, events, starts, faults>>

TraceId(s) == <<"trace", s>>
SpanId(k) == <<"span", k>>
NoId == <<"none", 0>>
Ids == {TraceId(s) : s \in Sessions} \cup {SpanId(k) : k \in 1 .. MaxEvents}
Row(i, closed, fs) == [id |-> i, rev |-> last[i].rev + 1, closed |-> closed, fields |-> fs]
NoRow(i) == [id |-> i, rev |-> 0, closed |-> TRUE, fields |-> {}]
Batchers == 1 .. MaxStarts

Unsent(b) == ToSet(queues[b].buffer) \cup UNION {ToSet(queues[b].sends[k]) : k \in DOMAIN queues[b].sends}
Holds(b, i) == \E r \in Unsent(b) : r.id = i

-----------------------------------------------------------------------------
(* IngestBatcher *)

\* (mutant) a lone row waits for company
FlushMany(q) == IF Len(q.buffer) < 2 THEN q
                ELSE [q EXCEPT !.buffer = <<>>, !.sends = Append(@, q.buffer)]

\* The buffer joins the chain of sends; nothing happens when it is empty
flush(q) == IF q.buffer = <<>> THEN q
            ELSE [q EXCEPT !.buffer = <<>>, !.sends = Append(@, q.buffer)]

enqueue(q, row) ==
    IF q.closed THEN q
    ELSE LET full == [q EXCEPT !.buffer = Append(@, row)]
         IN IF Len(full.buffer) >= maxBatchSize THEN flush(full) ELSE full

close(q) == [flush(q) EXCEPT !.closed = TRUE]

\* One request, of the send at the head of the chain; the rest follows
Chunk(b) == LET first == queues[b].sends[1]
            IN SubSeq(first, 1, IF Len(first) < MAX_EVENTS_PER_REQUEST
                                THEN Len(first) ELSE MAX_EVENTS_PER_REQUEST)
Rest(b) == LET first == queues[b].sends[1]
               left == SubSeq(first, Len(Chunk(b)) + 1, Len(first))
           IN IF left = <<>> THEN Tail(queues[b].sends)
              ELSE [queues[b].sends EXCEPT ![1] = left]

\* The collector: full-row replace, in the order of the request
Storing(rows) ==
    [i \in Ids |-> LET mine == {k \in DOMAIN rows : rows[k].id = i}
                   IN IF mine = {} THEN stored[i]
                      ELSE rows[CHOOSE k \in mine : \A l \in mine : l <= k]]

Sent(b) ==
    /\ queues' = [queues EXCEPT ![b].sends = Rest(b)]
    /\ UNCHANGED <<stateVars, batcher, history, events, starts>>

\* (mutant) the sends do not wait for each other
SendAny(b) ==
    \E k \in DOMAIN queues[b].sends :
       /\ stored' = Storing(queues[b].sends[k])
       /\ queues' = [queues EXCEPT ![b].sends = RemoveAt(@, k)]
       /\ UNCHANGED <<stateVars, batcher, late, faulty, history, events, starts, faults>>

\* A request is answered
send(b) ==
    /\ queues[b].sends # <<>>
    /\ stored' = Storing(Chunk(b))
    /\ Sent(b) /\ UNCHANGED <<late, faulty, faults>>

\* It fails or times out: reported, never repeated
SendFails(b) ==
    /\ queues[b].sends # <<>> /\ faults < MaxFaults
    /\ faults' = faults + 1
    /\ faulty' = faulty \cup {r.id : r \in ToSet(Chunk(b))}
    /\ \/ UNCHANGED late
       \/ late' = late \cup {Chunk(b)}
    /\ Sent(b) /\ UNCHANGED stored

ArrivesLate ==
    /\ \E rows \in late : late' = late \ {rows} /\ stored' = Storing(rows)
    /\ UNCHANGED <<stateVars, batcher, queues, history, faulty, events, starts, faults>>

\* setInterval, until close
Tick(b) ==
    /\ ~queues[b].closed /\ queues[b].buffer # <<>>
    /\ queues' = [queues EXCEPT ![b] = flush(@)]
    /\ UNCHANGED <<stateVars, batcher, late, stored, history, faulty, events, starts, faults>>

-----------------------------------------------------------------------------
(* feed: the rows that an event leads to are queued *)

Noted(b, rows) ==
    /\ last' = [i \in Ids |-> IF \E k \in DOMAIN rows : rows[k].id = i
                              THEN rows[CHOOSE k \in DOMAIN rows : rows[k].id = i] ELSE last[i]]
    /\ crossed' = crossed \cup {r.id : r \in {x \in ToSet(rows) :
                                    \E c \in Batchers \ {b} : Holds(c, x.id)}}

Queued(b, rows) == FoldLeft(enqueue, queues[b], rows)

Emit(b, rows) == Noted(b, rows) /\ queues' = [queues EXCEPT ![b] = Queued(b, rows)]
feed(rows) == Emit(batcher, rows) /\ UNCHANGED leaked

\* An event of the session
Event ==
    /\ batcher # 0 /\ trace # NoId /\ events < MaxEvents
    /\ events' = events + 1
    /\ UNCHANGED <<trace, batcher, late, stored, faulty, starts, faults>>

TraceRow(fs) == Row(trace, TRUE, fs)
TurnRow(closed) == IF currentTurn = NoId THEN <<>> ELSE <<Row(currentTurn, closed, {})>>
NewSpan == SpanId(spans + 1)
Adds(f) == fields' = fields \cup {f} /\ UNCHANGED <<currentTurn, openTools>>

user_message ==
    /\ Event /\ "input" \notin fields
    /\ Adds("input") /\ feed(<<TraceRow(fields')>>) /\ UNCHANGED spans

\* A dangling turn is closed
turn_start ==
    /\ Event
    /\ spans' = spans + 1 /\ currentTurn' = NewSpan
    /\ feed(TurnRow(TRUE) \o <<Row(NewSpan, FALSE, {})>>) /\ UNCHANGED <<fields, openTools>>

\* A generation, and the trace again when there is output
assistant_message ==
    /\ Event
    /\ spans' = spans + 1
    /\ LET generation == Row(NewSpan, TRUE, {})
       IN \/ Adds("output") /\ feed(<<generation, TraceRow(fields')>>)
          \/ UNCHANGED <<fields, currentTurn, openTools>> /\ feed(<<generation>>)

\* pi's call ids are unique: a call that is open does not start again
tool_start ==
    /\ Event
    /\ spans' = spans + 1
    /\ \E c \in Calls :
          openTools[c] = NoId /\ openTools' = [openTools EXCEPT ![c] = NewSpan]
    /\ LET span == Row(NewSpan, FALSE, {})
       IN \/ fields' = fields \cup {"skills"} /\ fields' # fields /\ feed(<<TraceRow(fields'), span>>)
          \/ UNCHANGED fields /\ feed(<<span>>)
    /\ UNCHANGED currentTurn

\* The end of an unknown call gets a span of its own
tool_end ==
    /\ Event
    /\ \E c \in Calls :
          LET known == openTools[c] # NoId
              span == IF known THEN openTools[c] ELSE NewSpan
          IN /\ openTools' = [openTools EXCEPT ![c] = NoId]
             /\ spans' = IF known THEN spans ELSE spans + 1
             /\ feed(<<Row(span, TRUE, {})>>)
    /\ UNCHANGED <<fields, currentTurn>>

turn_end ==
    /\ Event /\ currentTurn # NoId
    /\ currentTurn' = NoId /\ feed(TurnRow(TRUE)) /\ UNCHANGED <<fields, openTools, spans>>

OpenSpans == ({openTools[c] : c \in Calls} \cup {currentTurn}) \ {NoId}

\* A new TracerState; a batcher is made unless there is one
session_start ==
    /\ starts < MaxStarts /\ starts' = starts + 1
    /\ batcher' = IF batcher = 0 THEN starts' ELSE batcher
    /\ leaked' = leaked \cup OpenSpans
    /\ \E s \in Sessions :
          /\ trace' = TraceId(s) /\ fields' = {}
          /\ Emit(batcher', <<Row(TraceId(s), TRUE, {})>>)
    /\ currentTurn' = NoId /\ openTools' = [c \in Calls |-> NoId]
    /\ UNCHANGED <<spans, late, stored, faulty, events, faults>>

\* await batcher.flush()
agent_end ==
    /\ batcher # 0 /\ queues[batcher].buffer # <<>>
    /\ queues' = [queues EXCEPT ![batcher] = flush(@)]
    /\ UNCHANGED <<stateVars, batcher, late, stored, history, faulty, events, starts, faults>>

\* (mutant) the open turn is not closed
EndTools ==
    LET open == SetToSeq(OpenSpans \ {currentTurn})
    IN [k \in DOMAIN open |-> Row(open[k], TRUE, {})] \o <<TraceRow(fields)>>

\* What is open is closed, and the trace is sent again
session_end ==
    LET open == SetToSeq(OpenSpans)
    IN [k \in DOMAIN open |-> Row(open[k], TRUE, {})] \o <<TraceRow(fields)>>

\* The batcher is given up and closed; its last send is awaited
session_shutdown ==
    /\ batcher # 0
    /\ batcher' = 0 /\ currentTurn' = NoId /\ openTools' = [c \in Calls |-> NoId]
    /\ Noted(batcher, session_end)
    /\ queues' = [queues EXCEPT ![batcher] = close(Queued(batcher, session_end))]
    /\ UNCHANGED <<trace, fields, spans, late, stored, leaked, faulty, events, starts, faults>>

\* pi dies with what it holds; a resumed session is another process
Cut ==
    /\ batcher # 0 /\ faults < MaxFaults
    /\ faults' = faults + 1
    /\ batcher' = 0 /\ trace' = NoId /\ fields' = {}
    /\ currentTurn' = NoId /\ openTools' = [c \in Calls |-> NoId]
    /\ faulty' = faulty \cup {r.id : r \in UNION {Unsent(b) : b \in Batchers}}
    /\ queues' = [b \in Batchers |-> [buffer |-> <<>>, sends |-> <<>>,
                                      closed |-> queues[b].closed \/ b <= starts]]
    /\ leaked' = leaked \cup OpenSpans
    /\ UNCHANGED <<spans, late, stored, last, crossed, events, starts>>

-----------------------------------------------------------------------------
TracerInit ==
    /\ trace = NoId /\ fields = {} /\ currentTurn = NoId
    /\ openTools = [c \in Calls |-> NoId] /\ spans = 0
    /\ batcher = 0
    /\ queues = [b \in Batchers |-> [buffer |-> <<>>, sends |-> <<>>, closed |-> FALSE]]
    /\ late = {} /\ stored = [i \in Ids |-> NoRow(i)]
    /\ last = [i \in Ids |-> NoRow(i)]
    /\ faulty = {} /\ crossed = {} /\ leaked = {}
    /\ events = 0 /\ starts = 0 /\ faults = 0

Batching(b) == send(b) \/ SendFails(b) \/ Tick(b)

TracerNext ==
    \/ session_start \/ session_shutdown \/ user_message \/ turn_start \/ assistant_message
    \/ tool_start \/ tool_end \/ turn_end \/ agent_end
    \/ \E b \in Batchers : Batching(b)
    \/ ArrivesLate \/ Cut

TracerSpec == TracerInit /\ [][TracerNext]_tracerVars

\* The timer fires, and a request ends at its timeout at the latest
Fairness == \A b \in Batchers : WF_tracerVars(send(b) \/ SendFails(b)) /\ WF_tracerVars(Tick(b))

-----------------------------------------------------------------------------
(* Properties *)

TracerTypeOK ==
    /\ trace \in Ids \cup {NoId} /\ currentTurn \in Ids \cup {NoId}
    /\ fields \subseteq {"input", "output", "skills"}
    /\ openTools \in [Calls -> Ids \cup {NoId}]
    /\ batcher \in {0} \cup Batchers
    /\ \A b \in Batchers : Len(queues[b].buffer) < maxBatchSize
    /\ \A i \in Ids : stored[i].id = i /\ last[i].id = i /\ stored[i].rev <= last[i].rev

\* Once nothing of a row waits any more, the collector has the last one that was
\* emitted: batches are not reordered, and closing loses nothing.  Excepted are the
\* rows of a request that failed or timed out, and those of a session that was
\* resumed under its id while the batcher before was still sending.
RowsCurrent ==
    \A i \in Ids \ (faulty \cup crossed) :
        (\A b \in Batchers : ~Holds(b, i)) => stored[i] = last[i]

\* After a shutdown every span has an end, whatever was aborted, but for those
\* that were open when another session started without one.
EndsAll == batcher = 0 => \A i \in Ids \ leaked : last[i].closed

\* What is queued leaves the queue: a closing batcher gets empty.
Drains == \A b \in Batchers : (Unsent(b) # {}) ~> (Unsent(b) = {})
=============================================================================
