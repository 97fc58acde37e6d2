--------------------------- MODULE ApiBench_proofs ---------------------------
(***************************************************************************)
(* Theorems about ApiBench, for all caps, prices and limits: how many      *)
(* requests a run can send, that nothing is sent past a cap, that every    *)
(* tool call is answered before the next request, and what the exit code 0 *)
(* means.                                                                  *)
(***************************************************************************)
EXTENDS ApiBench, SequenceTheorems, TLAPS

-----------------------------------------------------------------------------
(* The inductive invariant *)

\* A turn begins below the cap, and each retry is counted once
Counted ==
    /\ pc \in {"send", "sleep"} => requests + 1 <= MaxRequests + attempt
    /\ RequestsBounded

\* Where something may still be sent, no cap is exceeded
Within == pc \in {"loop", "send", "sleep", "stop"} => ~Exceeds(usage)

\* Up to the last answer, every tool call is answered
Talk ==
    /\ pc \in {"loop", "send", "sleep"} => \A i \in DOMAIN conversation : Answered(i)
    /\ pc \in {"parse", "stop"} =>
          /\ conversation # <<>> /\ response \in Answers
          /\ conversation[Len(conversation)] = [role |-> "assistant", calls |-> response.calls]
          /\ \A i \in 1 .. (Len(conversation) - 1) : Answered(i)

\* The status stays completed while nothing has gone wrong
Ending ==
    /\ pc \in Looping => ~raised
    /\ pc \in {"finally", "done"} /\ status = "completed" /\ ~raised => Finished
    /\ exit = "0" => pc = "done" /\ status = "completed" /\ ~raised

Owned ==
    /\ pc \in Looping \cup {"finally"} => transcript = run
    /\ exit = "0" => summary = transcript

IInv == TypeOK /\ Counted /\ Within /\ Talk /\ Ending /\ Owned

-----------------------------------------------------------------------------
(* Lemmas *)

\* Nothing used exceeds no cap
LEMMA NothingExceeds == ~Exceeds(NoUsage)
<1>1. Prices.input \in Nat /\ Prices.output \in Nat /\ Prices.cacheRead \in Nat /\ Prices.cacheWrite \in Nat
  BY BenchAssumption DEF UsageType
<1>2. /\ NoUsage.input = 0 /\ NoUsage.output = 0
      /\ NoUsage.cacheRead = 0 /\ NoUsage.cacheWrite = 0
  BY DEF NoUsage
<1>3. Spend(NoUsage) = 0
  BY <1>1, <1>2 DEF Spend
<1> QED
  BY <1>2, <1>3, BenchAssumption DEF Exceeds

LEMMA UsageSum ==
    ASSUME NEW u \in UsageType, NEW v \in UsageType
    PROVE  Plus(u, v) \in UsageType
    BY DEF Plus, UsageType

LEMMA ResultsType ==
    ASSUME TypeOK, NEW n \in 1 .. MaxCalls
    PROVE  Results(n) \in Seq(Messages)
<1>1. CASE provider = "anthropic"
  BY <1>1, BenchAssumption DEF Results, Messages
<1>2. CASE provider # "anthropic"
  <2>1. 1 \in 0 .. MaxCalls
    BY BenchAssumption
  <2>2. [role |-> "results", calls |-> 1] \in Messages
    BY <2>1 DEF Messages
  <2>3. n \in Nat /\ Results(n) \in [1 .. n -> Messages]
    BY <1>2, <2>2, BenchAssumption DEF Results
  <2> QED
    BY <2>3, SeqDef
<1> QED
  BY <1>1, <1>2

\* What is answered stays answered when messages are appended
LEMMA AnsweredStays ==
    ASSUME TypeOK, NEW tail \in Seq(Messages), conversation' = conversation \o tail,
           provider' = provider, NEW i \in DOMAIN conversation, Answered(i)
    PROVE  Answered(i)'
<1>1. /\ conversation \in Seq(Messages)
      /\ DOMAIN conversation = 1 .. Len(conversation) /\ Len(conversation) \in Nat
      /\ Len(tail) \in Nat
      /\ Len(conversation') = Len(conversation) + Len(tail)
      /\ \A k \in 1 .. Len(conversation) : conversation'[k] = conversation[k]
  BY ConcatProperties, LenProperties DEF TypeOK, TalkType
<1>2. conversation'[i] = conversation[i]
  BY <1>1
<1> DEFINE results == Results(conversation[i].calls)
<1> SUFFICES ASSUME conversation[i].role = "assistant", conversation[i].calls > 0
             PROVE  /\ i + Len(results) <= Len(conversation')
                    /\ \A k \in DOMAIN results : conversation'[i + k] = results[k]
  BY <1>2 DEF Answered, Results
<1>3. /\ i + Len(results) <= Len(conversation)
      /\ \A k \in DOMAIN results : conversation[i + k] = results[k]
  BY DEF Answered
<1>4. conversation[i] \in Messages
  BY <1>1, ElementOfSeq
<1>5. conversation[i].calls \in 1 .. MaxCalls
  BY <1>4, BenchAssumption DEF Messages
<1>6. results \in Seq(Messages)
  BY <1>5, ResultsType
<1> HIDE DEF results
<1>7. Len(results) \in Nat /\ DOMAIN results = 1 .. Len(results)
  BY <1>6, LenProperties
<1>8. \A k \in DOMAIN results : i + k \in 1 .. Len(conversation)
  BY <1>1, <1>3, <1>7
<1> QED
  BY <1>1, <1>3, <1>7, <1>8

LEMMA InitInv == Init => IInv
<1> SUFFICES ASSUME Init PROVE IInv
  OBVIOUS
<1> USE BenchAssumption
<1>1. TypeOK
  <2>1. RunType
    <3>1. mock \in BOOLEAN
      BY DEF Init
    <3> QED
      BY <3>1 DEF Init, RunType, Over
  <2>2. TalkType
    <3>1. NoUsage \in UsageType
      BY DEF NoUsage, UsageType
    <3>2. <<>> \in Seq(Messages)
      OBVIOUS
    <3> QED
      BY <3>1, <3>2 DEF Init, TalkType
  <2>3. EndType
    BY DEF Init, EndType, Statuses
  <2> QED
    BY <2>1, <2>2, <2>3 DEF TypeOK
<1>2. Counted /\ Within /\ Talk /\ Ending /\ Owned
  BY DEF Init, Counted, RequestsBounded, Within, Talk, Ending, Looping, Owned
<1> QED
  BY <1>1, <1>2 DEF IInv

\* Steps that leave the conversation and the usage alone
Silent == \/ Refuse \/ NextTurn \/ TooLarge \/ MockExhausted \/ Retry \/ Wake \/ HttpError
          \/ NoResponse \/ Unparseable \/ CheckBudget \/ Pause \/ OtherStop \/ Summarize
          \/ Interrupt \/ Uncaught \/ Kill \/ Rest \/ UNCHANGED vars

LEMMA Steps == [Next]_vars => Silent \/ Start \/ Receive \/ CallTools \/ EndTurn
    BY DEF Next, Bench, Silent

LEMMA SilentKeeps ==
    ASSUME Silent
    PROVE  UNCHANGED <<conversation, usage, pending, response>>
    BY DEF Silent, Refuse, NextTurn, TooLarge, MockExhausted, Retry, Wake, HttpError, NoResponse,
           Unparseable, CheckBudget, Pause, OtherStop, Summarize, Interrupt, Uncaught, Kill, Rest, Fault,
           vars, talk

LEMMA TalkTypeStep == IInv /\ [Next]_vars => TalkType'
<1> SUFFICES ASSUME IInv, [Next]_vars PROVE TalkType'
  OBVIOUS
<1> USE BenchAssumption
<1>0. TypeOK /\ TalkType
  BY DEF IInv, TypeOK
<1>1. CASE Start
  <2>1. <<User>> \in Seq(Messages)
    BY DEF User, Messages
  <2>2. NoUsage \in UsageType
    BY DEF NoUsage, UsageType
  <2> QED
    BY <1>1, <2>1, <2>2 DEF Start, TalkType
<1>2. CASE Receive
  <2>1. PICK r \in Answers :
          /\ response' = r /\ usage' = Plus(usage, r.usage)
          /\ conversation' = Append(conversation, [role |-> "assistant", calls |-> r.calls])
    BY <1>2 DEF Receive
  <2>2. r.usage \in UsageType /\ r.calls \in 0 .. MaxCalls
    BY <2>1 DEF Answers
  <2>3. usage' \in UsageType
    BY <1>0, <2>1, <2>2, UsageSum DEF TalkType
  <2>4. [role |-> "assistant", calls |-> r.calls] \in Messages
    BY <2>2 DEF Messages
  <2>5. conversation' \in Seq(Messages)
    BY <1>0, <2>1, <2>4, AppendProperties DEF TalkType
  <2> QED
    BY <1>0, <1>2, <2>1, <2>3, <2>5 DEF Receive, TalkType
<1>3. CASE CallTools
  <2>1. conversation' \in Seq(Messages)
    <3>1. CASE response.calls = 0
      BY <1>0, <1>3, <3>1 DEF CallTools, TalkType
    <3>2. CASE response.calls > 0
      <4>1. response \in Answers
        BY <1>3 DEF CallTools, At, IInv, Talk
      <4>2. response.calls \in 1 .. MaxCalls
        BY <3>2, <4>1 DEF Answers
      <4>3. Results(response.calls) \in Seq(Messages)
        BY <1>0, <4>2, ResultsType
      <4>4. conversation' = conversation \o Results(response.calls)
        BY <1>3, <3>2 DEF CallTools
      <4> QED
        BY <1>0, <4>3, <4>4, ConcatProperties DEF TalkType
    <3> QED
      BY <1>3, <3>1, <3>2 DEF CallTools
  <2> QED
    BY <1>0, <1>3, <2>1 DEF CallTools, TalkType
<1>4. CASE EndTurn
  <2>1. User \in Messages
    BY DEF User, Messages
  <2>2. CASE pending > 0
    BY <1>0, <1>4, <2>1, <2>2, AppendProperties DEF EndTurn, TalkType
  <2>3. CASE ~(pending > 0)
    BY <1>0, <1>4, <2>3 DEF EndTurn, TalkType
  <2> QED
    BY <2>2, <2>3
<1>5. CASE Silent
  BY <1>0, <1>5, SilentKeeps DEF TalkType
<1> QED
  BY <1>1, <1>2, <1>3, <1>4, <1>5, Steps

LEMMA RunTypeStep == IInv /\ [Next]_vars => RunType'
<1> SUFFICES ASSUME IInv, [Next]_vars PROVE RunType'
  OBVIOUS
<1> USE BenchAssumption DEF Looping, Over, At, Go, Stop, Raise, spec, talk, wire, RunType
<1>0. RunType
  BY DEF IInv, TypeOK
<1>1. CASE Start
  BY <1>0, <1>1 DEF Start
<1>2. CASE Refuse
  BY <1>0, <1>2 DEF Refuse
<1>3. CASE NextTurn
  BY <1>0, <1>3 DEF NextTurn
<1>4. CASE TooLarge \/ MockExhausted \/ Wake \/ NoResponse \/ CheckBudget \/ Pause
  BY <1>0, <1>4 DEF TooLarge, MockExhausted, Wake, NoResponse, CheckBudget, Pause
<1>5. CASE Retry
  BY <1>0, <1>5 DEF Retry
<1>6. CASE HttpError \/ Unparseable
  BY <1>0, <1>6 DEF HttpError, Unparseable
<1>7. CASE Receive
  BY <1>0, <1>7 DEF Receive
<1>8. CASE CallTools
  BY <1>0, <1>8 DEF CallTools
<1>9. CASE EndTurn
  BY <1>0, <1>9 DEF EndTurn
<1>10. CASE OtherStop
  BY <1>0, <1>10 DEF OtherStop
<1>11. CASE Summarize
  BY <1>0, <1>11 DEF Summarize
<1>12. CASE Interrupt
  BY <1>0, <1>12 DEF Interrupt, Fault
<1>13. CASE Uncaught \/ Kill
  BY <1>0, <1>13 DEF Uncaught, Kill, Fault
<1>14. CASE Rest \/ UNCHANGED vars
  BY <1>0, <1>14 DEF Rest, vars
<1> QED
  BY <1>1, <1>2, <1>3, <1>4, <1>5, <1>6, <1>7, <1>8, <1>9, <1>10, <1>11, <1>12, <1>13, <1>14
     DEF Next, Bench

LEMMA EndTypeStep == IInv /\ [Next]_vars => EndType'
<1> SUFFICES ASSUME IInv, [Next]_vars PROVE EndType'
  OBVIOUS
<1> USE DEF At, Go, Stop, Raise, files, outcome, EndType, Statuses
<1>0. EndType /\ run \in Nat
  BY DEF IInv, TypeOK, RunType
<1>1. CASE Start
  <2>1. raised' \in BOOLEAN
    BY <1>1 DEF Start
  <2> QED
    BY <1>0, <1>1, <2>1 DEF Start
<1>2. CASE NextTurn
  BY <1>0, <1>2 DEF NextTurn
<1>3. CASE TooLarge \/ MockExhausted \/ Retry \/ Wake \/ HttpError
  BY <1>0, <1>3 DEF TooLarge, MockExhausted, Retry, Wake, HttpError
<1>4. CASE NoResponse \/ Unparseable \/ Receive \/ CheckBudget \/ Pause
  BY <1>0, <1>4 DEF NoResponse, Unparseable, Receive, CheckBudget, Pause
<1>5. CASE CallTools
  BY <1>0, <1>5 DEF CallTools
<1>6. CASE EndTurn
  BY <1>0, <1>6 DEF EndTurn
<1>7. CASE OtherStop
  BY <1>0, <1>7 DEF OtherStop
<1>8. CASE Refuse \/ Summarize
  BY <1>0, <1>8 DEF Refuse, Summarize
<1>9. CASE Interrupt \/ Uncaught \/ Kill
  <2>1. raised' \in BOOLEAN
    BY <1>0, <1>9 DEF Interrupt, Uncaught, Kill
  <2> QED
    BY <1>0, <1>9, <2>1 DEF Interrupt, Uncaught, Kill, Left, Fault
<1>10. CASE Rest \/ UNCHANGED vars
  BY <1>0, <1>10 DEF Rest, vars
<1> QED
  BY <1>1, <1>2, <1>3, <1>4, <1>5, <1>6, <1>7, <1>8, <1>9, <1>10 DEF Next, Bench

LEMMA TypeStep == IInv /\ [Next]_vars => TypeOK'
    BY TalkTypeStep, RunTypeStep, EndTypeStep DEF TypeOK

-----------------------------------------------------------------------------
(* The parts of the invariant *)

LEMMA CountedStep == IInv /\ [Next]_vars => Counted'
<1> SUFFICES ASSUME IInv, [Next]_vars PROVE Counted'
  OBVIOUS
<1> USE BenchAssumption DEF Over, At, Go, Stop, Raise, talk, wire, Counted, RequestsBounded
<1>0. /\ Counted /\ requests \in Nat /\ attempt \in 0 .. MaxRetries
  BY DEF IInv, TypeOK, RunType
<1>1. CASE Start
  BY <1>0, <1>1 DEF Start
<1>2. CASE NextTurn
  BY <1>0, <1>2 DEF NextTurn
<1>3. CASE TooLarge \/ MockExhausted \/ NoResponse
  BY <1>0, <1>3 DEF TooLarge, MockExhausted, NoResponse
<1>4. CASE Retry \/ Wake
  BY <1>0, <1>4 DEF Retry, Wake
<1>5. CASE HttpError \/ Unparseable \/ Receive
  BY <1>0, <1>5 DEF HttpError, Unparseable, Receive
<1>6. CASE CheckBudget \/ Pause \/ OtherStop
  BY <1>0, <1>6 DEF CheckBudget, Pause, OtherStop
<1>7. CASE CallTools \/ EndTurn
  BY <1>0, <1>7 DEF CallTools, EndTurn
<1>8. CASE Refuse \/ Summarize
  BY <1>0, <1>8 DEF Refuse, Summarize
<1>9. CASE Interrupt \/ Uncaught \/ Kill
  BY <1>0, <1>9 DEF Interrupt, Uncaught, Kill, Left, Fault
<1>10. CASE Rest \/ UNCHANGED vars
  BY <1>0, <1>10 DEF Rest, vars
<1> QED
  BY <1>1, <1>2, <1>3, <1>4, <1>5, <1>6, <1>7, <1>8, <1>9, <1>10 DEF Next, Bench

LEMMA WithinStep == IInv /\ [Next]_vars => Within'
<1> SUFFICES ASSUME IInv, [Next]_vars PROVE Within'
  OBVIOUS
<1> USE DEF Within, At, Go, Stop, Raise
<1>0. Within
  BY DEF IInv
<1>1. usage' = usage => (Exceeds(usage)' <=> Exceeds(usage))
  BY DEF Exceeds, Spend
<1>2. CASE Start
  <2>1. Exceeds(usage)' <=> Exceeds(NoUsage)
    BY <1>2 DEF Start, Exceeds, Spend
  <2> QED
    BY <2>1, NothingExceeds
<1>3. CASE Receive
  BY <1>3 DEF Receive
<1>4. CASE Silent
  <2>1. usage' = usage
    BY <1>4, SilentKeeps
  <2>2. CASE CheckBudget
    BY <1>1, <2>1, <2>2 DEF CheckBudget
  <2>3. CASE NextTurn \/ Retry \/ Wake \/ Pause
    BY <1>0, <1>1, <2>1, <2>3 DEF NextTurn, Retry, Wake, Pause
  <2>4. CASE TooLarge \/ MockExhausted \/ HttpError \/ NoResponse \/ Unparseable \/ OtherStop
    BY <2>4 DEF TooLarge, MockExhausted, HttpError, NoResponse, Unparseable, OtherStop
  <2>5. CASE Refuse \/ Summarize \/ Interrupt \/ Uncaught \/ Kill
    BY <1>0, <1>1, <2>1, <2>5 DEF Refuse, Summarize, Interrupt, Uncaught, Kill
  <2>6. CASE Rest \/ UNCHANGED vars
    BY <1>0, <1>1, <2>1, <2>6 DEF Rest, vars
  <2> QED
    BY <1>4, <2>2, <2>3, <2>4, <2>5, <2>6 DEF Silent
<1>5. CASE CallTools \/ EndTurn
  BY <1>0, <1>1, <1>5 DEF CallTools, EndTurn
<1> QED
  BY <1>2, <1>3, <1>4, <1>5, Steps

LEMMA EndingStep == IInv /\ [Next]_vars => Ending'
<1> SUFFICES ASSUME IInv, [Next]_vars PROVE Ending'
  OBVIOUS
<1> USE DEF Ending, Looping, Over, At, Go, Stop, Raise, outcome
<1>0. Ending /\ Within /\ TypeOK
  BY DEF IInv
<1>1. UNCHANGED <<conversation, usage, pending, response>> => (Finished' <=> Finished)
  BY DEF Finished, Exceeds, Spend
<1>2. CASE Start
  BY <1>2 DEF Start
<1>3. CASE Receive
  BY <1>0, <1>3 DEF Receive
<1>4. CASE Silent
  <2>1. Finished' <=> Finished
    BY <1>1, <1>4, SilentKeeps
  <2>2. CASE NextTurn \/ TooLarge \/ MockExhausted
    BY <1>0, <2>2 DEF NextTurn, TooLarge, MockExhausted
  <2>3. CASE Retry \/ Wake \/ HttpError \/ NoResponse \/ Unparseable
    BY <1>0, <2>3 DEF Retry, Wake, HttpError, NoResponse, Unparseable
  <2>4. CASE CheckBudget \/ Pause
    BY <1>0, <2>4 DEF CheckBudget, Pause
  <2>5. CASE OtherStop
    BY <1>0, <2>5 DEF OtherStop
  <2>6. CASE Refuse \/ Summarize
    BY <1>0, <2>1, <2>6 DEF Refuse, Summarize
  <2>7. CASE Interrupt \/ Uncaught \/ Kill
    BY <1>0, <2>7 DEF Interrupt, Uncaught, Kill, Left, Fault
  <2>8. CASE Rest \/ UNCHANGED vars
    BY <1>0, <2>1, <2>8 DEF Rest, vars
  <2> QED
    BY <1>4, <2>2, <2>3, <2>4, <2>5, <2>6, <2>7, <2>8 DEF Silent
<1>5. CASE CallTools
  BY <1>0, <1>5 DEF CallTools
<1>6. CASE EndTurn
  <2>1. CASE pending > 0
    BY <1>0, <1>6, <2>1 DEF EndTurn, TypeOK, TalkType
  <2>2. CASE ~(pending > 0)
    <3>1. /\ pc = "stop" /\ response.stop = "end_turn" /\ ~ForTools(response)
          /\ pc' = "finally" /\ UNCHANGED <<conversation, usage, pending, response>>
          /\ pending = 0 /\ exit' = exit
      BY <1>6, <2>2 DEF EndTurn
    <3>2. response \in Answers
      BY <3>1 DEF IInv, Talk
    <3>3. response.calls = 0
      BY <3>1, <3>2, BenchAssumption DEF Answers, ForTools
    <3>4. Finished'
      BY <1>0, <1>1, <3>1, <3>3 DEF Finished, Within
    <3> QED
      BY <1>0, <3>1, <3>4
  <2> QED
    BY <2>1, <2>2
<1> QED
  BY <1>2, <1>3, <1>4, <1>5, <1>6, Steps

LEMMA OwnedStep == IInv /\ [Next]_vars => Owned'
<1> SUFFICES ASSUME IInv, [Next]_vars PROVE Owned'
  OBVIOUS
<1> USE DEF Owned, Looping, Over, At, Go, Stop, Raise, spec, files
<1>0. Owned
  BY DEF IInv
<1>1. CASE Start
  BY <1>1 DEF Start
<1>2. CASE NextTurn \/ TooLarge \/ MockExhausted \/ Retry \/ Wake
  BY <1>0, <1>2 DEF NextTurn, TooLarge, MockExhausted, Retry, Wake
<1>3. CASE HttpError \/ NoResponse \/ Unparseable \/ Receive \/ CheckBudget
  BY <1>0, <1>3 DEF HttpError, NoResponse, Unparseable, Receive, CheckBudget
<1>4. CASE CallTools \/ Pause \/ EndTurn
  BY <1>0, <1>4 DEF CallTools, Pause, EndTurn
<1>5. CASE OtherStop
  BY <1>0, <1>5 DEF OtherStop
<1>6. CASE Refuse \/ Summarize
  BY <1>0, <1>6 DEF Refuse, Summarize
<1>7. CASE Interrupt \/ Uncaught \/ Kill
  BY <1>0, <1>7 DEF Interrupt, Uncaught, Kill, Left, Fault
<1>8. CASE Rest \/ UNCHANGED vars
  BY <1>0, <1>8 DEF Rest, vars
<1> QED
  BY <1>1, <1>2, <1>3, <1>4, <1>5, <1>6, <1>7, <1>8 DEF Next, Bench

\* A message that makes no calls needs no answer
LEMMA NothingToAnswer ==
    ASSUME NEW i, conversation[i].role # "assistant" \/ conversation[i].calls = 0
    PROVE  Answered(i)
    BY DEF Answered

LEMMA AnsweredSame ==
    ASSUME UNCHANGED <<conversation, provider>>, NEW i
    PROVE  Answered(i)' <=> Answered(i)
    BY DEF Answered, Results

\* An answer without calls leaves nothing to answer
LEMMA LastAnswered ==
    ASSUME TypeOK, Talk, pc \in {"parse", "stop"}, response.calls = 0
    PROVE  \A i \in DOMAIN conversation : Answered(i)
<1>1. /\ conversation \in Seq(Messages)
      /\ DOMAIN conversation = 1 .. Len(conversation) /\ Len(conversation) \in Nat
  BY LenProperties DEF TypeOK, TalkType
<1>2. conversation[Len(conversation)].calls = 0
  BY DEF Talk
<1> TAKE i \in DOMAIN conversation
<1>3. CASE i = Len(conversation)
  BY <1>2, <1>3, NothingToAnswer
<1>4. CASE i # Len(conversation)
  BY <1>1, <1>4 DEF Talk
<1> QED
  BY <1>3, <1>4

\* The answers to the last message complete the conversation
LEMMA AnswersAppended ==
    ASSUME TypeOK, Talk, pc = "stop", response.calls > 0,
           conversation' = conversation \o Results(response.calls), provider' = provider
    PROVE  (\A i \in DOMAIN conversation : Answered(i))'
<1> DEFINE n == Len(conversation)
           tail == Results(response.calls)
<1>1. response \in Answers
  BY DEF Talk
<1>2. response.calls \in 1 .. MaxCalls
  BY <1>1, BenchAssumption DEF Answers
<1>3. tail \in Seq(Messages)
  BY <1>2, ResultsType
<1>4. \A k \in DOMAIN tail : tail[k].role = "results"
  BY <1>2, BenchAssumption DEF Results
<1>6. /\ conversation \in Seq(Messages) /\ conversation # <<>>
      /\ conversation[n] = [role |-> "assistant", calls |-> response.calls]
      /\ \A i \in 1 .. (n - 1) : Answered(i)
  BY DEF Talk, TypeOK, TalkType
<1> HIDE DEF tail
<1>7. /\ n \in Nat /\ n > 0 /\ DOMAIN conversation = 1 .. n
      /\ Len(tail) \in Nat /\ DOMAIN tail = 1 .. Len(tail)
  BY <1>3, <1>6, LenProperties, EmptySeq
<1>8. /\ DOMAIN conversation' = 1 .. (n + Len(tail)) /\ Len(conversation') = n + Len(tail)
      /\ \A i \in 1 .. n : conversation'[i] = conversation[i]
      /\ \A k \in 1 .. Len(tail) : conversation'[n + k] = tail[k]
  BY <1>3, <1>6, <1>7, ConcatProperties DEF tail
<1> SUFFICES ASSUME NEW i \in DOMAIN conversation' PROVE Answered(i)'
  OBVIOUS
<1>9. CASE i < n
  <2>1. i \in 1 .. (n - 1) /\ i \in DOMAIN conversation
    BY <1>7, <1>8, <1>9
  <2>2. Answered(i)
    BY <1>6, <2>1
  <2>3. conversation' = conversation \o tail
    BY DEF tail
  <2> QED
    BY <1>3, <2>1, <2>2, <2>3, AnsweredStays
<1>10. CASE i = n
  <2>1. conversation'[i].calls = response.calls
    BY <1>6, <1>7, <1>8, <1>10
  <2>2. Results(conversation[i].calls)' = tail
    BY <2>1 DEF Results, tail
  <2> QED
    BY <1>7, <1>8, <1>10, <2>2 DEF Answered
<1>11. CASE i > n
  <2>1. i - n \in 1 .. Len(tail) /\ i = n + (i - n)
    BY <1>7, <1>8, <1>11
  <2>2. conversation'[i].role = "results"
    BY <1>4, <1>7, <1>8, <2>1
  <2> QED
    BY <2>2 DEF Answered
<1> QED
  BY <1>7, <1>8, <1>9, <1>10, <1>11

\* A message appended to a conversation in which all calls are answered
LEMMA AppendAnswered ==
    ASSUME TypeOK, \A i \in DOMAIN conversation : Answered(i), provider' = provider,
           NEW m \in Messages, conversation' = Append(conversation, m)
    PROVE  /\ conversation' # <<>> /\ conversation'[Len(conversation')] = m
           /\ (\A i \in 1 .. (Len(conversation) - 1) : Answered(i))'
           /\ (m.role = "user" => \A i \in DOMAIN conversation : Answered(i))'
<1>1. /\ conversation \in Seq(Messages) /\ <<m>> \in Seq(Messages)
      /\ DOMAIN conversation = 1 .. Len(conversation) /\ Len(conversation) \in Nat
  BY LenProperties DEF TypeOK, TalkType
<1>2. conversation' = conversation \o <<m>>
  BY <1>1, AppendIsConcat
<1>3. /\ conversation' \in Seq(Messages) /\ Len(conversation') = Len(conversation) + 1
      /\ conversation'[Len(conversation) + 1] = m
  BY <1>1, AppendProperties
<1>4. DOMAIN conversation' = 1 .. (Len(conversation) + 1) /\ conversation' # <<>>
  BY <1>1, <1>3, LenProperties, EmptySeq
<1>5. \A i \in 1 .. Len(conversation) : Answered(i)'
  BY <1>1, <1>2, AnsweredStays
<1>6. ASSUME NEW i \in DOMAIN conversation', m.role = "user"
      PROVE  Answered(i)'
  <2>1. CASE i \in 1 .. Len(conversation)
    BY <1>5, <2>1
  <2>2. CASE i = Len(conversation) + 1
    <3>1. conversation'[i].role = "user"
      BY <1>3, <1>6, <2>2
    <3> QED
      BY <3>1 DEF Answered
  <2> QED
    BY <1>1, <1>4, <2>1, <2>2
<1>7. (\A i \in 1 .. (Len(conversation) - 1) : Answered(i))'
  <2> SUFFICES ASSUME NEW i \in 1 .. (Len(conversation') - 1) PROVE Answered(i)'
    OBVIOUS
  <2>1. i \in 1 .. Len(conversation)
    BY <1>1, <1>3
  <2> QED
    BY <1>5, <2>1
<1>8. m.role = "user" => (\A i \in DOMAIN conversation : Answered(i))'
  BY <1>6
<1> QED
  BY <1>3, <1>4, <1>7, <1>8

LEMMA TalkStep == IInv /\ [Next]_vars => Talk'
<1> SUFFICES ASSUME IInv, [Next]_vars PROVE Talk'
  OBVIOUS
<1> USE DEF At, Go, Stop, Raise
<1>0. TypeOK /\ Talk
  BY DEF IInv
<1>1. CASE Start
  <2>1. pc' = "loop" /\ conversation' = <<User>>
    BY <1>1 DEF Start
  <2>2. (\A i \in DOMAIN conversation : Answered(i))'
    BY <2>1 DEF Answered, User
  <2> QED
    BY <2>1, <2>2 DEF Talk
<1>2. CASE Receive
  <2>1. PICK r \in Answers :
          /\ response' = r
          /\ conversation' = Append(conversation, [role |-> "assistant", calls |-> r.calls])
    BY <1>2 DEF Receive
  <2>2. [role |-> "assistant", calls |-> r.calls] \in Messages
    BY <2>1, BenchAssumption DEF Answers, Messages
  <2>3. pc = "send" /\ pc' = "parse" /\ provider' = provider
    BY <1>2 DEF Receive, spec
  <2>4. \A i \in DOMAIN conversation : Answered(i)
    BY <1>0, <2>3 DEF Talk
  <2> QED
    BY <1>0, <2>1, <2>2, <2>3, <2>4, AppendAnswered DEF Talk
<1>3. CASE Silent
  <2>1. UNCHANGED <<conversation, response>>
    BY <1>3, SilentKeeps
  <2>2. CASE pc' \notin {"loop", "send", "sleep", "parse", "stop"}
    BY <2>2 DEF Talk
  <2>3. CASE Pause
    <3>1. /\ pc = "stop" /\ pc' = "loop" /\ response.stop = "pause_turn"
          /\ ~ForTools(response) /\ provider' = provider
      BY <2>3 DEF Pause, spec
    <3>2. response.calls = 0
      BY <1>0, <3>1, BenchAssumption DEF Talk, ForTools, Answers
    <3>3. \A i \in DOMAIN conversation : Answered(i)
      BY <1>0, <3>1, <3>2, LastAnswered
    <3> QED
      BY <2>1, <3>1, <3>3, AnsweredSame DEF Talk
  <2>4. CASE /\ provider' = provider
             /\ \/ pc \in {"loop", "send", "sleep"} /\ pc' \in {"loop", "send", "sleep"}
                \/ pc \in {"parse", "stop"} /\ pc' \in {"parse", "stop"}
    BY <1>0, <2>1, <2>4, AnsweredSame DEF Talk
  <2>5. CASE NextTurn \/ Retry \/ Wake \/ CheckBudget
    BY <2>2, <2>4, <2>5 DEF NextTurn, Retry, Wake, CheckBudget, spec
  <2>6. CASE TooLarge \/ MockExhausted \/ HttpError \/ NoResponse \/ Unparseable \/ OtherStop
    BY <2>2, <2>6 DEF TooLarge, MockExhausted, HttpError, NoResponse, Unparseable, OtherStop
  <2>7. CASE Refuse \/ Summarize \/ Interrupt \/ Uncaught \/ Kill
    BY <2>2, <2>7 DEF Refuse, Summarize, Interrupt, Uncaught, Kill, Over
  <2>8. CASE Rest \/ UNCHANGED vars
    BY <1>0, <2>1, <2>8, AnsweredSame DEF Rest, vars, spec, Talk
  <2> QED
    BY <1>3, <2>3, <2>5, <2>6, <2>7, <2>8 DEF Silent
<1>4. CASE CallTools
  <2>1. pc = "stop" /\ provider' = provider
    BY <1>4 DEF CallTools, spec
  <2>2. CASE response.calls = 0
    BY <1>4, <2>2 DEF CallTools, Talk
  <2>3. CASE response.calls > 0
    <3>1. conversation' = conversation \o Results(response.calls) /\ pc' = "loop"
      BY <1>4, <2>3 DEF CallTools
    <3> QED
      BY <1>0, <2>1, <2>3, <3>1, AnswersAppended DEF Talk
  <2> QED
    BY <1>4, <2>2, <2>3 DEF CallTools
<1>5. CASE EndTurn
  <2>1. /\ pc = "stop" /\ provider' = provider /\ response.stop = "end_turn"
        /\ ~ForTools(response)
    BY <1>5 DEF EndTurn, spec
  <2>2. response.calls = 0
    BY <1>0, <2>1, BenchAssumption DEF Talk, ForTools, Answers
  <2>3. \A i \in DOMAIN conversation : Answered(i)
    BY <1>0, <2>1, <2>2, LastAnswered
  <2>4. CASE pending > 0
    <3>1. conversation' = Append(conversation, User) /\ pc' = "loop"
      BY <1>5, <2>4 DEF EndTurn
    <3>2. User \in Messages /\ User.role = "user"
      BY BenchAssumption DEF User, Messages
    <3> QED
      BY <1>0, <2>1, <2>3, <3>1, <3>2, AppendAnswered DEF Talk
  <2>5. CASE ~(pending > 0)
    BY <1>5, <2>5 DEF EndTurn, Talk
  <2> QED
    BY <2>4, <2>5
<1> QED
  BY <1>1, <1>2, <1>3, <1>4, <1>5, Steps

-----------------------------------------------------------------------------
(* Theorems *)

\* The invariant holds in every reachable state of a run of api_bench.py.
THEOREM Invariant == Spec => []IInv
<1>1. IInv /\ [Next]_vars => IInv'
  BY TypeStep, CountedStep, WithinStep, TalkStep, EndingStep, OwnedStep DEF IInv
<1> QED
  BY InitInv, <1>1, PTL DEF Spec

\* Every reachable state has the declared types.
THEOREM TypeCorrect == Spec => []TypeOK
<1>1. IInv => TypeOK
  BY DEF IInv
<1> QED
  BY Invariant, <1>1, PTL

\* The loop of run_bench with the retries of Transport.send: max_requests is
\* exceeded by no more than the retries of one turn.
THEOREM RequestsAreBounded == Spec => []RequestsBounded
<1>1. IInv => RequestsBounded
  BY DEF IInv, Counted
<1> QED
  BY Invariant, <1>1, PTL

\* The budget checks of run_bench: nothing is sent past a cap on tokens or dollars.
THEOREM NothingPastCap == Spec => SilentPastCap
<1>1. IInv /\ [Next]_vars => (requests' > requests => ~Exceeds(usage))
  <2> SUFFICES ASSUME IInv, [Next]_vars, requests' > requests PROVE ~Exceeds(usage)
    OBVIOUS
  <2>1. requests \in Nat /\ Within
    BY DEF IInv, TypeOK, RunType
  <2>2. pc = "send"
    BY <2>1 DEF Next, Bench, Refuse, Start, NextTurn, TooLarge, MockExhausted, Retry, Wake, HttpError,
       NoResponse, Unparseable, Receive, CheckBudget, CallTools, Pause, EndTurn, OtherStop,
       Summarize, Interrupt, Uncaught, Kill, Fault, Rest, At, vars, wire
  <2> QED
    BY <2>1, <2>2 DEF Within
<1>2. IInv /\ [Next]_vars => [requests' > requests => ~Exceeds(usage)]_vars
  BY <1>1
<1> QED
  BY Invariant, <1>2, PTL DEF Spec, SilentPastCap

\* The tool loop of run_bench: every tool call of a conversation that is sent is
\* answered right after the message that makes it.
THEOREM CallsAreAnswered == Spec => []CallsAnswered
<1>1. IInv => CallsAnswered
  BY DEF IInv, Talk, CallsAnswered
<1> QED
  BY Invariant, <1>1, PTL

\* cmd_run returns 0 only when the model ended its turn and the script is used up,
\* and the summary beside the transcript is then the run's own.
THEOREM ZeroMeansFinished == Spec => []ExitZero
<1>1. IInv => ExitZero
  BY DEF IInv, Ending, Owned, ExitZero
<1> QED
  BY Invariant, <1>1, PTL
=============================================================================
