---------------------- MODULE FeedbackPublisher_proofs ----------------------
(***************************************************************************)
(* Theorems about FeedbackPublisher, for every number of actions, size of  *)
(* a page and bound: type correctness, that the approved plan can be read  *)
(* and is the only one published, that nothing is sent for a stale one,    *)
(* that a thread is replied to before it is resolved, that completion      *)
(* means done, and that a reply is posted twice only if a call that posts  *)
(* it outlived its run.                                                    *)
(***************************************************************************)
EXTENDS FeedbackPublisher, SequenceTheorems, TLAPS

Active == Reading \cup Mutating
Items == {Plain} \cup (1 .. MaxPlans) \X All

-----------------------------------------------------------------------------
(* The inductive invariant *)

\* Where a run is determines its action and its call
Shape ==
    /\ pc = "pin" => at = 1
    /\ pc \in {"source", "pages", "reply", "resolve", "wait"} => at \in All
    /\ pc \in {"pin", "source"} => cursor = 0
    /\ pc = "reply" => at \notin exists
    /\ pc = "resolve" => at \in Resolving
    /\ pc = "wait" => /\ call \in {"reply", "resolve"} \X {at} \X {"sent", "applied"}
                      /\ call[1] = "resolve" => at \in Resolving
    /\ pc # "wait" => call = NoCall
    /\ \A c \in outlived : c[1] = "resolve" => c[2] \in Resolving

\* A run and its calls carry the approved plan
Carried ==
    /\ pc \in Active => plan = approved /\ approved # 0
    /\ \A c \in outlived : c[3] = approved /\ approved # 0
    /\ ApprovedOnly

\* Nothing is approved while a plan is being written, and the approved file is whole
Written ==
    /\ approved # 0 => step = "rest" /\ sealed # 0 /\ "sealed" \notin doubled
    /\ step # "rest" => held # 0
    /\ step = "unlink" /\ writes = "sealed" => sealed # 0

\* A run that may mutate is not stale
Fresh == /\ stale => ~pinned
         /\ pc \in Mutating => ~stale

\* What a run takes for posted is posted
Sound ==
    /\ pc \in Active => \A a \in exists : Posted(plan, a)
    /\ pc = "resolve" => Posted(plan, at)
    /\ pc = "wait" => (call[1] = "resolve" \/ call[3] = "applied" => Posted(plan, at))

\* What a run has left behind is done
Completed(a) == /\ Posted(plan, a) \/ a \in done
                /\ a \in Resolving => a \in closed

Progress ==
    /\ done \subseteq closed
    /\ pc \in Mutating => \A a \in All : a < at => Completed(a)
    /\ pc = "wait" /\ call[1] = "resolve" /\ call[3] = "applied" => at \in closed
    /\ CompleteIsDone

IInv == TypeOK /\ Shape /\ Written /\ Carried /\ Fresh /\ Sound /\ Progress

-----------------------------------------------------------------------------
(* Lemmas *)

\* The type of comments, as the provers use it
LEMMA CommentsType ==
    ASSUME TypeOK
    PROVE  /\ DOMAIN comments = Threads \cup {0}
           /\ \A q \in Threads \cup {0} : comments[q] \in Seq(Items)
           /\ \A a \in All : Place(a) \in Threads \cup {0}
    BY DEF TypeOK, RemoteType, Items, Place

\* Appending a comment adds one occurrence of it and keeps the others
LEMMA AppendOne ==
    ASSUME TypeOK, NEW q \in Threads \cup {0}, NEW x \in Items,
           comments' = [comments EXCEPT ![q] = Append(@, x)]
    PROVE  /\ DOMAIN comments' = Threads \cup {0}
           /\ comments' \in [Threads \cup {0} -> Seq(Items)]
           /\ \A r \in Threads \cup {0} : r # q => comments'[r] = comments[r]
           /\ Len(comments'[q]) = Len(comments[q]) + 1
           /\ Len(comments[q]) \in Nat
           /\ DOMAIN comments[q] = 1 .. Len(comments[q])
           /\ DOMAIN comments'[q] = 1 .. (Len(comments[q]) + 1)
           /\ \A i \in 1 .. Len(comments[q]) : comments'[q][i] = comments[q][i]
           /\ comments'[q][Len(comments[q]) + 1] = x
<1>1. comments[q] \in Seq(Items) /\ DOMAIN comments = Threads \cup {0}
  BY CommentsType
<1>2. comments'[q] = Append(comments[q], x)
  BY <1>1
<1>3. /\ comments'[q] \in Seq(Items)
      /\ Len(comments'[q]) = Len(comments[q]) + 1
      /\ \A i \in 1 .. Len(comments[q]) : comments'[q][i] = comments[q][i]
      /\ comments'[q][Len(comments[q]) + 1] = x
  BY <1>1, <1>2, AppendProperties
<1>4. /\ Len(comments[q]) \in Nat /\ DOMAIN comments[q] = 1 .. Len(comments[q])
      /\ DOMAIN comments'[q] = 1 .. (Len(comments[q]) + 1)
  BY <1>1, <1>3, LenProperties
<1>5. comments' \in [Threads \cup {0} -> Seq(Items)]
  BY <1>1, <1>3, CommentsType
<1> QED
  BY <1>1, <1>3, <1>4, <1>5

\* An appended comment is posted, the posted ones stay, and nothing else is
LEMMA PostedAfter ==
    ASSUME TypeOK, NEW q \in Threads \cup {0}, NEW x \in Items,
           comments' = [comments EXCEPT ![q] = Append(@, x)]
    PROVE  \A v, a : a \in All =>
             /\ Posted(v, a) => Posted(v, a)'
             /\ Posted(v, a)' => Posted(v, a) \/ x = <<v, a>>
             /\ x = <<v, a>> /\ q = Place(a) => Posted(v, a)'
<1> TAKE v, a
<1> HAVE a \in All
<1>1. Place(a) \in Threads \cup {0}
  BY CommentsType
<1>2. CASE q = Place(a)
  <2>1. Posted(v, a) => Posted(v, a)'
    BY <1>2, AppendOne DEF Posted
  <2>2. x = <<v, a>> => Posted(v, a)'
    <3>1. Len(comments[q]) \in Nat /\ DOMAIN comments'[q] = 1 .. (Len(comments[q]) + 1)
      BY AppendOne
    <3>2. Len(comments[q]) + 1 \in DOMAIN comments'[q]
      BY <3>1
    <3>3. comments'[q][Len(comments[q]) + 1] = x
      BY AppendOne
    <3> QED
      BY <1>2, <3>2, <3>3 DEF Posted
  <2>3. ASSUME NEW i \in DOMAIN comments'[q], comments'[q][i] = <<v, a>>
        PROVE  Posted(v, a) \/ x = <<v, a>>
    <3>1. CASE i \in 1 .. Len(comments[q])
      BY <1>2, <2>3, <3>1, AppendOne DEF Posted
    <3>2. CASE i = Len(comments[q]) + 1
      BY <2>3, <3>2, AppendOne
    <3> QED
      BY <2>3, <3>1, <3>2, AppendOne
  <2> QED
    BY <1>2, <2>1, <2>2, <2>3 DEF Posted
<1>3. CASE q # Place(a)
  BY <1>1, <1>3, AppendOne DEF Posted
<1> QED
  BY <1>2, <1>3

\* If only the approved plan was published, another comment of it, or a plain
\* one, changes nothing in that
LEMMA ApprovedAfter ==
    ASSUME TypeOK, ApprovedOnly, approved' = approved,
           NEW q \in Threads \cup {0}, NEW x \in Items,
           x = Plain \/ x[1] = approved,
           comments' = [comments EXCEPT ![q] = Append(@, x)]
    PROVE  ApprovedOnly'
<1> SUFFICES ASSUME NEW r \in DOMAIN comments', NEW i \in DOMAIN comments'[r]
             PROVE  comments'[r][i] = Plain \/ comments'[r][i][1] = approved
  BY DEF ApprovedOnly
<1>1. r \in Threads \cup {0} /\ DOMAIN comments = Threads \cup {0}
  BY AppendOne, CommentsType
<1>2. CASE r # q
  BY <1>1, <1>2, AppendOne DEF ApprovedOnly
<1>3. CASE r = q /\ i \in 1 .. Len(comments[q])
  BY <1>1, <1>3, AppendOne DEF ApprovedOnly
<1>4. CASE r = q /\ i = Len(comments[q]) + 1
  BY <1>4, AppendOne
<1> QED
  BY <1>2, <1>3, <1>4, AppendOne

-----------------------------------------------------------------------------
(* Type correctness and shape *)

LEMMA InitInv == Init => IInv
<1> SUFFICES ASSUME Init PROVE IInv
  OBVIOUS
<1> USE PublisherAssumption DEF Init
<1>1. PlanType /\ RunType /\ BoundType
  BY DEF PlanType, RunType, BoundType, Reading, Mutating, Ended, NoCall, All
<1>2. <<Plain>> \in Seq({Plain} \cup (1 .. MaxPlans) \X All)
  OBVIOUS
<1>3. comments \in [Threads \cup {0} -> Seq({Plain} \cup (1 .. MaxPlans) \X All)]
  BY <1>2
<1>4. RemoteType
  BY <1>3 DEF RemoteType
<1>5. Shape /\ Fresh /\ Written
  BY DEF Shape, Fresh, Written, Mutating
<1>6. ApprovedOnly
  BY DEF ApprovedOnly
<1>7. Carried /\ Sound /\ Progress
  BY <1>6 DEF Carried, Sound, Progress, CompleteIsDone, Active, Reading, Mutating
<1> QED
  BY <1>1, <1>4, <1>5, <1>7 DEF IInv, TypeOK

\* Begin moves to a pending action or completes
LEMMA BeginStep ==
    ASSUME NEW n \in 1 .. (Actions + 1), Begin(n)
    PROVE  \/ /\ at' = Actions + 1 /\ pc' = "complete"
              /\ \A a \in All : a >= n => ~Pending(a, exists, done)
           \/ /\ at' \in All /\ at' >= n /\ Pending(at', exists, done)
              /\ pc' = (IF at' \in exists THEN "resolve" ELSE "reply")
              /\ \A a \in All : a >= n /\ a < at' => ~Pending(a, exists, done)
<1> DEFINE rest == {b \in n .. Actions : Pending(b, exists, done)}
<1>1. CASE rest = {}
  <2>1. at' = Actions + 1 /\ pc' = "complete"
    BY <1>1 DEF Begin
  <2>2. \A a \in All : a >= n => ~Pending(a, exists, done)
    BY <1>1, PublisherAssumption DEF All
  <2> QED
    BY <2>1, <2>2
<1>2. CASE rest # {}
  <2>1. PICK b \in rest : /\ \A c \in rest : b <= c
                          /\ at' = b /\ pc' = IF b \in exists THEN "resolve" ELSE "reply"
    BY <1>2 DEF Begin
  <2>2. b \in All /\ b >= n /\ Pending(b, exists, done)
    BY <2>1, PublisherAssumption DEF All
  <2>3. \A a \in All : a >= n /\ a < b => ~Pending(a, exists, done)
    BY <2>1, <2>2, PublisherAssumption DEF All
  <2> QED
    BY <2>1, <2>2, <2>3
<1> QED
  BY <1>1, <1>2

\* What the programs that write the plan's files leave alone
LEMMA WriteFrame ==
    Write => /\ UNCHANGED <<pc, plan, at, cursor, exists, done, call, outlived, late>>
             /\ UNCHANGED <<comments, sources, resolved, closed, runs, others>>
             /\ UNCHANGED <<pinned, stale>> \/ (pinned' = TRUE /\ stale' = FALSE)
             /\ faults' = faults \/ (faults > 0 /\ faults' = faults - 1)
<1>1. Prepare \/ CheckSource \/ Seal \/ StatOutput \/ LinkOutput \/ UnlinkTemporary => PlanStep
  BY DEF Prepare, CheckSource, Seal, StatOutput, LinkOutput, UnlinkTemporary
<1> QED
  BY <1>1 DEF Write, write_new_plan, pin_target, WriterFails, PlanStep, runVars, remoteVars, boundVars

\* What is in a file, and what is read of it
LEMMA FileType ==
    PlanType => \A f : File(f) \in 0 .. MaxPlans /\ ReadPlan(f) \in 0 .. MaxPlans
  BY PublisherAssumption DEF PlanType, File, ReadPlan

LEMMA PlanTypeStep == IInv /\ [Next]_vars => PlanType'
<1> SUFFICES ASSUME PlanType, RemoteType, [Next]_vars PROVE PlanType'
  BY DEF IInv, TypeOK
<1>1. CASE Revise \/ Replace
  <2>1. UNCHANGED writerVars /\ approved' = approved /\ doubled' \subseteq doubled
    BY <1>1 DEF Revise, Replace
  <2>2. draft' \in 0 .. MaxPlans /\ sealed' \in 0 .. MaxPlans
    BY <1>1, PublisherAssumption DEF Revise, Replace, PlanType
  <2> QED
    BY <2>1, <2>2 DEF writerVars, PlanType
<1>3. CASE Write
  <2>1. CASE Prepare
    BY <2>1, PublisherAssumption DEF Prepare, Requests, Go, PlanType
  <2>2. CASE pin_target
    BY <2>2 DEF pin_target, Doing, Go, Stops, fileVars, PlanType
  <2>3. CASE CheckSource
    <3>1. checked + 1 \in sources => checked + 1 \in 0 .. Actions
      BY PublisherAssumption DEF PlanType, RemoteType, All
    <3> QED
      BY <2>3, <3>1 DEF CheckSource, Doing, Go, Stops, AfterSource, fileVars, PlanType
  <2>4. CASE Seal
    BY <2>4, FileType, PublisherAssumption DEF Seal, Go, PlanType
  <2>5. CASE StatOutput
    BY <2>5 DEF StatOutput, Doing, Go, Stops, fileVars, PlanType
  <2>6. CASE LinkOutput
    BY <2>6 DEF LinkOutput, Doing, Go, Stops, fileVars, PlanType
  <2>7. CASE UnlinkTemporary
    BY <2>7 DEF UnlinkTemporary, Summarized, Go, PlanType
  <2>8. CASE WriterFails
    BY <2>8 DEF WriterFails, Stops, Go, fileVars, PlanType
  <2> QED
    BY <1>3, <2>1, <2>2, <2>3, <2>4, <2>5, <2>6, <2>7, <2>8 DEF Write, write_new_plan
<1>2. CASE UNCHANGED planVars
  BY <1>2 DEF planVars, fileVars, writerVars, PlanType
<1> QED
  BY <1>1, <1>2, <1>3 DEF Next, Run, Rest, vars, Start, VerifyTarget, ReadSource, ReadPage, Repin,
     SendReply, SendResolve, Answer, Step, Local, Apply, ApplyOutlived, CallFails, Kill, Fault,
     Comment, DeleteSource, ResolveThread, Reopen, Push, Other, planVars

LEMMA BoundTypeStep == IInv /\ [Next]_vars => BoundType'
<1> SUFFICES ASSUME BoundType, [Next]_vars PROVE BoundType'
  BY DEF IInv, TypeOK
<1>1. CASE Start
  BY <1>1 DEF Start, BoundType
<1>2. CASE CallFails \/ Kill
  BY <1>2 DEF CallFails, Kill, Fault, BoundType
<1>3. CASE Comment \/ DeleteSource \/ ResolveThread \/ Reopen \/ Push
  BY <1>3 DEF Comment, DeleteSource, ResolveThread, Reopen, Push, Other, BoundType
<1>4. CASE UNCHANGED boundVars
  BY <1>4 DEF boundVars, BoundType
<1>5. CASE Write
  BY <1>5, WriteFrame DEF BoundType
<1> QED
  BY <1>1, <1>2, <1>3, <1>4, <1>5 DEF Next, Run, Rest, vars, VerifyTarget, ReadSource, ReadPage, Repin,
     SendReply, SendResolve, Answer, Step, Local, Apply, ApplyOutlived, Revise, Replace,
     PlanStep, BoundType, boundVars

\* What a call adds to GitHub, the run's own or an outlived one
LEMMA EffectType ==
    ASSUME TypeOK, NEW kind, NEW a \in All, NEW v \in 1 .. MaxPlans,
           kind = "resolve" => a \in Resolving, Effect(kind, a, v)
    PROVE  /\ comments' \in [Threads \cup {0} -> Seq({Plain} \cup (1 .. MaxPlans) \X All)]
           /\ resolved' \subseteq closed' /\ closed' \subseteq Threads /\ closed \subseteq closed'
<1>1. CASE kind = "reply"
  <2>1. comments' = [comments EXCEPT ![Place(a)] = Append(@, <<v, a>>)]
        /\ resolved' = resolved /\ closed' = closed
    BY <1>1 DEF Effect
  <2>2. comments' \in [Threads \cup {0} -> Seq(Items)]
    BY <2>1, AppendOne, CommentsType DEF Items
  <2> QED
    BY <2>1, <2>2 DEF Items, TypeOK, RemoteType
<1>2. CASE kind = "resolve"
  BY <1>2, PublisherAssumption DEF Effect, TypeOK, RemoteType
<1> QED
  BY <1>1, <1>2 DEF Effect

LEMMA RemoteTypeStep == IInv /\ [Next]_vars => RemoteType'
<1> SUFFICES ASSUME IInv, [Next]_vars PROVE RemoteType'
  OBVIOUS
<1> USE DEF IInv, TypeOK
<1>1. CASE Start
  <2>1. stale' \in BOOLEAN
    BY <1>1 DEF Start
  <2> QED
    BY <1>1, <2>1 DEF Start, RemoteType
<1>2. CASE Apply
  <2>1. /\ call[2] = at /\ at \in All /\ plan \in 1 .. MaxPlans
        /\ call[1] = "resolve" => at \in Resolving
    BY <1>2 DEF Apply, Shape, Carried, Active, Mutating, RunType
  <2> QED
    BY <1>2, <2>1, EffectType DEF Apply, RemoteType
<1>3. CASE ApplyOutlived
  <2>1. PICK c \in outlived : Effect(c[1], c[2], c[3])
    BY <1>3 DEF ApplyOutlived
  <2>2. c[2] \in All /\ c[3] \in 1 .. MaxPlans /\ (c[1] = "resolve" => c[2] \in Resolving)
    BY <2>1 DEF RunType, Shape, Carried
  <2> QED
    BY <1>3, <2>1, <2>2, EffectType DEF ApplyOutlived, RemoteType
<1>4. CASE Comment
  <2>1. PICK q \in Threads \cup {0} : comments' = [comments EXCEPT ![q] = Append(@, Plain)]
    BY <1>4, CommentsType DEF Comment
  <2>2. comments' \in [Threads \cup {0} -> Seq(Items)]
    BY <2>1, AppendOne DEF Items
  <2> QED
    BY <1>4, <2>2 DEF Comment, RemoteType, Items
<1>5. CASE Push
  <2>1. pinned' \in BOOLEAN /\ stale' \in BOOLEAN
    BY <1>5 DEF Push
  <2> QED
    BY <1>5, <2>1 DEF Push, RemoteType
<1>6. CASE DeleteSource \/ ResolveThread \/ Reopen
  BY <1>6 DEF DeleteSource, ResolveThread, Reopen, RemoteType
<1>7. CASE UNCHANGED remoteVars
  BY <1>7 DEF remoteVars, RemoteType
<1>8. CASE Write
  BY <1>8, WriteFrame DEF RemoteType
<1> QED
  BY <1>1, <1>2, <1>3, <1>4, <1>5, <1>6, <1>7, <1>8 DEF Next, Run, Rest, vars, VerifyTarget,
     ReadSource, ReadPage, Repin, SendReply, SendResolve, Answer, Step, Local, Revise,
     Replace, PlanStep, CallFails, Kill, Fault, remoteVars

LEMMA RunTypeStep == IInv /\ [Next]_vars => RunType'
<1> SUFFICES ASSUME IInv, [Next]_vars PROVE RunType'
  OBVIOUS
<1> USE PublisherAssumption DEF IInv, TypeOK, All, Reading, Mutating, Ended
<1>1. NoCall \in {"none", "reply", "resolve"} \X (0 .. Actions) \X {"none", "sent", "applied"}
  BY DEF NoCall
<1>2. CASE Start
  BY <1>1, <1>2, FileType DEF Start, RunType, PlanType
<1>3. CASE VerifyTarget \/ ReadSource
  BY <1>1, <1>3 DEF VerifyTarget, ReadSource, Step, Ends, First, RunType
<1>4. CASE ReadPage
  <2>1. at \in 1 .. Actions
    BY <1>4 DEF ReadPage, Step, Shape
  <2>2. Found \subseteq All /\ State \subseteq Threads
    BY <2>1 DEF Found, State, RunType, RemoteType
  <2>3. pc' \in {"source", "pages", "repin", "complete", "aborted"}
    BY <1>4 DEF ReadPage, Step, Ends, First, NextAction, AfterPreflight
  <2>4. at' \in 1 .. (Actions + 1) /\ cursor' \in Nat
    BY <1>4, <2>1 DEF ReadPage, Step, Ends, NextAction, RunType
  <2>5. exists' \subseteq All /\ done' \subseteq Threads
    BY <1>4, <2>2 DEF ReadPage, Step, Ends, RunType
  <2>6. (call' = NoCall \/ call' = call) 
        /\ UNCHANGED <<plan, outlived, late>>
    BY <1>4 DEF ReadPage, Step, Ends
  <2> QED
    BY <1>1, <2>3, <2>4, <2>5, <2>6 DEF RunType
<1>5. CASE Repin
  <2>1. pc' \in {"reply", "resolve", "complete", "aborted"} /\ at' \in 1 .. (Actions + 1)
    BY <1>5, BeginStep DEF Repin, Step, Ends, RunType
  <2>2. /\ call' = NoCall \/ call' = call
        /\ UNCHANGED <<plan, outlived, late, exists, done, cursor>>
    BY <1>5 DEF Repin, Step, Ends
  <2> QED
    BY <1>1, <2>1, <2>2 DEF RunType
<1>6. CASE SendReply \/ SendResolve
  <2>1. at \in 1 .. Actions
    BY <1>6 DEF SendReply, SendResolve, Step, Shape
  <2>2. call' = <<"reply", at, "sent">> \/ call' = <<"resolve", at, "sent">>
    BY <1>6 DEF SendReply, SendResolve, Send
  <2>3. call' \in {"none", "reply", "resolve"} \X (0 .. Actions) \X {"none", "sent", "applied"}
    BY <2>1, <2>2
  <2> QED
    BY <1>6, <2>3 DEF SendReply, SendResolve, Send, Step, RunType
<1>7. CASE Answer
  <2>1. at \in 1 .. Actions
    BY <1>7 DEF Answer, Step, Shape
  <2> QED
    BY <1>1, <1>7, <2>1, BeginStep DEF Answer, Step, RunType
<1>8. CASE Apply
  BY <1>8 DEF Apply, RunType, Shape
<1>9. CASE ApplyOutlived
  BY <1>9 DEF ApplyOutlived, RunType
<1>10. CASE CallFails \/ Kill
  <2>1. late' \subseteq {"reply", "resolve"} \X All \X (0 .. MaxPlans) /\ outlived' \subseteq late'
    BY <1>10 DEF CallFails, Kill, GiveUp, Shape, RunType
  <2> QED
    BY <1>1, <1>10, <2>1 DEF CallFails, Kill, Fault, Ends, RunType
<1>11. CASE UNCHANGED runVars
  BY <1>11 DEF runVars, RunType
<1>12. CASE Write
  BY <1>12, WriteFrame DEF RunType
<1> QED
  BY <1>2, <1>3, <1>4, <1>5, <1>6, <1>7, <1>8, <1>9, <1>10, <1>11, <1>12 DEF Next, Run, Rest, vars,
     Revise, Replace, PlanStep, Comment, DeleteSource, ResolveThread, Reopen, Push, Other

LEMMA TypeStep == IInv /\ [Next]_vars => TypeOK'
  BY PlanTypeStep, RemoteTypeStep, RunTypeStep, BoundTypeStep DEF TypeOK

\* Every step that leaves the run as it is
Aside == \/ Revise \/ Write \/ Replace \/ ApplyOutlived
         \/ Comment \/ DeleteSource \/ ResolveThread \/ Reopen \/ Push \/ UNCHANGED vars

LEMMA AsideStep ==
    Aside => /\ UNCHANGED <<pc, plan, at, cursor, exists, done, call>>
             /\ outlived' \subseteq outlived /\ late' = late
  BY WriteFrame DEF Aside, Revise, Replace, PlanStep, ApplyOutlived, Comment, DeleteSource,
     ResolveThread, Reopen, Push, Other, runVars, vars

LEMMA NextCases ==
    [Next]_vars => \/ Start \/ VerifyTarget \/ ReadSource \/ ReadPage \/ Repin \/ SendReply
                   \/ SendResolve \/ Answer \/ Apply \/ CallFails \/ Kill \/ Aside
  BY DEF Next, Run, Rest, Aside

LEMMA ShapeStep == IInv /\ [Next]_vars => Shape'
<1> SUFFICES ASSUME IInv, [Next]_vars PROVE Shape'
  OBVIOUS
<1> USE DEF IInv
<1>1. CASE Start
  BY <1>1 DEF Start, Shape
<1>2. CASE VerifyTarget \/ ReadSource
  <2>1. 1 \in All
    BY PublisherAssumption DEF All
  <2> QED
    BY <1>2, <2>1 DEF VerifyTarget, ReadSource, Step, Ends, First, Shape
<1>3. CASE ReadPage
  <2>1. at \in All
    BY <1>3 DEF ReadPage, Step, Shape
  <2>2. CASE Ends("aborted")
    BY <1>3, <2>2 DEF ReadPage, Step, Ends, Shape
  <2>3. CASE pc' = "pages" /\ at' = at /\ call' = call
    BY <1>3, <2>1, <2>3 DEF ReadPage, Step, Shape
  <2>4. CASE NextAction /\ call' = call
    <3>1. at # Actions => at + 1 \in All
      BY <2>1, PublisherAssumption DEF All
    <3>2. (pc' \in {"pages", "source"} /\ at' \in All) \/ pc' \in {"repin", "complete"}
      BY <2>4, <3>1 DEF NextAction, First, AfterPreflight
    <3> QED
      BY <1>3, <2>4, <3>2 DEF ReadPage, Step, NextAction, Shape
  <2> QED
    BY <1>3, <2>2, <2>3, <2>4 DEF ReadPage, Step
<1>4. CASE Repin
  <2>1. CASE Ends("aborted")
    BY <1>4, <2>1 DEF Repin, Step, Ends, Shape
  <2>2. CASE Begin(1) /\ UNCHANGED <<cursor, exists, done, call>>
    <3>1. 1 \in 1 .. (Actions + 1)
      BY PublisherAssumption
    <3>2. /\ pc' \in {"complete", "reply", "resolve"}
          /\ pc' # "complete" => at' \in All
          /\ pc' = "reply" => at' \notin exists
          /\ pc' = "resolve" => at' \in Resolving
      BY <2>2, <3>1, BeginStep DEF Pending
    <3> QED
      BY <1>4, <2>2, <3>2 DEF Repin, Step, Shape
  <2> QED
    BY <1>4, <2>1, <2>2 DEF Repin
<1>5. CASE SendReply \/ SendResolve
  BY <1>5 DEF SendReply, SendResolve, Send, Step, Shape
<1>6. CASE Answer
  <2>1. at \in All
    BY <1>6 DEF Answer, Step, Shape
  <2>2. CASE at \in Resolving /\ at' = at /\ pc' = "resolve"
    BY <1>6, <2>1, <2>2 DEF Answer, Step, Shape
  <2>3. CASE Begin(at + 1)
    <3>1. at + 1 \in 1 .. (Actions + 1)
      BY <2>1, PublisherAssumption DEF All
    <3>2. /\ pc' \in {"complete", "reply", "resolve"}
          /\ pc' # "complete" => at' \in All
          /\ pc' = "reply" => at' \notin exists
          /\ pc' = "resolve" => at' \in Resolving
      BY <2>3, <3>1, BeginStep DEF Pending
    <3> QED
      BY <1>6, <3>2 DEF Answer, Step, Shape
  <2> QED
    BY <1>6, <2>2, <2>3 DEF Answer
<1>7. CASE Apply
  BY <1>7 DEF Apply, Shape
<1>8. CASE CallFails \/ Kill
  <2>1. pc' \in Ended /\ call' = NoCall
    BY <1>8 DEF CallFails, Kill, Ends, Ended
  <2>2. \A c \in outlived' : c[1] = "resolve" => c[2] \in Resolving
    BY <1>8 DEF CallFails, Kill, GiveUp, Shape
  <2> QED
    BY <2>1, <2>2 DEF Shape, Ended
<1>9. CASE Aside
  BY <1>9, AsideStep DEF Shape
<1> QED
  BY NextCases, <1>1, <1>2, <1>3, <1>4, <1>5, <1>6, <1>7, <1>8, <1>9

-----------------------------------------------------------------------------
(* Only the approved plan, and not for a stale one *)

LEMMA WrittenStep == IInv /\ [Next]_vars => Written'
<1> SUFFICES ASSUME IInv, [Next]_vars PROVE Written'
  OBVIOUS
<1> USE DEF IInv, TypeOK, PlanType, Written
<1>1. CASE Revise \/ Replace
  BY <1>1, PublisherAssumption DEF Revise, Replace, writerVars
<1>2. CASE Prepare
  BY <1>2, PublisherAssumption DEF Prepare, Requests, Go
<1>3. CASE pin_target
  BY <1>3 DEF pin_target, Doing, Go, Stops, fileVars
<1>4. CASE CheckSource
  BY <1>4 DEF CheckSource, Doing, Go, Stops, AfterSource, fileVars
<1>5. CASE Seal
  BY <1>5 DEF Seal, Go
<1>6. CASE StatOutput
  BY <1>6 DEF StatOutput, Doing, Go, Stops, fileVars
<1>7. CASE LinkOutput
  BY <1>7 DEF LinkOutput, Doing, Go, Stops, fileVars
<1>8. CASE UnlinkTemporary
  BY <1>8 DEF UnlinkTemporary, Summarized, Go
<1>9. CASE WriterFails
  BY <1>9 DEF WriterFails, Stops, Go, fileVars
<1>10. CASE UNCHANGED planVars
  BY <1>10 DEF planVars, fileVars, writerVars
<1> QED
  BY <1>1, <1>2, <1>3, <1>4, <1>5, <1>6, <1>7, <1>8, <1>9, <1>10 DEF Next, Write,
     write_new_plan, Run, Rest, vars, Start, VerifyTarget, ReadSource, ReadPage, Repin,
     SendReply, SendResolve, Answer, Step, Local, Apply, ApplyOutlived, CallFails, Kill, Fault,
     Comment, DeleteSource, ResolveThread, Reopen, Push, Other

LEMMA CarriedStep == IInv /\ [Next]_vars => Carried'
<1> SUFFICES ASSUME IInv, [Next]_vars PROVE Carried'
  OBVIOUS
<1> USE DEF IInv
<1>1. CASE Write
  <2>1. UNCHANGED <<pc, plan, outlived, comments>>
    BY <1>1, WriteFrame
  <2>2. CASE approved' = approved
    BY <2>1, <2>2 DEF Carried, ApprovedOnly
  <2>3. CASE approved' # approved
    <3>1. UnlinkTemporary
      BY <1>1, <2>3 DEF Write, write_new_plan, Prepare, pin_target, CheckSource, Seal, StatOutput,
         LinkOutput, WriterFails, Doing
    <3>2. approved = 0 /\ outlived = {} /\ pc \notin Active
      BY <3>1 DEF UnlinkTemporary, Written, Carried
    <3>3. \A q \in DOMAIN comments : \A i \in DOMAIN comments[q] : comments[q][i] = Plain
      <4> SUFFICES ASSUME NEW q \in DOMAIN comments, NEW i \in DOMAIN comments[q],
                          comments[q][i] # Plain
                   PROVE  FALSE
        OBVIOUS
      <4>1. comments[q] \in Seq(Items)
        BY CommentsType
      <4>2. comments[q][i] \in Items
        BY <4>1, ElementOfSeq, LenProperties
      <4>3. comments[q][i][1] \in 1 .. MaxPlans
        BY <4>2 DEF Items
      <4> QED
        BY <3>2, <4>3 DEF Carried, ApprovedOnly
    <3> QED
      BY <2>1, <3>2, <3>3 DEF Carried, ApprovedOnly
  <2> QED
    BY <2>2, <2>3
<1>2. CASE Revise \/ Replace
  BY <1>2 DEF Revise, Replace, PlanStep, runVars, remoteVars, Carried, ApprovedOnly
<1>3. CASE Start
  BY <1>3 DEF Start, Verified, planVars, Carried, Active, Reading, Mutating, ApprovedOnly
<1>4. CASE VerifyTarget \/ ReadSource \/ ReadPage \/ Repin \/ SendReply \/ SendResolve \/ Answer
  <2>1. pc \in Active /\ UNCHANGED <<plan, outlived, approved, comments>>
    BY <1>4 DEF VerifyTarget, ReadSource, ReadPage, Repin, SendReply, SendResolve, Answer, Step,
       Local, planVars, remoteVars, Active, Reading, Mutating
  <2> QED
    BY <2>1 DEF Carried, ApprovedOnly
<1>5. CASE Apply
  <2>1. /\ call[2] \in All /\ plan = approved /\ plan \in 1 .. MaxPlans
        /\ UNCHANGED <<approved, plan, outlived, pc>>
    BY <1>5 DEF Apply, planVars, Shape, Carried, Active, Mutating, TypeOK, RunType
  <2>2. ApprovedOnly'
    <3>1. CASE comments' = comments
      BY <2>1, <3>1 DEF Carried, ApprovedOnly
    <3>2. CASE comments' = [comments EXCEPT ![Place(call[2])] = Append(@, <<plan, call[2]>>)]
      <4>1. /\ Place(call[2]) \in Threads \cup {0} /\ <<plan, call[2]>> \in Items
            /\ <<plan, call[2]>>[1] = approved
        BY <2>1, CommentsType DEF Items
      <4> QED
        BY <2>1, <3>2, <4>1, ApprovedAfter DEF Carried
    <3> QED
      BY <1>5, <3>1, <3>2 DEF Apply, Effect
  <2> QED
    BY <2>1, <2>2 DEF Carried
<1>6. CASE ApplyOutlived
  <2>1. PICK c \in outlived : Effect(c[1], c[2], c[3]) /\ outlived' = outlived \ {c}
    BY <1>6 DEF ApplyOutlived
  <2>2. c[2] \in All /\ c[3] \in 1 .. MaxPlans /\ c[3] = approved
        /\ UNCHANGED <<approved, plan, pc>>
    BY <1>6, <2>1 DEF ApplyOutlived, planVars, TypeOK, RunType, Carried
  <2>3. ApprovedOnly'
    <3>1. CASE comments' = comments
      BY <2>2, <3>1 DEF Carried, ApprovedOnly
    <3>2. CASE comments' = [comments EXCEPT ![Place(c[2])] = Append(@, <<c[3], c[2]>>)]
      <4>1. /\ Place(c[2]) \in Threads \cup {0} /\ <<c[3], c[2]>> \in Items
            /\ <<c[3], c[2]>>[1] = approved
        BY <2>2, CommentsType DEF Items
      <4> QED
        BY <2>2, <3>2, <4>1, ApprovedAfter DEF Carried
    <3> QED
      BY <2>1, <3>1, <3>2 DEF Effect
  <2> QED
    BY <2>1, <2>2, <2>3 DEF Carried
<1>7. CASE CallFails \/ Kill
  <2>1. pc' \notin Active /\ UNCHANGED <<approved, comments>>
    BY <1>7 DEF CallFails, Kill, Fault, Ends, Active, Reading, Mutating, planVars, remoteVars
  <2>2. \A c \in outlived' : c[3] = approved /\ approved # 0
    BY <1>7 DEF CallFails, Kill, GiveUp, Carried, Shape, Active, Mutating
  <2> QED
    BY <2>1, <2>2 DEF Carried, ApprovedOnly
<1>8. CASE Comment
  <2>1. PICK q \in Threads \cup {0} : comments' = [comments EXCEPT ![q] = Append(@, Plain)]
    BY <1>8, CommentsType DEF Comment
  <2>2. UNCHANGED <<approved, plan, pc, outlived>>
    BY <1>8 DEF Comment, Other, planVars, runVars
  <2>3. ApprovedOnly'
    BY <2>1, <2>2, ApprovedAfter DEF Carried, Items
  <2> QED
    BY <2>2, <2>3 DEF Carried
<1>9. CASE DeleteSource \/ ResolveThread \/ Reopen \/ Push \/ UNCHANGED vars
  <2>1. UNCHANGED <<approved, plan, pc, outlived, comments>>
    BY <1>9 DEF DeleteSource, ResolveThread, Reopen, Push, Other, vars, planVars, runVars, remoteVars
  <2> QED
    BY <2>1 DEF Carried, ApprovedOnly
<1> QED
  BY NextCases, <1>1, <1>2, <1>3, <1>4, <1>5, <1>6, <1>7, <1>8, <1>9 DEF Aside

LEMMA FreshStep == IInv /\ [Next]_vars => Fresh'
<1> SUFFICES ASSUME IInv, [Next]_vars PROVE Fresh'
  OBVIOUS
<1> USE DEF IInv, Mutating
<1>1. CASE Start
  BY <1>1 DEF Start, Fresh
<1>2. CASE VerifyTarget \/ ReadSource \/ ReadPage
  <2>1. pc' \notin Mutating /\ UNCHANGED <<stale, pinned>>
    BY <1>2 DEF VerifyTarget, ReadSource, ReadPage, Step, Local, Ends, First, NextAction,
       AfterPreflight, remoteVars
  <2> QED
    BY <2>1 DEF Fresh
<1>3. CASE Repin
  BY <1>3 DEF Repin, Step, Local, Ends, remoteVars, Fresh
<1>4. CASE SendReply \/ SendResolve \/ Answer \/ Apply
  BY <1>4 DEF SendReply, SendResolve, Answer, Apply, Step, Local, remoteVars, Fresh
<1>5. CASE CallFails \/ Kill
  <2>1. pc' \notin Mutating /\ UNCHANGED <<stale, pinned>>
    BY <1>5 DEF CallFails, Kill, Fault, Ends, remoteVars
  <2> QED
    BY <2>1 DEF Fresh
<1>6. CASE Push
  BY <1>6 DEF Push, Other, runVars, Fresh
<1>8. CASE Write
  BY <1>8, WriteFrame DEF Fresh
<1>7. CASE Aside /\ ~Push /\ ~Write
  <2>1. UNCHANGED <<stale, pinned, pc>>
    BY <1>7 DEF Aside, Revise, Replace, PlanStep, ApplyOutlived, Comment, DeleteSource,
       ResolveThread, Reopen, Other, runVars, remoteVars, vars
  <2> QED
    BY <2>1 DEF Fresh
<1> QED
  BY NextCases, <1>1, <1>2, <1>3, <1>4, <1>5, <1>6, <1>7, <1>8

-----------------------------------------------------------------------------
(* What is taken for posted is posted, what is left behind is done *)

\* What is posted stays posted
LEMMA PostedStays ==
    IInv /\ [Next]_vars => \A v : \A a \in All : Posted(v, a) => Posted(v, a)'
<1> SUFFICES ASSUME IInv, [Next]_vars, NEW v, NEW a \in All PROVE Posted(v, a) => Posted(v, a)'
  OBVIOUS
<1> USE DEF IInv
<1>1. CASE comments' = comments
  BY <1>1 DEF Posted
<1>2. CASE Apply
  <2>1. call[2] \in All /\ plan \in 1 .. MaxPlans
    BY <1>2 DEF Apply, Shape, Carried, Active, Mutating, TypeOK, RunType
  <2>2. CASE comments' = [comments EXCEPT ![Place(call[2])] = Append(@, <<plan, call[2]>>)]
    BY <2>1, <2>2, PostedAfter, CommentsType DEF Items
  <2> QED
    BY <1>1, <1>2, <2>2 DEF Apply, Effect
<1>3. CASE ApplyOutlived
  <2>1. PICK c \in outlived : Effect(c[1], c[2], c[3])
    BY <1>3 DEF ApplyOutlived
  <2>2. c[2] \in All /\ c[3] \in 1 .. MaxPlans
    BY <2>1 DEF TypeOK, RunType, Carried
  <2>3. CASE comments' = [comments EXCEPT ![Place(c[2])] = Append(@, <<c[3], c[2]>>)]
    BY <2>2, <2>3, PostedAfter, CommentsType DEF Items
  <2> QED
    BY <1>1, <2>1, <2>3 DEF Effect
<1>4. CASE Comment
  <2>1. PICK q \in Threads \cup {0} : comments' = [comments EXCEPT ![q] = Append(@, Plain)]
    BY <1>4, CommentsType DEF Comment
  <2> QED
    BY <2>1, PostedAfter DEF Items
<1>5. CASE ~Apply /\ ~Aside
  BY <1>1, <1>5, NextCases DEF Start, VerifyTarget, ReadSource, ReadPage, Repin, SendReply,
     SendResolve, Answer, Step, Local, CallFails, Kill, Fault, remoteVars
<1>6. CASE Aside /\ ~ApplyOutlived /\ ~Comment
  BY <1>1, <1>6, WriteFrame DEF Aside, Revise, Replace, PlanStep, DeleteSource, ResolveThread, Reopen,
     Push, vars, remoteVars
<1> QED
  BY <1>2, <1>3, <1>4, <1>5, <1>6

LEMMA SoundStep == IInv /\ [Next]_vars => Sound'
<1> SUFFICES ASSUME IInv, [Next]_vars PROVE Sound'
  OBVIOUS
<1> USE DEF IInv
<1>0. \A v : \A a \in All : Posted(v, a) => Posted(v, a)'
  BY PostedStays
<1>1. CASE Start
  BY <1>1 DEF Start, Sound
<1>2. CASE VerifyTarget \/ ReadSource
  BY <1>2 DEF VerifyTarget, ReadSource, Step, Local, Ends, First, Sound, Active, Reading,
     Mutating, remoteVars, Posted
<1>3. CASE ReadPage
  <2>1. at \in All /\ pc \in Active /\ UNCHANGED <<plan, comments>>
    BY <1>3 DEF ReadPage, Step, Local, Shape, Active, Reading, remoteVars
  <2>2. CASE Ends("aborted")
    BY <2>2 DEF Ends, Sound, Active, Reading, Mutating
  <2>3. CASE exists' = Found /\ (UNCHANGED pc \/ NextAction)
    <3>1. \A a \in Found : Posted(plan, a)
      BY <2>1 DEF Found, OnPage, Here, Posted, Sound
    <3>2. pc' \notin Mutating
      BY <1>3, <2>3 DEF ReadPage, Step, NextAction, First, AfterPreflight, Mutating
    <3> QED
      BY <2>1, <2>3, <3>1, <3>2 DEF Sound, Posted, Mutating
  <2> QED
    BY <1>3, <2>2, <2>3 DEF ReadPage
<1>4. CASE Repin
  <2>1. CASE Ends("aborted")
    BY <2>1 DEF Ends, Sound, Active, Reading, Mutating
  <2>2. CASE Begin(1) /\ UNCHANGED <<cursor, exists, done, call>>
    <3>1. pc' \in {"complete", "reply", "resolve"} /\ (pc' = "resolve" => at' \in exists)
      BY <2>2, BeginStep, PublisherAssumption DEF Pending
    <3>2. pc \in Active /\ UNCHANGED <<plan, comments, exists>>
      BY <1>4, <2>2 DEF Repin, Step, Local, Active, Reading, remoteVars
    <3> QED
      BY <3>1, <3>2 DEF Sound, Posted
  <2> QED
    BY <1>4, <2>1, <2>2 DEF Repin
<1>5. CASE SendReply \/ SendResolve
  <2>1. /\ pc \in Active /\ pc' = "wait" /\ UNCHANGED <<plan, comments, exists, at>>
        /\ \/ pc = "reply" /\ call' = <<"reply", at, "sent">>
           \/ pc = "resolve" /\ call' = <<"resolve", at, "sent">>
    BY <1>5 DEF SendReply, SendResolve, Send, Step, Local, Active, Mutating, remoteVars
  <2>2. call'[1] = "resolve" \/ call'[3] = "applied" => pc = "resolve"
    BY <2>1
  <2> QED
    BY <2>1, <2>2 DEF Sound, Posted
<1>6. CASE Answer
  <2>1. /\ pc \in Active /\ UNCHANGED <<plan, comments, exists>>
        /\ at \in All /\ Posted(plan, at)
    BY <1>6 DEF Answer, Step, Local, Active, Mutating, remoteVars, Shape, Sound
  <2>2. CASE at' = at /\ pc' = "resolve"
    BY <2>1, <2>2 DEF Sound, Posted
  <2>3. CASE Begin(at + 1)
    <3>1. pc' \in {"complete", "reply", "resolve"} /\ (pc' = "resolve" => at' \in exists)
      BY <2>1, <2>3, BeginStep, PublisherAssumption DEF All
    <3> QED
      BY <2>1, <3>1 DEF Sound, Posted
  <2> QED
    BY <1>6, <2>2, <2>3 DEF Answer
<1>7. CASE Apply
  <2>1. /\ pc = "wait" /\ UNCHANGED <<pc, plan, at, exists>> /\ exists \subseteq All
        /\ call[1] \in {"reply", "resolve"} /\ call[2] = at /\ at \in All /\ plan \in 1 .. MaxPlans
        /\ call'[1] = call[1]
    BY <1>7 DEF Apply, TypeOK, RunType, Shape, Carried, Active, Mutating
  <2>2. Posted(plan, at)'
    <3>1. CASE call[1] = "resolve"
      BY <1>0, <2>1, <3>1 DEF Sound
    <3>2. CASE call[1] = "reply"
      <4>1. comments' = [comments EXCEPT ![Place(at)] = Append(@, <<plan, at>>)]
        BY <1>7, <2>1, <3>2 DEF Apply, Effect
      <4>2. Place(at) \in Threads \cup {0} /\ <<plan, at>> \in Items
        BY <2>1, CommentsType DEF Items
      <4>3. \A v, a : a \in All => (<<plan, at>> = <<v, a>> /\ Place(at) = Place(a) => Posted(v, a)')
        BY <4>1, <4>2, PostedAfter
      <4>4. Posted(plan, at)' <=> (\E i \in DOMAIN comments'[Place(at)] : comments'[Place(at)][i] = <<plan, at>>)
        BY <2>1 DEF Posted
      <4> QED
        BY <2>1, <4>3, <4>4 DEF Posted
    <3> QED
      BY <2>1, <3>1, <3>2
  <2> QED
    BY <1>0, <2>1, <2>2 DEF Sound, Active, Mutating
<1>8. CASE CallFails \/ Kill
  BY <1>8 DEF CallFails, Kill, Ends, Sound, Active, Reading, Mutating
<1>9. CASE Aside
  <2>1. UNCHANGED <<pc, plan, at, exists, call>> /\ exists \subseteq All
    BY <1>9, AsideStep DEF TypeOK, RunType
  <2>2. pc \in {"resolve", "wait"} => at \in All
    BY DEF Shape
  <2> QED
    BY <1>0, <2>1, <2>2 DEF Sound
<1> QED
  BY NextCases, <1>1, <1>2, <1>3, <1>4, <1>5, <1>6, <1>7, <1>8, <1>9

\* Nothing pending is something completed
LEMMA NotPending ==
    ASSUME IInv, pc \in Active, NEW a \in All, ~Pending(a, exists, done)
    PROVE  Completed(a)
  BY DEF IInv, Sound, Progress, Pending, Completed

LEMMA CompletedStays ==
    ASSUME IInv, [Next]_vars, plan' = plan, done' = done, NEW a \in All, Completed(a)
    PROVE  Completed(a)'
<1>1. Posted(plan, a) => Posted(plan, a)'
  BY PostedStays DEF Posted
<1>2. closed \subseteq closed'
  BY NextCases, WriteFrame DEF Aside, Start, VerifyTarget, ReadSource, ReadPage, Repin, SendReply, SendResolve,
     Answer, Step, Local, CallFails, Kill, Fault, Apply, ApplyOutlived, Effect, Comment,
     DeleteSource, ResolveThread, Reopen, Push, Revise, Replace, PlanStep, remoteVars, vars
<1> QED
  BY <1>1, <1>2 DEF Completed

LEMMA ProgressStep == IInv /\ [Next]_vars => Progress'
<1> SUFFICES ASSUME IInv, [Next]_vars PROVE Progress'
  OBVIOUS
<1>0. closed \subseteq closed'
  BY NextCases, WriteFrame DEF Aside, Start, VerifyTarget, ReadSource, ReadPage, Repin, SendReply, SendResolve,
     Answer, Step, Local, CallFails, Kill, Fault, Apply, ApplyOutlived, Effect, Comment,
     DeleteSource, ResolveThread, Reopen, Push, Revise, Replace, PlanStep, remoteVars, vars
<1>1. CASE Start
  BY <1>1 DEF Start, Progress, CompleteIsDone, Mutating
<1>2. CASE VerifyTarget \/ ReadSource
  <2>1. pc' \in Reading \cup {"aborted"} /\ done' = done
    BY <1>2 DEF VerifyTarget, ReadSource, Step, Ends, First, Reading
  <2> QED
    BY <1>0, <2>1 DEF IInv, Progress, CompleteIsDone, Reading, Mutating
<1>3. CASE ReadPage
  <2>1. /\ at \in All /\ pc \in Active /\ UNCHANGED <<plan, comments, resolved, closed>>
    BY <1>3 DEF ReadPage, Step, Local, IInv, Shape, Active, Reading, remoteVars
  <2>2. CASE Ends("aborted")
    BY <1>0, <2>2 DEF Ends, IInv, Progress, CompleteIsDone, Mutating
  <2>3. CASE /\ exists' = Found /\ done' = State /\ call' = call
             /\ UNCHANGED <<at, pc>> \/ NextAction
    <3>1. State \subseteq closed
      BY DEF State, IInv, Progress, TypeOK, RemoteType
    <3>2. pc' \notin Mutating
      BY <1>3, <2>3 DEF ReadPage, Step, NextAction, First, AfterPreflight, Mutating
    <3>3. CASE pc' # "complete"
      BY <2>1, <2>3, <3>1, <3>2, <3>3 DEF Progress, CompleteIsDone, Mutating
    <3>4. CASE pc' = "complete"
      <4>1. \A a \in All : ~Pending(a, Found, State)
        BY <1>3, <2>3, <3>4 DEF ReadPage, Step, NextAction, First, AfterPreflight
      <4>2. Sound'
        BY SoundStep
      <4>3. \A a \in Found : Posted(plan, a)
        BY <2>1 DEF Found, OnPage, Here, Posted, IInv, Sound
      <4>4. \A a \in All : /\ Posted(plan, a) \/ a \in State
                           /\ a \in Resolving => a \in closed
        BY <3>1, <4>1, <4>3 DEF Pending
      <4> QED
        BY <2>1, <2>3, <3>1, <3>2, <3>4, <4>4 DEF Progress, CompleteIsDone, Posted, Mutating
    <3> QED
      BY <3>3, <3>4
  <2> QED
    BY <1>3, <2>2, <2>3 DEF ReadPage
<1>4. CASE Repin
  <2>1. CASE Ends("aborted")
    BY <1>0, <2>1 DEF Ends, IInv, Progress, CompleteIsDone, Mutating
  <2>2. CASE Begin(1) /\ UNCHANGED <<cursor, exists, done, call>>
    <3>1. /\ pc \in Active /\ pc # "complete" /\ call = NoCall
          /\ UNCHANGED <<plan, comments, closed, done, call>>
      BY <1>4, <2>2 DEF Repin, Step, Local, remoteVars, IInv, Shape, Active, Reading
    <3>2. \A a \in All : a >= 1
      BY PublisherAssumption DEF All
    <3>3. \/ pc' = "complete" /\ \A a \in All : Completed(a)
          \/ pc' \in {"reply", "resolve"} /\ \A a \in All : a < at' => Completed(a)
      BY <2>2, <3>1, <3>2, BeginStep, NotPending, PublisherAssumption
    <3> QED
      BY <3>1, <3>3 DEF IInv, Progress, CompleteIsDone, Completed, Posted, Mutating
  <2> QED
    BY <1>4, <2>1, <2>2 DEF Repin
<1>5. CASE SendReply \/ SendResolve
  <2>1. /\ pc \in Mutating /\ pc' = "wait" /\ call'[3] = "sent"
        /\ UNCHANGED <<plan, comments, closed, done, at>>
    BY <1>5 DEF SendReply, SendResolve, Send, Step, Local, remoteVars, Mutating
  <2> QED
    BY <2>1 DEF IInv, Progress, CompleteIsDone, Completed, Posted, Mutating
<1>6. CASE Answer
  <2>1. /\ pc \in Active /\ pc \in Mutating /\ call' = NoCall /\ at \in All
        /\ UNCHANGED <<plan, comments, closed, done>>
        /\ call[1] \in {"reply", "resolve"} /\ Posted(plan, at)
        /\ call[1] = "resolve" => at \in closed
    BY <1>6 DEF Answer, Step, Local, remoteVars, IInv, Shape, Sound, Progress, Active, Mutating
  <2>2. \A a \in All : a < at => Completed(a)
    BY <2>1 DEF IInv, Progress
  <2>3. CASE at' = at /\ pc' = "resolve"
    BY <2>1, <2>2, <2>3 DEF IInv, Progress, CompleteIsDone, Completed, Posted, Mutating
  <2>4. CASE Begin(at + 1) /\ ~(call[1] = "reply" /\ at \in Resolving)
    <3>1. Completed(at)
      BY <2>1, <2>4 DEF Completed
    <3>2. at + 1 \in 1 .. (Actions + 1) /\ \A a \in All : a < at \/ a = at \/ a >= at + 1
      BY <2>1, PublisherAssumption DEF All
    <3>3. \/ pc' = "complete" /\ \A a \in All : Completed(a)
          \/ pc' \in {"reply", "resolve"} /\ \A a \in All : a < at' => Completed(a)
      BY <2>1, <2>2, <2>4, <3>1, <3>2, BeginStep, NotPending
    <3> QED
      BY <2>1, <3>3 DEF IInv, Progress, CompleteIsDone, Completed, Posted, Mutating
  <2> QED
    BY <1>6, <2>3, <2>4 DEF Answer
<1>7. CASE Apply
  <2>1. /\ pc = "wait" /\ UNCHANGED <<pc, plan, at, done>> /\ call[2] = at /\ call'[1] = call[1]
        /\ call[1] = "resolve" => at \in closed'
    BY <1>7 DEF Apply, Effect, IInv, Shape
  <2>2. \A a \in All : a < at => Completed(a)'
    BY <2>1, CompletedStays DEF IInv, Progress, Mutating
  <2> QED
    BY <1>0, <2>1, <2>2 DEF IInv, Progress, CompleteIsDone, Mutating
<1>8. CASE CallFails \/ Kill
  <2>1. pc' \in Ended \ {"complete"} /\ done' = done
    BY <1>8 DEF CallFails, Kill, Ends, Ended
  <2> QED
    BY <1>0, <2>1 DEF IInv, Progress, CompleteIsDone, Ended, Mutating
<1>9. CASE Aside
  <2>1. UNCHANGED <<pc, plan, at, done, call>>
    BY <1>9, AsideStep
  <2>2. \A a \in All : Completed(a) => Completed(a)'
    BY <2>1, CompletedStays
  <2>3. CompleteIsDone => CompleteIsDone'
    BY <2>1, <2>2 DEF CompleteIsDone, Completed
  <2> QED
    BY <1>0, <2>1, <2>2, <2>3 DEF IInv, Progress
<1> QED
  BY NextCases, <1>1, <1>2, <1>3, <1>4, <1>5, <1>6, <1>7, <1>8, <1>9

LEMMA StepInv == IInv /\ [Next]_vars => IInv'
  BY TypeStep, ShapeStep, WrittenStep, CarriedStep, FreshStep, SoundStep, ProgressStep DEF IInv

-----------------------------------------------------------------------------
(* At most once *)

\* A reply that only a call that outlived its run can have posted, or will
Late(a) == <<"reply", a, plan>> \in late

Known(a) == Posted(plan, a) => a \in exists \/ Late(a)

\* What has been posted under the plan of this run is known to it, as far as it
\* has read, and as far as it still matters, but for calls of other runs
Unseen ==
    /\ pc \in {"source", "pages"} => \A a \in All : a < at => Known(a)
    /\ pc = "pages" => \A i \in DOMAIN Here :
                          i <= cursor /\ Here[i] = <<plan, at>> => at \in exists \/ Late(at)
    /\ pc = "repin" => \A a \in All : Known(a)
    /\ pc = "reply" => \A a \in All : a >= at => Known(a)
    /\ pc \in {"resolve", "wait"} => \A a \in All : a > at => Known(a)
    /\ pc = "wait" /\ call[1] = "reply" /\ call[3] = "sent" => ~Posted(plan, at) \/ Late(at)

OInv == IInv /\ Unseen /\ OnceInTime

\* After an append, what is not the appended comment was there before
LEMMA AppendedOnly ==
    ASSUME TypeOK, NEW q \in Threads \cup {0}, NEW x \in Items,
           comments' = [comments EXCEPT ![q] = Append(@, x)],
           NEW r \in Threads \cup {0}, NEW i \in DOMAIN comments'[r]
    PROVE  \/ i \in DOMAIN comments[r] /\ comments'[r][i] = comments[r][i]
           \/ /\ r = q /\ comments'[r][i] = x /\ i \notin DOMAIN comments[r]
              /\ \A j \in DOMAIN comments'[r] : j \notin DOMAIN comments[r] => j = i
<1>1. CASE r # q
  BY <1>1, AppendOne
<1>2. CASE r = q
  <2>1. /\ Len(comments[q]) \in Nat
        /\ DOMAIN comments[q] = 1 .. Len(comments[q])
        /\ DOMAIN comments'[q] = 1 .. (Len(comments[q]) + 1)
        /\ \A k \in 1 .. Len(comments[q]) : comments'[q][k] = comments[q][k]
        /\ comments'[q][Len(comments[q]) + 1] = x
    BY AppendOne
  <2> QED
    BY <1>2, <2>1
<1> QED
  BY <1>1, <1>2

\* A comment that is plain, new, or of a late call keeps OnceInTime
LEMMA OnceAfter ==
    ASSUME TypeOK, OnceInTime, late \subseteq late', NEW q \in Threads \cup {0}, NEW x \in Items,
           \/ x = Plain \/ <<"reply", x[2], x[1]>> \in late
           \/ \A i \in DOMAIN comments[q] : comments[q][i] # x,
           comments' = [comments EXCEPT ![q] = Append(@, x)]
    PROVE  OnceInTime'
<1> SUFFICES ASSUME NEW r \in DOMAIN comments', NEW i \in DOMAIN comments'[r],
                    NEW j \in DOMAIN comments'[r],
                    comments'[r][i] # Plain, comments'[r][i] = comments'[r][j], i # j
             PROVE  <<"reply", comments'[r][i][2], comments'[r][i][1]>> \in late'
  BY DEF OnceInTime
<1>1. r \in Threads \cup {0} /\ r \in DOMAIN comments
  BY AppendOne, CommentsType
<1>2. CASE i \in DOMAIN comments[r] /\ j \in DOMAIN comments[r]
  <2>1. comments'[r][i] = comments[r][i] /\ comments'[r][j] = comments[r][j]
    BY <1>1, <1>2, AppendedOnly
  <2>2. <<"reply", comments[r][i][2], comments[r][i][1]>> \in late
    BY <1>1, <1>2, <2>1 DEF OnceInTime
  <2> QED
    BY <2>1, <2>2
<1>3. CASE i \notin DOMAIN comments[r]
  <2>1. r = q /\ comments'[r][i] = x /\ j \in DOMAIN comments[r] /\ comments'[r][j] = comments[r][j]
    BY <1>1, <1>3, AppendedOnly
  <2> QED
    BY <2>1
<1>4. CASE j \notin DOMAIN comments[r]
  <2>1. r = q /\ comments'[r][j] = x /\ i \in DOMAIN comments[r] /\ comments'[r][i] = comments[r][i]
    BY <1>1, <1>4, AppendedOnly
  <2> QED
    BY <2>1
<1> QED
  BY <1>2, <1>3, <1>4

LEMMA LateGrows == IInv /\ [Next]_vars => late \subseteq late'
  BY NextCases, WriteFrame DEF Aside, Start, VerifyTarget, ReadSource, ReadPage, Repin, SendReply, SendResolve,
     Answer, Step, CallFails, Kill, GiveUp, Apply, ApplyOutlived, Comment, DeleteSource,
     ResolveThread, Reopen, Push, Other, Revise, Replace, PlanStep, runVars, vars

\* Only the call of the run itself posts what no late call posts
LEMMA PostedBefore ==
    ASSUME IInv, OnceInTime, [Next]_vars, ~(Apply /\ call[1] = "reply"), NEW v \in 1 .. MaxPlans
    PROVE  /\ \A a \in All : \A i \in DOMAIN comments'[Place(a)] :
                 comments'[Place(a)][i] = <<v, a>>
                 => \/ i \in DOMAIN comments[Place(a)] /\ comments[Place(a)][i] = <<v, a>>
                    \/ <<"reply", a, v>> \in late
           /\ OnceInTime'
<1> USE DEF IInv
<1>1. CASE comments' = comments
  BY <1>1, LateGrows DEF OnceInTime
<1>2. CASE Comment
  <2>1. PICK q \in Threads \cup {0} : comments' = [comments EXCEPT ![q] = Append(@, Plain)]
    BY <1>2, CommentsType DEF Comment
  <2>2. Plain \in Items
    BY DEF Items
  <2>3. OnceInTime'
    BY <2>1, <2>2, OnceAfter, LateGrows
  <2>4. ASSUME NEW a \in All, NEW i \in DOMAIN comments'[Place(a)], comments'[Place(a)][i] = <<v, a>>
        PROVE  i \in DOMAIN comments[Place(a)] /\ comments[Place(a)][i] = <<v, a>>
    <3>1. Place(a) \in Threads \cup {0} /\ <<v, a>> # Plain
      BY CommentsType DEF Plain
    <3>2. CASE comments'[Place(a)][i] = Plain
      BY <2>4, <3>1, <3>2
    <3> QED
      BY <2>1, <2>2, <2>4, <3>1, <3>2, AppendedOnly
  <2> QED
    BY <2>3, <2>4
<1>3. CASE ApplyOutlived
  <2>1. PICK c \in outlived : Effect(c[1], c[2], c[3])
    BY <1>3 DEF ApplyOutlived
  <2>2. c[2] \in All /\ c[3] \in 1 .. MaxPlans /\ c = <<c[1], c[2], c[3]>> /\ c \in late
    BY <2>1 DEF TypeOK, RunType, Carried
  <2>3. CASE c[1] = "reply" /\ comments' = [comments EXCEPT ![Place(c[2])] = Append(@, <<c[3], c[2]>>)]
    <3>1. Place(c[2]) \in Threads \cup {0} /\ <<c[3], c[2]>> \in Items
      BY <2>2, CommentsType DEF Items
    <3>2. <<"reply", c[2], c[3]>> \in late
      BY <2>2, <2>3
    <3>3. OnceInTime'
      BY <2>3, <3>1, <3>2, OnceAfter, LateGrows
    <3>4. ASSUME NEW a \in All, NEW i \in DOMAIN comments'[Place(a)], comments'[Place(a)][i] = <<v, a>>
          PROVE  \/ i \in DOMAIN comments[Place(a)] /\ comments[Place(a)][i] = <<v, a>>
                 \/ <<"reply", a, v>> \in late
      <4>1. Place(a) \in Threads \cup {0}
        BY CommentsType
      <4>2. CASE comments'[Place(a)][i] = <<c[3], c[2]>>
        BY <3>2, <3>4, <4>2
      <4> QED
        BY <2>3, <3>1, <3>4, <4>1, <4>2, AppendedOnly
    <3> QED
      BY <3>3, <3>4
  <2> QED
    BY <1>1, <2>1, <2>3 DEF Effect
<1>4. CASE Apply
  BY <1>1, <1>4 DEF Apply, Effect
<1>5. CASE ~Apply /\ ~Comment /\ ~ApplyOutlived
  <2>1. comments' = comments
    BY <1>5, NextCases, WriteFrame DEF Aside, Start, VerifyTarget, ReadSource, ReadPage, Repin,
       SendReply, SendResolve, Answer, Step, Local, CallFails, Kill, Fault, DeleteSource,
       ResolveThread, Reopen, Push, Revise, Replace, PlanStep, remoteVars, vars
  <2> QED
    BY <1>1, <2>1
<1> QED
  BY <1>2, <1>3, <1>4, <1>5

LEMMA OnceStep ==
    ASSUME OInv, [Next]_vars
    PROVE  Unseen' /\ OnceInTime'
<1> USE DEF OInv, IInv
<1>0. ASSUME ~(Apply /\ call[1] = "reply")
      PROVE  /\ OnceInTime'
             /\ plan \in 1 .. MaxPlans => \A a \in All : \A i \in DOMAIN comments'[Place(a)] :
                    comments'[Place(a)][i] = <<plan, a>>
                    => \/ i \in DOMAIN comments[Place(a)] /\ comments[Place(a)][i] = <<plan, a>>
                       \/ Late(a)
  <2>1. 1 \in 1 .. MaxPlans
    BY PublisherAssumption
  <2> QED
    BY <1>0, <2>1, PostedBefore DEF Late
<1>11. pc \in Active => plan \in 1 .. MaxPlans
  BY DEF TypeOK, RunType, Carried
<1>1. CASE Start
  <2>1. OnceInTime'
    BY <1>1, <1>0 DEF Start, Apply, Ended
  <2> QED
    BY <1>1, <2>1 DEF Start, Unseen
<1>2. CASE VerifyTarget \/ ReadSource
  <2>1. /\ OnceInTime' /\ UNCHANGED <<plan, comments, late, exists, at>>
        /\ pc' \in {"source", "pages"} \/ pc' = "aborted"
        /\ pc \in {"pin", "source"}
        /\ pc' # "aborted" => cursor' = 0
    BY <1>2 DEF VerifyTarget, ReadSource, Step, Local, Ends, First, remoteVars, Shape, OnceInTime
  <2>2. pc' # "aborted" => \A a \in All : a < at => Known(a)
    BY <2>1, PublisherAssumption DEF Shape, Unseen, All
  <2>3. \A i \in DOMAIN Here : at \in All => i > 0
    <3>1. at \in All => comments[Place(at)] \in Seq(Items)
      BY CommentsType
    <3> QED
      BY <3>1, LenProperties DEF Here
  <2>4. pc' # "aborted" => at \in All
    BY <2>1, PublisherAssumption DEF Shape, All
  <2>5. pc' # "aborted" => \A i \in DOMAIN Here' : ~(i <= cursor')
    <3>1. pc' # "aborted" => \A i \in DOMAIN comments[Place(at)] : ~(i <= 0)
      BY <2>3, <2>4, CommentsType, LenProperties DEF Here
    <3> QED
      BY <2>1, <3>1 DEF Here
  <2>6. pc' = "aborted" => Unseen'
    BY <2>1 DEF Unseen
  <2>7. pc' # "aborted" => pc' \in {"source", "pages"} /\ \A a \in All : a < at' => Known(a)'
    BY <2>1, <2>2 DEF Known, Late, Posted
  <2> QED
    BY <2>1, <2>5, <2>6, <2>7 DEF Unseen
<1>3. CASE ReadPage
  <2>1. /\ OnceInTime' /\ UNCHANGED <<plan, comments, late>> /\ at \in All /\ pc = "pages"
    BY <1>3 DEF ReadPage, Step, Local, remoteVars, Shape, OnceInTime
  <2>2. CASE Ends("aborted")
    BY <2>1, <2>2 DEF Ends, Unseen
  <2> DEFINE n == Len(Here)
  <2>3. n \in Nat /\ DOMAIN Here = 1 .. n /\ cursor \in Nat /\ Page \in Nat /\ Page > 0
    BY <2>1, CommentsType, LenProperties, PublisherAssumption DEF Here, TypeOK, RunType
  <2>4. \A i \in DOMAIN Here :
           i <= cursor + Page /\ Here[i] = <<plan, at>> => at \in Found \/ Late(at)
    <3> SUFFICES ASSUME NEW i \in DOMAIN Here, i <= cursor + Page, Here[i] = <<plan, at>>
                 PROVE  at \in Found \/ Late(at)
      OBVIOUS
    <3>1. CASE i <= cursor
      BY <2>1, <3>1 DEF Unseen, Found
    <3>2. CASE i \in (cursor + 1) .. (cursor + Page)
      BY <3>2 DEF Found, OnPage
    <3> QED
      BY <2>3, <3>1, <3>2
  <2>5. exists \subseteq Found
    BY DEF Found
  <2>6. CASE exists' = Found /\ MorePages /\ cursor' = cursor + Page /\ UNCHANGED <<at, pc>>
    BY <2>1, <2>4, <2>5, <2>6 DEF Unseen, Known, Late, Posted, Here
  <2>7. CASE exists' = Found /\ ~MorePages /\ NextAction
    <3>1. Posted(plan, at) => at \in Found \/ Late(at)
      BY <2>3, <2>4, <2>7 DEF Posted, MorePages, Here
    <3>2. \A a \in All : a < at + 1 => (Posted(plan, a) => a \in Found \/ Late(a))
      BY <2>1, <2>5, <3>1, PublisherAssumption DEF All, Unseen, Known
    <3>3. /\ at' = at + 1 /\ cursor' = 0 /\ pc' \in {"source", "pages", "repin", "complete"}
          /\ pc' = "repin" => at = Actions
          /\ pc' \in {"source", "pages"} => at' \in All
      BY <2>1, <2>7, PublisherAssumption DEF NextAction, First, AfterPreflight, All
    <3>4. pc' = "repin" => \A a \in All : a < at + 1
      BY <3>3, PublisherAssumption DEF All
    <3>5. at' \in All => \A i \in DOMAIN comments[Place(at')] : ~(i <= 0)
      <4>1. at' \in All => comments[Place(at')] \in Seq(Items)
        BY CommentsType
      <4> QED
        BY <4>1, LenProperties
    <3> QED
      BY <2>1, <2>7, <3>2, <3>3, <3>4, <3>5 DEF Unseen, Known, Late, Posted, Here
  <2> QED
    BY <1>3, <2>2, <2>6, <2>7 DEF ReadPage
<1>4. CASE Repin
  <2>1. OnceInTime' /\ UNCHANGED <<plan, comments, late>> /\ pc = "repin" /\ exists' = exists
    BY <1>4 DEF Repin, Step, Local, Ends, remoteVars, OnceInTime
  <2>2. pc' \in {"aborted", "complete", "reply", "resolve"}
    BY <1>4, BeginStep, PublisherAssumption DEF Repin, Ends
  <2> QED
    BY <2>1, <2>2 DEF Unseen, Known, Late, Posted
<1>5. CASE SendReply \/ SendResolve
  <2>1. /\ OnceInTime' /\ UNCHANGED <<plan, comments, late, exists, at>>
        /\ pc' = "wait" /\ at \in All
        /\ \/ pc = "reply" /\ call' = <<"reply", at, "sent">>
           \/ pc = "resolve" /\ call' = <<"resolve", at, "sent">>
    BY <1>5 DEF SendReply, SendResolve, Send, Step, Local, remoteVars, Shape, OnceInTime
  <2>2. pc = "reply" => ~Posted(plan, at) \/ Late(at)
    BY <2>1, PublisherAssumption DEF Unseen, Known, Shape, All
  <2>3. \A a \in All : a > at => Known(a)
    BY <2>1, PublisherAssumption DEF Unseen, All
  <2> QED
    BY <2>1, <2>2, <2>3 DEF Unseen, Known, Late, Posted
<1>6. CASE Answer
  <2>1. /\ OnceInTime' /\ UNCHANGED <<plan, comments, late, exists>> /\ at \in All
        /\ pc = "wait"
    BY <1>6 DEF Answer, Step, Local, remoteVars, Shape, OnceInTime
  <2>2. \A a \in All : a > at => Known(a)
    BY <2>1 DEF Unseen
  <2>3. CASE at' = at /\ pc' = "resolve"
    BY <2>1, <2>2, <2>3 DEF Unseen, Known, Late, Posted
  <2>4. CASE Begin(at + 1)
    <3>1. /\ pc' \in {"complete", "reply", "resolve"}
          /\ pc' # "complete" => at' \in All /\ at' >= at + 1
      BY <2>1, <2>4, BeginStep, PublisherAssumption DEF All
    <3>2. pc' # "complete" => \A a \in All : a >= at' => a > at
      BY <2>1, <3>1, PublisherAssumption DEF All
    <3>3. pc' # "complete" => \A a \in All : a > at' => a > at
      BY <2>1, <3>1, PublisherAssumption DEF All
    <3> QED
      BY <2>1, <2>2, <3>1, <3>2, <3>3 DEF Unseen, Known, Late, Posted
  <2> QED
    BY <1>6, <2>3, <2>4 DEF Answer
<1>7. CASE Apply /\ call[1] = "reply"
  <2>1. /\ pc = "wait" /\ UNCHANGED <<pc, plan, at, exists, late>> /\ at \in All
        /\ plan \in 1 .. MaxPlans /\ call' = <<"reply", at, "applied">>
        /\ comments' = [comments EXCEPT ![Place(at)] = Append(@, <<plan, at>>)]
        /\ ~Posted(plan, at) \/ Late(at)
    BY <1>7, <1>11 DEF Apply, Effect, Shape, Active, Mutating, Unseen
  <2>2. Place(at) \in Threads \cup {0} /\ <<plan, at>> \in Items
    BY <2>1, CommentsType DEF Items
  <2>3. OnceInTime'
    <3>1. CASE Late(at)
      BY <2>1, <2>2, <3>1, OnceAfter DEF Late
    <3>2. CASE ~Posted(plan, at)
      BY <2>1, <2>2, <3>2, OnceAfter DEF Posted
    <3> QED
      BY <2>1, <3>1, <3>2
  <2>4. \A a \in All : a > at => (Posted(plan, a)' => Posted(plan, a))
    <3> SUFFICES ASSUME NEW a \in All, a > at PROVE Posted(plan, a)' => Posted(plan, a)
      OBVIOUS
    <3>1. <<plan, at>> # <<plan, a>>
      BY <2>1, PublisherAssumption DEF All
    <3>2. \A v, b : b \in All => (Posted(v, b)' => Posted(v, b) \/ <<plan, at>> = <<v, b>>)
      BY <2>1, <2>2, PostedAfter
    <3>3. Posted(plan, a)' <=> \E i \in DOMAIN comments'[Place(a)] : comments'[Place(a)][i] = <<plan, a>>
      BY <2>1 DEF Posted
    <3> QED
      BY <3>1, <3>2, <3>3 DEF Posted
  <2> QED
    BY <2>1, <2>3, <2>4 DEF Unseen, Known, Late
<1>8. CASE Apply /\ call[1] # "reply"
  <2>1. /\ comments' = comments /\ UNCHANGED <<pc, plan, at, exists, late>> /\ pc = "wait"
        /\ call'[1] = call[1]
    BY <1>8 DEF Apply, Effect
  <2> QED
    BY <1>8, <2>1 DEF Unseen, Known, Late, Posted, OnceInTime
<1>9. CASE CallFails \/ Kill
  <2>1. pc' \in Ended /\ OnceInTime'
    BY <1>0, <1>9 DEF CallFails, Kill, Fault, Ends, Ended, Apply, NoCall
  <2> QED
    BY <2>1 DEF Unseen, Ended
<1>10. CASE Aside
  <2>1. UNCHANGED <<pc, plan, at, cursor, exists, done, call, late>>
    BY <1>10, AsideStep
  <2>2. ~(Apply /\ call[1] = "reply")
    BY <2>1 DEF Apply, Shape
  <2>3. /\ OnceInTime'
        /\ pc \in Active => \A a \in All : \A i \in DOMAIN comments'[Place(a)] :
              comments'[Place(a)][i] = <<plan, a>>
              => \/ i \in DOMAIN comments[Place(a)] /\ comments[Place(a)][i] = <<plan, a>>
                 \/ Late(a)
    BY <1>0, <1>11, <2>2
  <2>4. pc \in Active => \A a \in All : Known(a) => Known(a)'
    BY <2>1, <2>3 DEF Known, Late, Posted
  <2>5. pc = "wait" => (~Posted(plan, at) \/ Late(at) => (~Posted(plan, at) \/ Late(at))')
    BY <2>1, <2>3 DEF Posted, Late, Shape, Active, Mutating
  <2>6. ASSUME pc = "pages",
               \A i \in DOMAIN Here : i <= cursor /\ Here[i] = <<plan, at>> => at \in exists \/ Late(at)
        PROVE  (\A i \in DOMAIN Here : i <= cursor /\ Here[i] = <<plan, at>> => at \in exists \/ Late(at))'
    BY <2>1, <2>3, <2>6 DEF Here, Late, Shape, Active, Reading
  <2> QED
    BY <2>1, <2>3, <2>4, <2>5, <2>6 DEF Unseen, Active, Reading, Mutating
<1> QED
  BY NextCases, <1>1, <1>2, <1>3, <1>4, <1>5, <1>6, <1>7, <1>8, <1>9, <1>10

-----------------------------------------------------------------------------
(* Theorems *)

\* The inductive invariant holds in every state.
THEOREM Invariant == Spec => []IInv
<1>1. IInv /\ [Next]_vars => IInv'
  BY StepInv
<1> QED
  BY InitInv, <1>1, PTL DEF Spec

\* Every variable keeps its type.
THEOREM TypeCorrect == Spec => []TypeOK
<1>1. IInv => TypeOK
  BY DEF IInv
<1> QED
  BY Invariant, <1>1, PTL

\* Only the plan whose digest the user approved is published, also by calls that
\* outlive their run.
THEOREM PublishesApproved == Spec => []ApprovedOnly
<1>1. IInv => ApprovedOnly
  BY DEF IInv, Carried
<1> QED
  BY Invariant, <1>1, PTL

\* A run that reports completion has left nothing of its plan to do.
THEOREM CompletionIsDone == Spec => []CompleteIsDone
<1>1. IInv => CompleteIsDone
  BY DEF IInv, Progress
<1> QED
  BY Invariant, <1>1, PTL

\* Once the user has a digest to approve, no death of the program that sealed the
\* plan keeps its file from being read.
THEOREM ApprovedIsReadable == Spec => []ApprovedReadable
<1>1. IInv => ApprovedReadable
  BY DEF IInv, Written, ApprovedReadable
<1> QED
  BY Invariant, <1>1, PTL

\* A run sends nothing if the head had moved before its mutations began.
THEOREM StaleIsSilent == Spec => StaleSendsNothing
<1>1. ASSUME IInv, [Next]_vars, call = NoCall, call' # NoCall
      PROVE  ~stale
  <2>1. pc \in {"reply", "resolve"}
    BY <1>1, NextCases, AsideStep DEF Start, VerifyTarget, ReadSource, ReadPage, Repin, SendReply,
       SendResolve, Answer, Step, Ends, NextAction, CallFails, Kill, Apply, IInv, Shape, NoCall
  <2> QED
    BY <1>1, <2>1 DEF IInv, Fresh, Mutating
<1>2. IInv /\ [Next]_vars => [call = NoCall /\ call' # NoCall => ~stale]_vars
  BY <1>1
<1> QED
  BY Invariant, <1>2, PTL DEF Spec, StaleSendsNothing

\* A thread is replied to before a run resolves it.
THEOREM RepliesFirst == Spec => ResolvesAnswered
<1>1. IInv => \A a \in Threads : call = <<"resolve", a, "sent">> => Posted(plan, a)
  BY DEF IInv, Shape, Sound, NoCall
<1>2. IInv /\ [Next]_vars
      => [\A a \in Threads : call = <<"resolve", a, "sent">> => Posted(plan, a)]_vars
  BY <1>1
<1> QED
  BY Invariant, <1>2, PTL DEF Spec, ResolvesAnswered

\* However often a plan is published, whatever fails and whoever comments
\* meanwhile, a reply appears twice only if a call that posts it has outlived
\* its run.
THEOREM PostsOnceInTime == Spec => []OnceInTime
<1>1. Init => OInv
  <2>1. ASSUME Init PROVE Unseen /\ OnceInTime
    BY <2>1 DEF Init, Unseen, OnceInTime
  <2> QED
    BY <2>1, InitInv DEF OInv
<1>2. OInv /\ [Next]_vars => OInv'
  <2>1. OInv /\ [Next]_vars => IInv'
    BY StepInv DEF OInv
  <2> QED
    BY <2>1, OnceStep DEF OInv
<1>3. OInv => OnceInTime
  BY DEF OInv
<1> QED
  BY <1>1, <1>2, <1>3, PTL DEF Spec
=============================================================================
