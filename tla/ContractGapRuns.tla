---- MODULE ContractGapRuns ----
(***************************************************************************)
(* The four harnesses of qa/experiments/review-contract-gaps-phase0: the   *)
(* live matrix, the candidate tournament, the mechanics redesign and the   *)
(* candidate replication.  Each adds the findings of an audit to a frozen  *)
(* review, has the two versions judged blind and summarizes.  One case and *)
(* one sample; the blocks are its reviewers.                               *)
(***************************************************************************)
EXTENDS Harness

CONSTANTS Blocks,      \* the reviewers of the case, 1 .. n
          MaxEdits     \* bound: edits of the experiment's sources

ASSUME BlocksAssumption ==
  IsFiniteSet(Blocks) /\ Blocks = 1 .. Cardinality(Blocks) /\ MaxEdits \in Nat

VARIABLES sources,     \* version of the sources on disk
          loaded,      \* version of the rubric, the schemas and the cases that __init__ read
          unseen,      \* history: an edit that no comparison of the hashes sees was made
          frozen,      \* version the provenance file names, 0 without one
          plugin,      \* version of the plugin copy, 0 without one
          surface,     \* matrix: the extractor found entries to audit
          base,        \* base.md of a block: the attempt it is from, 0 without one
          augmented,   \* augmented.md: <<>>, Base or Added(where its findings are from)
          clean,       \* admission.json: nothing the mechanics gate counts went wrong
          judgment,    \* judgment.json of a block
          summary      \* summary.json: the decision, "none" without one

gapVars == <<sources, loaded, unseen, frozen, plugin, surface>>
blockVars == <<base, augmented, clean, judgment, summary>>

Each(phase, ops) ==
  [i \in 1 .. Len(ops) * Cardinality(Blocks) |->
     <<phase, ops[((i - 1) % Len(ops)) + 1], ((i - 1) \div Len(ops)) + 1>>]

Judging == << <<"judge", "freeze">>, <<"judge", "tie">>, <<"judge", "pool", "judge">> >>
             \o Each("judge", <<"verdict">>)
             \o << <<"summary", "freeze">>, <<"summary", "summarize">> >>

\* main and the phases it calls, step by step, of each harness.
matrix_main ==
  << <<"setup", "freeze">>, <<"setup", "copy">>,
     <<"controls", "freeze">>, <<"controls", "pool", "control">>,
     <<"controls", "mend", 0>>, <<"controls", "score">>,
     <<"reviews", "freeze">>, <<"reviews", "pool", "review">>, <<"reviews", "keep">>,
     <<"audits", "freeze">>, <<"audits", "pool", "audit">> >>
  \o Each("audits", <<"mend", "admit">>) \o Judging

tournament_main ==
  << <<"setup", "freeze">>, <<"setup", "copy">>, <<"setup", "evidence">>,
     <<"audits", "freeze">>, <<"audits", "pool", "audit">> >>
  \o Each("audits", <<"mend", "admit">>) \o Judging

mechanics_main ==
  << <<"setup", "copy">>, <<"setup", "evidence">>, <<"audits", "freeze">>,
     <<"audits", "pool", "discovery">>, <<"audits", "pool", "coverage">> >>
  \o Each("audits", <<"admit">>) \o Judging

replication_main ==
  << <<"setup", "freeze">>, <<"setup", "copy">>, <<"setup", "evidence">>,
     <<"audits", "freeze">>, <<"audits", "pool", "audit">>, <<"audits", "pool", "repair">> >>
  \o Each("audits", <<"admit">>) \o Judging

Scripts == [matrix |-> matrix_main, tournament |-> tournament_main,
            mechanics |-> mechanics_main, replication |-> replication_main]

Sessions(p) ==
  CASE p = "matrix" -> {<<"control", 0>>, <<"repair", 0>>}
                         \union ({"review", "audit", "repair", "judge"} \X Blocks)
    [] p = "mechanics" -> {<<"discovery", 0>>} \union ({"coverage", "judge"} \X Blocks)
    [] OTHER -> {"audit", "repair", "judge"} \X Blocks

Base == <<"base">>
Added(from) == <<"added", from>>
NoJudgment == [verdict |-> "none", of |-> <<>>]

BlocksInit(blocks) ==
  /\ sources = 1 /\ loaded = 0 /\ unseen = FALSE /\ frozen = 0 /\ plugin = 0
  /\ base = [b \in blocks |-> 0]
  /\ augmented = [b \in blocks |-> <<>>]
  /\ clean = [b \in blocks |-> FALSE]
  /\ judgment = [b \in blocks |-> NoJudgment]
  /\ summary = "none"

GapInit ==
  /\ program \in DOMAIN Scripts
  /\ script = Scripts[program]
  /\ surface \in (IF program = "matrix" THEN BOOLEAN ELSE {TRUE})
  /\ HarnessInit(Sessions(program))
  /\ BlocksInit(Blocks)

\* The session whose payload counts; an answer no validator accepts is "invalid".
Payload(kind, b) == IF Result(<<kind, b>>) = "invalid" THEN <<"repair", b>> ELSE <<kind, b>>

\* Mutant: the provenance is written anew.
FreezeAnew ==
  /\ Doing("freeze") /\ NoPool
  /\ lost' = {} /\ frozen' = sources /\ Advance
  /\ UNCHANGED <<program, script, sess, queue, running, written, failed, raising, round, faults,
                 sources, loaded, unseen, plugin, surface, blockVars>>

\* The provenance is written once and compared from then on.
freeze_sources ==
  /\ Doing("freeze") /\ NoPool
  /\ lost' = {}
  /\ \/ frozen \in {0, sources} /\ frozen' = sources /\ Advance
     \/ frozen \notin {0, sources} /\ frozen' = frozen /\ Raise
  /\ UNCHANGED <<program, script, sess, queue, running, written, failed, raising, round, faults,
                 sources, loaded, unseen, plugin, surface, blockVars>>

\* setup: the plugin is copied once.
setup ==
  /\ Doing("copy") /\ Alone
  /\ plugin' = IF plugin = 0 THEN sources ELSE plugin
  /\ Advance
  /\ UNCHANGED <<sources, loaded, unseen, frozen, surface, blockVars>>

\* All but the matrix start from the frozen reviews of a matrix.
CopyReviews ==
  /\ Doing("evidence") /\ Alone
  /\ base' = [b \in Blocks |-> 1]
  /\ UNCHANGED <<sources, loaded, unseen, plugin, surface, augmented, clean, judgment, summary>>

tournament_setup == program = "tournament" /\ CopyReviews /\ Advance /\ UNCHANGED frozen

replication_setup == program = "replication" /\ CopyReviews /\ Advance /\ UNCHANGED frozen

\* mechanics: the sources are hashed here, after the plugin was copied.
mechanics_setup ==
  /\ program = "mechanics" /\ CopyReviews
  /\ \/ frozen \in {0, sources} /\ frozen' = sources /\ Advance
     \/ frozen \notin {0, sources} /\ frozen' = frozen /\ Raise

control_cases ==
  /\ Doing("score") /\ Alone
  /\ IF Result(Payload("control", 0)) = "expected" THEN Advance ELSE Raise
  /\ UNCHANGED <<gapVars, blockVars>>

reviews ==
  /\ Doing("keep") /\ Alone
  /\ base' = [b \in Blocks |-> sess[<<"review", b>>].by]
  /\ Advance
  /\ UNCHANGED <<gapVars, augmented, clean, judgment, summary>>

\* augmented.md and admission.json of a block.
Admit(n, b, found, complete) ==
  /\ augmented' = [augmented EXCEPT ![b] = IF found THEN Added({<<n, sess[n].by, 0>>}) ELSE Base]
  /\ clean' = [clean EXCEPT ![b] = complete]
  /\ Advance

Kept == UNCHANGED <<gapVars, base, judgment, summary>>

\* matrix: what is still invalid after its repair ends the run.
matrix_audits(b) ==
  LET n == Payload("audit", b)
  IN  /\ program = "matrix"
      /\ IF surface /\ Result(n) = "invalid"
         THEN Raise /\ UNCHANGED <<augmented, clean>>
         ELSE Admit(n, b, surface /\ Result(n) = "finding", TRUE)

\* tournament: it is not eligible and adds nothing.
tournament_audits(b) ==
  LET n == Payload("audit", b)
  IN  program = "tournament" /\ Admit(n, b, Result(n) = "finding", Result(n) # "invalid")

\* replication: neither is what failed in every attempt.
replication_audits(b) ==
  LET n == Payload("audit", b)
      usable == /\ <<"audit", b>> \notin lost /\ sess[<<"audit", b>>].by # 0
                /\ n[1] = "repair" => n \notin lost /\ Accepted(n)
  IN  /\ program = "replication"
      /\ Admit(n, b, usable /\ Result(n) = "finding", usable /\ n[1] = "audit")

\* Mutant: whatever result.json holds counts.
ClaimsOnDisk == sess[<<"discovery", 0>>].by # 0 /\ Result(<<"discovery", 0>>) = "claims"

\* The claims of the one discovery that are accepted for both reviewers.
Claims == <<"discovery", 0>> \notin lost /\ Result(<<"discovery", 0>>) = "claims"

\* mechanics: a claim is a finding when the coverage session calls it uncovered.
mechanics_audits(b) ==
  LET n == <<"coverage", b>>
  IN  /\ program = "mechanics"
      /\ Admit(n, b, Claims /\ n \notin lost /\ Result(n) = "uncovered",
               <<"discovery", 0>> \notin lost /\ (Claims => n \notin lost))

audits ==
  /\ Doing("admit") /\ Alone /\ Kept
  /\ LET b == Step[3]
     IN  matrix_audits(b) \/ tournament_audits(b) \/ replication_audits(b) \/ mechanics_audits(b)

\* The sessions a pool or a repair is given.
Wanted ==
  IF Step[2] = "mend"
  THEN IF (Step[3] # 0 => surface) /\ Payload(IF Step[3] = 0 THEN "control" ELSE "audit", Step[3])[1] = "repair"
       THEN {<<"repair", Step[3]>>} ELSE {}
  ELSE CASE Step[3] = "control" -> {<<"control", 0>>}
         [] Step[3] = "review" -> {"review"} \X Blocks
         [] Step[3] = "audit" -> IF surface THEN {"audit"} \X Blocks ELSE {}
         [] Step[3] = "discovery" -> {<<"discovery", 0>>}
         [] Step[3] = "coverage" -> IF Claims THEN {"coverage"} \X Blocks ELSE {}
         [] Step[3] = "repair" -> {n \in {"repair"} \X Blocks :
                                     /\ <<"audit", n[2]>> \notin lost
                                     /\ Result(<<"audit", n[2]>>) = "invalid"}
         [] Step[3] = "judge" -> {n \in {"judge"} \X Blocks : augmented[n[2]] # Base}

\* What Claude may answer, and what its prompt is about: the version of the plugin it runs (prkit is
\* read from the repository, the candidates from their copy), or of the rubric a judge is given, and
\* what the prompt quotes.
Answers(n) ==
  CASE n[1] = "review" -> {"text"}
    [] n[1] = "judge" -> {"wins", "loses", "tie"}
    [] n[1] = "discovery" -> {"claims", "nothing"}
    [] n[1] = "coverage" -> {"uncovered", "covered"}
    [] n[1] = "control" \/ n = <<"repair", 0>> -> {"expected", "other", "invalid"}
    [] OTHER -> {"finding", "nothing", "invalid"}

About(n) ==
  CASE n[1] = "review" -> <<sources>>
    [] n[1] = "audit" -> <<plugin, base[n[2]]>>
    [] n[1] = "repair" -> <<plugin, sess[<<IF n[2] = 0 THEN "control" ELSE "audit", n[2]>>].by>>
    [] n[1] = "coverage" -> <<plugin, sess[<<"discovery", 0>>].by>>
    [] n[1] = "judge" -> <<loaded, augmented[n[2]]>>
    [] OTHER -> <<plugin>>

run_session(n) == RunSession(n, Answers, About)

\* The first failure ends the group.
run_sessions == program \in Strict /\ (Pool(Wanted, run_session) \/ PoolReturns)

\* What fails is run again.
replication_run_resilient ==
  program = "replication" /\ (Pool(Wanted, run_session) \/ PoolRetries \/ PoolReturns)

mechanics_run_resilient ==
  program = "mechanics" /\ (Pool(Wanted, run_session) \/ PoolRetries \/ PoolReturns)

GapPool ==
  /\ run_sessions \/ replication_run_resilient \/ mechanics_run_resilient
  /\ UNCHANGED <<gapVars, blockVars>>

\* judge: nothing was added, the tie is written whatever judgment.json says.
tie_judgment ==
  /\ Doing("tie") /\ Alone
  /\ judgment' = [b \in DOMAIN augmented |->
                     IF augmented[b] = Base THEN [verdict |-> "tie", of |-> Base] ELSE judgment[b]]
  /\ Advance
  /\ UNCHANGED <<gapVars, base, augmented, clean, summary>>

\* A judgment.json that exists is left alone.
Judged(b, verdict) ==
  /\ Doing("verdict") /\ Alone
  /\ judgment' = IF judgment[b] # NoJudgment THEN judgment ELSE [judgment EXCEPT ![b] = verdict]
  /\ Advance
  /\ UNCHANGED <<gapVars, base, augmented, clean, summary>>

Ruling(b) == [verdict |-> Result(<<"judge", b>>), of |-> sess[<<"judge", b>>].about[2]]
Unjudged(b) == [verdict |-> "unjudged", of |-> augmented[b]]

\* matrix and tournament: without the answers of all judges the phase has not come this far.
judge == program = "matrix" /\ Judged(Step[3], Ruling(Step[3]))
tournament_judge == program = "tournament" /\ Judged(Step[3], Ruling(Step[3]))

\* Mutant: whatever result.json holds counts.
JudgeOnDisk ==
  /\ program = "replication"
  /\ LET b == Step[3]
     IN  Judged(b, IF sess[<<"judge", b>>].by = 0 THEN Unjudged(b) ELSE Ruling(b))

Given(b) == <<"judge", b>> \notin lost /\ sess[<<"judge", b>>].by # 0

\* A judge that failed in every attempt leaves the block unjudged.
replication_judge ==
  /\ program = "replication"
  /\ LET b == Step[3] IN Judged(b, IF Given(b) THEN Ruling(b) ELSE Unjudged(b))

mechanics_judge ==
  /\ program = "mechanics"
  /\ LET b == Step[3] IN Judged(b, IF Given(b) THEN Ruling(b) ELSE Unjudged(b))

Verdicts(kind) == {b \in Blocks : judgment[b].verdict = kind}

Decide(decision) ==
  /\ Doing("summarize") /\ Alone
  /\ summary' = decision
  /\ Advance
  /\ UNCHANGED <<gapVars, base, augmented, clean, judgment>>

\* matrix: promoted needs wins with both reviewers and no loss.
summarize ==
  /\ program = "matrix"
  /\ Decide(IF Verdicts("wins") = Blocks THEN "advance" ELSE "park")

tournament_summarize == program = "tournament" /\ Decide("counted")

\* The gate files allow no loss and no unjudged delta; the rates are those of a few blocks: all.
Gates(wins) ==
  IF wins /\ Verdicts("loses") = {} /\ Verdicts("unjudged") = {}
  THEN IF \A b \in Blocks : clean[b] THEN "advance" ELSE "redesign"
  ELSE "park"

replication_summarize == program = "replication" /\ Decide(Gates(Verdicts("wins") = Blocks))

mechanics_summarize == program = "mechanics" /\ Decide(Gates(Verdicts("wins") # {}))

\* Someone edits the plugin, the cases or the harness: a new version, or an earlier one again.  No
\* freeze notices that one was taken back, nor one between __init__ and the first provenance.
EditSources ==
  /\ MayFail /\ faults.edits < MaxEdits
  /\ faults' = [faults EXCEPT !.edits = @ + 1]
  /\ \E v \in 1 .. MaxEdits + 1 :
       /\ v # sources /\ v <= faults.edits + 2
       /\ sources' = v
       /\ unseen' = (unseen \/ v < sources \/ (at > 0 /\ frozen = 0))
  /\ UNCHANGED <<program, script, phaseVars, sess, queue, running, written, failed, lost, raising,
                 round, loaded, frozen, plugin, surface, blockVars>>

\* __init__ reads its files before any phase looks at the sources.
Started ==
  /\ Invoke /\ loaded' = sources
  /\ UNCHANGED <<sources, unseen, frozen, plugin, surface, blockVars>>

Driven == Started \/ ((PoolRaises \/ Killed) /\ UNCHANGED <<gapVars, blockVars>>)

GapNext ==
  \/ Driven \/ freeze_sources \/ setup \/ tournament_setup \/ replication_setup \/ mechanics_setup
  \/ control_cases \/ reviews \/ audits \/ GapPool
  \/ tie_judgment \/ judge \/ tournament_judge \/ replication_judge \/ mechanics_judge
  \/ summarize \/ tournament_summarize \/ replication_summarize \/ mechanics_summarize
  \/ EditSources
====
