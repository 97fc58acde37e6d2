---- MODULE ScreenRuns ----
(***************************************************************************)
(* The screen of qa/experiments/pr-edge-role-matrix-phase0: a risk brief   *)
(* written before the implementation is seen, a frozen review, and eight   *)
(* approaches that may add to the review what the brief foresaw.  One case *)
(* and one reviewer; the approach that is followed is chosen at the start, *)
(* the sessions of the other seven are left out.                           *)
(***************************************************************************)
EXTENDS ContractGapRuns

CONSTANTS Risks     \* the risks a brief may name, R1 (high impact) first

ASSUME RisksAssumption == IsFiniteSet(Risks) /\ Risks = 1 .. Cardinality(Risks)

VARIABLES approach,    \* the approach that is followed
          sealed,      \* edge-index.json: the risks, NoIndex without one
          findings     \* review-index.json: the frozen review has actionable findings

screenVars == <<approach, sealed, findings>>

AUTOMATIC_APPROACHES ==
  {"upfront-probes-only", "parallel-independent-challenger", "late-batch-confirmed",
   "late-per-risk-confirmed", "coverage-filtered-per-risk", "test-scenario-confirmed",
   "conditional-no-findings-challenger", "conditional-high-impact-challenger"}

High == {1}
NoIndex == {0}
Reviewer == 1

\* main: the phases in order; only setup looks at the sources.
ScreenScript ==
  << <<"setup", "freeze">>,
     <<"prep", "pool", "edge">>, <<"prep", "unleaked">>, <<"prep", "pool", "edge-index">>,
     <<"prep", "seal">>,
     <<"reviews", "pool", "review">>, <<"reviews", "pool", "index">>, <<"reviews", "bind">>,
     <<"approaches", "pool", "upfront">>, <<"approaches", "pool", "parallel-raw">>,
     <<"approaches", "pool", "parallel">>, <<"approaches", "pool", "batch">>,
     <<"approaches", "pool", "per-risk">>, <<"approaches", "pool", "coverage-map">>,
     <<"approaches", "mapped">>, <<"approaches", "pool", "coverage-verify">>,
     <<"approaches", "pool", "test-scenario">>,
     <<"assemble", "assemble">>,
     <<"judge", "tie">>, <<"judge", "pool", "judge">>, <<"judge", "verdict", Reviewer>>,
     <<"audit", "pool", "risk-audit">>, <<"audit", "attributed">>, <<"audit", "summarize">> >>

\* The sessions an approach is put together from.
Kinds ==
  CASE approach = "upfront-probes-only" -> {"upfront"}
    [] approach = "parallel-independent-challenger" -> {"parallel-raw", "parallel"}
    [] approach = "late-batch-confirmed" -> {"batch"}
    [] approach = "coverage-filtered-per-risk" -> {"coverage-map", "coverage-verify"}
    [] approach = "test-scenario-confirmed" -> {"test-scenario"}
    [] OTHER -> {"per-risk"}

PerRisk == {"per-risk", "coverage-verify", "test-scenario"}

ScreenSessions ==
  ({"edge", "edge-index", "review", "index", "risk-audit", "upfront", "parallel-raw", "parallel",
    "batch", "coverage-map"} \X {0})
  \union (PerRisk \X Risks) \union {<<"judge", Reviewer>>}

ScreenInit ==
  /\ program = "screen" /\ script = ScreenScript
  /\ approach \in AUTOMATIC_APPROACHES
  /\ sealed = NoIndex /\ findings = FALSE
  /\ surface = TRUE
  /\ HarnessInit({n \in ScreenSessions :
                    n[1] \in Kinds \union {"edge", "edge-index", "review", "index", "judge", "risk-audit"}})
  /\ BlocksInit({Reviewer})

CoverageMap == Result(<<"coverage-map", 0>>)

\* The sessions each pool is given: one per case and reviewer, or one per risk.
ScreenWanted ==
  LET kind == Step[3]
      asked == CASE kind \in {"upfront", "coverage-map"} -> {<<kind, 0>>}
                 [] kind \in {"parallel-raw", "parallel", "batch"} ->
                      IF sealed = {} THEN {} ELSE {<<kind, 0>>}
                 [] kind = "coverage-verify" -> {kind} \X (sealed \ CoverageMap.covered)
                 [] kind \in {"test-scenario", "per-risk"} -> {kind} \X sealed
  IN  CASE kind = "judge" -> IF augmented[Reviewer] = Base THEN {} ELSE {<<"judge", Reviewer>>}
        [] kind \in {"edge", "edge-index", "review", "index", "risk-audit"} -> {<<kind, 0>>}
        [] kind \in Kinds -> asked
        [] OTHER -> {}

\* A candidate is its decisions <<risk, disposition>>: one for each risk it was given, or, schema or
\* not, none, one about whatever risk, or a finding whose line the range does not change.
Decisions(given) ==
  {{<<r, d[r]>> : r \in given} : d \in [given -> {"confirmed", "defeated", "unanchored"}]}
    \union {{<<r, "confirmed">>} : r \in Risks} \union {{}}

Replies(n) ==
  CASE n[1] = "edge" -> {"sealed", "leaked"}
    [] n[1] = "edge-index" -> [base : BOOLEAN, risks : {1 .. k : k \in 0 .. Cardinality(Risks)}]
    [] n[1] = "index" -> [digest : BOOLEAN, findings : BOOLEAN]
    [] n[1] = "coverage-map" -> [risks : {sealed, {}}, covered : SUBSET sealed]
    [] n[1] = "risk-audit" -> {sealed, {0}}
    [] n[1] \in {"parallel-raw", "parallel", "batch"} -> Decisions(sealed)
    [] n[1] \in PerRisk -> Decisions({n[2]})
    [] n[1] = "judge" -> {"wins", "loses", "tie"}
    [] OTHER -> {"text"}

Quotes(n) == IF n[1] = "judge" THEN <<sources, augmented[Reviewer]>> ELSE <<sources>>

screen_run_session(n) == RunSession(n, Replies, Quotes)

screen_run_sessions ==
  /\ Pool(ScreenWanted, screen_run_session) \/ PoolReturns
  /\ UNCHANGED <<gapVars, blockVars, screenVars>>

Proceed(ok) == IF ok THEN Advance ELSE Raise

\* prep: a brief that names the head commit was not written blind.
unleaked ==
  /\ Doing("unleaked") /\ Alone
  /\ Proceed(Result(<<"edge", 0>>) = "sealed")
  /\ UNCHANGED <<gapVars, blockVars, screenVars>>

prep ==
  /\ Doing("seal") /\ Alone
  /\ LET index == Result(<<"edge-index", 0>>)
     IN  Proceed(index.base) /\ sealed' = IF index.base THEN index.risks ELSE sealed
  /\ UNCHANGED <<gapVars, blockVars, approach, findings>>

screen_reviews ==
  /\ Doing("bind") /\ Alone
  /\ base' = [base EXCEPT ![Reviewer] = sess[<<"review", 0>>].by]
  /\ LET index == Result(<<"index", 0>>)
     IN  Proceed(index.digest) /\ findings' = IF index.digest THEN index.findings ELSE findings
  /\ UNCHANGED <<gapVars, augmented, clean, judgment, summary, approach, sealed>>

\* approaches: every risk is mapped, once.
approaches ==
  /\ Doing("mapped") /\ Alone
  /\ Proceed("coverage-map" \in Kinds => CoverageMap.risks = sealed)
  /\ UNCHANGED <<gapVars, blockVars, screenVars>>

\* The candidates an approach takes its decisions from.
Sources ==
  IF sealed = {} THEN {} ELSE
  CASE approach = "parallel-independent-challenger" -> {<<"parallel", 0>>}
    [] approach = "late-batch-confirmed" -> {<<"batch", 0>>}
    [] approach = "coverage-filtered-per-risk" -> {"coverage-verify"} \X (sealed \ CoverageMap.covered)
    [] approach = "test-scenario-confirmed" -> {"test-scenario"} \X sealed
    [] approach = "conditional-high-impact-challenger" ->
         {n \in {"per-risk"} \X sealed : \E d \in Result(n) : d[1] \in High}
    [] OTHER -> {"per-risk"} \X sealed

\* What the filter calls covered is decided without a session.
Local == IF approach = "coverage-filtered-per-risk" /\ sealed # {} THEN CoverageMap.covered ELSE {}

\* The decisions, <<session, risk, disposition>>, under the hashes of the present files.
combined_candidate ==
  (UNION {{<<n, d[1], d[2]>> : d \in Result(n)} : n \in Sources})
    \union {<<<<"local", 0>>, r, "covered">> : r \in Local}

\* A finding has its line among those the range changes.
validate_finding(p) == p[3] # "unanchored"

\* Mutant: a risk may be decided twice.
NormalizeEach(decisions) == \A p \in decisions : p[2] \in sealed /\ validate_finding(p)

\* assemble_review.py: a risk is decided once, a confirmed finding is on a changed line.
normalize_candidates(decisions) ==
  /\ \A p, q \in decisions : p[2] = q[2] => p = q
  /\ \A p \in decisions : p[2] \in sealed /\ validate_finding(p)

Expected == IF approach = "conditional-high-impact-challenger" THEN sealed \intersect High ELSE sealed

Covers(decisions) == {p[2] : p \in decisions} = Expected

\* What is confirmed follows the bytes of the frozen review; nothing follows when nothing is.
Appended(decisions) ==
  LET confirmed == {p \in decisions : p[3] = "confirmed"}
  IN  IF confirmed = {} THEN Base ELSE Added({<<p[1], sess[p[1]].by, p[2]>> : p \in confirmed})

Assembled(review) == augmented' = [augmented EXCEPT ![Reviewer] = review]

\* The assembler exits with an error, or writes the review.
assemble_candidate(decisions) ==
  IF normalize_candidates(decisions) /\ Covers(decisions)
  THEN Assembled(Appended(decisions)) /\ Advance
  ELSE UNCHANGED augmented /\ Raise

\* The policy of the approach is not triggered: the frozen review, as it is.
exact_base_policy == Assembled(Base) /\ Advance

assemble ==
  /\ Doing("assemble") /\ Alone
  /\ CASE approach = "upfront-probes-only" ->
            Assembled(Added({<<<<"upfront", 0>>, sess[<<"upfront", 0>>].by, 0>>})) /\ Advance
       [] approach = "conditional-no-findings-challenger" /\ findings -> exact_base_policy
       [] OTHER -> assemble_candidate(combined_candidate)
  /\ UNCHANGED <<gapVars, base, clean, judgment, summary, screenVars>>

\* judge: identical bytes are a tie; a verdict that is there is left alone.
screen_judge ==
  /\ tie_judgment \/ Judged(Reviewer, Ruling(Reviewer))
  /\ UNCHANGED screenVars

\* audit: every sealed risk is attributed.
audit ==
  /\ Doing("attributed") /\ Alone
  /\ Proceed(Result(<<"risk-audit", 0>>) = sealed)
  /\ UNCHANGED <<gapVars, blockVars, screenVars>>

screen_summarize == Decide("counted") /\ UNCHANGED screenVars

screen_setup == freeze_sources /\ UNCHANGED screenVars

ScreenNext ==
  \/ Driven /\ UNCHANGED screenVars
  \/ screen_setup \/ unleaked \/ prep \/ screen_reviews \/ approaches
  \/ screen_run_sessions \/ assemble \/ screen_judge \/ audit \/ screen_summarize
====
