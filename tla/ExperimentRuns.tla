---- MODULE ExperimentRuns ----
(***************************************************************************)
(* The five experiment harnesses of qa/experiments, one of them at a time, *)
(* run, resumed and killed at any step while their sources are edited, and *)
(* what their frozen evidence must be able to claim.                       *)
(***************************************************************************)
EXTENDS ScreenRuns

\* An accepted session is never run again and its answer never replaced, by no retry, resume or crash.
\* (run_session returns early when metrics.json is there.)
AcceptedStands ==
  [][\A n \in DOMAIN sess : Accepted(n) => sess'[n] = sess[n]]_sess

\* The session whose answer the prompt of another quoted.
Quoted(n) ==
  CASE n[1] = "coverage" -> {<<"discovery", 0>>}
    [] n[1] = "repair" -> {<<"audit", n[2]>>}
    [] OTHER -> {}

\* A finding is added only from the answer of an accepted session that the validator let pass, and
\* what that session was shown is the answer of an accepted session, the one that is still there.
FailClosed ==
  \A b \in DOMAIN augmented : Len(augmented[b]) = 2 =>
    \A f \in augmented[b][2] :
      LET n == f[1]
      IN  /\ sess[n].accepted = f[2] /\ sess[n].by = f[2]
          /\ IF f[3] = 0 THEN Result(n) \in {"finding", "uncovered", "text"}
             ELSE <<f[3], "confirmed">> \in Result(n)
          /\ \A m \in Quoted(n) : sess[m].accepted = sess[m].by /\ sess[n].about[2] = sess[m].by

\* A verdict is about the two reviews as they stand: the judge read the augmented review that is on
\* disk, and a strict harness never keeps a verdict on another one, nor a ruling on identical bytes.
\* (judge; the resilient ones leave an earlier tie or "unjudged" in place, see AdvanceIsRuled.)
JudgedAsItStands ==
  \A b \in DOMAIN judgment :
    /\ judgment[b].verdict \in {"wins", "loses"} => judgment[b].of = augmented[b] /\ Accepted(<<"judge", b>>)
    /\ program \in Strict /\ judgment[b] # NoJudgment =>
         /\ judgment[b].of = augmented[b]
         /\ augmented[b] = Base => judgment[b].verdict = "tie"

\* When a summary exists, every accepted session ran the sources that the provenance file names, or
\* was given their rubric, whatever was edited between and during the phases; unless an edit was taken
\* back, or fell between __init__ and the first provenance.  (freeze_sources before every phase; the
\* mechanics harness copies before it hashes, the screen looks only in setup.)
SameSources ==
  summary # "none" /\ ~unseen /\ program \notin {"mechanics", "screen"} =>
    \A n \in DOMAIN sess : Accepted(n) => sess[n].about[1] = frozen

\* A sealed risk is decided once: what two sessions say of it, or the filter and a session, never both
\* count, and nothing is added about a risk that is covered or was not asked for.
RisksOnce ==
  program = "screen" /\ approach # "upfront-probes-only" /\ Len(augmented[Reviewer]) = 2 =>
    LET added == augmented[Reviewer][2]
    IN  /\ \A f, g \in added : f[3] = g[3] => f = g
        /\ \A f \in added : f[3] \in Expected \ Local

\* A decision to advance rests on a ruling for every block to which a finding was added.
\* (The gate files: "maximum_unjudged_deltas": 0.)
AdvanceIsRuled ==
  [][summary' = "advance" /\ summary # "advance" =>
       \A b \in DOMAIN judgment : judgment[b].of = augmented[b]]_summary

vars == <<harnessVars, gapVars, blockVars, screenVars>>

Init ==
  \/ GapInit /\ approach = "none" /\ sealed = NoIndex /\ findings = FALSE
  \/ ScreenInit

Next ==
  \/ program = "screen" /\ ScreenNext
  \/ program # "screen" /\ GapNext /\ UNCHANGED screenVars

Spec == Init /\ [][Next]_vars
====
