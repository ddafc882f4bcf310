------------------------------ MODULE DeepDive ------------------------------
(***************************************************************************)
(* The escalation of a triage to the Deep dive, and the dive: five stages  *)
(* that read the repository's cached clone while RepoProfile's builds move *)
(* it, early exits, two panels of reviewers, and the verdict.  An agent is *)
(* what it may answer; each stage is one await.                            *)
(***************************************************************************)
EXTENDS RepoProfile, FiniteSets

CONSTANT Budget   \* DEFAULT_DEEP_DIVE_BUDGET: dives on stakes alone

ASSUME BudgetBound == Budget \in Nat

VARIABLE dive   \* the dive, or what the last one came to

vars == <<profileVars, dive>>

Verdicts == {"real", "unexploitable", "false_positive", "needs_review"}
Clears == {"unexploitable", "false_positive"}
Closes == Clears   \* TriageClose, a rule-out's recommendation
BypassLens == "bypass"
DisproofLenses == {BypassLens, "scope", "phantom"}
ChallengeLenses == {"reachability", "exploit", "impact"}
Answers == {"holds", "refuted", "lost"}   \* lost: the reviewer did not complete
Stages == {"gather", "rule_out", "trace", "disproof", "plan", "challenge"}

\* traced: the sha its provenance will name.  known: the commits its artifacts are of.
\* exit: how the verdict was reached.  panel: the reviewers' answers.
NoDive ==
  [pc |-> "idle", quick |-> "real", trusted |-> FALSE, traced |-> 0, known |-> {},
   verdict |-> "none", exit |-> "none", panel |-> <<>>]

Init == ProfileInit /\ dive = NoDive

-----------------------------------------------------------------------------
(* decide_escalation and maybe_deep_dive. *)

\* No caller passes budget_remaining: every triage has the whole budget.
BudgetRemaining == Budget
OnStakes(source, quick, stakes) ==
  source # "report" /\ quick # "needs_review" /\ stakes /\ BudgetRemaining > 0
Escalates(source, quick, stakes) ==
  source = "report" \/ quick = "needs_review" \/ OnStakes(source, quick, stakes)

\* Mutation: any profile that was ever built will do.
ProfileUsableOnce == row.sha > 0 /\ clone.kind # "none"
\* A ready profile, whose clone is still there.
ProfileUsable == row.status = "ready" /\ clone.kind # "none"

\* The artifacts are read in the stretch that follows the read of the row.
Begin(source, quick, stakes, trusted) ==
  /\ up /\ dive.pc \in {"idle", "over"} /\ Escalates(source, quick, stakes) /\ ProfileUsable
  /\ dive' = [NoDive EXCEPT !.pc = "gather", !.quick = quick, !.trusted = trusted,
                            !.traced = row.sha, !.known = {store[a] : a \in Artifact}]

Over(trusted, verdict, exit, panel) ==
  dive' = [NoDive EXCEPT !.pc = "over", !.trusted = trusted, !.verdict = verdict,
                         !.exit = exit, !.panel = panel]

\* The triage keeps its quick verdict.
Declined(source, quick, stakes) ==
  /\ up /\ dive.pc = "idle" /\ ~ (Escalates(source, quick, stakes) /\ ProfileUsable)
  /\ Over(FALSE, quick, "quick", <<>>)

-----------------------------------------------------------------------------
(* DeepDiveRunner. *)

AtStage(pc) == up /\ dive.pc = pc
Proceeds(pc) == dive' = [dive EXCEPT !.pc = pc]

\* _gate_clear: a model that is not trusted to clear has its dismissal sent to review.
Gated(verdict) == IF verdict \in Clears /\ ~dive.trusted THEN "needs_review" ELSE verdict

Concludes(verdict, exit, panel) == Over(dive.trusted, Gated(verdict), exit, panel)

GatherFacts == AtStage("gather") /\ Proceeds("rule_out")

KillClasses == {"duplicate", "nonship", "hunch"}
\* _kill_corroborated: the threat history has the duplicate, or the code map says that no
\* candidate file ships.  A hunch falls through to the trace.
KillHonored(class, backed) == class \in {"duplicate", "nonship"} /\ backed

RuleOut ==
  /\ AtStage("rule_out")
  /\ \E class \in KillClasses \cup {"none"}, backed \in BOOLEAN :
       IF KillHonored(class, backed)
         THEN \E v \in Closes :
                Concludes(v, IF class # "hunch" /\ backed THEN "corroborated" ELSE "hunch", <<>>)
         ELSE Proceeds("trace")

\* A path without a hop that names a line is not grounded.
TracePath ==
  /\ AtStage("trace")
  /\ \E reached \in {"yes", "no", "unknown"}, grounded \in BOOLEAN :
       CASE reached = "no" -> Proceeds("disproof")
         [] reached = "yes" /\ grounded -> Proceeds("plan")
         [] OTHER -> Concludes("needs_review", "trace", <<>>)

\* Mutation: an incomplete reviewer holds, as on the other panel.
CountedHolding(answer, incomplete) == IF answer = "lost" THEN "holds" ELSE answer
\* _run_reviewers: what an answer counts as, given the panel's default for an incomplete one.
Counted(answer, incomplete) == IF answer = "lost" THEN incomplete ELSE answer
Refuted(panel, incomplete) == {l \in DOMAIN panel : Counted(panel[l], incomplete) = "refuted"}
Held(panel, incomplete) == DOMAIN panel \ Refuted(panel, incomplete)

\* resolve_disproof: the bypass lens has a veto, the others need a majority.
DisproofUpheld(panel) ==
  /\ BypassLens \notin Refuted(panel, "refuted")
  /\ Cardinality(Refuted(panel, "refuted")) < Cardinality(Held(panel, "refuted"))

DisproofChallenge ==
  /\ AtStage("disproof")
  /\ \E panel \in [DisproofLenses -> Answers] :
       Concludes(IF DisproofUpheld(panel) THEN "unexploitable" ELSE "needs_review",
                 "disproof", panel)

\* Reachable, but nothing to exploit: hardening, and no panel is asked.
PlanExploit ==
  /\ AtStage("plan")
  /\ \E credible \in BOOLEAN :
       IF credible THEN Proceeds("challenge") ELSE Concludes("unexploitable", "hardening", <<>>)

\* resolve_challenge: a majority downgrades, a tie holds.
VerdictHolds(panel) ==
  Cardinality(Refuted(panel, "holds")) <= Cardinality(Held(panel, "holds"))

Challenge ==
  /\ AtStage("challenge")
  /\ \E panel \in [ChallengeLenses -> Answers] :
       Concludes(IF VerdictHolds(panel) THEN "real" ELSE "needs_review", "challenge", panel)

\* A stage runs out of budget, or its provider stays away: a verdict of needs_review.
Incomplete == up /\ dive.pc \in Stages /\ Concludes("needs_review", "incomplete", <<>>)

\* Any other error leaves the triage its quick verdict.
Raises == up /\ dive.pc \in Stages /\ Over(dive.trusted, dive.quick, "quick", <<>>)

DiveStep ==
  \/ GatherFacts \/ RuleOut \/ TracePath \/ DisproofChallenge \/ PlanExploit \/ Challenge
  \/ Incomplete \/ Raises

Triage ==
  \E source \in {"scanner", "report"}, quick \in Verdicts, stakes \in BOOLEAN :
    \/ \E trusted \in BOOLEAN : Begin(source, quick, stakes, trusted)
    \/ Declined(source, quick, stakes)

\* A crash takes the dive with it.
ProfileStep == ProfileNext /\ dive' = IF up /\ ~up' THEN NoDive ELSE dive

Next == (Triage /\ UNCHANGED profileVars) \/ (DiveStep /\ UNCHANGED profileVars) \/ ProfileStep

\* Of a triage nothing is assumed: its agents may take for ever.
Spec == Init /\ [][Next]_vars /\ ProfileFairness

-----------------------------------------------------------------------------
(* Properties. *)

\* The dive has its type.
TypeOK ==
  /\ dive.pc \in {"idle", "over"} \cup Stages /\ dive.quick \in Verdicts
  /\ dive.trusted \in BOOLEAN /\ dive.traced \in Commit
  /\ dive.known \subseteq Commit
  /\ dive.verdict \in Verdicts \cup {"none"}
  /\ dive.exit \in {"none", "quick", "corroborated", "hunch", "disproof", "hardening",
                    "trace", "challenge", "incomplete"}

\* A dive's artifacts all describe the commit its provenance names, whatever build ran,
\* failed or crashed before it began (maybe_deep_dive reads the row, then four files).
KnowledgeIsOneCommit == dive.traced > 0 => dive.known = {dive.traced}

\* A dive that dismisses a finding was run by a model trusted to clear, and either found
\* its kill in the profile, or saw no exploit, or had its disproof looked at by the bypass
\* reviewer and another, who both answered and upheld it (_run, _gate_clear and
\* resolve_disproof): no crash, timeout or missing answer adds up to a dismissal.
DismissalIsEarned ==
  (dive.verdict \in Clears /\ dive.exit # "quick") =>
    /\ dive.trusted
    /\ \/ dive.exit \in {"corroborated", "hardening"}
       \/ /\ dive.exit = "disproof" /\ dive.panel[BypassLens] = "holds"
          /\ Cardinality({l \in DisproofLenses : dive.panel[l] = "holds"}) >= 2
=============================================================================
