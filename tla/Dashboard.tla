------------------------------ MODULE Dashboard ------------------------------
(***************************************************************************)
(* GET /api/dashboard and the Issues page over one stored assessment and   *)
(* one vulnerability finding: what the pages show is computed on every     *)
(* request, from rows that scans, agents and the user change in any order. *)
(***************************************************************************)
EXTENDS PostureChecks, IssueDerivation

CONSTANTS
  EvidenceSpace,  \* what scans may see
  Finding,        \* the finding followed: its severity, and whether it is a secret
  MaxDay          \* bound: the last day

ASSUME EvidenceIsSeen == EvidenceSpace \subseteq Evidence
ASSUME FindingIsOpenable ==
  \A f \in Finding : f.severity \in Severities /\ f.secret \in BOOLEAN
ASSUME DayIsNat == MaxDay \in Nat

VARIABLES
  evidence,   \* what the latest completed assessment saw
  others,     \* other open findings of high severity it saw
  finding,    \* the finding followed
  day,        \* today
  updated     \* finding.updated_at, as a day; created_at is day 0

boardVars == <<issue, evidence, others, finding, day, updated>>

HighTarget == 3

-----------------------------------------------------------------------------
(* The posture card. *)

Rows == PostureRows(Results(evidence))
Wire(row) ==
  CASE row.impact = "advisory" -> "advisory"
    [] row.impact # "advisory" /\ row.status = "passed" -> "pass"
    [] OTHER -> "fail"

\* posture.total_count and pass_count: advisory by the check's name.
CardCounts ==
  LET rows == Rows IN
  <<Cardinality(DOMAIN rows \ AdvisoryChecks),
    Cardinality({c \in DOMAIN rows : Wire(rows[c]) = "pass"})>>

\* posture_total_count and posture_pass_count: advisory by the row.
PayloadCounts ==
  LET rows == Rows
      counting == {c \in DOMAIN rows : rows[c].impact = "counts"}
  IN  <<Cardinality(counting), Cardinality({c \in counting : rows[c].status = "passed"})>>

-----------------------------------------------------------------------------
(* Open findings, by the three lists the pages are computed from. *)

OpenStatuses == {"new", "triaged", "in_progress", "remediated"}
TerminalStatuses == {"validated", "closed", "exception", "passed"}

\* The dashboard's findings are those of the latest assessment.
InScope == finding.severity \in evidence.severities
IsOpen == InScope /\ issue.status \in OpenStatuses

\* Mutation: a rejected issue is not over.
OpenOnIgnoringRejections(d) ==
  ~ (issue.status \in TerminalStatuses \ {"exception"} /\ updated <= d)

\* _is_open_on, the trend charts' question; the finding was created on day 0.
OpenOn(d) == ~ (issue.status \in TerminalStatuses /\ updated <= d)

\* The open-issues chart, of the finding followed, oldest day first.
OpenIssues == [d \in 0..day |-> OpenOn(d)]

-----------------------------------------------------------------------------
(* The level-up panel. *)

Level == Grade(Snapshot(evidence))

GateStatus ==
  LET shown == Derive(issue) IN
  CASE shown = Shown("review", "plan_ready") -> "ready_to_review"
    [] shown.section = "review" /\ shown.stage \in {"pr_ready", "pr_awaiting_val"} -> "pr_ready"
    [] shown.section = "in_progress" -> "in_progress"
    [] OTHER -> "todo"

OpenHighs == others + (IF IsOpen /\ finding.severity = "high" THEN 1 ELSE 0)

UnmetPosture == PostureCriteria \ (Met(Snapshot(evidence)) \cup {"no_secrets_in_code"})

Gate(id, holds, status) == IF holds THEN {[id |-> id, status |-> status]} ELSE {}

CriticalGate(met) ==
  Gate("criticals_open", "no_critical_vulns" \notin met /\ IsOpen /\ finding.severity = "critical",
       GateStatus)

HighGate(met) ==
  Gate("highs_over_target", "no_high_vulns" \notin met /\ OpenHighs > HighTarget,
       IF IsOpen /\ finding.severity = "high" THEN GateStatus ELSE "todo")

SecretGate(met) ==
  Gate("secrets_open", "no_secrets_in_code" \notin met /\ IsOpen /\ finding.secret, GateStatus)

PostureGate(unmet) ==
  Gate("posture_remaining", unmet # {},
       IF unmet \cap {"security_md", "dependabot_config"} # {} THEN "auto_fixable" ELSE "todo")

\* derive_level_up: the gates between this grade and the next, never more than four.
Gates ==
  LET met == Met(Snapshot(evidence)) IN
  IF Level = "A" THEN {}
    ELSE CriticalGate(met) \cup HighGate(met) \cup SecretGate(met) \cup PostureGate(UnmetPosture)

\* needs_you_counts, of the finding followed.
NeedsYou ==
  LET shown == Derive(issue) IN
  CASE shown = Shown("review", "plan_ready") -> "plans_waiting"
    [] shown.stage \in {"pr_ready", "pr_awaiting_val"} -> "prs_ready"
    [] shown.section = "todo" /\ finding.severity = "critical" -> "critical_todo"
    [] OTHER -> "nothing"

-----------------------------------------------------------------------------
BoardInit ==
  /\ IssueInit
  /\ evidence \in EvidenceSpace
  /\ others \in {0, HighTarget} /\ (others > 0 => "high" \in evidence.severities)
  /\ finding \in Finding
  /\ day = 0 /\ updated = 0

\* The evidence with one answer changed.
Changed ==
  [e \in EvidenceSpace |->
     {f \in EvidenceSpace : \E answer \in DOMAIN e : f = [e EXCEPT ![answer] = f[answer]]}]

\* A new assessment, which finds one answer changed: its snapshot and its rows
\* replace the former's, and a finding it sees again is touched.
Assess ==
  /\ evidence' \in Changed[evidence]
  /\ others' \in {0, HighTarget} /\ (others' > 0 => "high" \in evidence'.severities)
  /\ updated' = IF finding.severity \in evidence'.severities THEN day ELSE updated
  /\ UNCHANGED <<issue, finding, day>>

\* The rows of the issue move; a PATCH touches the finding, an agent when it advances it.
IssueMoves ==
  /\ IssueStep
  /\ updated' = IF issue'.status # issue.status THEN day ELSE updated
  /\ UNCHANGED <<evidence, others, finding, day>>

NextDay == day < MaxDay /\ day' = day + 1 /\ UNCHANGED <<issue, evidence, others, finding, updated>>

BoardNext == Assess \/ IssueMoves \/ NextDay
BoardSpec == BoardInit /\ [][BoardNext]_boardVars

-----------------------------------------------------------------------------
(* Properties. *)

\* The values the pages are computed from.
BoardTypeOK ==
  /\ evidence \in Evidence /\ others \in {0, HighTarget} /\ finding \in Finding
  /\ day \in 0..MaxDay /\ updated \in 0..day
  /\ issue.status \in FindingStatus /\ issue.reason \in Reason \cup {"accepted_risk"}
  /\ issue.run \in [Agent -> RunStatus] /\ issue.pr.status \in PrStatus
  /\ Derive(issue).section \in {"todo", "in_progress", "review", "done"}
  /\ NeedsYou \in {"plans_waiting", "prs_ready", "critical_todo", "nothing"}

\* What the user reads in two places agrees: the posture card and the payload's own counters,
\* computed from the checks' names and from the rows' grade impact; and the open-findings
\* card, today's point of the trend chart and the Issues page's "done" section.
ViewsAgree ==
  /\ CardCounts = PayloadCounts
  /\ InScope => (IsOpen <=> OpenIssues[day])
  /\ OpenIssues[day] <=> Derive(issue).section # "done"

\* An open critical finding of the latest assessment always has a gate in the
\* level-up panel: the grade stored at scan time never hides it.
CriticalIsNeverHidden ==
  IsOpen /\ finding.severity = "critical" => \E g \in Gates : g.id = "criticals_open"

\* An issue whose newest triage or remediation run failed, with nothing running
\* and nothing produced, waits for the user in "review": it neither spins in
\* "in progress" nor slides back to "to do".
FailureIsShown ==
  LET nothing == ~ issue.plan /\ ~ issue.verdict /\ issue.pr = NoPr
      failed(agents) == \E a \in agents \cap Agent : issue.run[a] \in {"failed", "rate_limited"}
      relevant == CASE issue.status = "new" -> TriageAgents
                    [] issue.status = "in_progress" ->
                         PrerequisiteAgents \cup {"remediation_planner", "remediation_executor"}
                    [] OTHER -> {}
  IN  nothing /\ ~ SomeRunning(issue, Agent) /\ failed(relevant)
        => Derive(issue) = Shown("review", "failed")

\* Losing an answer of GitHub (a token that can no longer read it) never raises
\* the number of criteria met, so a grade is never earned by looking away.
LosingSightNeverHelps ==
  [][Blinded(evidence, evidence') =>
       MetCount(Snapshot(evidence)') <= MetCount(Snapshot(evidence))]_boardVars

\* What the user or a validated fix has settled stays in "done" whatever the
\* agents still running on the issue do.
DecisionStands ==
  [][Derive(issue).section = "done" /\ Derive(issue').section # "done" => ~ AgentStep]_boardVars
=============================================================================
