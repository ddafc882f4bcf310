--------------------------- MODULE IssueDerivation ---------------------------
(***************************************************************************)
(* What the Issues page shows of one issue: the section and the stage that *)
(* derive() computes from the finding, its workspace's newest run of each  *)
(* agent and the sidebar row, and how the agents and the user move those   *)
(* rows.  A run is a row here; AgentExecutor has its inner steps, and the  *)
(* races between two runs and between a run and a user's edit.             *)
(***************************************************************************)
EXTENDS Naturals, FiniteSets

CONSTANTS
  Reason,  \* reasons a user may reject an issue with
  Agent    \* the agents, at least one of each kind that derive() tells apart

Reasons == {"false_positive", "unexploitable", "wont_fix", "accepted_risk", "deferred"}
ASSUME ReasonType == Reason \subseteq Reasons
ASSUME PipelineAgents ==
  {"remediation_planner", "remediation_executor", "validation_checker"} \subseteq Agent

VARIABLE issue

FindingStatus ==
  {"new", "triaged", "in_progress", "remediated", "validated", "closed", "exception", "passed"}
TriageAgents == {"finding_enricher", "exposure_analyzer", "report_triager"}
PrerequisiteAgents ==
  {"finding_enricher", "owner_resolver", "exposure_analyzer", "evidence_collector"}

RunStatus == {"none", "running", "completed", "failed", "rate_limited", "cancelled"}
PrStatus == {"none", "pr_created", "changes_made", "failed", "needs_approval"}

NoPr == [status |-> "none", branch |-> FALSE, url |-> FALSE]

Running(i, a) == i.run[a] = "running"
\* Mutation: rate limits are no failure.
FailedHard(i, a) == i.run[a] = "failed"
Failed(i, a) == i.run[a] \in {"failed", "rate_limited"}
SomeRunning(i, agents) == \E a \in agents \cap Agent : Running(i, a)
SomeFailed(i, agents) == \E a \in agents \cap Agent : Failed(i, a)

-----------------------------------------------------------------------------
(* derive: the first rule that matches. *)

Shown(section, stage) == [section |-> section, stage |-> stage]

\* An approved issue being remediated.
DeriveInProgress(i) ==
  LET executor == "remediation_executor"
      planner == "remediation_planner" IN
  CASE i.pr.url -> Shown("review", "pr_ready")
    [] ~ i.pr.url /\ Running(i, executor) ->
         IF i.parked THEN Shown("review", "awaiting_permission")
                     ELSE Shown("in_progress", "generating")
    [] OTHER ->
         CASE i.pr.status = "failed" -> Shown("review", "failed")
           [] i.pr.status = "changes_made" -> Shown("in_progress", "opening_pr")
           [] OTHER ->
                IF i.pr.branch THEN Shown("in_progress", "pushing")
                ELSE IF \/ Failed(i, executor)
                        \/ Failed(i, planner) /\ ~ i.plan
                        \/ SomeFailed(i, PrerequisiteAgents) /\ ~ i.plan
                  THEN Shown("review", "failed")
                ELSE IF i.plan /\ ~ Running(i, planner) THEN Shown("review", "plan_ready")
                ELSE Shown("in_progress", "planning")

\* An issue that is not triaged yet.
DeriveNew(i) ==
  CASE SomeRunning(i, TriageAgents) -> Shown("in_progress", "triaging")
    [] ~ SomeRunning(i, TriageAgents) /\ i.verdict -> Shown("review", "triage_verdict")
    [] OTHER -> IF SomeFailed(i, TriageAgents) THEN Shown("review", "failed")
                                               ELSE Shown("todo", "todo")

ReasonStage(reason) ==
  CASE reason = "accepted_risk" -> "accepted" [] OTHER -> reason

Derive(i) ==
  LET validator == "validation_checker" IN
  CASE i.status = "exception" -> Shown("done", ReasonStage(i.reason))
    [] i.status \in {"validated", "closed"} -> Shown("done", "fixed")
    [] i.status = "remediated" ->
         CASE Running(i, validator) -> Shown("in_progress", "validating")
           [] i.run[validator] = "none" /\ i.pr.url -> Shown("review", "pr_awaiting_val")
           [] OTHER -> Shown("todo", "todo")
    [] i.status = "in_progress" -> DeriveInProgress(i)
    [] i.status = "new" -> DeriveNew(i)
    [] OTHER -> Shown("todo", "todo")

-----------------------------------------------------------------------------
(* The rows move. *)

NewIssue ==
  [status |-> "new", reason |-> "accepted_risk", ws |-> FALSE, parked |-> FALSE,
   run |-> [a \in Agent |-> "none"], plan |-> FALSE, verdict |-> FALSE, pr |-> NoPr]

IssueInit == issue = NewIssue

Ordinal(s) ==
  CASE s \in {"new", "passed"} -> 0 [] s = "triaged" -> 1 [] s = "in_progress" -> 2
    [] s = "remediated" -> 3 [] s = "validated" -> 4 [] OTHER -> 5

\* Mutation: an agent may take an issue back.
AdvancedAnyway(status, target) == target

\* _advance_finding_status: forward only.
Advanced(status, target) == IF Ordinal(target) > Ordinal(status) THEN target ELSE status

SetRun(a, s) == [issue.run EXCEPT ![a] = s]

\* POST triage and POST /workspaces both give the issue a workspace; the latter starts it.
OpenWorkspace(start) ==
  issue' = [issue EXCEPT !.ws = TRUE,
              !.status = IF start /\ @ \in {"new", "triaged"} THEN "in_progress" ELSE @]

StartRun(a) ==
  /\ issue.ws /\ ~ SomeRunning(issue, Agent)
  /\ issue' = [issue EXCEPT !.run = SetRun(a, "running")]

\* The sidebar mapping and the advance of a completed run, by its agent.
Complete(a) ==
  /\ Running(issue, a) /\ ~ (a = "remediation_executor" /\ issue.parked)
  /\ LET done == [issue EXCEPT !.run = SetRun(a, "completed")] IN
     CASE a = "report_triager" -> issue' = [done EXCEPT !.verdict = TRUE]
       [] a = "remediation_planner" ->
            issue' = [done EXCEPT !.plan = TRUE, !.status = Advanced(@, "in_progress")]
       [] a = "remediation_executor" ->
            \E s \in PrStatus \ {"none"}, branch \in BOOLEAN :
              /\ s = "pr_created" => branch
              /\ issue' = [done EXCEPT
                   !.pr = [status |-> s, branch |-> branch, url |-> s = "pr_created"],
                   !.status = IF s = "pr_created" THEN Advanced(@, "remediated") ELSE @]
       [] a = "validation_checker" ->
            \E fixed \in BOOLEAN :
              issue' = [done EXCEPT !.status = IF fixed THEN Advanced(@, "validated") ELSE @]
       [] OTHER -> issue' = done

\* The synthesizer writes the verdict of a scanner finding's triage.
Synthesize == issue.ws /\ ~ SomeRunning(issue, Agent) /\ issue' = [issue EXCEPT !.verdict = TRUE]

EndBadly(a) ==
  /\ Running(issue, a)
  /\ \E s \in {"failed", "rate_limited", "cancelled"} :
       issue' = [issue EXCEPT !.run = SetRun(a, s), !.parked = FALSE]

Park ==
  /\ Running(issue, "remediation_executor") /\ ~ issue.parked
  /\ issue' = [issue EXCEPT !.parked = TRUE]

Resume == issue.parked /\ issue' = [issue EXCEPT !.parked = FALSE]

UserAccepts == issue.status = "new" /\ issue' = [issue EXCEPT !.status = "triaged"]
UserRejects == \E r \in Reason : issue' = [issue EXCEPT !.status = "exception", !.reason = r]
UserResolves ==
  /\ Ordinal(issue.status) < 4
  /\ issue' = [issue EXCEPT !.status = "validated"]
UserReopens == issue' = [issue EXCEPT !.status = "in_progress"]

AgentStep ==
  \/ Park \/ Resume \/ Synthesize
  \/ \E a \in Agent : StartRun(a) \/ Complete(a) \/ EndBadly(a)

IssueStep ==
  \/ AgentStep \/ OpenWorkspace(TRUE) \/ OpenWorkspace(FALSE)
  \/ UserAccepts \/ UserRejects \/ UserResolves \/ UserReopens
=============================================================================
