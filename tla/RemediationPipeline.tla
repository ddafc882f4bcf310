------------------------ MODULE RemediationPipeline ------------------------
(***************************************************************************)
(* The agent pipeline of one issue: run-all loops, triage tasks and single *)
(* agent runs that share one workspace, the two human gates they stop at   *)
(* (the plan's approval and the triage verdict), and the two stores the    *)
(* gates read: the context/ files and the sidebar row.                     *)
(*                                                                         *)
(* Each background task drives one agent run at a time.  A run is modelled *)
(* by the stretches of executor.execute that touch the shared stores; its  *)
(* row, its cancellation and its resumption are the subject of             *)
(* AgentExecutor, and here a row is 'running' exactly while a task is at   *)
(* work on it or it is parked.  Plan versions number the planner's outputs.*)
(***************************************************************************)
EXTENDS Naturals, FiniteSets

CONSTANTS
  Task,           \* slots for concurrent background tasks: a bound on them
  MaxPlans,       \* a bound on the planner's outputs
  MaxIterations,  \* iterations of a run-all loop: len(VALID_AGENT_TYPES) + 3 in the code
  MaxCalls,       \* a bound on the requests of users, and on restarts
  SourceTypes     \* kinds of finding: "scanner", "report"

MaxRetryIterations == 3

ASSUME SomeIterations == MaxIterations \in Nat \ {0}
ASSUME Bounds == MaxPlans \in Nat \ {0} /\ MaxCalls \in Nat
ASSUME KnownSources == SourceTypes \subseteq {"scanner", "report"}

VARIABLES
  source,       \* finding.source_type, never changed
  confirmed,    \* finding.status # "new": a human, or a plan, moved it on
  prereqs,      \* prerequisite agents whose section is in context/
  plan,         \* context/plan.json: version and approved flag
  remediation,  \* context/remediation.json: status, and the plan it executed
  validation,   \* context/validation.json: verdict
  sidebar,      \* the sidebar row: plan, its approved flag, triage verdict
  exposure,     \* the newest exposure_analyzer row, as triage reads it back
  task,         \* the background tasks
  parked,       \* per slot: the plan loaded by a run it parked
  approval,     \* the handler of POST .../plan/approve
  calls         \* requests and restarts so far, for the bound

context == <<prereqs, plan, remediation, validation>>
vars == <<source, confirmed, prereqs, plan, remediation, validation, sidebar, exposure,
          task, parked, approval, calls>>

Prerequisites == {"finding_enricher", "exposure_analyzer", "evidence_collector"}
Agents == Prerequisites \cup
  {"remediation_planner", "remediation_executor", "validation_checker",
   "report_triager", "triage_synthesizer"}

\* approved is 0 for unapproved, else the version the user's approval was read for.
PlanState == [ver : 0 .. MaxPlans, approved : 0 .. MaxPlans]
NoPlan == [ver |-> 0, approved |-> 0]

Verdicts == {"none", "real", "noise", "needs_review"}

SidebarState == [plan : PlanState, triage : Verdicts]

\* A task that runs nothing.
Idle == [pc |-> "idle", kind |-> "single", agent |-> "none", loaded |-> NoPlan,
         snap |-> [plan |-> NoPlan, triage |-> "none"], row |-> "none", verdict |-> "none",
         basis |-> "none", ran |-> {}, fails |-> 0, iters |-> 0]

-----------------------------------------------------------------------------
(* Helpers. *)

\* Tasks whose agent_run row is 'running'; the synthesizer's is only while it is filled in.
HasRunningRow(t) ==
  \/ task[t].pc \in {"inserted", "working", "close", "verdict_row"}
  \/ task[t].pc \in {"read_sidebar", "write_sidebar"} /\ task[t].agent # "triage_synthesizer"

Busy == \E t \in Task : HasRunningRow(t) \/ parked[t].on

\* suggest_next on the context files; a plan's version is also the number of planner runs
\* that agent-runs.jsonl logs as completed.
Suggest ==
  LET missing == Prerequisites \ prereqs IN
  IF validation = "not_fixed" /\ plan.ver < MaxRetryIterations THEN "remediation_planner"
  ELSE IF "finding_enricher" \in missing THEN "finding_enricher"
  ELSE IF "exposure_analyzer" \in missing THEN "exposure_analyzer"
  ELSE IF "evidence_collector" \in missing THEN "evidence_collector"
  ELSE IF plan.ver = 0 THEN "remediation_planner"
  ELSE IF remediation.status = "none"
         THEN IF plan.approved = 0 THEN "await_approval" ELSE "remediation_executor"
  ELSE IF remediation.status = "pr_created" THEN "review_pr"
  ELSE "complete"

Set(t, fields) ==
  task' = [task EXCEPT ![t] =
             [f \in DOMAIN Idle |-> IF f \in DOMAIN fields THEN fields[f] ELSE @[f]]]

Goto(t, p) == Set(t, [pc |-> p])
End(t) == task' = [task EXCEPT ![t] = Idle]

-----------------------------------------------------------------------------
\* A new issue, or one whose pipeline has already stopped at the approval gate.
Init ==
  /\ source \in SourceTypes
  /\ \/ /\ confirmed = FALSE
        /\ prereqs = {}
        /\ plan = NoPlan
     \/ /\ confirmed = TRUE
        /\ prereqs = Prerequisites
        /\ plan = [ver |-> 1, approved |-> 0]
  /\ remediation = [status |-> "none", ver |-> 0]
  /\ validation = "none"
  /\ sidebar = [plan |-> plan, triage |-> "none"]
  /\ exposure = [by |-> "none", out |-> FALSE, old |-> {}]
  /\ task = [t \in Task |-> Idle]
  /\ parked = [t \in Task |-> [on |-> FALSE, loaded |-> NoPlan]]
  /\ approval = [pc |-> "idle", ver |-> 0]
  /\ calls = 0

\* Each request and each restart is one call.
Call == calls < MaxCalls /\ calls' = calls + 1

-----------------------------------------------------------------------------
(* The routes that start tasks: each refuses a busy workspace before it spawns. *)

\* POST .../agents/{type}/execute, for the agents users run on demand.
PostExecute(t) ==
  /\ Call
  /\ task[t].pc = "idle"
  /\ ~Busy
  /\ \E a \in {"remediation_planner", "remediation_executor", "validation_checker"} :
       Set(t, [pc |-> "chosen", kind |-> "single", agent |-> a])
  /\ UNCHANGED <<source, confirmed, context, sidebar, exposure, parked, approval>>

\* POST .../pipeline/run-all: a concrete non-real verdict blocks, unless a human confirmed
\* the finding or approved a plan.
PostRunAll(t) ==
  /\ Call
  /\ task[t].pc = "idle"
  /\ sidebar.triage \in {"none", "real"} \/ confirmed \/ sidebar.plan.approved # 0
  /\ ~Busy
  /\ Set(t, [pc |-> "loop", kind |-> "run_all"])
  /\ UNCHANGED <<source, confirmed, context, sidebar, exposure, parked, approval>>

\* POST /findings/{id}/triage: outputs recorded before it are old to this triage.
PostTriage(t) ==
  /\ Call
  /\ task[t].pc = "idle"
  /\ ~Busy
  /\ Set(t, [pc |-> "chosen", kind |-> "triage",
             agent |-> IF source = "report" THEN "report_triager" ELSE "finding_enricher"])
  /\ exposure' = [exposure EXCEPT !.old = @ \cup {t}]
  /\ UNCHANGED <<source, confirmed, context, sidebar, parked, approval>>

\* POST .../permission: a parked run is resumed by a task of its own.
PostPermission(t) ==
  /\ Call
  /\ task[t].pc = "idle"
  /\ \E s \in Task :
       /\ parked[s].on
       /\ parked' = [parked EXCEPT ![s] = [on |-> FALSE, loaded |-> NoPlan]]
       /\ Set(t, [pc |-> "working", kind |-> "single", agent |-> "remediation_executor",
                  loaded |-> parked[s].loaded, row |-> s])
  /\ UNCHANGED <<source, confirmed, context, sidebar, exposure, approval>>

\* Start, or "Looks real": the user moves the finding out of 'new'.
ConfirmFinding ==
  /\ Call
  /\ ~confirmed
  /\ confirmed' = TRUE
  /\ UNCHANGED <<source, context, sidebar, exposure, task, parked, approval>>

-----------------------------------------------------------------------------
(* The run-all loop. *)

\* Mutation: whatever is suggested is run.
NextIterationUngated(t) ==
  /\ task[t].pc = "loop" /\ task[t].kind = "run_all"
  /\ IF Suggest # "complete" /\ task[t].iters < MaxIterations
       THEN Set(t, [pc |-> "chosen", agent |-> Suggest, iters |-> task[t].iters + 1])
       ELSE End(t)
  /\ UNCHANGED <<source, confirmed, context, sidebar, exposure, parked, approval, calls>>

\* One iteration up to executor.execute: the snapshot and the suggestion.
NextIteration(t) ==
  /\ task[t].pc = "loop" /\ task[t].kind = "run_all"
  /\ IF Suggest \in Agents /\ task[t].iters < MaxIterations
       THEN Set(t, [pc |-> "chosen", agent |-> Suggest, iters |-> task[t].iters + 1])
       ELSE End(t)
  /\ UNCHANGED <<source, confirmed, context, sidebar, exposure, parked, approval, calls>>

-----------------------------------------------------------------------------
(* executor.execute. *)

\* The check raises AgentBusyError: the loop tries once more, every other caller ends.
RefuseBusy(t) ==
  /\ task[t].pc = "chosen"
  /\ Busy
  /\ IF task[t].kind = "run_all" /\ task[t].fails = 0
       THEN Set(t, [pc |-> "loop", agent |-> "none", fails |-> 1])
       ELSE End(t)
  /\ UNCHANGED <<source, confirmed, context, sidebar, exposure, parked, approval, calls>>

PassCheck(t) ==
  /\ task[t].pc = "chosen"
  /\ ~Busy
  /\ Goto(t, "checked")
  /\ UNCHANGED <<source, confirmed, context, sidebar, exposure, parked, approval, calls>>

\* The INSERT of the running row.
InsertRun(t) ==
  /\ task[t].pc = "checked"
  /\ Set(t, [pc |-> "inserted", row |-> t,
             ran |-> IF task[t].kind = "run_all"
                       THEN task[t].ran \cup ({task[t].agent} \cap Prerequisites) ELSE {}])
  /\ exposure' = IF task[t].agent = "exposure_analyzer"
                   THEN [by |-> t, out |-> FALSE, old |-> {}] ELSE exposure
  /\ UNCHANGED <<source, confirmed, context, sidebar, parked, approval, calls>>

\* _load_workspace_data: the executor reads plan.json as it is by now.
LoadWorkspaceData(t) ==
  /\ task[t].pc = "inserted"
  /\ Set(t, [pc |-> "working",
             loaded |-> IF task[t].agent = "remediation_executor" THEN plan ELSE NoPlan])
  /\ UNCHANGED <<source, confirmed, context, sidebar, exposure, parked, approval, calls>>

\* A gated tool call: the row stays 'running'.  run-all takes 'awaiting_permission' for
\* progress and goes round again.
ParkForPermission(t) ==
  /\ task[t].pc = "working"
  /\ task[t].agent = "remediation_executor"
  /\ parked' = [parked EXCEPT ![task[t].row] = [on |-> TRUE, loaded |-> task[t].loaded]]
  /\ IF task[t].kind = "run_all"
       THEN Set(t, [pc |-> "loop", agent |-> "none", loaded |-> NoPlan, row |-> "none",
                    fails |-> 0])
       ELSE End(t)
  /\ UNCHANGED <<source, confirmed, context, sidebar, exposure, approval, calls>>

\* The model has answered: update_context replaces the agent's section.  report_triager has
\* none: see FailRun.
UpdateContext(t) ==
  LET a == task[t].agent IN
  /\ task[t].pc = "working"
  /\ \/ /\ a \in Prerequisites
        /\ prereqs' = prereqs \cup {a}
        /\ UNCHANGED <<plan, remediation, validation>>
     \/ /\ a = "remediation_planner"
        /\ plan.ver < MaxPlans
        /\ plan' = [ver |-> plan.ver + 1, approved |-> 0]
        /\ UNCHANGED <<prereqs, remediation, validation>>
     \/ /\ a = "remediation_executor"
        /\ \E s \in {"pr_created", "changes_made"} :
             remediation' = [status |-> s, ver |-> task[t].loaded.ver]
        /\ UNCHANGED <<prereqs, plan, validation>>
     \/ /\ a = "validation_checker"
        /\ validation' \in {"fixed", "not_fixed"}
        /\ UNCHANGED <<prereqs, plan, remediation>>
  /\ Set(t, [pc |-> "read_sidebar",
             loaded |-> IF a = "remediation_planner" THEN plan' ELSE NoPlan])
  /\ UNCHANGED <<source, confirmed, sidebar, exposure, parked, approval, calls>>

\* map_and_upsert reads the row ...
ReadSidebar(t) ==
  /\ task[t].pc = "read_sidebar"
  /\ Set(t, [pc |-> "write_sidebar", snap |-> sidebar])
  /\ UNCHANGED <<source, confirmed, context, sidebar, exposure, parked, approval, calls>>

\* ... and an await later writes every field of it back, its own merged in.  The mapped
\* plan has no 'approved' key, so merging keeps the old one.
WriteSidebar(t) ==
  LET a == task[t].agent
      s == task[t].snap IN
  /\ task[t].pc = "write_sidebar"
  /\ sidebar' = [plan   |-> IF a = "remediation_planner"
                              THEN [s.plan EXCEPT !.ver = task[t].loaded.ver] ELSE s.plan,
                 triage |-> IF a = "triage_synthesizer" THEN task[t].verdict ELSE s.triage]
  /\ IF a = "triage_synthesizer"
       THEN End(t)
       ELSE Set(t, [pc |-> "close", snap |-> Idle.snap, loaded |-> NoPlan])
  /\ UNCHANGED <<source, confirmed, context, exposure, parked, approval, calls>>

\* The finding advances, the row completes, and the caller goes on.
CloseRun(t) ==
  LET a == task[t].agent
      k == task[t].kind IN
  /\ task[t].pc = "close"
  /\ confirmed' = (confirmed \/ a = "remediation_planner")
  /\ exposure' = IF a = "exposure_analyzer" /\ exposure.by = t
                   THEN [exposure EXCEPT !.out = TRUE] ELSE exposure
  /\ CASE k = "run_all" ->
            Set(t, [pc |-> "loop", agent |-> "none", row |-> "none", fails |-> 0])
       [] k = "triage" /\ a = "finding_enricher" ->
            Set(t, [pc |-> "chosen", agent |-> "exposure_analyzer", row |-> "none"])
       [] k = "triage" /\ a = "exposure_analyzer" ->
            Set(t, [pc |-> "judge", agent |-> "none", row |-> "none"])
       [] OTHER -> End(t)
  /\ UNCHANGED <<source, context, sidebar, parked, approval, calls>>

\* Mutation: run-all goes on after a failed run.
FailRunRetrying(t) ==
  /\ task[t].pc \in {"inserted", "working", "read_sidebar", "write_sidebar", "close"}
  /\ task[t].agent # "triage_synthesizer"
  /\ IF task[t].kind = "triage" /\ source = "scanner"
       THEN Set(t, [pc |-> "judge", row |-> "none", snap |-> Idle.snap])
       ELSE IF task[t].kind = "run_all"
              THEN Set(t, [pc |-> "loop", agent |-> "none", row |-> "none"])
              ELSE End(t)
  /\ UNCHANGED <<source, confirmed, context, sidebar, exposure, parked, approval, calls>>

\* The model call fails, or a step that persists raises (update_context always does for an
\* agent type it has no section for), and the row is closed as failed or rate_limited.
\* run-all breaks; a scanner triage degrades.
FailRun(t) ==
  /\ task[t].pc \in {"inserted", "working", "read_sidebar", "write_sidebar", "close"}
  /\ task[t].agent # "triage_synthesizer"
  /\ IF task[t].kind = "triage" /\ source = "scanner"
       THEN Set(t, [pc |-> "judge", row |-> "none", snap |-> Idle.snap])
       ELSE End(t)
  /\ UNCHANGED <<source, confirmed, context, sidebar, exposure, parked, approval, calls>>

-----------------------------------------------------------------------------
(* Scanner triage: the verdict. *)

\* Mutation: a failed prerequisite leaves the recorded exposure output in place.
JudgeUndropped(t) ==
  /\ task[t].pc = "judge"
  /\ LET failed == task[t].agent # "none"
         usable == exposure.out
         quick  == IF t \in exposure.old THEN "old" ELSE "fresh" IN
     \E v \in {"real", "noise", "needs_review"} :
     \E b \in IF v = "needs_review" THEN {"none"}
             ELSE (IF usable THEN {quick} ELSE {}) \cup (IF failed THEN {} ELSE {"deep"}) :
       Set(t, [pc |-> "verdict_row", agent |-> "triage_synthesizer", verdict |-> v, basis |-> b])
  /\ UNCHANGED <<source, confirmed, context, sidebar, exposure, parked, approval, calls>>

\* After a failed prerequisite (the task still names it) the exposure output is dropped and
\* nothing escalates.  Otherwise a recorded exposure output supports any quick verdict, and
\* the gates and the deep dive, which read code of their own, may replace it.
Judge(t) ==
  /\ task[t].pc = "judge"
  /\ LET failed == task[t].agent # "none"
         usable == exposure.out /\ ~failed
         quick  == IF t \in exposure.old THEN "old" ELSE "fresh" IN
     \E v \in {"real", "noise", "needs_review"} :
     \E b \in IF v = "needs_review" THEN {"none"}
             ELSE (IF usable THEN {quick} ELSE {}) \cup (IF failed THEN {} ELSE {"deep"}) :
       Set(t, [pc |-> "verdict_row", agent |-> "triage_synthesizer", verdict |-> v, basis |-> b])
  /\ UNCHANGED <<source, confirmed, context, sidebar, exposure, parked, approval, calls>>

\* _persist_synthesis: its row is inserted as 'running' and completed, with no busy check;
\* then map_and_upsert.
PersistVerdict(t) ==
  /\ task[t].pc = "verdict_row"
  /\ Goto(t, "read_sidebar")
  /\ UNCHANGED <<source, confirmed, context, sidebar, exposure, parked, approval, calls>>

-----------------------------------------------------------------------------
(* POST .../plan/approve: the sidebar is read, written, then mirrored to plan.json. *)

ApproveRead ==
  /\ Call
  /\ approval.pc = "idle"
  /\ sidebar.plan.ver # 0
  /\ approval' = [pc |-> "write", ver |-> sidebar.plan.ver]
  /\ UNCHANGED <<source, confirmed, context, sidebar, exposure, task, parked>>

ApproveWrite ==
  /\ approval.pc = "write"
  /\ sidebar' = [sidebar EXCEPT !.plan = [ver |-> approval.ver, approved |-> approval.ver]]
  /\ approval' = [approval EXCEPT !.pc = "mirror"]
  /\ UNCHANGED <<source, confirmed, context, exposure, task, parked, calls>>

\* The flag goes on whatever plan the file holds by now, unless it is there already.
ApproveMirror ==
  /\ approval.pc = "mirror"
  /\ plan' = IF plan.approved = 0 THEN [plan EXCEPT !.approved = approval.ver] ELSE plan
  /\ approval' = [pc |-> "idle", ver |-> 0]
  /\ UNCHANGED <<source, confirmed, prereqs, remediation, validation, sidebar, exposure,
                 task, parked, calls>>

-----------------------------------------------------------------------------
\* The process restarts: tasks and handlers are gone, the rows they left are failed by
\* reconciliation, parked ones included; files and rows stay.
Restart ==
  /\ Call
  /\ task' = [t \in Task |-> Idle]
  /\ parked' = [t \in Task |-> [on |-> FALSE, loaded |-> NoPlan]]
  /\ approval' = [pc |-> "idle", ver |-> 0]
  /\ UNCHANGED <<source, confirmed, context, sidebar, exposure>>

TaskStep(t) ==
  \/ NextIteration(t) \/ RefuseBusy(t) \/ PassCheck(t) \/ InsertRun(t)
  \/ LoadWorkspaceData(t) \/ ParkForPermission(t) \/ UpdateContext(t)
  \/ ReadSidebar(t) \/ WriteSidebar(t) \/ CloseRun(t) \/ FailRun(t)
  \/ Judge(t) \/ PersistVerdict(t)

Post(t) == PostExecute(t) \/ PostRunAll(t) \/ PostTriage(t) \/ PostPermission(t)

Approve == ApproveRead \/ ApproveWrite \/ ApproveMirror

Next ==
  \/ \E t \in Task : TaskStep(t) \/ Post(t)
  \/ ConfirmFinding \/ Approve \/ Restart

Spec == Init /\ [][Next]_vars

-----------------------------------------------------------------------------
(* Properties. *)

TypeOK ==
  /\ source \in SourceTypes
  /\ confirmed \in BOOLEAN
  /\ prereqs \subseteq Prerequisites
  /\ plan \in PlanState
  /\ remediation \in [status : {"none", "pr_created", "changes_made"}, ver : 0 .. MaxPlans]
  /\ validation \in {"none", "fixed", "not_fixed"}
  /\ sidebar \in SidebarState
  /\ exposure \in [by : Task \cup {"none"}, out : BOOLEAN, old : SUBSET Task]
  /\ \A t \in Task :
       /\ DOMAIN task[t] = DOMAIN Idle
       /\ task[t].agent \in Agents \cup {"none"}
       /\ task[t].loaded \in PlanState
       /\ task[t].snap \in SidebarState
       /\ task[t].ran \subseteq Prerequisites
       /\ task[t].iters \in 0 .. MaxIterations
  /\ parked \in [Task -> [on : BOOLEAN, loaded : PlanState]]
  /\ calls \in 0 .. MaxCalls
  /\ approval \in [pc : {"idle", "write", "mirror"}, ver : 0 .. MaxPlans]

\* A confident verdict never rests on an earlier triage's exposure output
\* (_run_scanner_triage: "Don't synthesize from a PRIOR attempt's stale output"), whatever
\* other runs put on the newest row meanwhile.
VerdictIsFresh == \A t \in Task : task[t].basis # "old"

\* No retry storm: one run-all loop runs no prerequisite agent twice, through failures,
\* refusals, restarts and other tasks' runs.
NoRepeatedPrerequisite ==
  [][\A t \in Task :
       InsertRun(t) /\ task[t].kind = "run_all" /\ task[t].agent \in Prerequisites
         => task[t].agent \notin task[t].ran]_vars
=============================================================================
