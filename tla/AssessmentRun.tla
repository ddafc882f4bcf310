---------------------------- MODULE AssessmentRun ----------------------------
(***************************************************************************)
(* Assessment runs: the rows of the assessment table, the background task  *)
(* that drives the engine for one row (clone, Trivy, Semgrep, posture, the *)
(* upserts and the close pass on the finding table, the grade and the      *)
(* completion), the 600 s timeout, the watchdog, crashes and boots.  The   *)
(* user's handlers on the same findings are FindingStore's.                *)
(***************************************************************************)
EXTENDS FindingStore

CONSTANTS
  Repo,        \* repository URLs an assessment is asked for
  MaxCrashes   \* a bound on the crashes

ASSUME RepoType == None \notin Repo
ASSUME MaxCrashesType == MaxCrashes \in Nat

VARIABLES
  up,       \* the server runs
  assess,   \* the assessment rows
  task,     \* the background task of each row
  report,   \* what each row's scan saw: findings reported, scanners that count as having
            \* run, posture checks that passed
  awarded,  \* assessments with a completion row
  crashes   \* crashes so far

runVars == <<up, assess, task, report, awarded, crashes>>
vars == <<finding, workspace, dirs, req, ops, up, assess, task, report, awarded, crashes>>

\* error_kind: what the task reports ("reported", see classify_assessment_failure in
\* Dashboard), or that it was cut off.
ErrorKind == {"reported", "interrupted"}
RunSteps == {"clone", "trivy", "semgrep", "posture", "persist", "select", "closing", "describe"}
TaskPc == RunSteps \cup
  {"none", "queued", "failing", "tools", "result", "completion", "done"}

NoRow == [status |-> "absent", repo |-> None, error |-> "none", met |-> FALSE, stale |-> FALSE]
NoTask == [pc |-> "none", todo |-> {}, source |-> 1, victims |-> {}, met |-> FALSE]
NoReport == [seen |-> {}, ran |-> {}, passed |-> {}]

-----------------------------------------------------------------------------
(* Helpers. *)

Of(s) == {f \in Finding : Source[f] = s}
Advance(a, pc) == task' = [task EXCEPT ![a].pc = pc]
SetTask(a, t) == task' = [task EXCEPT ![a] = t]
SetRow(a, row) == assess' = [assess EXCEPT ![a] = row]
EndTask(a) == SetTask(a, [NoTask EXCEPT !.pc = "done"])
Unfinished(a) == assess[a].status \in {"pending", "running"}

Fail(a) == task' = [task EXCEPT ![a] = [NoTask EXCEPT !.pc = "failing"]]

\* Mutation: a rejected finding the scanner sees again is new.
UpsertedForgetting(f, a, scanned) ==
  IF ~ Exists(f)
    THEN [NoFinding EXCEPT !.status = scanned, !.scan = a]
    ELSE [finding[f] EXCEPT !.scan = a,
            !.status = IF Source[f] # "posture" /\ @ \in UserLifecycle \ {"exception"}
                         THEN @ ELSE scanned]

\* INSERT ... ON CONFLICT DO UPDATE.  A posture row takes the scanner's status, any other
\* keeps a status of the user's; pr_url and the audit note are kept.
Upserted(f, a, scanned) ==
  IF ~ Exists(f)
    THEN [NoFinding EXCEPT !.status = scanned, !.scan = a]
    ELSE [finding[f] EXCEPT !.scan = a,
            !.status = IF Source[f] # "posture" /\ @ \in UserLifecycle THEN @ ELSE scanned]

Init ==
  /\ StoreInit
  /\ up = TRUE
  /\ assess = [a \in Assessment |-> NoRow]
  /\ task = [a \in Assessment |-> NoTask]
  /\ report = [a \in Assessment |-> NoReport]
  /\ awarded = {}
  /\ crashes = 0

-----------------------------------------------------------------------------
(* One run. *)

\* POST /assessment/run inserts the row and creates its task; nothing looks at other runs.
PostRun(a, repo) ==
  /\ assess[a].status = "absent" /\ UserOp
  /\ SetRow(a, [NoRow EXCEPT !.status = "pending", !.repo = repo])
  /\ Advance(a, "queued")
  /\ UNCHANGED <<finding, workspace, dirs, req, up, report, awarded, crashes>>

\* The task's first write does not look at the row: it may have been reaped meanwhile.
StartRun(a) ==
  /\ task[a].pc = "queued"
  /\ SetRow(a, [assess[a] EXCEPT !.status = "running"])
  /\ Advance(a, "clone")
  /\ UNCHANGED <<storeVars, up, report, awarded, crashes>>

Clone(a) ==
  /\ task[a].pc = "clone"
  /\ \/ Advance(a, "trivy")
     \/ Fail(a)
  /\ UNCHANGED <<storeVars, up, assess, report, awarded, crashes>>

\* A scanner that exits with an error but printed JSON has run, with what it printed.
ScanResult(a, sources) ==
  \E some \in SUBSET UNION {Of(s) : s \in sources} :
    report' = [report EXCEPT ![a].seen = @ \cup some, ![a].ran = @ \cup sources]

\* Trivy's failure fails the run.
RunTrivy(a) ==
  /\ task[a].pc = "trivy"
  /\ \/ /\ ScanResult(a, {"trivy", "trivy-secret"})
        /\ Advance(a, "semgrep")
     \/ /\ Fail(a)
        /\ UNCHANGED report
  /\ UNCHANGED <<storeVars, up, assess, awarded, crashes>>

\* Semgrep's failure is skipped over.
RunSemgrep(a) ==
  /\ task[a].pc = "semgrep"
  /\ \/ ScanResult(a, {"semgrep"})
     \/ UNCHANGED report
  /\ Advance(a, "posture")
  /\ UNCHANGED <<storeVars, up, assess, awarded, crashes>>

\* The upserts left to do; after the last the close pass begins.
Persisting(t, todo) == [t EXCEPT !.pc = IF todo = {} THEN "select" ELSE "persist", !.todo = todo]

\* Checks that answer "unknown" report nothing.
RunPosture(a) ==
  /\ task[a].pc = "posture"
  /\ \E known \in SUBSET Of("posture") : \E pass \in SUBSET known :
       /\ report' = [report EXCEPT ![a].seen = @ \cup known, ![a].passed = pass]
       /\ SetTask(a, Persisting(task[a], report[a].seen \cup known))
  /\ UNCHANGED <<storeVars, up, assess, awarded, crashes>>

\* The status a scanner's row is inserted with: a posture check that passed is no issue.
ScannedStatus(a, f) == IF f \in report[a].passed THEN "passed" ELSE "new"

\* One upsert an await, the sources in order; one that raises is logged and skipped.
PersistFinding(a, f) ==
  /\ task[a].pc = "persist" /\ f \in task[a].todo
  /\ \A g \in task[a].todo :
       \E i, j \in DOMAIN Sources : Sources[i] = Source[f] /\ Sources[j] = Source[g] /\ i <= j
  /\ SetFinding(f, Upserted(f, a, ScannedStatus(a, f))) \/ UNCHANGED finding
  /\ SetTask(a, Persisting(task[a], task[a].todo \ {f}))
  /\ UNCHANGED <<workspace, dirs, req, ops, up, assess, report, awarded, crashes>>

\* Mutation: without the first-run guard.
DisappearedUnguarded(a, s) ==
  {f \in Of(s) \ report[a].seen :
     finding[f].status \notin {"absent", "closed", "remediated", "validated", "passed"}}

\* Rows of the source that the scan did not report; none on the first assessment of the
\* repository, whatever became of the others.
Disappeared(a, s) ==
  IF \E b \in Assessment \ {a} : assess[b].repo = assess[a].repo
    THEN {f \in Of(s) \ report[a].seen :
            finding[f].status \notin {"absent", "closed", "remediated", "validated", "passed"}}
    ELSE {}

\* The rows of one source left to close; after the last the next source's turn comes.
Closing(t, victims) ==
  [t EXCEPT !.pc = IF victims = {} THEN "select" ELSE "closing", !.victims = victims,
            !.source = IF victims = {} THEN @ + 1 ELSE @]

\* Posture has no close pass, and a scanner that did not run has none.
SelectDisappeared(a) ==
  /\ task[a].pc = "select"
  /\ LET s == Sources[task[a].source]
     IN  IF s = "posture"
           THEN Advance(a, "describe")
           ELSE SetTask(a, Closing(task[a], IF s \in report[a].ran THEN Disappeared(a, s) ELSE {}))
  /\ UNCHANGED <<storeVars, up, assess, report, awarded, crashes>>

\* One UPDATE an await, by id: it does not look at the status again.
CloseFinding(a, f) ==
  /\ task[a].pc = "closing" /\ f \in task[a].victims
  /\ IF Exists(f) THEN SetFinding(f, [finding[f] EXCEPT !.status = "closed", !.note = a])
                  ELSE UNCHANGED finding
  /\ SetTask(a, Closing(task[a], task[a].victims \ {f}))
  /\ UNCHANGED <<workspace, dirs, req, ops, up, assess, report, awarded, crashes>>

\* The snapshot: all ten criteria are met only if no check that is known failed.
Describe(a) ==
  /\ task[a].pc = "describe"
  /\ \E met \in BOOLEAN :
       /\ met => (report[a].seen \cap Of("posture")) = report[a].passed
       /\ task' = [task EXCEPT ![a].pc = "tools", ![a].met = met]
  /\ UNCHANGED <<storeVars, up, assess, report, awarded, crashes>>

\* From here on nothing catches an exception: the task dies and leaves the row as it is.
Die(a) ==
  /\ task[a].pc \in {"tools", "result", "completion"}
  /\ EndTask(a)
  /\ UNCHANGED <<storeVars, up, assess, report, awarded, crashes>>

\* Mutation: the completion row before the result.
StoreToolsAndAward(a) ==
  /\ task[a].pc = "tools"
  /\ Advance(a, "result")
  /\ awarded' = IF task[a].met THEN awarded \cup {a} ELSE awarded
  /\ UNCHANGED <<storeVars, up, assess, report, crashes>>

StoreTools(a) ==
  /\ task[a].pc = "tools"
  /\ Advance(a, "result")
  /\ UNCHANGED <<storeVars, up, assess, report, awarded, crashes>>

\* set_assessment_result: unconditional, the error columns stay.
StoreResult(a) ==
  /\ task[a].pc = "result"
  /\ SetRow(a, [assess[a] EXCEPT !.status = "complete", !.met = task[a].met])
  /\ IF task[a].met THEN Advance(a, "completion") ELSE EndTask(a)
  /\ UNCHANGED <<storeVars, up, report, awarded, crashes>>

CreateCompletion(a) ==
  /\ task[a].pc = "completion"
  /\ awarded' = awarded \cup {a}
  /\ EndTask(a)
  /\ UNCHANGED <<storeVars, up, assess, report, crashes>>

-----------------------------------------------------------------------------
(* Failure, time, crash and boot. *)

\* asyncio.timeout(600) around the engine, at any of its awaits.
TimeOut(a) ==
  /\ task[a].pc \in RunSteps
  /\ Fail(a)
  /\ UNCHANGED <<storeVars, up, assess, report, awarded, crashes>>

Failed(row, kind) == [row EXCEPT !.status = "failed", !.error = kind]

PersistFailure(a) ==
  /\ task[a].pc = "failing"
  /\ SetRow(a, Failed(assess[a], "reported"))
  /\ EndTask(a)
  /\ UNCHANGED <<storeVars, up, report, awarded, crashes>>

\* started_at + 900 s passes on the wall clock, which runs on while the host sleeps and
\* while a task waits for its first step, unlike the task's own timeout.
GrowStale(a) ==
  /\ Unfinished(a) /\ ~ assess[a].stale
  /\ SetRow(a, [assess[a] EXCEPT !.stale = TRUE])
  /\ UNCHANGED <<storeVars, up, task, report, awarded, crashes>>

\* COALESCE keeps an earlier reason.
GivenUp(row) == [row EXCEPT !.status = "failed", !.error = IF @ = "none" THEN "interrupted" ELSE @]

\* Mutation: the watchdog looks at running rows only.
ReapRunning ==
  /\ \E a \in Assessment : assess[a].status = "running" /\ assess[a].stale
  /\ assess' = [a \in Assessment |->
                  IF assess[a].status = "running" /\ assess[a].stale
                    THEN GivenUp(assess[a]) ELSE assess[a]]
  /\ UNCHANGED <<storeVars, up, task, report, awarded, crashes>>

\* The watchdog's tick, every 60 s.
Reap ==
  /\ \E a \in Assessment : Unfinished(a) /\ assess[a].stale
  /\ assess' = [a \in Assessment |->
                  IF Unfinished(a) /\ assess[a].stale THEN GivenUp(assess[a]) ELSE assess[a]]
  /\ UNCHANGED <<storeVars, up, task, report, awarded, crashes>>

\* The process ends.  In a shutdown a cancelled task may still get its failure written.  What
\* a close pass has updated and not committed is taken to survive: any handler's commit on
\* the shared connection lands it.
Crash ==
  /\ crashes < MaxCrashes /\ crashes' = crashes + 1
  /\ up' = FALSE
  /\ \E told \in SUBSET {a \in Assessment : task[a].pc \in RunSteps} :
       assess' = [a \in Assessment |->
                    IF a \in told THEN Failed(assess[a], "interrupted")
                                  ELSE assess[a]]
  /\ task' = [a \in Assessment |->
                IF task[a].pc = "none" THEN NoTask ELSE [NoTask EXCEPT !.pc = "done"]]
  /\ req' = [r \in Request |-> Idle]
  /\ UNCHANGED <<finding, workspace, dirs, ops, report, awarded>>

\* reconcile_orphaned_assessments, before anything is served.
Boot ==
  /\ ~ up /\ up' = TRUE
  /\ assess' = [a \in Assessment |-> IF Unfinished(a) THEN GivenUp(assess[a]) ELSE assess[a]]
  /\ UNCHANGED <<storeVars, task, report, awarded, crashes>>

RunStep(a) ==
  \/ StartRun(a) \/ Clone(a) \/ RunTrivy(a) \/ RunSemgrep(a) \/ RunPosture(a)
  \/ \E f \in Finding : PersistFinding(a, f) \/ CloseFinding(a, f)
  \/ SelectDisappeared(a) \/ Describe(a)
  \/ StoreTools(a) \/ StoreResult(a) \/ CreateCompletion(a) \/ Die(a)
  \/ TimeOut(a) \/ PersistFailure(a)

StoreStep ==
  /\ \/ UserStep
     \/ \E r \in Request : HandlerStep(r)
     \/ \E w \in Workspace : RecordPrUrl(w)
  /\ UNCHANGED runVars

Next ==
  \/ /\ up
     /\ \/ StoreStep
        \/ \E a \in Assessment : (\E repo \in Repo : PostRun(a, repo)) \/ RunStep(a)
        \/ Reap
        \/ Crash
  \/ \E a \in Assessment : GrowStale(a)
  \/ Boot

Spec == Init /\ [][Next]_vars

\* Time passes, the watchdog ticks and a stopped server is started again; nothing is assumed
\* of a run's own progress.
Fairness ==
  /\ WF_vars(Boot) /\ WF_vars(up /\ Reap)
  /\ \A a \in Assessment : WF_vars(GrowStale(a))
FairSpec == Spec /\ Fairness

-----------------------------------------------------------------------------
(* Properties. *)

TypeOK ==
  /\ StoreTypeOK
  /\ up \in BOOLEAN
  /\ assess \in [Assessment -> [status : {"absent", "pending", "running", "complete", "failed"},
                   repo : Repo \cup {None}, error : ErrorKind \cup {"none"},
                   met : BOOLEAN, stale : BOOLEAN]]
  /\ \A a \in Assessment :
       /\ task[a].pc \in TaskPc
       /\ task[a].todo \cup task[a].victims \cup report[a].seen \subseteq Finding
       /\ task[a].source \in DOMAIN Sources
  /\ awarded \subseteq Assessment
  /\ crashes \in 0 .. MaxCrashes

\* The auto_closed note is true (close_disappeared_findings): the assessment it names ran the
\* finding's scanner and did not see the finding, and another assessment of its repository
\* existed; a skipped scanner and a first scan close nothing.
AutoCloseIsJustified ==
  \A f \in Finding : LET a == finding[f].note IN
    a # None =>
      /\ Source[f] \in report[a].ran /\ f \notin report[a].seen
      /\ \E b \in Assessment \ {a} : assess[b].repo = assess[a].repo

\* A completion is earned (run_and_persist_assessment): its assessment is complete with every
\* criterion met, whatever watchdog, crash or late task wrote around it.
CompletionIsEarned ==
  \A a \in awarded : assess[a].status = "complete" /\ assess[a].met

\* What the user decided about a finding that is not a posture check is moved by the user or
\* closed as disappeared, never set back by a rescan, a Start or a resolved workspace
\* (create_finding, mark_started_on_workspace_create, mark_resolved_on_workspace_close).
UserDecisionsStand ==
  [][ \A f \in Finding :
        /\ Source[f] # "posture"
        /\ finding[f].status \in {"validated", "closed", "exception"}
        /\ finding'[f].status # finding[f].status
        => \/ ops' = ops + 1
           \/ finding'[f].status = "closed" /\ finding'[f].note # None ]_vars

\* A phase of AssessmentLifecycle: a failed row has a reason to show.
Phase == [a \in Assessment |->
  CASE assess[a].status = "absent" -> "unborn"
    [] assess[a].status = "complete" -> "graded"
    [] assess[a].status = "failed" /\ assess[a].error # "none" -> "explained"
    [] assess[a].status = "failed" /\ assess[a].error = "none" -> "unexplained"
    [] OTHER -> "asked"]

Lifecycle == INSTANCE AssessmentLifecycle WITH phase <- Phase

\* The rows implement AssessmentLifecycle, its liveness included: no poll waits for ever.
LifecycleSpec == Lifecycle!Spec
=============================================================================
