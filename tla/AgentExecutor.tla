--------------------------- MODULE AgentExecutor ---------------------------
(***************************************************************************)
(* The agent executor of one workspace: the asyncio tasks that drive agent *)
(* runs, the agent_run rows they write, the finding they advance, and the  *)
(* route handlers (execute, cancel, permission, finding PATCH) that        *)
(* interleave with them.  All state of the executor is keyed by workspace, *)
(* so one workspace is modelled.                                           *)
(*                                                                         *)
(* The backend is one asyncio process over one SQLite connection: a        *)
(* coroutine runs without interruption from one await to the next, and     *)
(* every SQL statement commits.  Each action below is one such stretch     *)
(* that reads or writes shared state; pc[t] names the await a task is at.  *)
(***************************************************************************)
EXTENDS Naturals, FiniteSets

CONSTANTS
  Run,         \* ids of agent_run rows (uuid4): a bound on the rows created
  Task,        \* slots for concurrent background tasks: a bound on them
  AgentType,   \* the agent types the workspace's callers request
  UserStatus,  \* the statuses a user may PATCH onto the finding
  UserPrUrl,   \* what users PATCH into pr_url: "user", a value of their own, or "none"
  NoRun        \* the absence of a run id

AdvancingAgents == {"remediation_planner", "remediation_executor", "validation_checker"}

FindingStatus ==
  {"new", "triaged", "in_progress", "remediated", "validated", "closed", "exception", "passed"}

ASSUME NoRunIsNoRun == NoRun \notin Run
ASSUME UserPatches == UserStatus \subseteq FindingStatus /\ UserPrUrl \subseteq {"user", "none"}

VARIABLES
  server,      \* "up", or "down" between a crash and the next boot
  status,      \* agent_run.status, "absent" before the INSERT
  parked,      \* permission_pending with its request and message history
  agent,       \* agent_run.agent_type, "none" before the INSERT
  pc,          \* where each background task is suspended
  run,         \* the agent_run each task drives
  answer,      \* what the model answered the task
  verdict,     \* the terminal status a task is about to write
  seen,        \* the finding's pr_url as the task read it
  cancelling,  \* runs whose cancel handler has passed its status check
  logged,      \* runs whose output is in context/ and agent-runs.jsonl
  mirrored,    \* runs whose output is merged into the sidebar row
  finding      \* the finding's status and pr_url

rows == <<status, parked, agent>>
locals == <<run, answer, verdict, seen>>
outputs == <<logged, mirrored, finding>>
vars == <<server, status, parked, agent, pc, run, answer, verdict, seen,
          cancelling, logged, mirrored, finding>>

RowStatus == {"absent", "running", "completed", "failed", "cancelled", "rate_limited"}
Answer == {"none", "plain", "fixed", "pr_real", "pr_bogus"}
PrUrl == {"none", "verified", "bogus", "user"}

\* The points at which a task owns a run: it will write that run's row again.
Owning == {"inserted", "resume_read", "resume_history", "resume_nohistory", "working", "verify",
           "persist", "sidebar", "read_finding", "write_finding", "close", "fail"}
PcSet == {"idle", "requested", "checked", "resume_requested"} \cup Owning

-----------------------------------------------------------------------------
(* Helpers. *)

StatusOrdinal(s) ==
  CASE s \in {"new", "passed"} -> 0   \* "passed" is not in the table: 0 is the default
    [] s = "triaged" -> 1
    [] s = "in_progress" -> 2
    [] s = "remediated" -> 3
    [] s = "validated" -> 4
    [] OTHER -> 5               \* closed, exception

\* The finding status an agent's completed output asks for, "none" if none.
AdvanceTarget(a, ans) ==
  CASE a = "remediation_planner" -> "in_progress"
    [] a = "remediation_executor" /\ ans \in {"pr_real", "pr_bogus"} -> "remediated"
    [] a = "validation_checker" /\ ans = "fixed" -> "validated"
    [] OTHER -> "none"

\* What a model may answer: only the executor claims a PR, only the validator a verdict.
AnswersOf(a) ==
  CASE a = "remediation_executor" -> {"plain", "pr_real", "pr_bogus"}
    [] a = "validation_checker" -> {"plain", "fixed"}
    [] OTHER -> {"plain"}

Busy == \E r \in Run : status[r] = "running"

Goto(t, p) == pc' = [pc EXCEPT ![t] = p]

\* A task that ends forgets its locals.
EndTask(t) ==
  /\ Goto(t, "idle")
  /\ run' = [run EXCEPT ![t] = NoRun]
  /\ answer' = [answer EXCEPT ![t] = "none"]
  /\ verdict' = [verdict EXCEPT ![t] = "absent"]
  /\ seen' = [seen EXCEPT ![t] = "none"]

-----------------------------------------------------------------------------
Init ==
  /\ server = "up"
  /\ status = [r \in Run |-> "absent"]
  /\ parked = [r \in Run |-> FALSE]
  /\ agent = [r \in Run |-> "none"]
  /\ pc = [t \in Task |-> "idle"]
  /\ run = [t \in Task |-> NoRun]
  /\ answer = [t \in Task |-> "none"]
  /\ verdict = [t \in Task |-> "absent"]
  /\ seen = [t \in Task |-> "none"]
  /\ cancelling = {}
  /\ logged = {}
  /\ mirrored = {}
  /\ finding = [status |-> "new", pr_url |-> "none"]

-----------------------------------------------------------------------------
(* execute: from the HTTP request to the model call. *)

\* The route's pre-flight check passes and the background task is spawned; the
\* pre-flight reads (environment, push access) change nothing.
RequestExecute(t) ==
  /\ server = "up"
  /\ pc[t] = "idle"
  /\ ~Busy
  /\ Goto(t, "requested")
  /\ UNCHANGED <<server, rows, locals, cancelling, outputs>>

\* execute's own check: a busy workspace raises AgentBusyError and ends the task.
CheckNotBusy(t) ==
  /\ pc[t] = "requested"
  /\ Goto(t, IF Busy THEN "idle" ELSE "checked")
  /\ UNCHANGED <<server, rows, locals, cancelling, outputs>>

\* The INSERT of a running row, an await after the check.
CreateAgentRun(t) ==
  /\ pc[t] = "checked"
  /\ \E r \in Run, a \in AgentType :
       /\ status[r] = "absent"
       /\ status' = [status EXCEPT ![r] = "running"]
       /\ agent' = [agent EXCEPT ![r] = a]
       /\ run' = [run EXCEPT ![t] = r]
  /\ Goto(t, "inserted")
  /\ UNCHANGED <<server, parked, answer, verdict, seen, cancelling, outputs>>

\* The workspace data is loaded, up to the model call.
StartWork(t) ==
  /\ pc[t] = "inserted"
  /\ Goto(t, "working")
  /\ UNCHANGED <<server, rows, locals, cancelling, outputs>>

\* The model answers without asking for permission.
ModelAnswers(t) ==
  /\ pc[t] = "working"
  /\ \E a \in AnswersOf(agent[run[t]]) : answer' = [answer EXCEPT ![t] = a]
  /\ Goto(t, "verify")
  /\ UNCHANGED <<server, rows, run, verdict, seen, cancelling, outputs>>

\* A gated tool call pauses the run: marker and history go on the row, which keeps its
\* status; the task ends.
ParkForPermission(t) ==
  /\ pc[t] = "working"
  /\ agent[run[t]] = "remediation_executor"
  /\ parked' = [parked EXCEPT ![run[t]] = TRUE]
  /\ EndTask(t)
  /\ UNCHANGED <<server, status, agent, cancelling, outputs>>

-----------------------------------------------------------------------------
(* _finalize_run: verify, persist, advance the finding, close the row. *)

\* Mutation: the claim is believed (no verify_pr_url).
VerifyPrUrlBelieved(t) ==
  /\ pc[t] = "verify"
  /\ Goto(t, "persist")
  /\ verdict' = [verdict EXCEPT ![t] = "completed"]
  /\ UNCHANGED <<server, rows, run, answer, seen, cancelling, outputs>>

\* Mutation: a refused claim skips persistence but not the green status.
VerifyPrUrlGreen(t) ==
  /\ pc[t] = "verify"
  /\ Goto(t, IF answer[t] = "pr_bogus" THEN "close" ELSE "persist")
  /\ verdict' = [verdict EXCEPT ![t] = "completed"]
  /\ UNCHANGED <<server, rows, run, answer, seen, cancelling, outputs>>

\* A claimed PR is fetched from GitHub: one that does not exist is always refused, and a
\* real one may be (network, 401, 403, 301).  Refused output is never persisted.
VerifyPrUrl(t) ==
  /\ pc[t] = "verify"
  /\ \/ /\ answer[t] # "pr_bogus"
        /\ Goto(t, "persist")
        /\ verdict' = [verdict EXCEPT ![t] = "completed"]
     \/ /\ answer[t] \in {"pr_real", "pr_bogus"}
        /\ Goto(t, "close")
        /\ verdict' = [verdict EXCEPT ![t] = "failed"]
  /\ UNCHANGED <<server, rows, run, answer, seen, cancelling, outputs>>

\* Context section and agent-runs.jsonl.
UpdateContext(t) ==
  /\ pc[t] = "persist"
  /\ logged' = logged \cup {run[t]}
  /\ Goto(t, "sidebar")
  /\ UNCHANGED <<server, rows, locals, cancelling, mirrored, finding>>

MapAndUpsert(t) ==
  /\ pc[t] = "sidebar"
  /\ mirrored' = mirrored \cup {run[t]}
  /\ Goto(t, "read_finding")
  /\ UNCHANGED <<server, rows, locals, cancelling, logged, finding>>

\* _advance_finding_status up to its forward-only comparison, on the row read here.
ReadFinding(t) ==
  /\ pc[t] = "read_finding"
  /\ LET target == AdvanceTarget(agent[run[t]], answer[t]) IN
       IF target # "none" /\ StatusOrdinal(target) > StatusOrdinal(finding.status)
         THEN /\ Goto(t, "write_finding")
              /\ seen' = [seen EXCEPT ![t] = finding.pr_url]
              /\ UNCHANGED answer
         ELSE /\ Goto(t, "close")
              /\ answer' = [answer EXCEPT ![t] = "none"]
              /\ UNCHANGED seen
  /\ UNCHANGED <<server, rows, run, verdict, cancelling, outputs>>

\* Its UPDATE, an await later: the status, and the PR of the executor if none was seen.
WriteFinding(t) ==
  /\ pc[t] = "write_finding"
  /\ finding' =
       [status |-> AdvanceTarget(agent[run[t]], answer[t]),
        pr_url |-> IF agent[run[t]] = "remediation_executor" /\ seen[t] = "none"
                     THEN IF answer[t] = "pr_real" THEN "verified" ELSE "bogus"
                     ELSE finding.pr_url]
  /\ Goto(t, "close")
  /\ answer' = [answer EXCEPT ![t] = "none"]
  /\ seen' = [seen EXCEPT ![t] = "none"]
  /\ UNCHANGED <<server, rows, run, verdict, cancelling, logged, mirrored>>

\* The row's terminal status, written whatever the row holds by then.
CloseRun(t) ==
  /\ pc[t] = "close"
  /\ status' = [status EXCEPT ![run[t]] = verdict[t]]
  /\ EndTask(t)
  /\ UNCHANGED <<server, parked, agent, cancelling, outputs>>

-----------------------------------------------------------------------------
(* The exception handlers of execute and resume_executor:  the run's row is closed. *)

\* A timeout, a provider error or a 429 in the model call; any exception in the steps
\* that persist or close the row.
Raise(t) ==
  /\ \/ /\ pc[t] = "working"
        /\ \E v \in {"failed", "rate_limited"} : verdict' = [verdict EXCEPT ![t] = v]
     \/ /\ pc[t] \in {"verify", "persist", "sidebar", "read_finding", "write_finding", "close"}
        /\ verdict' = [verdict EXCEPT ![t] = "failed"]
  /\ Goto(t, "fail")
  /\ UNCHANGED <<server, rows, run, answer, seen, cancelling, outputs>>

\* Mutation: the handler returns its result without the UPDATE.
FailRunUnwritten(t) ==
  /\ pc[t] = "fail"
  /\ EndTask(t)
  /\ UNCHANGED <<server, rows, cancelling, outputs>>

FailRun(t) ==
  /\ pc[t] = "fail"
  /\ status' = [status EXCEPT ![run[t]] = verdict[t]]
  /\ EndTask(t)
  /\ UNCHANGED <<server, parked, agent, cancelling, outputs>>

-----------------------------------------------------------------------------
(* Permission: POST .../permission and resume_executor. *)

\* The route checks the marker, and nothing else of the row, and spawns the task.
RespondToPermission(t) ==
  /\ server = "up"
  /\ pc[t] = "idle"
  /\ \E r \in Run :
       /\ parked[r]
       /\ run' = [run EXCEPT ![t] = r]
  /\ Goto(t, "resume_requested")
  /\ UNCHANGED <<server, rows, answer, verdict, seen, cancelling, outputs>>

\* Mutation: the marker is not looked at again.
ResumeReadUnchecked(t) ==
  /\ pc[t] = "resume_requested"
  /\ Goto(t, "resume_read")
  /\ UNCHANGED <<server, rows, locals, cancelling, outputs>>

\* resume_executor reads the row; without a marker it raises outside its try block.
ResumeRead(t) ==
  /\ pc[t] = "resume_requested"
  /\ \/ /\ parked[run[t]]
        /\ Goto(t, "resume_read")
        /\ UNCHANGED locals
     \/ /\ ~parked[run[t]]
        /\ EndTask(t)
  /\ UNCHANGED <<server, rows, cancelling, outputs>>

\* The message history is a second read: another resume may have cleared it by now.
ResumeReadHistory(t) ==
  /\ pc[t] = "resume_read"
  /\ Goto(t, IF parked[run[t]] THEN "resume_history" ELSE "resume_nohistory")
  /\ UNCHANGED <<server, rows, locals, cancelling, outputs>>

\* Mutation: a missing history raises outside the try block, past the handlers.
ResumeClearEscaping(t) ==
  /\ pc[t] \in {"resume_history", "resume_nohistory"}
  /\ parked' = [parked EXCEPT ![run[t]] = FALSE]
  /\ IF pc[t] = "resume_history"
       THEN Goto(t, "working") /\ UNCHANGED locals
       ELSE EndTask(t)
  /\ UNCHANGED <<server, status, agent, cancelling, outputs>>

\* The marker is cleared; without a history the run fails, else the model is re-entered.
ResumeClear(t) ==
  /\ pc[t] \in {"resume_history", "resume_nohistory"}
  /\ parked' = [parked EXCEPT ![run[t]] = FALSE]
  /\ IF pc[t] = "resume_history"
       THEN Goto(t, "working") /\ UNCHANGED verdict
       ELSE /\ Goto(t, "fail")
            /\ verdict' = [verdict EXCEPT ![t] = "failed"]
  /\ UNCHANGED <<server, status, agent, run, answer, seen, cancelling, outputs>>

-----------------------------------------------------------------------------
(* Users. *)

\* POST .../cancel reads the row and requires 'running' ...
CancelCheck(r) ==
  /\ server = "up"
  /\ status[r] = "running"
  /\ r \notin cancelling
  /\ cancelling' = cancelling \cup {r}
  /\ UNCHANGED <<server, rows, pc, locals, outputs>>

\* Mutation: a status outside the AgentRunStatus literal.
CancelWriteMisspelt(r) ==
  /\ r \in cancelling
  /\ cancelling' = cancelling \ {r}
  /\ status' = [status EXCEPT ![r] = "canceled"]
  /\ UNCHANGED <<server, parked, agent, pc, locals, outputs>>

\* ... and an await later writes 'cancelled': the row, not the task, not the marker.
CancelWrite(r) ==
  /\ r \in cancelling
  /\ cancelling' = cancelling \ {r}
  /\ status' = [status EXCEPT ![r] = "cancelled"]
  /\ UNCHANGED <<server, parked, agent, pc, locals, outputs>>

\* PATCH /findings/{id}: a status or a pr_url of the user's choice.
PatchFinding ==
  /\ server = "up"
  /\ \/ \E s \in UserStatus \ {finding.status} : finding' = [finding EXCEPT !.status = s]
     \/ \E u \in UserPrUrl \ {finding.pr_url} : finding' = [finding EXCEPT !.pr_url = u]
  /\ UNCHANGED <<server, rows, pc, locals, cancelling, logged, mirrored>>

-----------------------------------------------------------------------------
(* The process dies with every task and handler; the next boot reconciles. *)

Crash ==
  /\ server = "up"
  /\ server' = "down"
  /\ pc' = [t \in Task |-> "idle"]
  /\ run' = [t \in Task |-> NoRun]
  /\ answer' = [t \in Task |-> "none"]
  /\ verdict' = [t \in Task |-> "absent"]
  /\ seen' = [t \in Task |-> "none"]
  /\ cancelling' = {}
  /\ UNCHANGED <<rows, outputs>>

\* Mutation: the UPDATE loses its WHERE clause.
BootEveryRow ==
  /\ server = "down"
  /\ server' = "up"
  /\ status' = [r \in Run |-> IF status[r] = "absent" THEN "absent" ELSE "failed"]
  /\ parked' = [r \in Run |-> FALSE]
  /\ UNCHANGED <<agent, pc, locals, cancelling, outputs>>

\* reconcile_orphaned_agent_runs, in lifespan before the first request.
Boot ==
  /\ server = "down"
  /\ server' = "up"
  /\ status' = [r \in Run |-> IF status[r] = "running" THEN "failed" ELSE status[r]]
  /\ parked' = [r \in Run |-> parked[r] /\ status[r] # "running"]
  /\ UNCHANGED <<agent, pc, locals, cancelling, outputs>>

-----------------------------------------------------------------------------
Execute(t) ==
  \/ CheckNotBusy(t) \/ CreateAgentRun(t) \/ StartWork(t)
  \/ ModelAnswers(t) \/ ParkForPermission(t)

Finalize(t) ==
  \/ VerifyPrUrl(t) \/ UpdateContext(t) \/ MapAndUpsert(t) \/ ReadFinding(t)
  \/ WriteFinding(t) \/ CloseRun(t) \/ Raise(t) \/ FailRun(t)

Resume(t) == ResumeRead(t) \/ ResumeReadHistory(t) \/ ResumeClear(t)

\* What a spawned task does by itself.
TaskStep(t) == Execute(t) \/ Finalize(t) \/ Resume(t)

User ==
  \/ \E t \in Task : RequestExecute(t) \/ RespondToPermission(t)
  \/ \E r \in Run : CancelCheck(r) \/ CancelWrite(r)
  \/ PatchFinding

Next == (\E t \in Task : TaskStep(t)) \/ User \/ Crash \/ Boot

Spec == Init /\ [][Next]_vars

(* Fairness: the event loop runs every ready coroutine, each await of a task ends (the   *)
(* model call by its timeout, PR verification by its HTTP timeout), and a supervisor     *)
(* restarts the process.  Users owe nothing.                                             *)
Fairness == WF_vars(Boot) /\ \A t \in Task : WF_vars(TaskStep(t))

FairSpec == Spec /\ Fairness
-----------------------------------------------------------------------------
(* Properties. *)

TypeOK ==
  /\ server \in {"up", "down"}
  /\ status \in [Run -> RowStatus]
  /\ parked \in [Run -> BOOLEAN]
  /\ agent \in [Run -> AgentType \cup {"none"}]
  /\ pc \in [Task -> PcSet]
  /\ run \in [Task -> Run \cup {NoRun}]
  /\ answer \in [Task -> Answer]
  /\ verdict \in [Task -> RowStatus]
  /\ seen \in [Task -> PrUrl]
  /\ cancelling \subseteq Run
  /\ logged \subseteq Run
  /\ mirrored \subseteq Run
  /\ finding \in [status : FindingStatus, pr_url : PrUrl]

Owns(t, r) == pc[t] \in Owning /\ run[t] = r
Owned(r) == \E t \in Task : Owns(t, r)

\* A resume request that has not yet read the row may still revive a parked run.
Reviving(r) == \E t \in Task : pc[t] = "resume_requested" /\ run[t] = r

\* No wedged run: while the server is up, a running row that waits for no permission is
\* driven by a live task.  The workspace is busy exactly as long as somebody will end it
\* or the user is asked; a restart included (executor.resume_executor's catch-all and
\* reconcile_orphaned_agent_runs are there for this).
NoWedgedRun ==
  server = "up" =>
    \A r \in Run : status[r] = "running" /\ ~parked[r] => Owned(r)

\* A green row means its output reached both stores: 'completed' is never written for a
\* run whose context section or sidebar merge did not happen (_finalize_run, step 9).
CompletedIsPersisted ==
  \A r \in Run : status[r] = "completed" => r \in logged /\ r \in mirrored

\* A pull request the model made up never reaches the finding through _advance_finding_status
\* (B16, "verified live on GitHub"): not even when runs overlap, are cancelled or are resumed
\* twice.  (Closing the workspace copies a pr_url too: not part of this model.)
NoHallucinatedPr == finding.pr_url # "bogus"

\* A terminal row that nobody drives, nobody is cancelling and nobody can resume is over:
\* no later step writes it, a restart included.
Over(r) ==
  /\ status[r] \notin {"absent", "running"} /\ ~parked[r]
  /\ ~Owned(r) /\ ~Reviving(r) /\ r \notin cancelling
OverIsFinal ==
  [][\A r \in Run : Over(r) => status'[r] = status[r] /\ parked'[r] = parked[r]]_vars

\* Every running row ends, or pauses for the user: the poller's "generating" stage is
\* never forever.
EveryRunSettles ==
  \A r \in Run : status[r] = "running" ~> status[r] # "running" \/ parked[r]

-----------------------------------------------------------------------------
(* What comments and docstrings say, and the code does not do. *)

\* "Clear the marker up front so a duplicate POST can't double-resume"
\* (resume_executor): a parked run is driven by one task at a time.
NoDoubleResume ==
  \A t1, t2 \in Task : \A r \in Run :
    Owns(t1, r) /\ Owns(t2, r) => t1 = t2

-----------------------------------------------------------------------------
(* What a run looks like to a poller: see RunLifecycle. *)

Phase(r) ==
  IF status[r] = "absent" THEN "unborn"
  ELSE IF Owned(r) THEN "live"
  ELSE IF parked[r] THEN "parked"
  ELSE "over"

Lifecycle == INSTANCE RunLifecycle WITH phase <- [r \in Run |-> Phase(r)]

LifecycleSpec == Lifecycle!Spec
=============================================================================
