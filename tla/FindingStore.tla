---------------------------- MODULE FindingStore ----------------------------
(***************************************************************************)
(* The finding and workspace tables and the HTTP handlers that write them: *)
(* create-or-return of a workspace (POST /workspaces and POST triage),     *)
(* closing and deleting one, and the user's edits of a finding.  Scanner   *)
(* writes are in AssessmentRun, which extends this module.                 *)
(*                                                                         *)
(* A handler is a coroutine on one SQLite connection: each action is what  *)
(* it does between two awaits, and req[r].pc names the await it is at.     *)
(***************************************************************************)
EXTENDS Naturals, FiniteSets

CONSTANTS
  Finding,     \* (source_type, source_id) keys: the UNIQUE key of the finding table
  Source,      \* [Finding -> source_type]
  Workspace,   \* ids of workspace rows: a bound on the rows created
  Request,     \* slots for handlers in flight: a bound on them
  Assessment,  \* ids of assessment rows
  UserStatus,  \* the statuses a user PATCHes onto a finding
  MaxUserOps,  \* a bound on the user's requests
  None         \* the absence of an id

Sources == <<"trivy", "trivy-secret", "semgrep", "posture">>
SourceSet == {Sources[i] : i \in DOMAIN Sources}

FindingStatus ==
  {"new", "triaged", "in_progress", "remediated", "validated", "closed", "exception", "passed"}

ASSUME SourceType == Source \in [Finding -> SourceSet]
ASSUME UserStatusType == UserStatus \subseteq FindingStatus
ASSUME NoneIsNone == None \notin Workspace \cup Assessment
ASSUME MaxUserOpsType == MaxUserOps \in Nat

VARIABLES
  finding,    \* the rows: status, the assessment that last reported it, pr_url, and the
              \* assessment in its auto_closed note
  workspace,  \* the rows: finding_id, state, whether workspace_dir is stored, whether an
              \* executor run of it recorded a pr_url
  dirs,       \* workspace directories on disk
  req,        \* the handlers in flight
  ops         \* user requests so far

storeVars == <<finding, workspace, dirs, req, ops>>

\* The statuses a rescan leaves alone on a row that is not a posture check.
UserLifecycle == {"triaged", "in_progress", "remediated", "validated", "closed", "exception"}
MidFlight == {"new", "triaged", "in_progress", "remediated"}

NoFinding == [status |-> "absent", scan |-> None, pr |-> "none", note |-> None]
NoWorkspace == [finding |-> None, state |-> "absent", dir |-> FALSE, runPr |-> FALSE]
Deleted == [NoWorkspace EXCEPT !.state = "deleted"]   \* a uuid4 is never used again
Idle == [pc |-> "idle", finding |-> None, workspace |-> None, advance |-> FALSE, pr |-> "none"]

-----------------------------------------------------------------------------
(* Helpers. *)

Exists(f) == finding[f].status # "absent"
IsRow(w) == workspace[w].state \notin {"absent", "deleted"}
WorkspacesOf(f) == {w \in Workspace : workspace[w].finding = f}

SetFinding(f, row) == finding' = [finding EXCEPT ![f] = row]
SetStatus(f, s) == SetFinding(f, [finding[f] EXCEPT !.status = s])
Goto(r, p) == req' = [req EXCEPT ![r].pc = p]
End(r) == req' = [req EXCEPT ![r] = Idle]

\* One more request of the user.
UserOp == ops < MaxUserOps /\ ops' = ops + 1

\* UPDATE ... WHERE status IN ('new', 'triaged').
MarkStarted(f) ==
  IF finding[f].status \in {"new", "triaged"} THEN SetStatus(f, "in_progress")
                                              ELSE UNCHANGED finding

\* Some findings were imported (POST /findings) before the first assessment.
StoreInit ==
  /\ finding \in [Finding -> {NoFinding, [NoFinding EXCEPT !.status = "new"]}]
  /\ workspace = [w \in Workspace |-> NoWorkspace]
  /\ dirs = {}
  /\ req = [r \in Request |-> Idle]
  /\ ops = 0

-----------------------------------------------------------------------------
(* Create-or-return a workspace for a finding. *)

\* Both routes read the finding and its newest workspace.  POST /workspaces answers with one
\* that exists, starting the finding again; triage creates one without advancing it.
PostWorkspace(r, f, advance) ==
  /\ req[r].pc = "idle" /\ UserOp
  /\ Exists(f)
  /\ IF WorkspacesOf(f) = {}
       THEN /\ req' = [req EXCEPT ![r] = [Idle EXCEPT !.pc = "insert", !.finding = f,
                                                      !.advance = advance]]
            /\ UNCHANGED finding
       ELSE /\ UNCHANGED req
            /\ IF advance THEN MarkStarted(f) ELSE UNCHANGED finding
  /\ UNCHANGED <<workspace, dirs>>

\* The INSERT fails on the foreign key when the finding is gone: the handler answers 500.
InsertWorkspace(r) ==
  /\ req[r].pc = "insert"
  /\ IF Exists(req[r].finding)
       THEN \E w \in Workspace :
              /\ workspace[w].state = "absent"
              /\ workspace' = [workspace EXCEPT ![w] = [NoWorkspace EXCEPT
                                 !.finding = req[r].finding, !.state = "open"]]
              /\ req' = [req EXCEPT ![r].pc = "start", ![r].workspace = w]
       ELSE /\ End(r)
            /\ UNCHANGED workspace
  /\ UNCHANGED <<finding, dirs, ops>>

StartFinding(r) ==
  /\ req[r].pc = "start"
  /\ IF req[r].advance THEN MarkStarted(req[r].finding) ELSE UNCHANGED finding
  /\ Goto(r, "mkdir")
  /\ UNCHANGED <<workspace, dirs, ops>>

\* mkdir may fail: the row stays, without a directory.
CreateDir(r) ==
  /\ req[r].pc = "mkdir"
  /\ \/ dirs' = dirs \cup {req[r].workspace} /\ Goto(r, "store")
     \/ End(r) /\ UNCHANGED dirs
  /\ UNCHANGED <<finding, workspace, ops>>

StoreDir(r) ==
  /\ req[r].pc = "store"
  /\ LET w == req[r].workspace
     IN  IF IsRow(w) THEN workspace' = [workspace EXCEPT ![w].dir = TRUE]
                     ELSE UNCHANGED workspace
  /\ End(r)
  /\ UNCHANGED <<finding, dirs, ops>>

-----------------------------------------------------------------------------
(* Close and delete a workspace. *)

\* PATCH with a state: closing it goes on to resolve the finding.
PatchWorkspace(r, w, state) ==
  /\ req[r].pc = "idle" /\ UserOp
  /\ IsRow(w)
  /\ workspace' = [workspace EXCEPT ![w].state = state]
  /\ IF state = "closed"
       THEN req' = [req EXCEPT ![r] = [Idle EXCEPT !.pc = "reconcile", !.workspace = w,
                                                   !.finding = workspace[w].finding]]
       ELSE UNCHANGED req
  /\ UNCHANGED <<finding, dirs>>

\* The pr_url to copy: the newest executor run's, unless the finding has one already.
ReconcilePrUrl(r) ==
  /\ req[r].pc = "reconcile"
  /\ LET f == req[r].finding
         copy == finding[f].pr = "none" /\ IsRow(req[r].workspace)
                   /\ workspace[req[r].workspace].runPr
     IN  req' = [req EXCEPT ![r].pc = "resolve", ![r].pr = IF copy THEN "run" ELSE "none"]
  /\ UNCHANGED <<finding, workspace, dirs, ops>>

\* UPDATE ... SET status = 'validated' WHERE status is mid-flight.
MarkResolved(r) ==
  /\ req[r].pc = "resolve"
  /\ LET f == req[r].finding
     IN  IF finding[f].status \in MidFlight
           THEN SetFinding(f, [finding[f] EXCEPT !.status = "validated",
                                 !.pr = IF req[r].pr = "run" THEN "run" ELSE @])
           ELSE UNCHANGED finding
  /\ End(r)
  /\ UNCHANGED <<workspace, dirs, ops>>

\* The directory goes first, in one synchronous call, the row an await later.
DeleteDir(r, w) ==
  /\ req[r].pc = "idle" /\ UserOp
  /\ IsRow(w)
  /\ dirs' = dirs \ {w}
  /\ req' = [req EXCEPT ![r] = [Idle EXCEPT !.pc = "delete", !.workspace = w]]
  /\ UNCHANGED <<finding, workspace>>

DeleteRow(r) ==
  /\ req[r].pc = "delete"
  /\ workspace' = [workspace EXCEPT ![req[r].workspace] = Deleted]
  /\ End(r)
  /\ UNCHANGED <<finding, dirs, ops>>

-----------------------------------------------------------------------------
(* The user's edits of a finding, each one UPDATE. *)

PatchFinding(f, s) ==
  /\ UserOp /\ Exists(f)
  /\ SetStatus(f, s)
  /\ UNCHANGED <<workspace, dirs, req>>

PatchPrUrl(f) ==
  /\ UserOp /\ Exists(f)
  /\ SetFinding(f, [finding[f] EXCEPT !.pr = "user"])
  /\ UNCHANGED <<workspace, dirs, req>>

RejectFinding(f) ==
  /\ UserOp /\ Exists(f)
  /\ SetStatus(f, "exception")
  /\ UNCHANGED <<workspace, dirs, req>>

\* The foreign key of a workspace row refuses the DELETE.
DeleteFinding(f) ==
  /\ UserOp /\ Exists(f)
  /\ WorkspacesOf(f) = {}
  /\ SetFinding(f, NoFinding)
  /\ UNCHANGED <<workspace, dirs, req>>

\* External: an executor run of the workspace records a pull request.
RecordPrUrl(w) ==
  /\ IsRow(w) /\ ~ workspace[w].runPr
  /\ workspace' = [workspace EXCEPT ![w].runPr = TRUE]
  /\ UNCHANGED <<finding, dirs, req, ops>>

HandlerStep(r) ==
  \/ InsertWorkspace(r) \/ StartFinding(r) \/ CreateDir(r) \/ StoreDir(r)
  \/ ReconcilePrUrl(r) \/ MarkResolved(r) \/ DeleteRow(r)

UserStep ==
  \/ \E f \in Finding :
       \/ \E s \in UserStatus : PatchFinding(f, s)
       \/ PatchPrUrl(f) \/ RejectFinding(f) \/ DeleteFinding(f)
  \/ \E r \in Request :
       \/ \E f \in Finding, advance \in BOOLEAN : PostWorkspace(r, f, advance)
       \/ \E w \in Workspace :
            \/ \E s \in {"closed", "reopened"} : PatchWorkspace(r, w, s)
            \/ DeleteDir(r, w)

StoreTypeOK ==
  /\ finding \in [Finding -> [status : FindingStatus \cup {"absent"},
                              scan : Assessment \cup {None},
                              pr : {"none", "user", "run"}, note : Assessment \cup {None}]]
  /\ workspace \in [Workspace -> [finding : Finding \cup {None}, dir : BOOLEAN, runPr : BOOLEAN,
                                  state : {"absent", "deleted", "open", "closed", "reopened"}]]
  /\ dirs \subseteq Workspace
  /\ req \in [Request -> [pc : {"idle", "insert", "start", "mkdir", "store", "reconcile",
                                "resolve", "delete"},
                          finding : Finding \cup {None}, workspace : Workspace \cup {None},
                          advance : BOOLEAN, pr : {"none", "run"}]]
  /\ ops \in 0 .. MaxUserOps
=============================================================================
