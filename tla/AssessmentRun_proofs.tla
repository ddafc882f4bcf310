------------------------ MODULE AssessmentRun_proofs ------------------------
(***************************************************************************)
(* The safety of AssessmentRun for every set of findings, workspaces,      *)
(* requests, assessments and repositories.  IInv is the inductive          *)
(* invariant: how far a run has come says what its row, its report and the *)
(* findings it closes look like.                                           *)
(***************************************************************************)
EXTENDS AssessmentRun, TLAPS

FindingRow ==
  [status : FindingStatus \cup {"absent"}, scan : Assessment \cup {None},
   pr : {"none", "user", "run"}, note : Assessment \cup {None}]
WorkspaceRow ==
  [finding : Finding \cup {None}, dir : BOOLEAN, runPr : BOOLEAN,
   state : {"absent", "deleted", "open", "closed", "reopened"}]
HandlerRow ==
  [pc : {"idle", "insert", "start", "mkdir", "store", "reconcile", "resolve", "delete"},
   finding : Finding \cup {None}, workspace : Workspace \cup {None}, advance : BOOLEAN,
   pr : {"none", "run"}]
\* A handler that is to make a directory has inserted the row it is for.
Handler == {h \in HandlerRow : h.pc \in {"start", "mkdir"} => h.workspace \in Workspace}
AssessmentRow ==
  [status : {"absent", "pending", "running", "complete", "failed"}, repo : Repo \cup {None},
   error : ErrorKind \cup {"none"}, met : BOOLEAN, stale : BOOLEAN]
Task ==
  [pc : TaskPc, todo : SUBSET Finding, source : 1 .. 4, victims : SUBSET Finding, met : BOOLEAN]
Report == [seen : SUBSET Finding, ran : SUBSET SourceSet, passed : SUBSET Finding]

Handled ==
  /\ workspace \in [Workspace -> WorkspaceRow]
  /\ dirs \subseteq Workspace
  /\ req \in [Request -> Handler]
  /\ ops \in 0 .. MaxUserOps
Driven ==
  /\ up \in BOOLEAN
  /\ assess \in [Assessment -> AssessmentRow]
  /\ task \in [Assessment -> Task]
  /\ report \in [Assessment -> Report]
  /\ awarded \subseteq Assessment
  /\ crashes \in 0 .. MaxCrashes
Typed == finding \in [Finding -> FindingRow] /\ Handled /\ Driven

\* The scan is still to be made, or being made.
Scanning == {"none", "queued", "clone", "trivy", "semgrep", "posture"}
AnotherOf(a) == \E b \in Assessment \ {a} : assess[b].repo = assess[a].repo

\* A row has a task, from the task's first step to its last.
RowHasTask(a) ==
  /\ assess[a].status = "absent" <=> task[a].pc = "none"
  /\ assess[a].status = "absent" <=> assess[a].repo = None

\* Only the result completes a row, and only the completion comes after it; a failed row was
\* given a reason.
RowFollowsTask(a) ==
  /\ assess[a].status = "complete" => task[a].pc \in {"completion", "done"}
  /\ task[a].pc = "completion" => assess[a].status = "complete" /\ assess[a].met
  /\ assess[a].status = "failed" => assess[a].error # "none"

AwardIsEarned(a) ==
  a \in awarded => task[a].pc = "done" /\ assess[a].status = "complete" /\ assess[a].met

\* A close pass is at rows of one source, which ran and did not report them.
PassIsJustified(a) ==
  task[a].pc = "closing" =>
    /\ task[a].source \in 1 .. 3
    /\ Sources[task[a].source] \in report[a].ran
    /\ task[a].victims \subseteq Of(Sources[task[a].source]) \ report[a].seen
    /\ AnotherOf(a)

RunInv(a) == RowHasTask(a) /\ RowFollowsTask(a) /\ AwardIsEarned(a) /\ PassIsJustified(a)

\* A note names an assessment whose report is final.
NoteIsFinal(f) ==
  LET a == finding[f].note
  IN  a # None =>
        /\ task[a].pc \notin Scanning
        /\ Source[f] \in report[a].ran /\ f \notin report[a].seen
        /\ AnotherOf(a)

IInv ==
  /\ Typed
  /\ \A a \in Assessment : RunInv(a)
  /\ \A f \in Finding : NoteIsFinal(f)

-----------------------------------------------------------------------------
(* The updates of a finding. *)

LEMMA SetFindingUpdate ==
  ASSUME Typed, NEW f, NEW row, SetFinding(f, row), f \in Finding => row \in FindingRow
  PROVE  /\ finding' \in [Finding -> FindingRow]
         /\ \A g \in Finding \ {f} : finding'[g] = finding[g]
         /\ f \in Finding => finding'[f] = row
BY DEF Typed, SetFinding

LEMMA StatusUpdate ==
  ASSUME NEW row \in FindingRow, NEW s \in FindingStatus
  PROVE  /\ [row EXCEPT !.status = s] \in FindingRow
         /\ [row EXCEPT !.status = s].status = s
         /\ [row EXCEPT !.status = s].note = row.note
BY DEF FindingRow

LEMMA PrUpdate ==
  ASSUME NEW row \in FindingRow
  PROVE  /\ [row EXCEPT !.pr = "user"] \in FindingRow
         /\ [row EXCEPT !.pr = "user"].status = row.status
         /\ [row EXCEPT !.pr = "user"].note = row.note
BY DEF FindingRow

LEMMA ResolveUpdate ==
  ASSUME NEW row \in FindingRow, NEW c
  PROVE  /\ [row EXCEPT !.status = "validated", !.pr = IF c THEN "run" ELSE @] \in FindingRow
         /\ [row EXCEPT !.status = "validated", !.pr = IF c THEN "run" ELSE @].note = row.note
BY DEF FindingRow, FindingStatus

LEMMA CloseUpdate ==
  ASSUME NEW row \in FindingRow, NEW a \in Assessment
  PROVE  /\ [row EXCEPT !.status = "closed", !.note = a] \in FindingRow
         /\ [row EXCEPT !.status = "closed", !.note = a].status = "closed"
         /\ [row EXCEPT !.status = "closed", !.note = a].note = a
BY DEF FindingRow, FindingStatus

LEMMA UpsertUpdate ==
  ASSUME NEW f \in Finding, NEW a \in Assessment, NEW s \in {"new", "passed"},
         finding \in [Finding -> FindingRow]
  PROVE  /\ Upserted(f, a, s) \in FindingRow
         /\ Upserted(f, a, s).note \in {None, finding[f].note}
         /\ Source[f] # "posture" /\ finding[f].status \in UserLifecycle
              => Upserted(f, a, s).status = finding[f].status
<1>1. CASE ~ Exists(f)
  BY <1>1 DEF Upserted, NoFinding, FindingRow, FindingStatus, Exists, UserLifecycle
<1>2. CASE Exists(f)
  <2> DEFINE t == IF Source[f] # "posture" /\ finding[f].status \in UserLifecycle
                    THEN finding[f].status ELSE s
  <2>1. finding[f] \in FindingRow /\ t \in FindingStatus \cup {"absent"}
    BY <1>2 DEF FindingRow, FindingStatus
  <2>2. Upserted(f, a, s) = [finding[f] EXCEPT !.scan = a, !.status = t]
    BY <1>2 DEF Upserted
  <2> HIDE DEF t
  <2>3. /\ [finding[f] EXCEPT !.scan = a, !.status = t] \in FindingRow
        /\ [finding[f] EXCEPT !.scan = a, !.status = t].note = finding[f].note
        /\ [finding[f] EXCEPT !.scan = a, !.status = t].status = t
    BY <2>1 DEF FindingRow
  <2>4. Source[f] # "posture" /\ finding[f].status \in UserLifecycle => t = finding[f].status
    BY DEF t
  <2>5. QED
    BY <2>2, <2>3, <2>4
<1>3. QED
  BY <1>1, <1>2

-----------------------------------------------------------------------------
(* The steps of FindingStore. *)

\* What a step may do to a finding: it writes no note, and it leaves a decision alone unless
\* the user asks.
NotesKept == \A f \in Finding : finding'[f].note \in {None, finding[f].note}
Decided == {"validated", "closed", "exception"}
DecisionsKept ==
  \A f \in Finding :
    Source[f] # "posture" /\ finding[f].status \in Decided => finding'[f].status = finding[f].status
Gentle == finding' \in [Finding -> FindingRow] /\ NotesKept /\ (DecisionsKept \/ ops' = ops + 1)

LEMMA UntouchedIsGentle == Typed /\ UNCHANGED finding => Gentle
BY DEF Typed, Gentle, NotesKept, DecisionsKept

LEMMA MarkStartedIsGentle == ASSUME Typed, NEW f, MarkStarted(f) PROVE Gentle
<1>1. CASE finding[f].status \in {"new", "triaged"}
  <2> DEFINE row == [finding[f] EXCEPT !.status = "in_progress"]
  <2>1. SetFinding(f, row)
    BY <1>1 DEF MarkStarted, SetStatus
  <2>2. f \in Finding => row \in FindingRow /\ row.note = finding[f].note
    BY StatusUpdate DEF Typed, FindingStatus
  <2> HIDE DEF row
  <2>3. QED
    BY <1>1, <2>1, <2>2, SetFindingUpdate DEF Gentle, NotesKept, DecisionsKept, Decided
<1>2. CASE finding[f].status \notin {"new", "triaged"}
  BY <1>2, UntouchedIsGentle DEF MarkStarted
<1>3. QED
  BY <1>1, <1>2

LEMMA GotoUpdate ==
  ASSUME Typed, NEW r \in Request,
         NEW p \in {"idle", "insert", "start", "mkdir", "store", "reconcile", "resolve", "delete"},
         Goto(r, p), p \in {"start", "mkdir"} => req[r].workspace \in Workspace
  PROVE  req' \in [Request -> Handler]
BY DEF Typed, Handled, Handler, HandlerRow, Goto

LEMMA IdleIs == Idle \in Handler
BY DEF Idle, Handler, HandlerRow

LEMMA EndUpdate == ASSUME Typed, NEW r \in Request, End(r) PROVE req' \in [Request -> Handler]
BY IdleIs DEF Typed, Handled, End

LEMMA UserOpUpdate == Typed /\ UserOp => ops' \in 0 .. MaxUserOps /\ ops' = ops + 1
BY MaxUserOpsType DEF Typed, Handled, UserOp

StoreKept == Gentle /\ Handled'

LEMMA PostWorkspaceKeeps ==
  ASSUME Typed, NEW r \in Request, NEW f \in Finding, NEW advance \in BOOLEAN,
         PostWorkspace(r, f, advance)
  PROVE  StoreKept
<1> DEFINE new == [Idle EXCEPT !.pc = "insert", !.finding = f, !.advance = advance]
<1>1. new \in Handler
  BY DEF Idle, Handler, HandlerRow
<1>2. \/ req' = [req EXCEPT ![r] = new] /\ UNCHANGED finding
      \/ UNCHANGED req /\ (UNCHANGED finding \/ MarkStarted(f))
  BY DEF PostWorkspace
<1> HIDE DEF new
<1>3. req' \in [Request -> Handler] /\ Gentle
  BY <1>1, <1>2, UntouchedIsGentle, MarkStartedIsGentle DEF Typed, Handled
<1>4. QED
  BY <1>3, UserOpUpdate DEF PostWorkspace, StoreKept, Handled, Typed

LEMMA InsertWorkspaceKeeps ==
  ASSUME Typed, NEW r \in Request, InsertWorkspace(r)
  PROVE  StoreKept
<1>1. CASE Exists(req[r].finding)
  <2>1. PICK w \in Workspace :
          /\ workspace' = [workspace EXCEPT ![w] = [NoWorkspace EXCEPT
                             !.finding = req[r].finding, !.state = "open"]]
          /\ req' = [req EXCEPT ![r].pc = "start", ![r].workspace = w]
    BY <1>1 DEF InsertWorkspace
  <2> DEFINE new == [NoWorkspace EXCEPT !.finding = req[r].finding, !.state = "open"]
  <2>2. new \in WorkspaceRow
    BY DEF NoWorkspace, WorkspaceRow, Typed, Handled, Handler, HandlerRow
  <2> HIDE DEF new
  <2>3. workspace' \in [Workspace -> WorkspaceRow]
    BY <2>1, <2>2 DEF Typed, Handled, new
  <2>4. req' \in [Request -> Handler]
    BY <2>1 DEF Typed, Handled, Handler, HandlerRow
  <2>5. QED
    BY <2>3, <2>4, UntouchedIsGentle DEF InsertWorkspace, StoreKept, Typed, Handled
<1>2. CASE ~ Exists(req[r].finding)
  BY <1>2, EndUpdate, UntouchedIsGentle DEF InsertWorkspace, StoreKept, Typed, Handled
<1>3. QED
  BY <1>1, <1>2

LEMMA HandlerKeeps ==
  ASSUME Typed, NEW r \in Request, HandlerStep(r)
  PROVE  StoreKept
<1>1. CASE InsertWorkspace(r)
  BY <1>1, InsertWorkspaceKeeps
<1>2. CASE StartFinding(r)
  <2>1. Gentle
    BY <1>2, UntouchedIsGentle, MarkStartedIsGentle DEF StartFinding
  <2>2. req[r].workspace \in Workspace
    BY <1>2 DEF StartFinding, Typed, Handled, Handler
  <2>3. req' \in [Request -> Handler]
    BY <1>2, <2>2, GotoUpdate DEF StartFinding
  <2>4. QED
    BY <1>2, <2>1, <2>3 DEF StartFinding, StoreKept, Typed, Handled
<1>3. CASE CreateDir(r)
  <2>1. req' \in [Request -> Handler]
    BY <1>3, GotoUpdate, EndUpdate DEF CreateDir
  <2>2. req[r].pc = "mkdir" /\ (dirs' = dirs \cup {req[r].workspace} \/ UNCHANGED dirs)
    BY <1>3 DEF CreateDir
  <2>3. req[r].workspace \in Workspace
    BY <2>2 DEF Typed, Handled, Handler
  <2>4. QED
    BY <1>3, <2>1, <2>2, <2>3, UntouchedIsGentle DEF CreateDir, StoreKept, Typed, Handled
<1>4. CASE StoreDir(r)
  <2> DEFINE w == req[r].workspace
             row == [workspace[w] EXCEPT !.dir = TRUE]
  <2>1. workspace' = [workspace EXCEPT ![w] = row] \/ UNCHANGED workspace
    BY <1>4 DEF StoreDir
  <2>2. w \in Workspace => row \in WorkspaceRow
    BY DEF Typed, Handled, WorkspaceRow
  <2> HIDE DEF w, row
  <2>3. workspace' \in [Workspace -> WorkspaceRow]
    BY <2>1, <2>2 DEF Typed, Handled
  <2>4. QED
    BY <1>4, <2>3, EndUpdate, UntouchedIsGentle DEF StoreDir, StoreKept, Typed, Handled
<1>5. CASE ReconcilePrUrl(r)
  <2>1. PICK pr \in {"none", "run"} : req' = [req EXCEPT ![r].pc = "resolve", ![r].pr = pr]
    BY <1>5 DEF ReconcilePrUrl
  <2> DEFINE row == [req[r] EXCEPT !.pc = "resolve", !.pr = pr]
  <2>2. row \in Handler
    BY DEF Typed, Handled, Handler, HandlerRow
  <2> HIDE DEF row
  <2>3. req' = [req EXCEPT ![r] = row]
    BY <2>1 DEF row
  <2>4. req' \in [Request -> Handler]
    BY <2>2, <2>3 DEF Typed, Handled
  <2>5. QED
    BY <1>5, <2>4, UntouchedIsGentle DEF ReconcilePrUrl, StoreKept, Typed, Handled
<1>6. CASE MarkResolved(r)
  <2> DEFINE f == req[r].finding
             row == [finding[f] EXCEPT !.status = "validated",
                       !.pr = IF req[r].pr = "run" THEN "run" ELSE @]
  <2>1. (finding[f].status \in MidFlight /\ SetFinding(f, row)) \/ UNCHANGED finding
    BY <1>6 DEF MarkResolved
  <2>2. f \in Finding => row \in FindingRow /\ row.note = finding[f].note
    BY ResolveUpdate DEF Typed
  <2> HIDE DEF f, row
  <2>3. Gentle
    BY <2>1, <2>2, SetFindingUpdate, UntouchedIsGentle
       DEF Gentle, NotesKept, DecisionsKept, Decided, MidFlight
  <2>4. QED
    BY <1>6, <2>3, EndUpdate DEF MarkResolved, StoreKept, Typed, Handled
<1>7. CASE DeleteRow(r)
  <2>1. Deleted \in WorkspaceRow
    BY DEF Deleted, NoWorkspace, WorkspaceRow
  <2>2. workspace' \in [Workspace -> WorkspaceRow]
    BY <1>7, <2>1 DEF DeleteRow, Typed, Handled
  <2>3. QED
    BY <1>7, <2>2, EndUpdate, UntouchedIsGentle DEF DeleteRow, StoreKept, Typed, Handled
<1>8. QED
  BY <1>1, <1>2, <1>3, <1>4, <1>5, <1>6, <1>7 DEF HandlerStep

LEMMA FindingEditKeeps ==
  ASSUME Typed, NEW f \in Finding,
         (\E s \in UserStatus : PatchFinding(f, s)) \/ PatchPrUrl(f) \/ RejectFinding(f)
           \/ DeleteFinding(f)
  PROVE  StoreKept
<1>1. PICK row \in FindingRow : SetFinding(f, row) /\ row.note \in {None, finding[f].note}
  <2>1. finding[f] \in FindingRow
    BY DEF Typed
  <2>2. CASE (\E s \in UserStatus : PatchFinding(f, s)) \/ RejectFinding(f)
    <3>1. PICK s \in FindingStatus : SetStatus(f, s)
      BY <2>2, UserStatusType DEF PatchFinding, RejectFinding, FindingStatus
    <3>2. QED
      BY <2>1, <3>1, StatusUpdate DEF SetStatus
  <2>3. CASE PatchPrUrl(f)
    BY <2>1, <2>3, PrUpdate DEF PatchPrUrl
  <2>4. CASE DeleteFinding(f)
    <3>1. NoFinding \in FindingRow /\ NoFinding.note = None
      BY DEF NoFinding, FindingRow
    <3>2. QED
      BY <2>4, <3>1 DEF DeleteFinding
  <2>5. QED
    BY <2>2, <2>3, <2>4
<1>2. ops' \in 0 .. MaxUserOps /\ ops' = ops + 1 /\ UNCHANGED <<workspace, dirs, req>>
  BY UserOpUpdate DEF PatchFinding, PatchPrUrl, RejectFinding, DeleteFinding
<1>3. Gentle
  BY <1>1, <1>2, SetFindingUpdate DEF Gentle, NotesKept
<1>4. QED
  BY <1>2, <1>3 DEF StoreKept, Typed, Handled

LEMMA PatchWorkspaceKeeps ==
  ASSUME Typed, NEW r \in Request, NEW w \in Workspace, NEW s \in {"closed", "reopened"},
         PatchWorkspace(r, w, s)
  PROVE  StoreKept
<1> DEFINE new == [Idle EXCEPT !.pc = "reconcile", !.workspace = w,
                               !.finding = workspace[w].finding]
<1>1. new \in Handler
  BY DEF Idle, Handler, HandlerRow, Typed, Handled, WorkspaceRow
<1>2. req' = [req EXCEPT ![r] = new] \/ UNCHANGED req
  BY DEF PatchWorkspace
<1> HIDE DEF new
<1>3. req' \in [Request -> Handler]
  BY <1>1, <1>2 DEF Typed, Handled
<1>4. workspace' \in [Workspace -> WorkspaceRow]
  BY DEF PatchWorkspace, Typed, Handled, WorkspaceRow
<1>5. QED
  BY <1>3, <1>4, UserOpUpdate, UntouchedIsGentle DEF PatchWorkspace, StoreKept, Typed, Handled

LEMMA DeleteDirKeeps ==
  ASSUME Typed, NEW r \in Request, NEW w \in Workspace, DeleteDir(r, w)
  PROVE  StoreKept
<1> DEFINE new == [Idle EXCEPT !.pc = "delete", !.workspace = w]
<1>1. new \in Handler
  BY DEF Idle, Handler, HandlerRow
<1>2. req' = [req EXCEPT ![r] = new]
  BY DEF DeleteDir
<1> HIDE DEF new
<1>3. req' \in [Request -> Handler]
  BY <1>1, <1>2 DEF Typed, Handled
<1>4. QED
  BY <1>3, UserOpUpdate, UntouchedIsGentle DEF DeleteDir, StoreKept, Typed, Handled

LEMMA StoreStepKeeps == Typed /\ StoreStep => StoreKept
<1> SUFFICES ASSUME Typed, StoreStep PROVE StoreKept
  OBVIOUS
<1>1. CASE UserStep
  BY <1>1, FindingEditKeeps, PostWorkspaceKeeps, PatchWorkspaceKeeps, DeleteDirKeeps DEF UserStep
<1>2. CASE \E r \in Request : HandlerStep(r)
  BY <1>2, HandlerKeeps
<1>3. CASE \E w \in Workspace : RecordPrUrl(w)
  <2>1. workspace' \in [Workspace -> WorkspaceRow]
    BY <1>3 DEF RecordPrUrl, Typed, Handled, WorkspaceRow
  <2>2. QED
    BY <1>3, <2>1, UntouchedIsGentle DEF RecordPrUrl, StoreKept, Typed, Handled
<1>4. QED
  BY <1>1, <1>2, <1>3 DEF StoreStep

\* A step of the store leaves the runs as they were: their invariants follow from the notes'.
LEMMA StoreStepInv == IInv /\ StoreStep => IInv'
<1> SUFFICES ASSUME IInv, StoreStep PROVE IInv'
  OBVIOUS
<1>1. StoreKept /\ UNCHANGED runVars
  BY StoreStepKeeps DEF IInv, StoreStep
<1>2. Typed'
  BY <1>1 DEF StoreKept, Gentle, IInv, Typed, Driven, runVars
<1>3. ASSUME NEW a \in Assessment PROVE RunInv(a)'
  BY <1>1 DEF IInv, RunInv, RowHasTask, RowFollowsTask, AwardIsEarned, PassIsJustified, AnotherOf,
              runVars
<1>4. ASSUME NEW f \in Finding PROVE NoteIsFinal(f)'
  BY <1>1 DEF StoreKept, Gentle, NotesKept, IInv, NoteIsFinal, AnotherOf, runVars
<1>5. QED
  BY <1>2, <1>3, <1>4 DEF IInv

-----------------------------------------------------------------------------
(* The updates of a row, a task and a report. *)

LEMMA SourcesAre ==
  /\ DOMAIN Sources = 1 .. 4
  /\ Sources[4] = "posture"
  /\ \A i \in 1 .. 4 : Sources[i] \in SourceSet /\ (Sources[i] # "posture" => i \in 1 .. 3)
  /\ {"trivy", "trivy-secret", "semgrep"} \subseteq SourceSet
<1>1. /\ DOMAIN Sources = 1 .. 4
      /\ Sources[1] = "trivy" /\ Sources[2] = "trivy-secret" /\ Sources[3] = "semgrep"
      /\ Sources[4] = "posture"
  BY DEF Sources
<1>2. \A i \in 1 .. 4 : Sources[i] \in SourceSet
  BY <1>1 DEF SourceSet
<1>3. \A i \in 1 .. 4 : Sources[i] # "posture" => i \in 1 .. 3
  BY <1>1
<1>4. {"trivy", "trivy-secret", "semgrep"} \subseteq SourceSet
  BY <1>1 DEF SourceSet
<1>5. QED
  BY <1>1, <1>2, <1>3, <1>4

LEMMA TaskUpdate ==
  ASSUME NEW t \in Task, NEW p \in TaskPc
  PROVE  /\ [t EXCEPT !.pc = p] \in Task
         /\ [t EXCEPT !.pc = p].pc = p
         /\ [t EXCEPT !.pc = p].met = t.met
         /\ [t EXCEPT !.pc = p].source = t.source
         /\ [t EXCEPT !.pc = p].victims = t.victims
BY DEF Task

LEMMA NoTaskIs == NoTask \in Task /\ NoTask.pc = "none"
BY DEF NoTask, Task, TaskPc

\* Every run but one is as it was.
Others(a, new, old) == \A b \in Assessment \ {a} : new[b] = old[b]

LEMMA SetTaskUpdate ==
  ASSUME Typed, NEW a \in Assessment, NEW t \in Task, SetTask(a, t)
  PROVE  /\ task' \in [Assessment -> Task]
         /\ task'[a] = t
         /\ Others(a, task', task)
BY DEF Typed, Driven, SetTask, Others

LEMMA AdvanceUpdate ==
  ASSUME Typed, NEW a \in Assessment, NEW p \in TaskPc, Advance(a, p)
  PROVE  /\ task' \in [Assessment -> Task]
         /\ task'[a].pc = p
         /\ task'[a].met = task[a].met
         /\ Others(a, task', task)
<1> DEFINE t == [task[a] EXCEPT !.pc = p]
<1>1. t \in Task /\ t.pc = p /\ t.met = task[a].met
  BY TaskUpdate DEF Typed, Driven
<1>2. SetTask(a, t)
  BY DEF Advance, SetTask
<1> HIDE DEF t
<1>3. QED
  BY <1>1, <1>2, SetTaskUpdate

LEMMA EndTaskUpdate ==
  ASSUME Typed, NEW a \in Assessment, EndTask(a)
  PROVE  /\ task' \in [Assessment -> Task]
         /\ task'[a].pc = "done"
         /\ Others(a, task', task)
<1> DEFINE t == [NoTask EXCEPT !.pc = "done"]
<1>1. "done" \in TaskPc
  BY DEF TaskPc
<1>2. SetTask(a, t)
  BY DEF EndTask
<1>3. t \in Task /\ t.pc = "done"
  BY <1>1, NoTaskIs, TaskUpdate
<1> HIDE DEF t
<1>4. QED
  BY <1>2, <1>3, SetTaskUpdate

LEMMA FailUpdate ==
  ASSUME Typed, NEW a \in Assessment, Fail(a)
  PROVE  /\ task' \in [Assessment -> Task]
         /\ task'[a].pc = "failing"
         /\ Others(a, task', task)
<1> DEFINE t == [NoTask EXCEPT !.pc = "failing"]
<1>1. "failing" \in TaskPc
  BY DEF TaskPc
<1>2. SetTask(a, t)
  BY DEF Fail, SetTask
<1>3. t \in Task /\ t.pc = "failing"
  BY <1>1, NoTaskIs, TaskUpdate
<1> HIDE DEF t
<1>4. QED
  BY <1>2, <1>3, SetTaskUpdate

\* The upserts left, and the rows left to close.
LEMMA PersistingIs ==
  ASSUME NEW t \in Task, NEW todo \in SUBSET Finding
  PROVE  Persisting(t, todo) \in Task /\ Persisting(t, todo).pc \in {"persist", "select"}
<1> DEFINE p == IF todo = {} THEN "select" ELSE "persist"
<1>1. p \in TaskPc /\ p \in {"persist", "select"}
  BY DEF TaskPc, RunSteps
<1>2. Persisting(t, todo) = [t EXCEPT !.pc = p, !.todo = todo]
  BY DEF Persisting
<1> HIDE DEF p
<1>3. QED
  BY <1>1, <1>2 DEF Task

LEMMA ClosingIs ==
  ASSUME NEW t \in Task, NEW victims \in SUBSET Finding, t.source \in 1 .. 3
  PROVE  /\ Closing(t, victims) \in Task
         /\ Closing(t, victims).pc \in {"closing", "select"}
         /\ Closing(t, victims).pc = "closing" =>
              /\ Closing(t, victims).victims = victims /\ victims # {}
              /\ Closing(t, victims).source = t.source
<1> DEFINE p == IF victims = {} THEN "select" ELSE "closing"
           s == IF victims = {} THEN t.source + 1 ELSE t.source
<1>1. p \in TaskPc /\ p \in {"closing", "select"} /\ s \in 1 .. 4
  BY DEF TaskPc, RunSteps
<1>2. Closing(t, victims) = [t EXCEPT !.pc = p, !.victims = victims, !.source = s]
  BY DEF Closing, Task
<1>3. p = "closing" => victims # {} /\ s = t.source
  OBVIOUS
<1> HIDE DEF p, s
<1>4. QED
  BY <1>1, <1>2, <1>3 DEF Task

LEMMA SetRowUpdate ==
  ASSUME Typed, NEW a \in Assessment, NEW row \in AssessmentRow, SetRow(a, row)
  PROVE  /\ assess' \in [Assessment -> AssessmentRow]
         /\ assess'[a] = row
         /\ Others(a, assess', assess)
BY DEF Typed, Driven, SetRow, Others

LEMMA AskedRow ==
  ASSUME NEW repo \in Repo
  PROVE  LET row == [NoRow EXCEPT !.status = "pending", !.repo = repo]
         IN  row \in AssessmentRow /\ row.status = "pending" /\ row.repo = repo /\ row.error = "none"
BY DEF NoRow, AssessmentRow

LEMMA StartedRow ==
  ASSUME NEW row \in AssessmentRow
  PROVE  LET new == [row EXCEPT !.status = "running"]
         IN  /\ new \in AssessmentRow /\ new.status = "running"
             /\ new.repo = row.repo /\ new.error = row.error
BY DEF AssessmentRow

LEMMA GradedRow ==
  ASSUME NEW row \in AssessmentRow, NEW met \in BOOLEAN
  PROVE  LET new == [row EXCEPT !.status = "complete", !.met = met]
         IN  /\ new \in AssessmentRow /\ new.status = "complete" /\ new.met = met
             /\ new.repo = row.repo
BY DEF AssessmentRow

LEMMA StaleRow ==
  ASSUME NEW row \in AssessmentRow
  PROVE  LET new == [row EXCEPT !.stale = TRUE]
         IN  /\ new \in AssessmentRow /\ new.status = row.status
             /\ new.repo = row.repo /\ new.error = row.error /\ new.met = row.met
BY DEF AssessmentRow

LEMMA FailedRow ==
  ASSUME NEW row \in AssessmentRow, NEW kind \in ErrorKind
  PROVE  /\ Failed(row, kind) \in AssessmentRow /\ Failed(row, kind).status = "failed"
         /\ Failed(row, kind).repo = row.repo /\ Failed(row, kind).error = kind
BY DEF AssessmentRow, Failed

LEMMA GivenUpRow ==
  ASSUME NEW row \in AssessmentRow
  PROVE  /\ GivenUp(row) \in AssessmentRow /\ GivenUp(row).status = "failed"
         /\ GivenUp(row).repo = row.repo /\ GivenUp(row).error # "none"
<1> DEFINE e == IF row.error = "none" THEN "interrupted" ELSE row.error
<1>1. e \in ErrorKind /\ e # "none"
  BY DEF AssessmentRow, ErrorKind
<1>2. GivenUp(row) = [row EXCEPT !.status = "failed", !.error = e]
  BY DEF GivenUp, AssessmentRow
<1> HIDE DEF e
<1>3. QED
  BY <1>1, <1>2 DEF AssessmentRow

-----------------------------------------------------------------------------
(* What one run does, seen from the others: their invariants stay, and so do the notes. *)

LEMMA OneRunMoves ==
  ASSUME IInv, Typed', NEW a \in Assessment,
         Others(a, task', task), Others(a, assess', assess), Others(a, report', report),
         assess[a].repo \in {None, assess'[a].repo},
         awarded' \subseteq awarded \cup {a},
         RunInv(a)',
         task[a].pc \in Scanning \/ (task'[a].pc \notin Scanning /\ report'[a] = report[a]),
         \A f \in Finding : finding'[f].note \in {None, finding[f].note} \/ NoteIsFinal(f)'
  PROVE  IInv'
<1>1. ASSUME NEW b \in Assessment, task[b].pc # "none", AnotherOf(b)
      PROVE  AnotherOf(b)'
  <2>1. PICK c \in Assessment \ {b} : assess[c].repo = assess[b].repo
    BY <1>1 DEF AnotherOf
  <2>2. assess[b].repo # None
    BY <1>1 DEF IInv, RunInv, RowHasTask
  <2>3. assess'[b].repo = assess[b].repo /\ assess'[c].repo = assess[c].repo
    BY <2>1, <2>2 DEF Others
  <2>4. QED
    BY <2>1, <2>3 DEF AnotherOf
<1>2. ASSUME NEW b \in Assessment \ {a} PROVE RunInv(b)'
  <2>1. RunInv(b) /\ task'[b] = task[b] /\ assess'[b] = assess[b] /\ report'[b] = report[b]
    BY DEF IInv, Others
  <2>2. b \in awarded' => b \in awarded
    OBVIOUS
  <2>3. task[b].pc = "closing" => task[b].pc # "none"
    OBVIOUS
  <2>4. QED
    BY <1>1, <2>1, <2>2, <2>3
       DEF RunInv, RowHasTask, RowFollowsTask, AwardIsEarned, PassIsJustified
<1>3. ASSUME NEW f \in Finding PROVE NoteIsFinal(f)'
  <2>1. CASE finding'[f].note = finding[f].note /\ finding[f].note # None
    <3>1. PICK b \in Assessment : b = finding[f].note /\ b = finding'[f].note
      BY <2>1 DEF IInv, Typed, FindingRow
    <3>2. /\ task[b].pc \notin Scanning /\ AnotherOf(b)
          /\ Source[f] \in report[b].ran /\ f \notin report[b].seen
      BY <2>1, <3>1 DEF IInv, NoteIsFinal
    <3>3. task'[b].pc \notin Scanning /\ report'[b] = report[b]
      BY <3>1, <3>2 DEF Others
    <3>4. AnotherOf(b)'
      BY <1>1, <3>1, <3>2 DEF Scanning
    <3>5. QED
      BY <3>1, <3>2, <3>3, <3>4 DEF NoteIsFinal
  <2>2. CASE finding'[f].note = None
    BY <2>2 DEF NoteIsFinal
  <2>3. QED
    BY <2>1, <2>2
<1>4. QED
  BY <1>2, <1>3 DEF IInv

\* The steps of one run that leave the store alone.
Alone == UNCHANGED <<storeVars, up, crashes>>

LEMMA AloneTyped ==
  ASSUME Typed, Alone, assess' \in [Assessment -> AssessmentRow], task' \in [Assessment -> Task],
         report' \in [Assessment -> Report], awarded' \subseteq Assessment
  PROVE  Typed' /\ \A f \in Finding : finding'[f].note \in {None, finding[f].note}
BY DEF Typed, Alone, storeVars, Handled, Driven

LEMMA SameIsOthers ==
  ASSUME NEW a \in Assessment
  PROVE  /\ UNCHANGED assess => Others(a, assess', assess)
         /\ UNCHANGED report => Others(a, report', report)
BY DEF Others

\* The scan: only the report and the task change, and no note names a run still scanning.
LEMMA ScanKeeps ==
  ASSUME IInv, NEW a \in Assessment, Alone, UNCHANGED <<assess, awarded>>,
         task[a].pc \in Scanning \ {"none"},
         task' \in [Assessment -> Task], Others(a, task', task),
         task'[a].pc \notin {"none", "closing", "completion"},
         report' \in [Assessment -> Report], Others(a, report', report)
  PROVE  IInv'
<1>1. Typed' /\ \A f \in Finding : finding'[f].note \in {None, finding[f].note}
  BY AloneTyped DEF IInv, Typed, Driven
<1>2. RunInv(a)'
  BY DEF IInv, RunInv, RowHasTask, RowFollowsTask, AwardIsEarned, PassIsJustified, Scanning
<1>3. QED
  BY <1>1, <1>2, SameIsOthers, OneRunMoves

LEMMA ScanResultUpdate ==
  ASSUME Typed, NEW a \in Assessment,
         NEW sources \in SUBSET {"trivy", "trivy-secret", "semgrep"}, ScanResult(a, sources)
  PROVE  report' \in [Assessment -> Report] /\ Others(a, report', report)
<1>1. PICK some \in SUBSET UNION {Of(s) : s \in sources} :
        report' = [report EXCEPT ![a].seen = @ \cup some, ![a].ran = @ \cup sources]
  BY DEF ScanResult
<1>2. some \subseteq Finding
  BY DEF Of
<1> DEFINE new == [report[a] EXCEPT !.seen = @ \cup some, !.ran = @ \cup sources]
<1>3. report' = [report EXCEPT ![a] = new]
  BY <1>1
<1>4. new \in Report
  BY <1>2, SourcesAre DEF Typed, Driven, Report
<1> HIDE DEF new
<1>5. QED
  BY <1>3, <1>4 DEF Typed, Driven, Others

LEMMA ScanStepKeeps ==
  ASSUME IInv, NEW a \in Assessment, Clone(a) \/ RunTrivy(a) \/ RunSemgrep(a)
  PROVE  IInv'
<1>1. /\ Alone /\ UNCHANGED <<assess, awarded>>
      /\ task[a].pc \in {"clone", "trivy", "semgrep"}
  BY DEF Clone, RunTrivy, RunSemgrep, Alone
<1>2. Typed
  BY DEF IInv
<1>3. \/ \E p \in {"trivy", "semgrep", "posture"} : Advance(a, p)
      \/ Fail(a)
  BY DEF Clone, RunTrivy, RunSemgrep
<1>4. /\ task' \in [Assessment -> Task] /\ Others(a, task', task)
      /\ task'[a].pc \in {"trivy", "semgrep", "posture", "failing"}
  <2>1. {"trivy", "semgrep", "posture"} \subseteq TaskPc
    BY DEF TaskPc, RunSteps
  <2>2. CASE Fail(a)
    BY <1>2, <2>2, FailUpdate
  <2>3. CASE \E p \in {"trivy", "semgrep", "posture"} : Advance(a, p)
    BY <1>2, <2>1, <2>3, AdvanceUpdate
  <2>4. QED
    BY <1>3, <2>2, <2>3
<1>5. report' \in [Assessment -> Report] /\ Others(a, report', report)
  <2>1. UNCHANGED report \/ ScanResult(a, {"trivy", "trivy-secret"}) \/ ScanResult(a, {"semgrep"})
    BY DEF Clone, RunTrivy, RunSemgrep
  <2>2. QED
    BY <1>2, <2>1, ScanResultUpdate, SameIsOthers DEF Typed, Driven
<1>6. QED
  BY <1>1, <1>4, <1>5, ScanKeeps DEF Scanning

LEMMA RunPostureKeeps ==
  ASSUME IInv, NEW a \in Assessment, RunPosture(a)
  PROVE  IInv'
<1>1. Typed /\ Alone /\ UNCHANGED <<assess, awarded>> /\ task[a].pc = "posture"
  BY DEF RunPosture, Alone, IInv
<1>2. PICK known \in SUBSET Of("posture"), pass \in SUBSET Of("posture") :
        /\ report' = [report EXCEPT ![a].seen = @ \cup known, ![a].passed = pass]
        /\ SetTask(a, Persisting(task[a], report[a].seen \cup known))
  BY DEF RunPosture
<1>3. known \subseteq Finding /\ pass \subseteq Finding /\ report[a] \in Report /\ task[a] \in Task
  BY <1>1 DEF Of, Typed, Driven
<1> DEFINE new == [report[a] EXCEPT !.seen = @ \cup known, !.passed = pass]
           t == Persisting(task[a], report[a].seen \cup known)
<1>4. report' = [report EXCEPT ![a] = new] /\ SetTask(a, t)
  BY <1>2
<1>5. new \in Report
  BY <1>3 DEF Report
<1>6. t \in Task /\ t.pc \in {"persist", "select"}
  <2>1. report[a].seen \cup known \in SUBSET Finding
    BY <1>3 DEF Report
  <2>2. QED
    BY <1>3, <2>1, PersistingIs
<1> HIDE DEF new, t
<1>7. report' \in [Assessment -> Report] /\ Others(a, report', report)
  BY <1>1, <1>4, <1>5 DEF Typed, Driven, Others
<1>8. task' \in [Assessment -> Task] /\ Others(a, task', task) /\ task'[a].pc \in {"persist", "select"}
  BY <1>1, <1>4, <1>6, SetTaskUpdate
<1>9. QED
  BY <1>1, <1>7, <1>8, ScanKeeps DEF Scanning

-----------------------------------------------------------------------------
(* What follows the scan. *)

\* The task moves on, its row and its report stay.
LEMMA TaskKeeps ==
  ASSUME IInv, NEW a \in Assessment, Typed', UNCHANGED <<assess, report, awarded>>,
         Others(a, task', task), task[a].pc \notin {"none", "done"},
         task'[a].pc \notin {"none", "completion"},
         task[a].pc = "completion" => task'[a].pc = "done",
         task[a].pc \in Scanning \/ task'[a].pc \notin Scanning,
         PassIsJustified(a)',
         \A f \in Finding : finding'[f].note \in {None, finding[f].note} \/ NoteIsFinal(f)'
  PROVE  IInv'
<1>1. RunInv(a)'
  BY DEF IInv, RunInv, RowHasTask, RowFollowsTask, AwardIsEarned
<1>2. QED
  BY <1>1, SameIsOthers, OneRunMoves

LEMMA PersistFindingKeeps ==
  ASSUME IInv, NEW a \in Assessment, NEW f \in Finding, PersistFinding(a, f)
  PROVE  IInv'
<1>1. /\ Typed /\ task[a].pc = "persist"
      /\ UNCHANGED <<workspace, dirs, req, ops, up, assess, report, awarded, crashes>>
  BY DEF IInv, PersistFinding
<1>2. PICK s \in {"new", "passed"} : SetFinding(f, Upserted(f, a, s)) \/ UNCHANGED finding
  BY DEF PersistFinding, ScannedStatus
<1>3. /\ finding' \in [Finding -> FindingRow]
      /\ \A g \in Finding : finding'[g].note \in {None, finding[g].note}
  <2>1. Upserted(f, a, s) \in FindingRow /\ Upserted(f, a, s).note \in {None, finding[f].note}
    BY <1>1, UpsertUpdate DEF Typed
  <2>2. CASE SetFinding(f, Upserted(f, a, s))
    <3>1. /\ finding' \in [Finding -> FindingRow] /\ finding'[f] = Upserted(f, a, s)
          /\ \A g \in Finding \ {f} : finding'[g] = finding[g]
      BY <1>1, <2>1, <2>2, SetFindingUpdate
    <3>2. QED
      BY <2>1, <3>1
  <2>3. CASE UNCHANGED finding
    BY <1>1, <2>3 DEF Typed
  <2>4. QED
    BY <1>2, <2>2, <2>3
<1> DEFINE todo == task[a].todo \ {f}
           t == Persisting(task[a], todo)
<1>4. t \in Task /\ t.pc \in {"persist", "select"} /\ SetTask(a, t)
  <2>1. todo \in SUBSET Finding /\ task[a] \in Task
    BY <1>1 DEF Typed, Driven, Task
  <2> HIDE DEF todo
  <2>2. QED
    BY <2>1, PersistingIs DEF PersistFinding, todo
<1> HIDE DEF t
<1>5. /\ task' \in [Assessment -> Task] /\ Others(a, task', task)
      /\ task'[a].pc \in {"persist", "select"}
  BY <1>1, <1>4, SetTaskUpdate
<1>6. Typed'
  BY <1>1, <1>3, <1>5 DEF Typed, Handled, Driven
<1>7. QED
  BY <1>1, <1>3, <1>5, <1>6, TaskKeeps DEF PassIsJustified, Scanning

LEMMA SelectDisappearedKeeps ==
  ASSUME IInv, NEW a \in Assessment, SelectDisappeared(a)
  PROVE  IInv'
<1>1. /\ Typed /\ task[a].pc = "select" /\ Alone
      /\ UNCHANGED <<assess, report, awarded>> /\ task[a] \in Task
  BY DEF IInv, SelectDisappeared, Alone, Typed, Driven
<1> DEFINE s == Sources[task[a].source]
           victims == IF s \in report[a].ran THEN Disappeared(a, s) ELSE {}
           t == Closing(task[a], victims)
<1>2. CASE s = "posture"
  <2>1. Advance(a, "describe") /\ "describe" \in TaskPc
    BY <1>2 DEF SelectDisappeared, TaskPc, RunSteps
  <2>2. /\ task' \in [Assessment -> Task] /\ Others(a, task', task) /\ task'[a].pc = "describe"
    BY <1>1, <2>1, AdvanceUpdate
  <2>3. Typed' /\ \A f \in Finding : finding'[f].note \in {None, finding[f].note}
    BY <1>1, <2>2, AloneTyped DEF Typed, Driven
  <2>4. QED
    BY <1>1, <2>2, <2>3, TaskKeeps DEF PassIsJustified, Scanning
<1>3. CASE s # "posture"
  <2>1. SetTask(a, t)
    BY <1>3 DEF SelectDisappeared
  <2>2. task[a].source \in 1 .. 3
    BY <1>1, <1>3, SourcesAre DEF Task
  <2>3. /\ victims \in SUBSET Finding
        /\ victims # {} => /\ s \in report[a].ran /\ AnotherOf(a)
                           /\ victims \subseteq Of(s) \ report[a].seen
    BY DEF Disappeared, AnotherOf, Of
  <2> HIDE DEF victims
  <2>4. /\ t \in Task /\ t.pc \in {"closing", "select"}
        /\ t.pc = "closing" => t.victims = victims /\ victims # {} /\ t.source = task[a].source
    BY <1>1, <2>2, <2>3, ClosingIs
  <2> HIDE DEF t
  <2>5. /\ task' \in [Assessment -> Task] /\ Others(a, task', task) /\ task'[a] = t
    BY <1>1, <2>1, <2>4, SetTaskUpdate
  <2>6. Typed' /\ \A f \in Finding : finding'[f].note \in {None, finding[f].note}
    BY <1>1, <2>5, AloneTyped DEF Typed, Driven
  <2>7. PassIsJustified(a)'
    BY <1>1, <2>2, <2>3, <2>4, <2>5 DEF PassIsJustified, AnotherOf
  <2>8. QED
    BY <1>1, <2>4, <2>5, <2>6, <2>7, TaskKeeps DEF Scanning
<1>4. QED
  BY <1>2, <1>3

LEMMA CloseFindingKeeps ==
  ASSUME IInv, NEW a \in Assessment, NEW f \in Finding, CloseFinding(a, f)
  PROVE  IInv'
<1>1. /\ Typed /\ task[a].pc = "closing" /\ f \in task[a].victims /\ PassIsJustified(a)
      /\ UNCHANGED <<workspace, dirs, req, ops, up, assess, report, awarded, crashes>>
      /\ task[a] \in Task
  BY DEF IInv, RunInv, CloseFinding, Typed, Driven
<1> DEFINE victims == task[a].victims \ {f}
           t == Closing(task[a], victims)
           row == [finding[f] EXCEPT !.status = "closed", !.note = a]
<1>2. /\ t \in Task /\ t.pc \in {"closing", "select"}
      /\ t.pc = "closing" => t.victims = victims /\ t.source = task[a].source
  <2>1. victims \in SUBSET Finding /\ task[a].source \in 1 .. 3
    BY <1>1 DEF Task, PassIsJustified
  <2> HIDE DEF victims
  <2>2. QED
    BY <1>1, <2>1, ClosingIs
<1>3. SetTask(a, t)
  BY DEF CloseFinding
<1> HIDE DEF t
<1>4. /\ task' \in [Assessment -> Task] /\ Others(a, task', task) /\ task'[a] = t
  BY <1>1, <1>2, <1>3, SetTaskUpdate
<1>5. PassIsJustified(a)'
  BY <1>1, <1>2, <1>4 DEF PassIsJustified, AnotherOf
<1>6. SetFinding(f, row) \/ UNCHANGED finding
  BY DEF CloseFinding
<1>7. row \in FindingRow /\ row.note = a
  BY <1>1, CloseUpdate DEF Typed
<1> HIDE DEF row
<1>8. /\ finding' \in [Finding -> FindingRow]
      /\ \A g \in Finding : finding'[g] = finding[g] \/ (g = f /\ finding'[g].note = a)
  BY <1>1, <1>6, <1>7, SetFindingUpdate DEF Typed
<1>9. Typed'
  BY <1>1, <1>4, <1>8 DEF Typed, Handled, Driven
<1>10. ASSUME finding'[f].note = a PROVE NoteIsFinal(f)'
  <2>1. Source[f] \in report[a].ran /\ f \notin report[a].seen /\ AnotherOf(a)
    BY <1>1 DEF PassIsJustified, Of
  <2>2. AnotherOf(a)' /\ task'[a].pc \notin Scanning
    BY <1>1, <1>2, <1>4, <2>1 DEF AnotherOf, Scanning
  <2>3. QED
    BY <1>1, <1>10, <2>1, <2>2 DEF NoteIsFinal
<1>11. QED
  BY <1>1, <1>2, <1>4, <1>5, <1>8, <1>9, <1>10, TaskKeeps DEF Scanning

\* The last steps of a run that write neither a row nor a completion.
LEMMA QuietKeeps ==
  ASSUME IInv, NEW a \in Assessment, Describe(a) \/ StoreTools(a) \/ Die(a) \/ TimeOut(a)
  PROVE  IInv'
<1>1. Typed /\ Alone /\ UNCHANGED <<assess, report, awarded>> /\ task[a] \in Task
  BY DEF IInv, Describe, StoreTools, Die, TimeOut, Alone, Typed, Driven
<1>2. /\ task[a].pc \notin {"none", "done"}
      /\ task' \in [Assessment -> Task] /\ Others(a, task', task)
      /\ task'[a].pc \in {"tools", "result", "done", "failing"}
      /\ task[a].pc = "completion" => task'[a].pc = "done"
  <2>1. CASE Describe(a)
    <3>1. PICK met \in BOOLEAN : task' = [task EXCEPT ![a].pc = "tools", ![a].met = met]
      BY <2>1 DEF Describe
    <3> DEFINE t == [task[a] EXCEPT !.pc = "tools", !.met = met]
    <3>2. t \in Task /\ t.pc = "tools" /\ SetTask(a, t)
      BY <1>1, <3>1 DEF Task, TaskPc, SetTask
    <3> HIDE DEF t
    <3>3. QED
      BY <1>1, <2>1, <3>2, SetTaskUpdate DEF Describe
  <2>2. CASE StoreTools(a)
    <3>1. "result" \in TaskPc
      BY DEF TaskPc
    <3>2. QED
      BY <1>1, <2>2, <3>1, AdvanceUpdate DEF StoreTools
  <2>3. CASE Die(a)
    BY <1>1, <2>3, EndTaskUpdate DEF Die
  <2>4. CASE TimeOut(a)
    BY <1>1, <2>4, FailUpdate DEF TimeOut, RunSteps
  <2>5. QED
    BY <2>1, <2>2, <2>3, <2>4
<1>3. Typed' /\ \A f \in Finding : finding'[f].note \in {None, finding[f].note}
  BY <1>1, <1>2, AloneTyped DEF Typed, Driven
<1>4. QED
  BY <1>1, <1>2, <1>3, TaskKeeps DEF PassIsJustified, Scanning

-----------------------------------------------------------------------------
(* The steps that write a row. *)

LEMMA PostRunKeeps ==
  ASSUME IInv, NEW a \in Assessment, NEW repo \in Repo, PostRun(a, repo)
  PROVE  IInv'
<1> DEFINE row == [NoRow EXCEPT !.status = "pending", !.repo = repo]
<1>1. /\ Typed /\ assess[a].status = "absent" /\ SetRow(a, row) /\ UserOp /\ Advance(a, "queued")
      /\ UNCHANGED <<finding, workspace, dirs, req, up, report, awarded, crashes>>
  BY DEF IInv, PostRun
<1>2. row \in AssessmentRow /\ row.status = "pending" /\ row.repo # None
  BY AskedRow, RepoType
<1> HIDE DEF row
<1>3. /\ assess' \in [Assessment -> AssessmentRow] /\ assess'[a] = row
      /\ Others(a, assess', assess)
  BY <1>1, <1>2, SetRowUpdate
<1>4. "queued" \in TaskPc
  BY DEF TaskPc
<1>5. task' \in [Assessment -> Task] /\ task'[a].pc = "queued" /\ Others(a, task', task)
  BY <1>1, <1>4, AdvanceUpdate
<1>6. ops' \in 0 .. MaxUserOps
  BY <1>1, UserOpUpdate
<1>7. Typed' /\ \A f \in Finding : finding'[f].note \in {None, finding[f].note}
  BY <1>1, <1>3, <1>5, <1>6 DEF Typed, Handled, Driven
<1>8. task[a].pc = "none" /\ assess[a].repo = None /\ a \notin awarded
  BY <1>1 DEF IInv, RunInv, RowHasTask, AwardIsEarned
<1>9. RunInv(a)'
  BY <1>1, <1>2, <1>3, <1>5, <1>8
     DEF RunInv, RowHasTask, RowFollowsTask, AwardIsEarned, PassIsJustified
<1>10. QED
  BY <1>1, <1>3, <1>5, <1>7, <1>8, <1>9, SameIsOthers, OneRunMoves DEF Scanning

LEMMA StartRunKeeps ==
  ASSUME IInv, NEW a \in Assessment, StartRun(a)
  PROVE  IInv'
<1> DEFINE row == [assess[a] EXCEPT !.status = "running"]
<1>1. /\ Typed /\ task[a].pc = "queued" /\ SetRow(a, row) /\ Advance(a, "clone")
      /\ Alone /\ UNCHANGED <<report, awarded>>
  BY DEF IInv, StartRun, Alone
<1>2. row \in AssessmentRow /\ row.status = "running" /\ row.repo = assess[a].repo
  BY <1>1, StartedRow DEF Typed, Driven
<1> HIDE DEF row
<1>3. /\ assess' \in [Assessment -> AssessmentRow] /\ assess'[a] = row
      /\ Others(a, assess', assess)
  BY <1>1, <1>2, SetRowUpdate
<1>4. "clone" \in TaskPc
  BY DEF TaskPc, RunSteps
<1>5. task' \in [Assessment -> Task] /\ task'[a].pc = "clone" /\ Others(a, task', task)
  BY <1>1, <1>4, AdvanceUpdate
<1>6. Typed' /\ \A f \in Finding : finding'[f].note \in {None, finding[f].note}
  BY <1>1, <1>3, <1>5, AloneTyped DEF Typed, Driven
<1>7. RunInv(a)'
  BY <1>1, <1>2, <1>3, <1>5
     DEF IInv, RunInv, RowHasTask, RowFollowsTask, AwardIsEarned, PassIsJustified
<1>8. QED
  BY <1>1, <1>2, <1>3, <1>5, <1>6, <1>7, SameIsOthers, OneRunMoves DEF Scanning

LEMMA StoreResultKeeps ==
  ASSUME IInv, NEW a \in Assessment, StoreResult(a)
  PROVE  IInv'
<1> DEFINE row == [assess[a] EXCEPT !.status = "complete", !.met = task[a].met]
<1>1. /\ Typed /\ task[a].pc = "result" /\ SetRow(a, row)
      /\ IF task[a].met THEN Advance(a, "completion") ELSE EndTask(a)
      /\ Alone /\ UNCHANGED <<report, awarded>>
  BY DEF IInv, StoreResult, Alone
<1>2. /\ row \in AssessmentRow /\ row.status = "complete" /\ row.repo = assess[a].repo
      /\ row.met = task[a].met
  <2>1. assess[a] \in AssessmentRow /\ task[a].met \in BOOLEAN
    BY <1>1 DEF Typed, Driven, Task
  <2>2. QED
    BY <2>1, GradedRow
<1> HIDE DEF row
<1>3. /\ assess' \in [Assessment -> AssessmentRow] /\ assess'[a] = row
      /\ Others(a, assess', assess)
  BY <1>1, <1>2, SetRowUpdate
<1>4. /\ task' \in [Assessment -> Task] /\ Others(a, task', task)
      /\ task'[a].pc = IF task[a].met THEN "completion" ELSE "done"
  <2>1. "completion" \in TaskPc
    BY DEF TaskPc
  <2>2. QED
    BY <1>1, <2>1, AdvanceUpdate, EndTaskUpdate
<1>5. Typed' /\ \A f \in Finding : finding'[f].note \in {None, finding[f].note}
  BY <1>1, <1>3, <1>4, AloneTyped DEF Typed, Driven
<1>6. RunInv(a)'
  BY <1>1, <1>2, <1>3, <1>4
     DEF IInv, RunInv, RowHasTask, RowFollowsTask, AwardIsEarned, PassIsJustified
<1>7. QED
  BY <1>1, <1>2, <1>3, <1>4, <1>5, <1>6, SameIsOthers, OneRunMoves DEF Scanning

LEMMA CreateCompletionKeeps ==
  ASSUME IInv, NEW a \in Assessment, CreateCompletion(a)
  PROVE  IInv'
<1>1. /\ Typed /\ task[a].pc = "completion" /\ EndTask(a) /\ awarded' = awarded \cup {a}
      /\ Alone /\ UNCHANGED <<assess, report>>
  BY DEF IInv, CreateCompletion, Alone
<1>2. task' \in [Assessment -> Task] /\ Others(a, task', task) /\ task'[a].pc = "done"
  BY <1>1, EndTaskUpdate
<1>3. Typed' /\ \A f \in Finding : finding'[f].note \in {None, finding[f].note}
  BY <1>1, <1>2, AloneTyped DEF Typed, Driven
<1>4. RunInv(a)'
  BY <1>1, <1>2
     DEF IInv, RunInv, RowHasTask, RowFollowsTask, AwardIsEarned, PassIsJustified
<1>5. QED
  BY <1>1, <1>2, <1>3, <1>4, SameIsOthers, OneRunMoves DEF Scanning

LEMMA PersistFailureKeeps ==
  ASSUME IInv, NEW a \in Assessment, PersistFailure(a)
  PROVE  IInv'
<1>1. /\ Typed /\ task[a].pc = "failing" /\ SetRow(a, Failed(assess[a], "reported")) /\ EndTask(a)
      /\ Alone /\ UNCHANGED <<report, awarded>>
  BY DEF IInv, PersistFailure, Alone
<1> DEFINE row == Failed(assess[a], "reported")
<1>2. /\ row \in AssessmentRow /\ row.status = "failed" /\ row.repo = assess[a].repo
      /\ row.error # "none"
  <2>1. assess[a] \in AssessmentRow /\ "reported" \in ErrorKind
    BY <1>1 DEF Typed, Driven, ErrorKind
  <2>2. QED
    BY <2>1, FailedRow
<1> HIDE DEF row
<1>3. /\ assess' \in [Assessment -> AssessmentRow] /\ assess'[a] = row
      /\ Others(a, assess', assess)
  BY <1>1, <1>2, SetRowUpdate DEF row
<1>4. task' \in [Assessment -> Task] /\ Others(a, task', task) /\ task'[a].pc = "done"
  BY <1>1, EndTaskUpdate
<1>5. Typed' /\ \A f \in Finding : finding'[f].note \in {None, finding[f].note}
  BY <1>1, <1>3, <1>4, AloneTyped DEF Typed, Driven
<1>6. RunInv(a)'
  BY <1>1, <1>2, <1>3, <1>4
     DEF IInv, RunInv, RowHasTask, RowFollowsTask, AwardIsEarned, PassIsJustified
<1>7. QED
  BY <1>1, <1>2, <1>3, <1>4, <1>5, <1>6, SameIsOthers, OneRunMoves DEF Scanning

LEMMA GrowStaleKeeps ==
  ASSUME IInv, NEW a \in Assessment, GrowStale(a)
  PROVE  IInv'
<1> DEFINE row == [assess[a] EXCEPT !.stale = TRUE]
<1>1. Typed /\ SetRow(a, row) /\ Alone /\ UNCHANGED <<task, report, awarded>>
  BY DEF IInv, GrowStale, Alone
<1>2. /\ row \in AssessmentRow /\ row.status = assess[a].status /\ row.repo = assess[a].repo
      /\ row.error = assess[a].error /\ row.met = assess[a].met
  BY <1>1, StaleRow DEF Typed, Driven
<1> HIDE DEF row
<1>3. /\ assess' \in [Assessment -> AssessmentRow] /\ assess'[a] = row
      /\ Others(a, assess', assess)
  BY <1>1, <1>2, SetRowUpdate
<1>4. Typed' /\ \A f \in Finding : finding'[f].note \in {None, finding[f].note}
  BY <1>1, <1>3, AloneTyped DEF Typed, Driven
<1>5. AnotherOf(a) => AnotherOf(a)'
  BY <1>2, <1>3 DEF AnotherOf, Others
<1>6. RunInv(a)'
  BY <1>1, <1>2, <1>3, <1>5
     DEF IInv, RunInv, RowHasTask, RowFollowsTask, AwardIsEarned, PassIsJustified
<1>7. Others(a, task', task)
  BY <1>1 DEF Others
<1>8. QED
  BY <1>1, <1>2, <1>3, <1>4, <1>6, <1>7, SameIsOthers, OneRunMoves DEF Scanning

-----------------------------------------------------------------------------
(* The steps that write every row at once. *)

\* Rows are failed with a reason, none of them complete, and tasks stay or end.
LEMMA SweepKeeps ==
  ASSUME IInv, Typed', UNCHANGED <<finding, report, awarded>>,
         \A a \in Assessment :
           /\ \/ assess'[a] = assess[a]
              \/ /\ assess[a].status \notin {"absent", "complete"}
                 /\ assess'[a].status = "failed" /\ assess'[a].error # "none"
                 /\ assess'[a].repo = assess[a].repo
           /\ \/ task'[a] = task[a]
              \/ task[a].pc = "none" /\ task'[a].pc = "none"
              \/ task[a].pc # "none" /\ task'[a].pc = "done"
  PROVE  IInv'
<1>1. ASSUME NEW a \in Assessment, AnotherOf(a) PROVE AnotherOf(a)'
  <2>1. \A b \in Assessment : assess'[b].repo = assess[b].repo
    OBVIOUS
  <2>2. QED
    BY <1>1, <2>1 DEF AnotherOf
<1>2. ASSUME NEW a \in Assessment PROVE RunInv(a)'
  BY <1>1 DEF IInv, RunInv, RowHasTask, RowFollowsTask, AwardIsEarned, PassIsJustified
<1>3. ASSUME NEW f \in Finding PROVE NoteIsFinal(f)'
  <2>1. CASE finding[f].note # None
    <3>1. PICK b \in Assessment : b = finding[f].note
      BY <2>1 DEF IInv, Typed, FindingRow
    <3>2. /\ task[b].pc \notin Scanning /\ AnotherOf(b)
          /\ Source[f] \in report[b].ran /\ f \notin report[b].seen
      BY <2>1, <3>1 DEF IInv, NoteIsFinal
    <3>3. task'[b].pc \notin Scanning
      BY <3>2 DEF Scanning
    <3>4. QED
      BY <1>1, <3>1, <3>2, <3>3 DEF NoteIsFinal
  <2>2. CASE finding[f].note = None
    BY <2>2 DEF NoteIsFinal
  <2>3. QED
    BY <2>1, <2>2
<1>4. QED
  BY <1>2, <1>3 DEF IInv

LEMMA GiveUpKeeps == IInv /\ (Reap \/ Boot) => IInv'
<1> SUFFICES ASSUME IInv, Reap \/ Boot PROVE IInv'
  OBVIOUS
<1>1. /\ Typed /\ UNCHANGED <<storeVars, task, report, awarded, crashes>>
      /\ up' \in BOOLEAN
      /\ DOMAIN assess' = Assessment
      /\ \A a \in Assessment :
           assess'[a] = assess[a] \/ (Unfinished(a) /\ assess'[a] = GivenUp(assess[a]))
  BY DEF IInv, Typed, Driven, Reap, Boot
<1>2. \E C : assess' = [a \in Assessment |->
               IF a \in C THEN GivenUp(assess[a]) ELSE assess[a]]
  <2>1. CASE Reap
    <3> DEFINE C == {a \in Assessment : Unfinished(a) /\ assess[a].stale}
    <3>1. assess' = [a \in Assessment |-> IF a \in C THEN GivenUp(assess[a]) ELSE assess[a]]
      BY <2>1 DEF Reap
    <3>2. QED
      BY <3>1
  <2>2. CASE Boot
    <3> DEFINE C == {a \in Assessment : Unfinished(a)}
    <3>1. assess' = [a \in Assessment |-> IF a \in C THEN GivenUp(assess[a]) ELSE assess[a]]
      BY <2>2 DEF Boot
    <3>2. QED
      BY <3>1
  <2>3. QED
    BY <2>1, <2>2
<1>3. assess' \in [Assessment -> AssessmentRow]
  BY <1>1, <1>2, GivenUpRow DEF Typed, Driven
<1>4. Typed'
  BY <1>1, <1>3 DEF storeVars, Typed, Handled, Driven
<1>5. ASSUME NEW a \in Assessment
      PROVE  \/ assess'[a] = assess[a]
             \/ /\ assess[a].status \notin {"absent", "complete"}
                /\ assess'[a].status = "failed" /\ assess'[a].error # "none"
                /\ assess'[a].repo = assess[a].repo
  BY <1>1, GivenUpRow DEF Unfinished, Typed, Driven
<1>6. QED
  BY <1>1, <1>4, <1>5, SweepKeeps DEF storeVars

LEMMA CrashKeeps == IInv /\ Crash => IInv'
<1> SUFFICES ASSUME IInv, Crash PROVE IInv'
  OBVIOUS
<1>1. /\ Typed /\ UNCHANGED <<finding, workspace, dirs, ops, report, awarded>>
      /\ up' = FALSE /\ crashes < MaxCrashes /\ crashes' = crashes + 1
      /\ req' = [r \in Request |-> Idle]
  BY DEF IInv, Crash
<1>2. PICK told \in SUBSET {a \in Assessment : task[a].pc \in RunSteps} :
        assess' = [a \in Assessment |->
                     IF a \in told THEN Failed(assess[a], "interrupted") ELSE assess[a]]
  BY DEF Crash
<1> DEFINE dead == [NoTask EXCEPT !.pc = "done"]
<1>3. task' = [a \in Assessment |-> IF task[a].pc = "none" THEN NoTask ELSE dead]
  BY DEF Crash
<1>4. dead \in Task /\ dead.pc = "done" /\ NoTask \in Task /\ NoTask.pc = "none"
  <2>1. "done" \in TaskPc
    BY DEF TaskPc
  <2>2. QED
    BY <2>1, NoTaskIs, TaskUpdate
<1> HIDE DEF dead
<1>5. "interrupted" \in ErrorKind
  BY DEF ErrorKind
<1>6. assess' \in [Assessment -> AssessmentRow]
  BY <1>1, <1>2, <1>5, FailedRow DEF Typed, Driven
<1>7. Typed'
  <2>1. task' \in [Assessment -> Task] /\ req' \in [Request -> Handler]
    BY <1>1, <1>3, <1>4, IdleIs
  <2>2. crashes' \in 0 .. MaxCrashes
    BY <1>1, MaxCrashesType DEF Typed, Driven
  <2>3. QED
    BY <1>1, <1>6, <2>1, <2>2 DEF Typed, Handled, Driven
<1>8. ASSUME NEW a \in Assessment
      PROVE  \/ assess'[a] = assess[a]
             \/ /\ assess[a].status \notin {"absent", "complete"}
                /\ assess'[a].status = "failed" /\ assess'[a].error # "none"
                /\ assess'[a].repo = assess[a].repo
  <2>1. CASE a \in told
    <3>1. task[a].pc \in RunSteps
      BY <2>1
    <3>2. assess[a].status \notin {"absent", "complete"}
      BY <3>1 DEF RunSteps, IInv, RunInv, RowHasTask, RowFollowsTask
    <3>3. assess'[a] = Failed(assess[a], "interrupted") /\ assess[a] \in AssessmentRow
      BY <1>1, <1>2, <2>1 DEF Typed, Driven
    <3>4. QED
      BY <1>5, <3>2, <3>3, FailedRow DEF ErrorKind
  <2>2. CASE a \notin told
    BY <1>2, <2>2
  <2>3. QED
    BY <2>1, <2>2
<1>9. \A a \in Assessment : \/ task'[a] = NoTask /\ task[a].pc = "none"
                            \/ task[a].pc # "none" /\ task'[a].pc = "done"
  BY <1>3, <1>4
<1>10. QED
  BY <1>1, <1>4, <1>7, <1>8, <1>9, SweepKeeps

-----------------------------------------------------------------------------
(* The invariant. *)

LEMMA InitIInv == Init => IInv
<1> SUFFICES ASSUME Init PROVE IInv
  OBVIOUS
<1>1. NoFinding \in FindingRow /\ NoFinding.note = None /\ Idle \in Handler
  BY IdleIs DEF NoFinding, FindingRow
<1>2. finding \in [Finding -> FindingRow] /\ \A f \in Finding : finding[f].note = None
  <2> DEFINE new == [NoFinding EXCEPT !.status = "new"]
  <2>1. new \in FindingRow /\ new.note = None
    BY <1>1, StatusUpdate DEF FindingStatus
  <2>2. finding \in [Finding -> {NoFinding, new}]
    BY DEF Init, StoreInit
  <2> HIDE DEF new
  <2>3. QED
    BY <1>1, <2>1, <2>2
<1>3. Handled
  BY <1>1, MaxUserOpsType DEF Init, StoreInit, Handled, NoWorkspace, WorkspaceRow
<1>4. NoRow \in AssessmentRow /\ NoRow.status = "absent" /\ NoRow.repo = None
  BY DEF NoRow, AssessmentRow
<1>5. NoReport \in Report
  BY DEF NoReport, Report
<1>6. Driven
  BY <1>4, <1>5, NoTaskIs, MaxCrashesType DEF Init, Driven
<1>7. ASSUME NEW a \in Assessment PROVE RunInv(a)
  BY <1>4, NoTaskIs DEF Init, RunInv, RowHasTask, RowFollowsTask, AwardIsEarned, PassIsJustified
<1>8. QED
  BY <1>2, <1>3, <1>6, <1>7 DEF IInv, Typed, NoteIsFinal

LEMMA RunStepKeeps == ASSUME IInv, NEW a \in Assessment, RunStep(a) PROVE IInv'
BY ScanStepKeeps, RunPostureKeeps, PersistFindingKeeps, CloseFindingKeeps, SelectDisappearedKeeps,
   QuietKeeps, StartRunKeeps, StoreResultKeeps, CreateCompletionKeeps, PersistFailureKeeps
   DEF RunStep

LEMMA StepKeeps == IInv /\ [Next]_vars => IInv'
<1> SUFFICES ASSUME IInv, [Next]_vars PROVE IInv'
  OBVIOUS
<1>1. CASE StoreStep
  BY <1>1, StoreStepInv
<1>2. CASE \E a \in Assessment : (\E repo \in Repo : PostRun(a, repo)) \/ RunStep(a)
  BY <1>2, PostRunKeeps, RunStepKeeps
<1>3. CASE Reap \/ Boot
  BY <1>3, GiveUpKeeps
<1>4. CASE Crash
  BY <1>4, CrashKeeps
<1>5. CASE \E a \in Assessment : GrowStale(a)
  BY <1>5, GrowStaleKeeps
<1>6. CASE UNCHANGED vars
  BY <1>6 DEF vars, IInv, Typed, Handled, Driven, RunInv, RowHasTask, RowFollowsTask,
              AwardIsEarned, PassIsJustified, AnotherOf, NoteIsFinal
<1>7. QED
  BY <1>1, <1>2, <1>3, <1>4, <1>5, <1>6 DEF Next

LEMMA Invariance == Spec => []IInv
BY InitIInv, StepKeeps, PTL DEF Spec

\* Every table, handler and task keeps its type, through every interleaving, crash and boot.
THEOREM TypeCorrect == Spec => []TypeOK
<1>1. IInv => TypeOK
  <2> SUFFICES ASSUME IInv PROVE TypeOK
    OBVIOUS
  <2>1. StoreTypeOK
    BY DEF IInv, Typed, Handled, StoreTypeOK, FindingRow, WorkspaceRow, Handler, HandlerRow
  <2>2. \A a \in Assessment :
          /\ task[a].pc \in TaskPc
          /\ task[a].todo \cup task[a].victims \cup report[a].seen \subseteq Finding
          /\ task[a].source \in DOMAIN Sources
    BY SourcesAre DEF IInv, Typed, Driven, Task, Report
  <2>3. QED
    BY <2>1, <2>2 DEF IInv, Typed, Driven, AssessmentRow, TypeOK
<1>2. QED
  BY <1>1, Invariance, PTL

\* A completion row is earned: it comes from the task's last write, after its own result, and
\* no watchdog, crash, boot or late task takes the result back (run_and_persist_assessment).
THEOREM CompletionsAreEarned == Spec => []CompletionIsEarned
<1>1. IInv => CompletionIsEarned
  BY DEF IInv, Typed, Driven, RunInv, AwardIsEarned, CompletionIsEarned
<1>2. QED
  BY <1>1, Invariance, PTL

\* No note of the close pass is false: its assessment ran the finding's scanner, did not see
\* the finding, and was not the first of its repository (close_disappeared_findings).
THEOREM AutoClosesAreJustified == Spec => []AutoCloseIsJustified
<1>1. IInv => AutoCloseIsJustified
  BY DEF IInv, NoteIsFinal, AnotherOf, AutoCloseIsJustified
<1>2. QED
  BY <1>1, Invariance, PTL

-----------------------------------------------------------------------------
(* The user's decisions, step by step. *)

DecisionStep ==
  \A f \in Finding :
    /\ Source[f] # "posture"
    /\ finding[f].status \in {"validated", "closed", "exception"}
    /\ finding'[f].status # finding[f].status
    => \/ ops' = ops + 1
       \/ finding'[f].status = "closed" /\ finding'[f].note # None

LEMMA DecisionsKeptStep == IInv /\ [Next]_vars => DecisionStep
<1> SUFFICES ASSUME IInv, [Next]_vars PROVE DecisionStep
  OBVIOUS
<1>t. Typed
  BY DEF IInv
<1>1. CASE StoreStep
  BY <1>1, <1>t, StoreStepKeeps DEF StoreKept, Gentle, DecisionsKept, Decided, DecisionStep
<1>2. ASSUME NEW a \in Assessment, NEW f \in Finding, PersistFinding(a, f) PROVE DecisionStep
  <2>1. PICK s \in {"new", "passed"} : SetFinding(f, Upserted(f, a, s)) \/ UNCHANGED finding
    BY <1>2 DEF PersistFinding, ScannedStatus
  <2>2. /\ Upserted(f, a, s) \in FindingRow
        /\ Source[f] # "posture" /\ finding[f].status \in UserLifecycle
             => Upserted(f, a, s).status = finding[f].status
    BY <1>t, UpsertUpdate DEF Typed
  <2>3. QED
    BY <1>t, <2>1, <2>2, SetFindingUpdate DEF DecisionStep, UserLifecycle
<1>3. ASSUME NEW a \in Assessment, NEW f \in Finding, CloseFinding(a, f) PROVE DecisionStep
  <2> DEFINE row == [finding[f] EXCEPT !.status = "closed", !.note = a]
  <2>1. SetFinding(f, row) \/ UNCHANGED finding
    BY <1>3 DEF CloseFinding
  <2>2. row \in FindingRow /\ row.status = "closed" /\ row.note # None
    BY <1>t, CloseUpdate, NoneIsNone DEF Typed
  <2> HIDE DEF row
  <2>3. QED
    BY <1>t, <2>1, <2>2, SetFindingUpdate DEF DecisionStep
<1>4. CASE UNCHANGED finding
  BY <1>4 DEF DecisionStep
<1>5. CASE \E a \in Assessment : (\E repo \in Repo : PostRun(a, repo)) \/ RunStep(a)
  <2>1. PICK a \in Assessment : (\E repo \in Repo : PostRun(a, repo)) \/ RunStep(a)
    BY <1>5
  <2>2. \/ UNCHANGED finding
        \/ \E f \in Finding : PersistFinding(a, f) \/ CloseFinding(a, f)
    BY <2>1 DEF RunStep, PostRun, StartRun, Clone, RunTrivy, RunSemgrep, RunPosture,
                SelectDisappeared, Describe, StoreTools, StoreResult, CreateCompletion, Die,
                TimeOut, PersistFailure, storeVars
  <2>3. QED
    BY <1>2, <1>3, <1>4, <2>2
<1>6. CASE Reap \/ Boot \/ Crash \/ (\E a \in Assessment : GrowStale(a)) \/ UNCHANGED vars
  BY <1>4, <1>6 DEF Reap, Boot, Crash, GrowStale, vars, storeVars
<1>7. QED
  BY <1>1, <1>5, <1>6 DEF Next

\* What a user decided about a finding stands until the user, or a close pass that notes
\* itself, changes it: no rescan, Start or resolved workspace takes it back.
THEOREM DecisionsStand == Spec => UserDecisionsStand
<1>1. IInv /\ [Next]_vars => [DecisionStep]_vars
  BY DecisionsKeptStep
<1>2. [][DecisionStep]_vars => UserDecisionsStand
  BY DEF DecisionStep, UserDecisionsStand
<1>3. QED
  BY <1>1, <1>2, Invariance, PTL DEF Spec

-----------------------------------------------------------------------------
(* The refinement of AssessmentLifecycle, its safety part. *)

LEMMA PhaseIs ==
  ASSUME NEW a \in Assessment
  PROVE  /\ assess[a].status = "absent" => Phase[a] = "unborn"
         /\ assess[a].status = "complete" => Phase[a] = "graded"
         /\ assess[a].status = "failed" /\ assess[a].error # "none" => Phase[a] = "explained"
         /\ assess[a].status \in {"pending", "running"} => Phase[a] = "asked"
BY DEF Phase

LEMMA PhaseIsNext ==
  ASSUME NEW a \in Assessment
  PROVE  /\ assess'[a].status = "absent" => Phase'[a] = "unborn"
         /\ assess'[a].status = "complete" => Phase'[a] = "graded"
         /\ assess'[a].status = "failed" /\ assess'[a].error # "none" => Phase'[a] = "explained"
         /\ assess'[a].status \in {"pending", "running"} => Phase'[a] = "asked"
BY DEF Phase

LEMMA PhaseStays ==
  ASSUME NEW a \in Assessment, assess'[a] = assess[a]
  PROVE  Phase'[a] = Phase[a]
BY DEF Phase

\* A write of one row moves one phase.
LEMMA OnePhaseMoves ==
  ASSUME NEW a \in Assessment, Others(a, assess', assess), NEW p, Phase'[a] = p
  PROVE  /\ Phase' = [Phase EXCEPT ![a] = p]
         /\ p = Phase[a] => UNCHANGED Phase
<1>1. \A b \in Assessment \ {a} : Phase'[b] = Phase[b]
  BY PhaseStays DEF Others
<1>2. /\ Phase = [b \in Assessment |-> Phase[b]]
      /\ Phase' = [b \in Assessment |-> Phase'[b]]
  BY DEF Phase
<1>3. QED
  BY <1>1, <1>2

\* A sweep explains rows that were asked for.
LEMMA SweepRefines ==
  ASSUME IInv,
         \A a \in Assessment :
           \/ assess'[a] = assess[a]
           \/ /\ assess[a].status \notin {"absent", "complete"}
              /\ assess'[a].status = "failed" /\ assess'[a].error # "none"
  PROVE  Lifecycle!GiveUp
<1> DEFINE given == {a \in Assessment : Phase[a] = "asked" /\ Phase'[a] = "explained"}
<1>1. ASSUME NEW a \in Assessment
      PROVE  Phase'[a] = IF a \in given THEN "explained" ELSE Phase[a]
  <2>1. CASE assess'[a] = assess[a]
    BY <2>1, PhaseStays
  <2>2. CASE assess'[a] # assess[a]
    <3>1. Phase'[a] = "explained"
      BY <2>2, PhaseIsNext
    <3>2. assess[a].status \in {"pending", "running", "failed"}
      BY <2>2 DEF IInv, Typed, Driven, AssessmentRow
    <3>3. Phase[a] \in {"asked", "explained"}
      BY <3>2, PhaseIs DEF IInv, RunInv, RowFollowsTask
    <3>4. QED
      BY <3>1, <3>3
  <2>3. QED
    BY <2>1, <2>2
<1>2. Phase' = [a \in Assessment |-> Phase'[a]]
  BY DEF Phase
<1>3. given \in SUBSET {a \in Assessment : Phase[a] = "asked"}
  OBVIOUS
<1> HIDE DEF given
<1>4. Phase' = [a \in Assessment |-> IF a \in given THEN "explained" ELSE Phase[a]]
  BY <1>1, <1>2
<1>5. QED
  BY <1>3, <1>4 DEF Lifecycle!GiveUp

LEMMA RunStepRefines ==
  ASSUME IInv, NEW a \in Assessment, RunStep(a)
  PROVE  [Lifecycle!Next]_Phase
<1>t. Typed /\ RunInv(a) /\ assess[a] \in AssessmentRow
  BY DEF IInv, Typed, Driven
<1>1. CASE UNCHANGED assess
  BY <1>1 DEF Phase
<1>2. CASE StartRun(a)
  <2>1. /\ assess[a].status \in {"pending", "running", "failed"}
        /\ SetRow(a, [assess[a] EXCEPT !.status = "running"])
    BY <1>2, <1>t DEF StartRun, RunInv, RowHasTask, RowFollowsTask, AssessmentRow
  <2>2. assess'[a].status = "running" /\ Others(a, assess', assess)
    BY <1>t, <2>1, StartedRow, SetRowUpdate
  <2>3. Phase'[a] = "asked" /\ Phase[a] \in {"asked", "explained"}
    BY <1>t, <2>1, <2>2, PhaseIs, PhaseIsNext DEF RunInv, RowFollowsTask
  <2>4. QED
    BY <2>2, <2>3, OnePhaseMoves DEF Lifecycle!Next, Lifecycle!Reopen
<1>3. CASE PersistFailure(a)
  <2>1. /\ assess[a].status \in {"pending", "running", "failed"}
        /\ SetRow(a, Failed(assess[a], "reported"))
    BY <1>3, <1>t DEF PersistFailure, RunInv, RowHasTask, RowFollowsTask, AssessmentRow
  <2>2. "reported" \in ErrorKind
    BY DEF ErrorKind
  <2>3. assess'[a].status = "failed" /\ assess'[a].error = "reported" /\ Others(a, assess', assess)
    BY <1>t, <2>1, <2>2, FailedRow, SetRowUpdate
  <2>4. Phase'[a] = "explained" /\ Phase[a] \in {"asked", "explained"}
    BY <1>t, <2>1, <2>3, PhaseIs, PhaseIsNext DEF RunInv, RowFollowsTask
  <2>5. QED
    BY <2>3, <2>4, OnePhaseMoves DEF Lifecycle!Next, Lifecycle!Explain
<1>4. CASE StoreResult(a)
  <2>1. /\ assess[a].status \in {"pending", "running", "failed"} /\ task[a].met \in BOOLEAN
        /\ SetRow(a, [assess[a] EXCEPT !.status = "complete", !.met = task[a].met])
    BY <1>4, <1>t
       DEF StoreResult, RunInv, RowHasTask, RowFollowsTask, AssessmentRow, Typed, Driven, Task
  <2> DEFINE row == [assess[a] EXCEPT !.status = "complete", !.met = task[a].met]
  <2>r. row \in AssessmentRow /\ row.status = "complete" /\ SetRow(a, row)
    BY <1>t, <2>1, GradedRow
  <2> HIDE DEF row
  <2>2. assess'[a].status = "complete" /\ Others(a, assess', assess)
    BY <1>t, <2>r, SetRowUpdate
  <2>3. Phase'[a] = "graded" /\ Phase[a] \in {"asked", "explained"}
    BY <1>t, <2>1, <2>2, PhaseIs, PhaseIsNext DEF RunInv, RowFollowsTask
  <2>4. QED
    BY <2>2, <2>3, OnePhaseMoves DEF Lifecycle!Next, Lifecycle!Grade
<1>5. QED
  BY <1>1, <1>2, <1>3, <1>4
     DEF RunStep, Clone, RunTrivy, RunSemgrep, RunPosture, PersistFinding, CloseFinding,
         SelectDisappeared, Describe, StoreTools, CreateCompletion, Die, TimeOut

LEMMA StepRefines == IInv /\ [Next]_vars => [Lifecycle!Next]_Phase
<1> SUFFICES ASSUME IInv, [Next]_vars PROVE [Lifecycle!Next]_Phase
  OBVIOUS
<1>t. Typed
  BY DEF IInv
<1>1. CASE StoreStep \/ UNCHANGED vars
  BY <1>1 DEF StoreStep, runVars, vars, Phase
<1>2. ASSUME NEW a \in Assessment, NEW repo \in Repo, PostRun(a, repo)
      PROVE  [Lifecycle!Next]_Phase
  <2>1. /\ assess[a].status = "absent"
        /\ SetRow(a, [NoRow EXCEPT !.status = "pending", !.repo = repo])
    BY <1>2 DEF PostRun
  <2>2. assess'[a].status = "pending" /\ Others(a, assess', assess)
    BY <1>t, <2>1, AskedRow, SetRowUpdate
  <2>3. Phase[a] = "unborn" /\ Phase'[a] = "asked"
    BY <2>1, <2>2, PhaseIs, PhaseIsNext
  <2>4. QED
    BY <2>2, <2>3, OnePhaseMoves DEF Lifecycle!Next, Lifecycle!Ask
<1>3. ASSUME NEW a \in Assessment, GrowStale(a) PROVE [Lifecycle!Next]_Phase
  <2>1. SetRow(a, [assess[a] EXCEPT !.stale = TRUE]) /\ assess[a] \in AssessmentRow
    BY <1>3, <1>t DEF GrowStale, Typed, Driven
  <2>2. /\ assess'[a].status = assess[a].status /\ assess'[a].error = assess[a].error
        /\ Others(a, assess', assess)
    BY <1>t, <2>1, StaleRow, SetRowUpdate
  <2>3. Phase'[a] = Phase[a]
    BY <2>2 DEF Phase
  <2>4. QED
    BY <2>2, <2>3, OnePhaseMoves
<1>4. CASE Reap \/ Boot
  <2>1. \A a \in Assessment :
          assess'[a] = assess[a] \/ (Unfinished(a) /\ assess'[a] = GivenUp(assess[a]))
    BY <1>4 DEF Reap, Boot
  <2>2. \A a \in Assessment :
           \/ assess'[a] = assess[a]
           \/ /\ assess[a].status \notin {"absent", "complete"}
              /\ assess'[a].status = "failed" /\ assess'[a].error # "none"
    BY <1>t, <2>1, GivenUpRow DEF Unfinished, Typed, Driven
  <2>3. QED
    BY <2>2, SweepRefines DEF Lifecycle!Next
<1>5. CASE Crash
  <2>1. PICK told \in SUBSET {a \in Assessment : task[a].pc \in RunSteps} :
          assess' = [a \in Assessment |->
                       IF a \in told THEN Failed(assess[a], "interrupted") ELSE assess[a]]
    BY <1>5 DEF Crash
  <2>2. "interrupted" \in ErrorKind /\ "interrupted" # "none"
    BY DEF ErrorKind
  <2>3. ASSUME NEW a \in told
        PROVE  /\ assess[a].status \notin {"absent", "complete"}
               /\ assess'[a].status = "failed" /\ assess'[a].error # "none"
    <3>1. a \in Assessment /\ task[a].pc \in RunSteps
      BY <2>3
    <3>2. assess[a].status \notin {"absent", "complete"}
      BY <3>1 DEF RunSteps, IInv, RunInv, RowHasTask, RowFollowsTask
    <3>3. assess'[a] = Failed(assess[a], "interrupted") /\ assess[a] \in AssessmentRow
      BY <1>t, <2>1, <3>1 DEF Typed, Driven
    <3>4. QED
      BY <2>2, <3>2, <3>3, FailedRow
  <2>4. \A a \in Assessment :
           \/ assess'[a] = assess[a]
           \/ /\ assess[a].status \notin {"absent", "complete"}
              /\ assess'[a].status = "failed" /\ assess'[a].error # "none"
    BY <2>1, <2>3
  <2>5. QED
    BY <2>4, SweepRefines DEF Lifecycle!Next
<1>6. CASE \E a \in Assessment : (\E repo \in Repo : PostRun(a, repo)) \/ RunStep(a)
  BY <1>2, <1>6, RunStepRefines
<1>7. QED
  BY <1>1, <1>3, <1>4, <1>5, <1>6 DEF Next

\* Every row lives the life AssessmentLifecycle allows: asked for once, never taken back once
\* graded, given up only with a reason, and reopened only by a run that starts after all.
THEOREM RowsFollowLifecycle == Spec => Lifecycle!Init /\ [][Lifecycle!Next]_Phase
<1>1. Init => Lifecycle!Init
  BY DEF Init, NoRow, Phase, Lifecycle!Init
<1>2. QED
  BY <1>1, StepRefines, Invariance, PTL DEF Spec
=============================================================================
