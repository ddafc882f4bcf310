--------------------- MODULE RemediationPipeline_proofs ---------------------
(***************************************************************************)
(* The pipeline's two promises about stale and repeated work, for every    *)
(* set of tasks, plans and calls: no verdict rests on an earlier triage's  *)
(* exposure output, and no run-all loop runs a prerequisite twice.         *)
(***************************************************************************)
EXTENDS RemediationPipeline, TLAPS

\* An agent run is under way, with its row inserted or about to be.
Choosing == {"chosen", "checked"}
Running == {"inserted", "working", "read_sidebar", "write_sidebar", "close"}

\* A triage task that has recorded an exposure output of its own, or is about to.
Exposes(t) ==
  \/ task[t].agent = "exposure_analyzer" /\ task[t].pc \in Running
  \/ task[t].agent = "none" /\ task[t].pc = "judge"

TaskType(t) ==
  /\ DOMAIN task[t] = DOMAIN Idle
  /\ task[t].agent \in Agents \cup {"none"}
  /\ task[t].loaded \in PlanState
  /\ task[t].snap \in SidebarState
  /\ task[t].ran \subseteq Prerequisites
  /\ task[t].iters \in 0 .. MaxIterations
  /\ task[t].verdict \in Verdicts

\* Where a task may be, by its kind and its agent.
TaskShape(t) ==
  /\ task[t].pc = "idle" => task[t].ran = {}
  /\ task[t].pc \in {"judge", "verdict_row"} => task[t].kind = "triage"
  /\ task[t].pc \in Choosing \cup Running => task[t].agent # "none"
  /\ task[t].pc = "verdict_row" => task[t].agent = "triage_synthesizer"

\* Freshness: no triage record of its own is marked as an earlier one's.
TaskIsFresh(t) ==
  /\ task[t].basis # "old"
  /\ task[t].kind = "triage" /\ Exposes(t) => t \notin exposure.old

\* What a run-all loop has run is in context/, but for the run it is at.
RanIsDone(t) ==
  task[t].kind = "run_all" =>
    /\ task[t].pc \in {"loop"} \cup Choosing \cup (Running \ {"inserted", "working"})
         => task[t].ran \subseteq prereqs
    /\ task[t].pc \in Choosing => task[t].agent \notin task[t].ran
    /\ task[t].pc \in {"inserted", "working"} => task[t].ran \subseteq prereqs \cup {task[t].agent}

TaskInv(t) == TaskType(t) /\ TaskShape(t) /\ TaskIsFresh(t) /\ RanIsDone(t)

\* The variables other than the tasks.
SharedType ==
  /\ source \in SourceTypes
  /\ confirmed \in BOOLEAN
  /\ prereqs \subseteq Prerequisites
  /\ plan \in PlanState
  /\ remediation \in [status : {"none", "pr_created", "changes_made"}, ver : 0 .. MaxPlans]
  /\ validation \in {"none", "fixed", "not_fixed"}
  /\ sidebar \in SidebarState
  /\ exposure \in [by : Task \cup {"none"}, out : BOOLEAN, old : SUBSET Task]
  /\ parked \in [Task -> [on : BOOLEAN, loaded : PlanState]]
  /\ calls \in 0 .. MaxCalls
  /\ approval \in [pc : {"idle", "write", "mirror"}, ver : 0 .. MaxPlans]

IInv == SharedType /\ DOMAIN task = Task /\ \A t \in Task : TaskInv(t)

-----------------------------------------------------------------------------
(* The operators. *)

LEMMA FieldsAre ==
  DOMAIN Idle = {"pc", "kind", "agent", "loaded", "snap", "row", "verdict", "basis", "ran",
                 "fails", "iters"}
BY DEF Idle

\* Set changes the fields it names, of one task.
LEMMA SetChanges ==
  ASSUME IInv, NEW t \in Task, NEW F, Set(t, F)
  PROVE  /\ DOMAIN task' = Task
         /\ \A s \in Task \ {t} : task'[s] = task[s]
         /\ DOMAIN task'[t] = DOMAIN Idle
         /\ \A f \in DOMAIN Idle : task'[t][f] = IF f \in DOMAIN F THEN F[f] ELSE task[t][f]
<1> DEFINE new == [f \in DOMAIN Idle |-> IF f \in DOMAIN F THEN F[f] ELSE task[t][f]]
<1>1. task' = [task EXCEPT ![t] = new] /\ DOMAIN task = Task
  BY DEF Set, IInv
<1>2. /\ DOMAIN new = DOMAIN Idle
      /\ \A f \in DOMAIN Idle : new[f] = IF f \in DOMAIN F THEN F[f] ELSE task[t][f]
  BY Zenon
<1> HIDE DEF new
<1>3. QED
  BY <1>1, <1>2

LEMMA EndChanges ==
  ASSUME IInv, NEW t \in Task, End(t)
  PROVE  /\ DOMAIN task' = Task
         /\ \A s \in Task \ {t} : task'[s] = task[s]
         /\ task'[t] = Idle
BY DEF IInv, End

LEMMA IdleType ==
  /\ NoPlan \in PlanState /\ Idle.snap \in SidebarState
  /\ Idle.loaded = NoPlan /\ Idle.pc = "idle" /\ Idle.kind = "single" /\ Idle.agent = "none"
  /\ Idle.ran = {} /\ Idle.iters = 0 /\ Idle.basis = "none" /\ Idle.verdict \in Verdicts
  /\ 0 \in 0 .. MaxPlans /\ 0 \in 0 .. MaxIterations
BY Bounds, SomeIterations DEF NoPlan, PlanState, Idle, SidebarState, Verdicts

\* A task that has ended.
LEMMA IdleTaskInv == ASSUME NEW t \in Task, task[t] = Idle PROVE TaskInv(t)
BY IdleType DEF TaskInv, TaskType, TaskShape, TaskIsFresh, RanIsDone, Exposes, Choosing, Running

LEMMA IdleTaskInvNext == ASSUME NEW t \in Task, task'[t] = Idle PROVE TaskInv(t)'
BY IdleType DEF TaskInv, TaskType, TaskShape, TaskIsFresh, RanIsDone, Exposes, Choosing, Running

\* A task that a step does not touch keeps its invariant: context/ only grows, and marking
\* an earlier output is another task's affair.
LEMMA BystanderKeeps ==
  ASSUME NEW s \in Task, TaskInv(s), task'[s] = task[s], prereqs \subseteq prereqs',
         s \in exposure'.old => s \in exposure.old
  PROVE  TaskInv(s)'
BY DEF TaskInv, TaskType, TaskShape, TaskIsFresh, RanIsDone, Exposes

LEMMA SuggestIsMissing == Suggest \in Prerequisites => Suggest \notin prereqs
BY DEF Suggest, Prerequisites

LEMMA InitIInv == Init => IInv
<1> SUFFICES ASSUME Init PROVE IInv
  OBVIOUS
<1>1. plan \in PlanState
  BY Bounds DEF Init, PlanState, NoPlan
<1>2. sidebar \in SidebarState
  BY <1>1 DEF Init, SidebarState, Verdicts
<1>3. parked \in [Task -> [on : BOOLEAN, loaded : PlanState]]
  BY IdleType DEF Init
<1>4. /\ remediation \in [status : {"none", "pr_created", "changes_made"}, ver : 0 .. MaxPlans]
      /\ approval \in [pc : {"idle", "write", "mirror"}, ver : 0 .. MaxPlans]
  BY IdleType DEF Init
<1>5. exposure \in [by : Task \cup {"none"}, out : BOOLEAN, old : SUBSET Task]
  BY DEF Init
<1>6. SharedType
  <2>1. source \in SourceTypes /\ confirmed \in BOOLEAN /\ prereqs \subseteq Prerequisites
        /\ validation = "none" /\ calls = 0
    BY DEF Init
  <2>2. calls \in 0 .. MaxCalls
    BY <2>1, Bounds
  <2> QED
    BY <1>1, <1>2, <1>3, <1>4, <1>5, <2>1, <2>2 DEF SharedType
<1>7. DOMAIN task = Task /\ \A t \in Task : task[t] = Idle
  BY DEF Init
<1> QED
  BY <1>6, <1>7, IdleTaskInv DEF IInv

-----------------------------------------------------------------------------
(* One lemma per group of actions. *)

\* A step of one task: the other tasks are bystanders.
LEMMA OneTaskKeeps ==
  ASSUME IInv, NEW t \in Task, SharedType', DOMAIN task' = Task,
         \A s \in Task \ {t} : task'[s] = task[s],
         prereqs \subseteq prereqs', exposure'.old \subseteq exposure.old \cup {t},
         TaskInv(t)'
  PROVE  IInv'
<1>1. ASSUME NEW s \in Task \ {t} PROVE TaskInv(s)'
  BY BystanderKeeps DEF IInv
<1> QED
  BY <1>1 DEF IInv

\* A task ends and the shared variables keep.
LEMMA EndKeeps ==
  ASSUME IInv, NEW t \in Task, End(t), SharedType', prereqs' = prereqs,
         exposure'.old \subseteq exposure.old
  PROVE  IInv'
BY EndChanges, IdleTaskInvNext, OneTaskKeeps

LEMMA PostKeeps == ASSUME IInv, NEW t \in Task, Post(t) PROVE IInv'
<1>a. SharedType /\ TaskInv(t)
  BY DEF IInv
<1>b. Call => calls' \in 0 .. MaxCalls
  BY <1>a, Bounds DEF SharedType, Call
<1> USE DEF TaskInv, TaskType, TaskShape, TaskIsFresh, RanIsDone, Exposes, Choosing, Running
<1>1. CASE PostExecute(t)
  <2>1. SharedType' /\ UNCHANGED <<prereqs, exposure>>
    BY <1>1, <1>a, <1>b DEF PostExecute, context, SharedType
  <2>2. PICK a \in {"remediation_planner", "remediation_executor", "validation_checker"} :
          Set(t, [pc |-> "chosen", kind |-> "single", agent |-> a])
    BY <1>1 DEF PostExecute
  <2>3. TaskInv(t)'
    BY <2>1, <2>2, <1>a, SetChanges, FieldsAre DEF Agents
  <2> QED
    BY <2>1, <2>2, <2>3, SetChanges, OneTaskKeeps
<1>2. CASE PostRunAll(t)
  <2>1. SharedType' /\ UNCHANGED <<prereqs, exposure>>
    BY <1>2, <1>a, <1>b DEF PostRunAll, context, SharedType
  <2>2. Set(t, [pc |-> "loop", kind |-> "run_all"]) /\ task[t].pc = "idle"
    BY <1>2 DEF PostRunAll
  <2>3. TaskInv(t)'
    BY <2>1, <2>2, <1>a, SetChanges, FieldsAre DEF Agents
  <2> QED
    BY <2>1, <2>2, <2>3, SetChanges, OneTaskKeeps
<1>3. CASE PostTriage(t)
  <2>1. exposure' = [exposure EXCEPT !.old = @ \cup {t}] /\ UNCHANGED prereqs
    BY <1>3 DEF PostTriage, context
  <2>2. SharedType' /\ exposure'.old = exposure.old \cup {t}
    BY <1>3, <2>1, <1>a, <1>b DEF PostTriage, context, SharedType
  <2>3. Set(t, [pc |-> "chosen", kind |-> "triage",
                agent |-> IF source = "report" THEN "report_triager" ELSE "finding_enricher"])
    BY <1>3 DEF PostTriage
  <2>4. TaskInv(t)'
    BY <2>1, <2>2, <2>3, <1>a, SetChanges, FieldsAre DEF Agents, Prerequisites
  <2> QED
    BY <2>1, <2>2, <2>3, <2>4, SetChanges, OneTaskKeeps
<1>4. CASE PostPermission(t)
  <2>1. PICK s \in Task :
          /\ parked[s].on
          /\ parked' = [parked EXCEPT ![s] = [on |-> FALSE, loaded |-> NoPlan]]
          /\ Set(t, [pc |-> "working", kind |-> "single", agent |-> "remediation_executor",
                     loaded |-> parked[s].loaded, row |-> s])
    BY <1>4 DEF PostPermission
  <2>2. parked' \in [Task -> [on : BOOLEAN, loaded : PlanState]] /\ parked[s].loaded \in PlanState
    BY <2>1, <1>a, IdleType DEF SharedType
  <2>3. SharedType' /\ UNCHANGED <<prereqs, exposure>>
    BY <1>4, <2>2, <1>a, <1>b DEF PostPermission, context, SharedType
  <2>4. TaskInv(t)'
    BY <2>1, <2>2, <2>3, <1>a, SetChanges, FieldsAre DEF Agents
  <2> QED
    BY <2>1, <2>3, <2>4, SetChanges, OneTaskKeeps
<1> QED
  BY <1>1, <1>2, <1>3, <1>4 DEF Post

\* From the choice of an agent to the run's row.
LEMMA BeginKeeps ==
  ASSUME IInv, NEW t \in Task,
         NextIteration(t) \/ RefuseBusy(t) \/ PassCheck(t) \/ InsertRun(t) \/ LoadWorkspaceData(t)
  PROVE  IInv'
<1>a. SharedType /\ TaskInv(t)
  BY DEF IInv
<1> USE DEF TaskInv, TaskType, TaskShape, TaskIsFresh, RanIsDone, Exposes, Choosing, Running
<1>1. CASE NextIteration(t)
  <2>1. SharedType' /\ UNCHANGED <<prereqs, exposure>>
    BY <1>1, <1>a DEF NextIteration, context, SharedType
  <2>2. CASE Suggest \in Agents /\ task[t].iters < MaxIterations
    <3>1. Set(t, [pc |-> "chosen", agent |-> Suggest, iters |-> task[t].iters + 1])
          /\ task[t].pc = "loop" /\ task[t].kind = "run_all"
      BY <1>1, <2>2 DEF NextIteration
    <3>2. task[t].iters + 1 \in 0 .. MaxIterations /\ Suggest # "none"
      BY <2>2, <1>a, SomeIterations DEF Agents, Prerequisites
    <3>3. Suggest \notin task[t].ran
      BY <3>1, <1>a, SuggestIsMissing
    <3>4. TaskInv(t)'
      BY <2>1, <2>2, <3>1, <3>2, <3>3, <1>a, SetChanges, FieldsAre
    <3> QED
      BY <2>1, <3>1, <3>4, SetChanges, OneTaskKeeps
  <2>3. CASE ~(Suggest \in Agents /\ task[t].iters < MaxIterations)
    BY <1>1, <2>1, <2>3, EndKeeps DEF NextIteration
  <2> QED
    BY <2>2, <2>3
<1>2. CASE RefuseBusy(t)
  <2>1. SharedType' /\ UNCHANGED <<prereqs, exposure>>
    BY <1>2, <1>a DEF RefuseBusy, context, SharedType
  <2>2. CASE task[t].kind = "run_all" /\ task[t].fails = 0
    <3>1. Set(t, [pc |-> "loop", agent |-> "none", fails |-> 1]) /\ task[t].pc = "chosen"
      BY <1>2, <2>2 DEF RefuseBusy
    <3>2. TaskInv(t)'
      BY <2>1, <2>2, <3>1, <1>a, SetChanges, FieldsAre
    <3> QED
      BY <2>1, <3>1, <3>2, SetChanges, OneTaskKeeps
  <2>3. CASE ~(task[t].kind = "run_all" /\ task[t].fails = 0)
    BY <1>2, <2>1, <2>3, EndKeeps DEF RefuseBusy
  <2> QED
    BY <2>2, <2>3
<1>3. CASE PassCheck(t)
  <2>1. SharedType' /\ UNCHANGED <<prereqs, exposure>>
    BY <1>3, <1>a DEF PassCheck, context, SharedType
  <2>2. Set(t, [pc |-> "checked"]) /\ task[t].pc = "chosen"
    BY <1>3 DEF PassCheck, Goto
  <2>3. TaskInv(t)'
    BY <2>1, <2>2, <1>a, SetChanges, FieldsAre
  <2> QED
    BY <2>1, <2>2, <2>3, SetChanges, OneTaskKeeps
<1>4. CASE InsertRun(t)
  <2>1. /\ UNCHANGED <<prereqs, source, confirmed, context, sidebar, parked, approval, calls>>
        /\ exposure' = IF task[t].agent = "exposure_analyzer"
                         THEN [by |-> t, out |-> FALSE, old |-> {}] ELSE exposure
    BY <1>4 DEF InsertRun, context
  <2>2. SharedType'
    BY <2>1, <1>a DEF SharedType, context
  <2>3. exposure'.old \subseteq exposure.old
        /\ (task[t].agent = "exposure_analyzer" => exposure'.old = {})
    BY <2>1
  <2>4. Set(t, [pc |-> "inserted", row |-> t,
                ran |-> IF task[t].kind = "run_all"
                          THEN task[t].ran \cup ({task[t].agent} \cap Prerequisites) ELSE {}])
        /\ task[t].pc = "checked"
    BY <1>4 DEF InsertRun
  <2>5. TaskInv(t)'
    BY <2>1, <2>3, <2>4, <1>a, SetChanges, FieldsAre
  <2> QED
    BY <2>1, <2>2, <2>3, <2>4, <2>5, SetChanges, OneTaskKeeps
<1>5. CASE LoadWorkspaceData(t)
  <2>1. SharedType' /\ UNCHANGED <<prereqs, exposure>>
    BY <1>5, <1>a DEF LoadWorkspaceData, context, SharedType
  <2>2. Set(t, [pc |-> "working",
                loaded |-> IF task[t].agent = "remediation_executor" THEN plan ELSE NoPlan])
        /\ task[t].pc = "inserted"
    BY <1>5 DEF LoadWorkspaceData
  <2>3. TaskInv(t)'
    BY <2>1, <2>2, <1>a, IdleType, SetChanges, FieldsAre DEF SharedType
  <2> QED
    BY <2>1, <2>2, <2>3, SetChanges, OneTaskKeeps
<1> QED
  BY <1>1, <1>2, <1>3, <1>4, <1>5

\* A run at work: it parks, or its answer goes to context/.
LEMMA ParkKeeps == ASSUME IInv, NEW t \in Task, ParkForPermission(t) PROVE IInv'
<1>a. SharedType /\ TaskInv(t)
  BY DEF IInv
<1> USE DEF TaskInv, TaskType, TaskShape, TaskIsFresh, RanIsDone, Exposes, Choosing, Running
<1>1. parked' \in [Task -> [on : BOOLEAN, loaded : PlanState]]
  BY <1>a DEF ParkForPermission, SharedType
<1>2. SharedType' /\ UNCHANGED <<prereqs, exposure>>
  BY <1>1, <1>a DEF ParkForPermission, context, SharedType
<1>3. CASE task[t].kind = "run_all"
  <2>1. Set(t, [pc |-> "loop", agent |-> "none", loaded |-> NoPlan, row |-> "none", fails |-> 0])
        /\ task[t].pc = "working" /\ task[t].agent = "remediation_executor"
    BY <1>3 DEF ParkForPermission
  <2>2. task[t].ran \subseteq prereqs
    BY <2>1, <1>3, <1>a DEF Prerequisites
  <2>3. TaskInv(t)'
    BY <1>2, <1>3, <2>1, <2>2, <1>a, IdleType, SetChanges, FieldsAre
  <2> QED
    BY <1>2, <2>1, <2>3, SetChanges, OneTaskKeeps
<1>4. CASE task[t].kind # "run_all"
  BY <1>2, <1>4, EndKeeps DEF ParkForPermission
<1> QED
  BY <1>3, <1>4

LEMMA UpdateKeeps == ASSUME IInv, NEW t \in Task, UpdateContext(t) PROVE IInv'
<1>a. SharedType /\ TaskInv(t) /\ task[t].pc = "working"
  BY DEF IInv, UpdateContext
<1> DEFINE a == task[t].agent
           F == [pc |-> "read_sidebar",
                 loaded |-> IF a = "remediation_planner" THEN plan' ELSE NoPlan]
<1>1. Set(t, F) /\ UNCHANGED <<source, confirmed, sidebar, exposure, parked, approval, calls>>
  BY DEF UpdateContext
<1>2. \/ /\ a \in Prerequisites /\ prereqs' = prereqs \cup {a}
         /\ UNCHANGED <<plan, remediation, validation>>
      \/ /\ a = "remediation_planner" /\ plan.ver < MaxPlans
         /\ plan' = [ver |-> plan.ver + 1, approved |-> 0]
         /\ UNCHANGED <<prereqs, remediation, validation>>
      \/ /\ a = "remediation_executor" /\ UNCHANGED <<prereqs, plan, validation>>
         /\ \E s \in {"pr_created", "changes_made"} :
              remediation' = [status |-> s, ver |-> task[t].loaded.ver]
      \/ /\ a = "validation_checker" /\ validation' \in {"fixed", "not_fixed"}
         /\ UNCHANGED <<prereqs, plan, remediation>>
  BY DEF UpdateContext
<1>3. plan' \in PlanState
  BY <1>2, <1>a, Bounds DEF SharedType, PlanState
<1>4. remediation' \in [status : {"none", "pr_created", "changes_made"}, ver : 0 .. MaxPlans]
  BY <1>2, <1>a DEF SharedType, TaskInv, TaskType, PlanState
<1>5. prereqs \subseteq prereqs' /\ prereqs' \subseteq Prerequisites
      /\ validation' \in {"none", "fixed", "not_fixed"}
  BY <1>2, <1>a DEF SharedType
<1>6. SharedType'
  BY <1>1, <1>3, <1>4, <1>5, <1>a DEF SharedType
<1>7. task[t].kind = "run_all" => task[t].ran \subseteq prereqs'
  BY <1>2, <1>a DEF TaskInv, TaskType, RanIsDone, Prerequisites
<1>8. TaskInv(t)'
  <2>1. F.pc = "read_sidebar" /\ F.loaded \in PlanState /\ DOMAIN F = {"pc", "loaded"}
    BY <1>3, IdleType
  <2> HIDE DEF F, a
  <2> QED
    BY <1>1, <1>7, <2>1, <1>a, SetChanges, FieldsAre
       DEF TaskInv, TaskType, TaskShape, TaskIsFresh, RanIsDone, Exposes, Choosing, Running
<1> QED
  BY <1>1, <1>5, <1>6, <1>8, SetChanges, OneTaskKeeps

\* The sidebar, read and written back.
LEMMA SidebarKeeps ==
  ASSUME IInv, NEW t \in Task, ReadSidebar(t) \/ WriteSidebar(t)
  PROVE  IInv'
<1>a. SharedType /\ TaskInv(t)
  BY DEF IInv
<1> USE DEF TaskInv, TaskType, TaskShape, TaskIsFresh, RanIsDone, Exposes, Choosing, Running
<1>1. CASE ReadSidebar(t)
  <2>1. SharedType' /\ UNCHANGED <<prereqs, exposure>>
    BY <1>1, <1>a DEF ReadSidebar, context, SharedType
  <2>2. Set(t, [pc |-> "write_sidebar", snap |-> sidebar]) /\ task[t].pc = "read_sidebar"
    BY <1>1 DEF ReadSidebar
  <2>3. TaskInv(t)'
    BY <2>1, <2>2, <1>a, SetChanges, FieldsAre DEF SharedType
  <2> QED
    BY <2>1, <2>2, <2>3, SetChanges, OneTaskKeeps
<1>2. CASE WriteSidebar(t)
  <2> DEFINE s == task[t].snap
             p == IF task[t].agent = "remediation_planner"
                    THEN [s.plan EXCEPT !.ver = task[t].loaded.ver] ELSE s.plan
             v == IF task[t].agent = "triage_synthesizer" THEN task[t].verdict ELSE s.triage
  <2>1. s.plan \in PlanState /\ s.triage \in Verdicts /\ task[t].loaded.ver \in 0 .. MaxPlans
    BY <1>a DEF SidebarState, PlanState
  <2>2. p \in PlanState /\ v \in Verdicts
    BY <2>1, <1>a DEF PlanState
  <2>3. sidebar' = [plan |-> p, triage |-> v]
    BY <1>2 DEF WriteSidebar
  <2> HIDE DEF p, v
  <2>4. sidebar' \in SidebarState
    BY <2>2, <2>3 DEF SidebarState
  <2>5. SharedType' /\ UNCHANGED <<prereqs, exposure>>
    BY <1>2, <2>4, <1>a DEF WriteSidebar, context, SharedType
  <2>6. CASE task[t].agent = "triage_synthesizer"
    BY <1>2, <2>5, <2>6, EndKeeps DEF WriteSidebar
  <2>7. CASE task[t].agent # "triage_synthesizer"
    <3>1. Set(t, [pc |-> "close", snap |-> Idle.snap, loaded |-> NoPlan])
          /\ task[t].pc = "write_sidebar"
      BY <1>2, <2>7 DEF WriteSidebar
    <3>2. TaskInv(t)'
      BY <2>5, <3>1, <1>a, IdleType, SetChanges, FieldsAre
    <3> QED
      BY <2>5, <3>1, <3>2, SetChanges, OneTaskKeeps
  <2> QED
    BY <2>6, <2>7
<1> QED
  BY <1>1, <1>2

LEMMA CloseKeeps == ASSUME IInv, NEW t \in Task, CloseRun(t) PROVE IInv'
<1>a. SharedType /\ TaskInv(t)
  BY DEF IInv
<1> USE DEF TaskInv, TaskType, TaskShape, TaskIsFresh, RanIsDone, Exposes, Choosing, Running
<1> DEFINE a == task[t].agent
           k == task[t].kind
<1>1. /\ task[t].pc = "close" /\ confirmed' = (confirmed \/ a = "remediation_planner")
      /\ exposure' = IF a = "exposure_analyzer" /\ exposure.by = t
                       THEN [exposure EXCEPT !.out = TRUE] ELSE exposure
      /\ UNCHANGED <<source, prereqs, plan, remediation, validation, sidebar, parked, approval,
                     calls>>
  BY DEF CloseRun, context
<1>2. exposure' \in [by : Task \cup {"none"}, out : BOOLEAN, old : SUBSET Task]
      /\ exposure'.old = exposure.old
  BY <1>1, <1>a DEF SharedType
<1>3. SharedType'
  BY <1>1, <1>2, <1>a DEF SharedType
<1>4. CASE k = "run_all"
  <2>1. Set(t, [pc |-> "loop", agent |-> "none", row |-> "none", fails |-> 0])
    BY <1>4 DEF CloseRun
  <2>2. TaskInv(t)'
    BY <1>1, <1>2, <1>4, <2>1, <1>a, SetChanges, FieldsAre
  <2> QED
    BY <1>1, <1>2, <1>3, <2>1, <2>2, SetChanges, OneTaskKeeps
<1>5. CASE k = "triage" /\ a = "finding_enricher"
  <2>1. Set(t, [pc |-> "chosen", agent |-> "exposure_analyzer", row |-> "none"])
    BY <1>5 DEF CloseRun
  <2>2. TaskInv(t)'
    BY <1>1, <1>2, <1>5, <2>1, <1>a, SetChanges, FieldsAre DEF Agents, Prerequisites
  <2> QED
    BY <1>1, <1>2, <1>3, <2>1, <2>2, SetChanges, OneTaskKeeps
<1>6. CASE k = "triage" /\ a = "exposure_analyzer"
  <2>1. Set(t, [pc |-> "judge", agent |-> "none", row |-> "none"])
    BY <1>6 DEF CloseRun
  <2>2. TaskInv(t)'
    BY <1>1, <1>2, <1>6, <2>1, <1>a, SetChanges, FieldsAre
  <2> QED
    BY <1>1, <1>2, <1>3, <2>1, <2>2, SetChanges, OneTaskKeeps
<1>7. CASE ~(k = "run_all") /\ ~(k = "triage" /\ a \in {"finding_enricher", "exposure_analyzer"})
  <2>1. End(t)
    BY <1>7 DEF CloseRun
  <2> QED
    BY <1>1, <1>2, <1>3, <2>1, EndKeeps
<1> QED
  BY <1>4, <1>5, <1>6, <1>7

LEMMA FailKeeps == ASSUME IInv, NEW t \in Task, FailRun(t) PROVE IInv'
<1>a. SharedType /\ TaskInv(t)
  BY DEF IInv
<1> USE DEF TaskInv, TaskType, TaskShape, TaskIsFresh, RanIsDone, Exposes, Choosing, Running
<1>1. SharedType' /\ UNCHANGED <<prereqs, exposure>>
  BY <1>a DEF FailRun, context, SharedType
<1>2. CASE task[t].kind = "triage" /\ source = "scanner"
  <2>1. Set(t, [pc |-> "judge", row |-> "none", snap |-> Idle.snap]) /\ task[t].pc \in Running
    BY <1>2 DEF FailRun
  <2>2. TaskInv(t)'
    BY <1>1, <1>2, <2>1, <1>a, IdleType, SetChanges, FieldsAre
  <2> QED
    BY <1>1, <2>1, <2>2, SetChanges, OneTaskKeeps
<1>3. CASE ~(task[t].kind = "triage" /\ source = "scanner")
  BY <1>1, <1>3, EndKeeps DEF FailRun
<1> QED
  BY <1>2, <1>3

\* The verdict: an exposure output of an earlier triage is not usable.
LEMMA JudgeKeeps ==
  ASSUME IInv, NEW t \in Task, Judge(t) \/ PersistVerdict(t)
  PROVE  IInv'
<1>a. SharedType /\ TaskInv(t)
  BY DEF IInv
<1> USE DEF TaskInv, TaskType, TaskShape, TaskIsFresh, RanIsDone, Exposes, Choosing, Running
<1>1. CASE Judge(t)
  <2>1. SharedType' /\ UNCHANGED <<prereqs, exposure>>
    BY <1>1, <1>a DEF Judge, context, SharedType
  <2> DEFINE failed == task[t].agent # "none"
             usable == exposure.out /\ ~failed
             quick == IF t \in exposure.old THEN "old" ELSE "fresh"
  <2>2. PICK v \in {"real", "noise", "needs_review"} :
          \E b \in IF v = "needs_review" THEN {"none"}
                   ELSE (IF usable THEN {quick} ELSE {}) \cup (IF failed THEN {} ELSE {"deep"}) :
            Set(t, [pc |-> "verdict_row", agent |-> "triage_synthesizer", verdict |-> v,
                    basis |-> b])
    BY <1>1 DEF Judge
  <2>3. PICK b \in IF v = "needs_review" THEN {"none"}
                   ELSE (IF usable THEN {quick} ELSE {}) \cup (IF failed THEN {} ELSE {"deep"}) :
            Set(t, [pc |-> "verdict_row", agent |-> "triage_synthesizer", verdict |-> v,
                    basis |-> b])
    BY <2>2
  <2>4. task[t].pc = "judge" /\ task[t].kind = "triage"
    BY <1>1, <1>a DEF Judge
  <2>5. usable => quick # "old"
    BY <2>4, <1>a
  <2>6. b # "old"
    BY <2>3, <2>5
  <2> HIDE DEF failed, usable, quick
  <2>7. TaskInv(t)'
    BY <2>1, <2>2, <2>3, <2>4, <2>6, <1>a, SetChanges, FieldsAre DEF Agents, Verdicts
  <2> QED
    BY <2>1, <2>3, <2>7, SetChanges, OneTaskKeeps
<1>2. CASE PersistVerdict(t)
  <2>1. SharedType' /\ UNCHANGED <<prereqs, exposure>>
    BY <1>2, <1>a DEF PersistVerdict, context, SharedType
  <2>2. Set(t, [pc |-> "read_sidebar"]) /\ task[t].pc = "verdict_row"
    BY <1>2 DEF PersistVerdict, Goto
  <2>3. TaskInv(t)'
    BY <2>1, <2>2, <1>a, SetChanges, FieldsAre
  <2> QED
    BY <2>1, <2>2, <2>3, SetChanges, OneTaskKeeps
<1> QED
  BY <1>1, <1>2

\* What leaves the tasks alone, or ends them all.
LEMMA RestKeeps == IInv /\ (ConfirmFinding \/ Approve \/ Restart) => IInv'
<1> SUFFICES ASSUME IInv, ConfirmFinding \/ Approve \/ Restart PROVE IInv'
  OBVIOUS
<1>a. SharedType /\ DOMAIN task = Task /\ \A t \in Task : TaskInv(t)
  BY DEF IInv
<1>b. Call => calls' \in 0 .. MaxCalls
  BY <1>a, Bounds DEF SharedType, Call
<1>c. ASSUME SharedType', UNCHANGED <<task, prereqs, exposure>> PROVE IInv'
  BY <1>c, <1>a, BystanderKeeps DEF IInv
<1>1. CASE ConfirmFinding
  <2>1. SharedType'
    BY <1>1, <1>a, <1>b DEF ConfirmFinding, context, SharedType
  <2> QED
    BY <1>1, <2>1, <1>c DEF ConfirmFinding, context
<1>2. CASE ApproveRead
  <2>1. SharedType'
    BY <1>2, <1>a, <1>b DEF ApproveRead, context, SharedType, SidebarState, PlanState
  <2> QED
    BY <1>2, <2>1, <1>c DEF ApproveRead, context
<1>3. CASE ApproveWrite
  <2>1. sidebar' \in SidebarState
    <3> DEFINE p == [ver |-> approval.ver, approved |-> approval.ver]
    <3>1. p \in PlanState /\ sidebar \in [plan : PlanState, triage : Verdicts]
      BY <1>a DEF SharedType, PlanState, SidebarState
    <3>2. sidebar' = [sidebar EXCEPT !.plan = p]
      BY <1>3 DEF ApproveWrite
    <3> HIDE DEF p
    <3> QED
      BY <3>1, <3>2 DEF SidebarState
  <2>2. SharedType'
    BY <1>3, <2>1, <1>a DEF ApproveWrite, context, SharedType
  <2> QED
    BY <1>3, <2>2, <1>c DEF ApproveWrite, context
<1>4. CASE ApproveMirror
  <2>1. plan' \in PlanState
    BY <1>4, <1>a DEF ApproveMirror, SharedType, PlanState
  <2>2. SharedType'
    BY <1>4, <2>1, <1>a, IdleType DEF ApproveMirror, SharedType
  <2> QED
    BY <1>4, <2>2, <1>c DEF ApproveMirror
<1>5. CASE Restart
  <2>1. parked' \in [Task -> [on : BOOLEAN, loaded : PlanState]]
    BY <1>5, IdleType DEF Restart
  <2>2. SharedType'
    BY <1>5, <2>1, <1>a, <1>b, IdleType DEF Restart, context, SharedType
  <2>3. DOMAIN task' = Task /\ \A t \in Task : task'[t] = Idle
    BY <1>5 DEF Restart
  <2> QED
    BY <2>2, <2>3, IdleTaskInvNext DEF IInv
<1> QED
  BY <1>1, <1>2, <1>3, <1>4, <1>5 DEF Approve

LEMMA StepKeeps == IInv /\ [Next]_vars => IInv'
<1>1. IInv /\ UNCHANGED vars => IInv'
  <2> SUFFICES ASSUME IInv, UNCHANGED vars PROVE IInv'
    OBVIOUS
  <2>1. SharedType' /\ UNCHANGED <<task, prereqs, exposure>>
    BY DEF vars, context, IInv, SharedType
  <2> QED
    BY <2>1, BystanderKeeps DEF IInv
<1> QED
  BY <1>1, BeginKeeps, ParkKeeps, UpdateKeeps, SidebarKeeps, CloseKeeps, FailKeeps, JudgeKeeps,
     PostKeeps, RestKeeps
     DEF Next, TaskStep

LEMMA Invariance == Spec => []IInv
BY InitIInv, StepKeeps, PTL DEF Spec

-----------------------------------------------------------------------------
\* Tasks, stores and counters keep their types, for any number of tasks, plans and calls.
THEOREM TypeCorrect == Spec => []TypeOK
<1>1. IInv => TypeOK
  BY DEF IInv, SharedType, TaskInv, TaskType, TypeOK
<1> QED
  BY <1>1, Invariance, PTL

\* No verdict of a scanner triage rests on exposure output recorded before it began
\* (_run_scanner_triage), whatever runs, failures, refusals and other triages interleave.
THEOREM VerdictsAreFresh == Spec => []VerdictIsFresh
<1>1. IInv => VerdictIsFresh
  BY DEF IInv, TaskInv, TaskIsFresh, VerdictIsFresh
<1> QED
  BY <1>1, Invariance, PTL

\* A run-all loop inserts no second run of a prerequisite it has run (suggest_next reads
\* context/ again before every run, and only a failed run, which ends the loop, leaves no
\* section there).
THEOREM PrerequisitesRunOnce == Spec => NoRepeatedPrerequisite
<1>1. IInv /\ [Next]_vars =>
        [\A t \in Task :
           InsertRun(t) /\ task[t].kind = "run_all" /\ task[t].agent \in Prerequisites
             => task[t].agent \notin task[t].ran]_vars
  BY DEF IInv, TaskInv, RanIsDone, InsertRun, Choosing
<1> QED
  BY <1>1, Invariance, PTL DEF Spec, NoRepeatedPrerequisite
=============================================================================
