------------------------- MODULE RepoAction_proofs -------------------------
(***************************************************************************)
(* The safety of RepoAction for every set of workspaces and checks.  A     *)
(* step of one workspace changes that workspace's task alone: TaskStep is  *)
(* what each step may do to it, and the invariants follow from that.       *)
(***************************************************************************)
EXTENDS RepoAction, TLAPS

Pc == {"idle", "insert", "start", "sync_running", "agent", "verify", "finalize", "sync_final",
       "done"}
TaskType ==
  [pc : Pc, check : Check \cup {"none"}, phase : Phases \cup {"none"},
   claim : Workspace \cup {"none"}]

\* A phase of pr_created is set by the verification of the claim, and a file that says so
\* was written after it.
PhaseIsVerified ==
  \A w \in Workspace :
    /\ task[w].phase = "pr_created" =>
         task[w].pc \in {"finalize", "sync_final", "done"} /\ task[w].claim \in prs
    /\ file[w] = "pr_created" =>
         task[w].pc \in {"sync_final", "done"} /\ task[w].claim \in prs

\* A working agent holds the mutex of its check, unless the user took it away.
WorkerIsActive == \A w \in Workspace : Working(w) /\ w \notin abandoned => Active(w)

IInv == TypeOK /\ PhaseIsVerified /\ WorkerIsActive /\ OneAgentPerCheck

-----------------------------------------------------------------------------
(* One field of one task. *)

LEMMA GoesKeeps ==
  ASSUME TypeOK, NEW w \in Workspace, NEW p \in Pc, Goes(w, p)
  PROVE  /\ task' \in [Workspace -> TaskType]
         /\ \A v \in Workspace \ {w} : task'[v] = task[v]
         /\ task'[w].pc = p /\ task'[w].check = task[w].check
         /\ task'[w].phase = task[w].phase /\ task'[w].claim = task[w].claim
<1> DEFINE new == [task[w] EXCEPT !.pc = p]
<1>1. task \in [Workspace -> TaskType]
  BY DEF TypeOK, TaskType, Pc
<1>2. task' = [task EXCEPT ![w] = new]
  BY DEF Goes
<1>3. task[w] \in TaskType
  BY <1>1
<1>4. /\ new \in TaskType /\ new.pc = p /\ new.check = task[w].check
      /\ new.phase = task[w].phase /\ new.claim = task[w].claim
  BY <1>3 DEF TaskType
<1> HIDE DEF new
<1>5. task'[w] = new /\ \A v \in Workspace \ {w} : task'[v] = task[v]
  BY <1>1, <1>2
<1>6. task' \in [Workspace -> TaskType]
  BY <1>1, <1>2, <1>4
<1> QED
  BY <1>4, <1>5, <1>6

LEMMA ToKeeps ==
  ASSUME TypeOK, NEW w \in Workspace, NEW phase \in Phases, To(w, phase)
  PROVE  /\ task' \in [Workspace -> TaskType]
         /\ \A v \in Workspace \ {w} : task'[v] = task[v]
         /\ task'[w].pc = "finalize" /\ task'[w].check = task[w].check
         /\ task'[w].phase = phase /\ task'[w].claim = task[w].claim
<1> DEFINE new == [task[w] EXCEPT !.pc = "finalize", !.phase = phase]
<1>1. task \in [Workspace -> TaskType]
  BY DEF TypeOK, TaskType, Pc
<1>2. task' = [task EXCEPT ![w] = new]
  BY <1>1 DEF To, TaskType
<1>3. task[w] \in TaskType
  BY <1>1
<1>4. /\ new \in TaskType
      /\ new.pc = "finalize" /\ new.check = task[w].check
      /\ new.phase = phase /\ new.claim = task[w].claim
  BY <1>3 DEF TaskType, Pc, Phases
<1> HIDE DEF new
<1>5. task'[w] = new /\ \A v \in Workspace \ {w} : task'[v] = task[v]
  BY <1>1, <1>2
<1>6. task' \in [Workspace -> TaskType]
  BY <1>1, <1>2, <1>4
<1> QED
  BY <1>4, <1>5, <1>6

LEMMA ClaimKeeps ==
  ASSUME TypeOK, NEW w \in Workspace, NEW pr \in Workspace,
         task' = [task EXCEPT ![w].pc = "verify", ![w].claim = pr]
  PROVE  /\ task' \in [Workspace -> TaskType]
         /\ \A v \in Workspace \ {w} : task'[v] = task[v]
         /\ task'[w].pc = "verify" /\ task'[w].check = task[w].check
         /\ task'[w].phase = task[w].phase /\ task'[w].claim = pr
<1> DEFINE new == [task[w] EXCEPT !.pc = "verify", !.claim = pr]
<1>1. task \in [Workspace -> TaskType]
  BY DEF TypeOK, TaskType, Pc
<1>2. task' = [task EXCEPT ![w] = new]
  BY <1>1 DEF TaskType
<1>3. task[w] \in TaskType
  BY <1>1
<1>4. /\ new \in TaskType
      /\ new.pc = "verify" /\ new.check = task[w].check
      /\ new.phase = task[w].phase /\ new.claim = pr
  BY <1>3 DEF TaskType, Pc, Phases
<1> HIDE DEF new
<1>5. task'[w] = new /\ \A v \in Workspace \ {w} : task'[v] = task[v]
  BY <1>1, <1>2
<1>6. task' \in [Workspace -> TaskType]
  BY <1>1, <1>2, <1>4
<1> QED
  BY <1>4, <1>5, <1>6

LEMMA RefusalKeeps ==
  ASSUME TypeOK, NEW w \in Workspace, task' = [task EXCEPT ![w].pc = "finalize", ![w].phase = "failed", ![w].claim = "none"]
  PROVE  /\ task' \in [Workspace -> TaskType]
         /\ \A v \in Workspace \ {w} : task'[v] = task[v]
         /\ task'[w].pc = "finalize" /\ task'[w].check = task[w].check
         /\ task'[w].phase = "failed" /\ task'[w].claim = "none"
<1> DEFINE new == [task[w] EXCEPT !.pc = "finalize", !.phase = "failed", !.claim = "none"]
<1>1. task \in [Workspace -> TaskType]
  BY DEF TypeOK, TaskType, Pc
<1>2. task' = [task EXCEPT ![w] = new]
  BY <1>1 DEF TaskType
<1>3. task[w] \in TaskType
  BY <1>1
<1>4. /\ new \in TaskType
      /\ new.pc = "finalize" /\ new.check = task[w].check
      /\ new.phase = "failed" /\ new.claim = "none"
  BY <1>3 DEF TaskType, Pc, Phases
<1> HIDE DEF new
<1>5. task'[w] = new /\ \A v \in Workspace \ {w} : task'[v] = task[v]
  BY <1>1, <1>2
<1>6. task' \in [Workspace -> TaskType]
  BY <1>1, <1>2, <1>4
<1> QED
  BY <1>4, <1>5, <1>6

LEMMA SpawnKeeps ==
  ASSUME TypeOK, NEW w \in Workspace, NEW c \in Check, Spawn(w, c)
  PROVE  /\ task' \in [Workspace -> TaskType]
         /\ \A v \in Workspace \ {w} : task'[v] = task[v]
         /\ task'[w].pc = "insert" /\ task'[w].check = c
         /\ task'[w].phase = "none" /\ task'[w].claim = "none"
<1> DEFINE new == [IdleTask EXCEPT !.pc = "insert", !.check = c]
<1>1. task \in [Workspace -> TaskType]
  BY DEF TypeOK, TaskType, Pc
<1>2. task' = [task EXCEPT ![w] = new]
  BY <1>1 DEF Spawn
<1>3. task[w] \in TaskType
  BY <1>1
<1>4. /\ new \in TaskType
      /\ new.pc = "insert" /\ new.check = c
      /\ new.phase = "none" /\ new.claim = "none"
  BY <1>3 DEF TaskType, Pc, Phases, IdleTask
<1> HIDE DEF new
<1>5. task'[w] = new /\ \A v \in Workspace \ {w} : task'[v] = task[v]
  BY <1>1, <1>2
<1>6. task' \in [Workspace -> TaskType]
  BY <1>1, <1>2, <1>4
<1> QED
  BY <1>4, <1>5, <1>6

-----------------------------------------------------------------------------
(* Type correctness of each step. *)

LEMMA InitIInv == Init => IInv
<1> SUFFICES ASSUME Init PROVE IInv
  OBVIOUS
<1>1. IdleTask \in TaskType /\ IdleTask.pc = "idle" /\ IdleTask.phase = "none"
  BY DEF IdleTask, TaskType, Pc
<1>2. \A w \in Workspace : task[w] = IdleTask /\ file[w] = "none"
  BY DEF Init
<1>3. TypeOK
  <2>1. task \in [Workspace -> TaskType]
    BY <1>1 DEF Init
  <2>2. 0 \in 0..MaxCrashes
    BY CrashBound
  <2> QED
    BY <2>1, <2>2 DEF Init, TypeOK, TaskType, Pc
<1>4. PhaseIsVerified
  BY <1>1, <1>2 DEF PhaseIsVerified
<1>5. WorkerIsActive /\ OneAgentPerCheck
  BY <1>1, <1>2 DEF WorkerIsActive, OneAgentPerCheck, Working
<1> QED
  BY <1>3, <1>4, <1>5 DEF IInv

\* What the store of a row is set to.
LEMMA SyncType ==
  ASSUME TypeOK, NEW w \in Workspace, NEW phase \in Phases \cup {"running", "none"}, Sync(w, phase)
  PROVE  /\ state' \in [Workspace -> States \cup {"none"}] /\ unsynced' \subseteq Workspace
         /\ \A v \in Workspace \ {w} : state'[v] = state[v]
         /\ state'[w] \in {state[w], StateOf(phase)}
<1>1. StateOf(phase) \in States
  BY DEF StateOf, States
<1> QED
  BY <1>1 DEF TypeOK, Sync

\* The task of a workspace keeps its type in every step of it.
LEMMA PcTypes ==
  /\ {"sync_running", "agent", "sync_final", "done", "start"} \subseteq Pc
  /\ Phases \subseteq {"pr_created", "already_present", "failed"}
BY DEF Pc, Phases

LEMMA TypeStep == TypeOK /\ [Next]_vars => TypeOK'
<1> SUFFICES ASSUME TypeOK, [Next]_vars PROVE TypeOK'
  OBVIOUS
<1>a. task \in [Workspace -> TaskType]
  BY DEF TypeOK, TaskType, Pc
<1>b. /\ state' \in [Workspace -> States \cup {"none"}]
      /\ file' \in [Workspace -> Phases \cup {"none", "running"}]
      /\ task' \in [Workspace -> TaskType]
      /\ prs' \subseteq Workspace /\ abandoned' \subseteq Workspace
      /\ unsynced' \subseteq Workspace /\ up' \in BOOLEAN /\ crashes' \in 0..MaxCrashes
      => TypeOK'
  BY DEF TypeOK, TaskType, Pc
<1>1. CASE UNCHANGED vars
  BY <1>1, <1>a, <1>b DEF TypeOK, vars
<1>2. CASE Crash
  <2>1. \A w \in Workspace :
          (IF task[w].pc = "idle" THEN IdleTask ELSE [task[w] EXCEPT !.pc = "done"]) \in TaskType
    BY <1>a DEF TaskType, IdleTask, Pc
  <2>2. task' \in [Workspace -> TaskType]
    BY <1>2, <2>1 DEF Crash
  <2>3. crashes' \in 0..MaxCrashes
    BY <1>2, CrashBound DEF Crash, TypeOK
  <2> QED
    BY <1>2, <1>b, <2>2, <2>3 DEF Crash, TypeOK
<1>3. CASE Boot
  BY <1>3, <1>a, <1>b DEF Boot, TypeOK
<1>4. ASSUME NEW w \in Workspace, NEW c \in Check, Spawn(w, c)
      PROVE  TypeOK'
  BY <1>4, <1>b, SpawnKeeps DEF Spawn, World, TypeOK
<1>5. ASSUME NEW w \in Workspace, Insert(w)
      PROVE  TypeOK'
  <2>1. \E p \in Pc : Goes(w, p)
    BY <1>5, PcTypes DEF Insert
  <2>2. state' \in [Workspace -> States \cup {"none"}]
    BY <1>5 DEF Insert, TypeOK, States
  <2> QED
    BY <1>5, <1>b, <2>1, <2>2, GoesKeeps DEF Insert, World, TypeOK
<1>6. ASSUME NEW w \in Workspace, Start(w)
      PROVE  TypeOK'
  BY <1>6, <1>b, GoesKeeps, PcTypes DEF Start, WriteStatus, World, TypeOK
<1>7. ASSUME NEW w \in Workspace, SyncRunning(w)
      PROVE  TypeOK'
  BY <1>7, <1>b, GoesKeeps, PcTypes, SyncType DEF SyncRunning, World, TypeOK
<1>8. ASSUME NEW w \in Workspace, AgentEnds(w)
      PROVE  TypeOK'
  <2>1. task' \in [Workspace -> TaskType]
    BY <1>8, ToKeeps, ClaimKeeps DEF AgentEnds, Phases
  <2> QED
    BY <1>8, <1>b, <2>1 DEF AgentEnds, World, TypeOK
<1>9. ASSUME NEW w \in Workspace, Verify(w)
      PROVE  TypeOK'
  <2>1. task' \in [Workspace -> TaskType]
    BY <1>9, ToKeeps, RefusalKeeps DEF Verify, Phases
  <2> QED
    BY <1>9, <1>b, <2>1 DEF Verify, World, TypeOK
<1>10. ASSUME NEW w \in Workspace, Finalize(w)
       PROVE  TypeOK'
  <2>1. task[w].phase \in Phases \cup {"none", "running"}
    BY <1>a DEF TaskType
  <2>2. file' \in [Workspace -> Phases \cup {"none", "running"}]
    BY <1>10, <2>1 DEF Finalize, WriteStatus, TypeOK
  <2> QED
    BY <1>10, <1>b, <2>2, GoesKeeps, PcTypes DEF Finalize, World, TypeOK
<1>11. ASSUME NEW w \in Workspace, SyncFinal(w)
       PROVE  TypeOK'
  <2>1. task[w].phase \in Phases \cup {"running", "none"}
    BY <1>a DEF TaskType
  <2> QED
    BY <1>11, <1>b, <2>1, GoesKeeps, PcTypes, SyncType DEF SyncFinal, World, TypeOK
<1>12. ASSUME NEW w \in Workspace, AgentOpensPr(w)
       PROVE  TypeOK'
  BY <1>12, <1>a, <1>b DEF AgentOpensPr, World, TypeOK
<1>13. ASSUME NEW w \in Workspace, Close(w)
       PROVE  TypeOK'
  BY <1>13, <1>a, <1>b DEF Close, States, TypeOK
<1>14. ASSUME NEW w \in Workspace, Delete(w)
       PROVE  TypeOK'
  BY <1>14, <1>a, <1>b DEF Delete, WriteStatus, TypeOK
<1> QED
  BY <1>1, <1>2, <1>3, <1>4, <1>5, <1>6, <1>7, <1>8, <1>9, <1>10, <1>11, <1>12, <1>13, <1>14
     DEF Next, RunStep

-----------------------------------------------------------------------------
(* A recorded pull request is one GitHub has. *)

LEMMA PhaseStep == IInv /\ [Next]_vars => PhaseIsVerified'
<1> SUFFICES ASSUME IInv, [Next]_vars PROVE PhaseIsVerified'
  OBVIOUS
<1>a. TypeOK /\ PhaseIsVerified
  BY DEF IInv
<1>b. \A w \in Workspace :
        /\ task[w].phase = "pr_created" =>
             task[w].pc \in {"finalize", "sync_final", "done"} /\ task[w].claim \in prs
        /\ file[w] = "pr_created" =>
             task[w].pc \in {"sync_final", "done"} /\ task[w].claim \in prs
  BY <1>a DEF PhaseIsVerified
<1>1. CASE UNCHANGED vars
  BY <1>1, <1>b DEF PhaseIsVerified, vars
<1>2. CASE Crash
  <2>1. \A w \in Workspace :
          /\ task[w].pc = "idle" => task'[w] = IdleTask
          /\ task[w].pc # "idle" => task'[w] = [task[w] EXCEPT !.pc = "done"]
    BY <1>2 DEF Crash
  <2>2. \A w \in Workspace : task[w] \in TaskType
    BY <1>a DEF TypeOK, TaskType, Pc
  <2>3. ASSUME NEW w \in Workspace
        PROVE  /\ task[w].pc = "idle" => task'[w].phase = "none"
               /\ task[w].pc # "idle" => /\ task'[w].pc = "done" /\ task'[w].phase = task[w].phase
                                         /\ task'[w].claim = task[w].claim
    <3>1. task[w] \in TaskType
      BY <2>2
    <3>2. CASE task[w].pc = "idle"
      <4>1. task'[w] = IdleTask
        BY <2>1, <3>2
      <4> QED
        BY <3>2, <4>1 DEF IdleTask
    <3>3. CASE task[w].pc # "idle"
      <4>1. task'[w] = [task[w] EXCEPT !.pc = "done"]
        BY <2>1, <3>3
      <4> QED
        BY <3>1, <3>3, <4>1 DEF TaskType
    <3> QED
      BY <3>2, <3>3
  <2> QED
    BY <1>2, <1>b, <2>3 DEF Crash, PhaseIsVerified
<1>3. CASE Boot
  BY <1>3, <1>b DEF Boot, PhaseIsVerified
<1>4. ASSUME NEW w \in Workspace, NEW c \in Check, Spawn(w, c)
      PROVE  PhaseIsVerified'
  BY <1>4, <1>a, <1>b, SpawnKeeps DEF Spawn, At, PhaseIsVerified
<1>5. ASSUME NEW w \in Workspace, Insert(w)
      PROVE  PhaseIsVerified'
  <2>1. PICK p \in Pc : Goes(w, p)
    BY <1>5, PcTypes DEF Insert
  <2> QED
    BY <1>5, <1>a, <1>b, <2>1, GoesKeeps DEF Insert, At, PhaseIsVerified
<1>6. ASSUME NEW w \in Workspace, Start(w)
      PROVE  PhaseIsVerified'
  <2>1. /\ file'[w] = "running" /\ \A v \in Workspace \ {w} : file'[v] = file[v]
    BY <1>6, <1>a DEF Start, WriteStatus, TypeOK
  <2> QED
    BY <1>6, <1>a, <1>b, <2>1, GoesKeeps, PcTypes DEF Start, At, PhaseIsVerified
<1>7. ASSUME NEW w \in Workspace, SyncRunning(w)
      PROVE  PhaseIsVerified'
  BY <1>7, <1>a, <1>b, GoesKeeps, PcTypes DEF SyncRunning, At, PhaseIsVerified
<1>8. ASSUME NEW w \in Workspace, AgentEnds(w)
      PROVE  PhaseIsVerified'
  <2>1. /\ \A v \in Workspace \ {w} : task'[v] = task[v]
        /\ task'[w].phase \in {"failed", "already_present", task[w].phase}
    BY <1>8, <1>a, ToKeeps, ClaimKeeps DEF AgentEnds, Phases
  <2> QED
    BY <1>8, <1>b, <2>1 DEF AgentEnds, At, PhaseIsVerified
<1>9. ASSUME NEW w \in Workspace, Verify(w)
      PROVE  PhaseIsVerified'
  <2>1. CASE Verified(w) /\ To(w, "pr_created")
    BY <1>9, <1>a, <1>b, <2>1, ToKeeps DEF Verify, Verified, Phases, At, PhaseIsVerified
  <2>2. CASE ~ (Verified(w) /\ To(w, "pr_created"))
    BY <1>9, <1>a, <1>b, <2>2, RefusalKeeps DEF Verify, At, PhaseIsVerified
  <2> QED
    BY <2>1, <2>2
<1>10. ASSUME NEW w \in Workspace, Finalize(w)
       PROVE  PhaseIsVerified'
  <2>1. /\ file'[w] = task[w].phase /\ \A v \in Workspace \ {w} : file'[v] = file[v]
    BY <1>10, <1>a DEF Finalize, WriteStatus, TypeOK
  <2> QED
    BY <1>10, <1>a, <1>b, <2>1, GoesKeeps, PcTypes DEF Finalize, At, PhaseIsVerified
<1>11. ASSUME NEW w \in Workspace, SyncFinal(w)
       PROVE  PhaseIsVerified'
  BY <1>11, <1>a, <1>b, GoesKeeps, PcTypes DEF SyncFinal, At, PhaseIsVerified
<1>12. ASSUME NEW w \in Workspace, AgentOpensPr(w)
       PROVE  PhaseIsVerified'
  BY <1>12, <1>b DEF AgentOpensPr, PhaseIsVerified
<1>13. ASSUME NEW w \in Workspace, Close(w)
       PROVE  PhaseIsVerified'
  BY <1>13, <1>b DEF Close, PhaseIsVerified
<1>14. ASSUME NEW w \in Workspace, Delete(w)
       PROVE  PhaseIsVerified'
  <2>1. \A v \in Workspace : file'[v] \in {file[v], "none"}
    BY <1>14, <1>a DEF Delete, WriteStatus, TypeOK
  <2> QED
    BY <1>14, <1>b, <2>1 DEF Delete, PhaseIsVerified
<1> QED
  BY <1>1, <1>2, <1>3, <1>4, <1>5, <1>6, <1>7, <1>8, <1>9, <1>10, <1>11, <1>12, <1>13, <1>14
     DEF Next, RunStep

-----------------------------------------------------------------------------
(* One agent per check. *)

\* What every step but the INSERT keeps: nobody starts to work, on another check or after
\* being abandoned, and a row is not released while its agent works.
Keeps ==
  \A v \in Workspace :
    Working(v)' => /\ Working(v) /\ task'[v].check = task[v].check
                   /\ v \in abandoned => v \in abandoned'
                   /\ Active(v) => Active(v)' \/ v \in abandoned'

LEMMA KeepsSuffices ==
  ASSUME IInv, Keeps
  PROVE  WorkerIsActive' /\ OneAgentPerCheck'
BY DEF IInv, Keeps, WorkerIsActive, OneAgentPerCheck

LEMMA OneAgentStep == IInv /\ [Next]_vars => WorkerIsActive' /\ OneAgentPerCheck'
<1> SUFFICES ASSUME IInv, [Next]_vars PROVE WorkerIsActive' /\ OneAgentPerCheck'
  OBVIOUS
<1>a. TypeOK
  BY DEF IInv
<1>1. CASE UNCHANGED vars
  <2>1. Keeps
    BY <1>1 DEF Keeps, vars, Working, Active
  <2> QED
    BY <2>1, KeepsSuffices
<1>2. CASE Crash
  <2>1. \A w \in Workspace : task[w] \in TaskType
    BY <1>a DEF TypeOK, TaskType, Pc
  <2>2. \A w \in Workspace : task'[w].pc \in {"idle", "done"}
    BY <1>2, <2>1 DEF Crash, IdleTask, TaskType
  <2>3. Keeps
    BY <2>2 DEF Keeps, Working
  <2> QED
    BY <2>3, KeepsSuffices
<1>3. CASE Boot
  <2>1. Keeps
    BY <1>3 DEF Boot, Keeps, Working, Active
  <2> QED
    BY <2>1, KeepsSuffices
<1>4. ASSUME NEW w \in Workspace, NEW c \in Check, Spawn(w, c)
      PROVE  Keeps
  BY <1>4, <1>a, SpawnKeeps DEF Spawn, World, Keeps, Working, Active
<1>5. ASSUME NEW w \in Workspace, Insert(w)
      PROVE  WorkerIsActive' /\ OneAgentPerCheck'
  <2>1. CASE Collides(w)
    <3>1. Keeps
      BY <1>5, <1>a, <2>1, GoesKeeps, PcTypes DEF Insert, World, Keeps, Working, Active
    <3> QED
      BY <3>1, KeepsSuffices
  <2>2. CASE ~ Collides(w)
    <3>1. /\ state'[w] = "pending" /\ \A v \in Workspace \ {w} : state'[v] = state[v]
      BY <1>5, <1>a, <2>2 DEF Insert, TypeOK
    <3>2. /\ \A v \in Workspace \ {w} : task'[v] = task[v]
          /\ task'[w].check = task[w].check
      BY <1>5, <1>a, <2>2, GoesKeeps, PcTypes DEF Insert
    <3>3. WorkerIsActive'
      BY <1>5, <3>1, <3>2 DEF IInv, WorkerIsActive, Insert, World, Working, Active, ActiveStates
    <3>4. \A v \in Workspace \ {w} :
            Working(v)' /\ task'[v].check = task'[w].check => v \in abandoned'
      BY <1>5, <2>2, <3>2
         DEF IInv, WorkerIsActive, Collides, Insert, World, Working, Active
    <3>5. OneAgentPerCheck'
      BY <1>5, <3>2, <3>4 DEF IInv, OneAgentPerCheck, Insert, World, Working
    <3> QED
      BY <3>3, <3>5
  <2> QED
    BY <2>1, <2>2
<1>6. ASSUME NEW w \in Workspace, Start(w)
      PROVE  Keeps
  BY <1>6, <1>a, GoesKeeps, PcTypes DEF Start, At, World, Keeps, Working, Active
<1>7. ASSUME NEW w \in Workspace, SyncRunning(w)
      PROVE  Keeps
  <2>1. /\ \A v \in Workspace \ {w} : state'[v] = state[v]
        /\ state'[w] \in {state[w], "running"}
    BY <1>7, <1>a, SyncType DEF SyncRunning, StateOf
  <2> QED
    BY <1>7, <1>a, <2>1, GoesKeeps, PcTypes
       DEF SyncRunning, At, World, Keeps, Working, Active, ActiveStates
<1>8. ASSUME NEW w \in Workspace, AgentEnds(w)
      PROVE  Keeps
  <2>1. /\ \A v \in Workspace \ {w} : task'[v] = task[v]
        /\ task'[w].check = task[w].check
    BY <1>8, <1>a, ToKeeps, ClaimKeeps DEF AgentEnds, Phases
  <2> QED
    BY <1>8, <2>1 DEF AgentEnds, At, World, Keeps, Working, Active
<1>9. ASSUME NEW w \in Workspace, Verify(w)
      PROVE  Keeps
  <2>1. /\ \A v \in Workspace \ {w} : task'[v] = task[v]
        /\ task'[w].check = task[w].check
    BY <1>9, <1>a, ToKeeps, RefusalKeeps DEF Verify, Phases
  <2> QED
    BY <1>9, <2>1 DEF Verify, At, World, Keeps, Working, Active
<1>10. ASSUME NEW w \in Workspace, Finalize(w)
       PROVE  Keeps
  BY <1>10, <1>a, GoesKeeps, PcTypes DEF Finalize, At, World, Keeps, Working, Active
<1>11. ASSUME NEW w \in Workspace, SyncFinal(w)
       PROVE  Keeps
  <2>1. task[w].phase \in Phases \cup {"running", "none"}
    BY <1>a DEF TypeOK
  <2>2. \A v \in Workspace \ {w} : state'[v] = state[v]
    BY <1>11, <1>a, <2>1, SyncType DEF SyncFinal
  <2> QED
    BY <1>11, <1>a, <2>2, GoesKeeps, PcTypes DEF SyncFinal, World, Keeps, Working, Active
<1>12. ASSUME NEW w \in Workspace, AgentOpensPr(w)
       PROVE  Keeps
  BY <1>12 DEF AgentOpensPr, World, Keeps, Working, Active
<1>13. ASSUME NEW w \in Workspace, Close(w)
       PROVE  Keeps
  <2>1. \A v \in Workspace \ {w} : state'[v] = state[v]
    BY <1>13, <1>a DEF Close, TypeOK
  <2> QED
    BY <1>13, <2>1 DEF Close, Keeps, Working, Active
<1>14. ASSUME NEW w \in Workspace, Delete(w)
       PROVE  Keeps
  <2>1. \A v \in Workspace \ {w} : state'[v] = state[v]
    BY <1>14, <1>a DEF Delete, TypeOK
  <2> QED
    BY <1>14, <2>1 DEF Delete, Keeps, Working, Active
<1> QED
  BY <1>1, <1>2, <1>3, <1>4, <1>5, <1>6, <1>7, <1>8, <1>9, <1>10, <1>11, <1>12, <1>13, <1>14,
     KeepsSuffices
     DEF Next, RunStep

-----------------------------------------------------------------------------
(* The theorems. *)

LEMMA Inductive == Spec => []IInv
<1>1. IInv /\ [Next]_vars => IInv'
  BY TypeStep, PhaseStep, OneAgentStep DEF IInv
<1> QED
  BY InitIInv, <1>1, PTL DEF Spec

\* The variables of the spawning route, the runner and the routes of the user keep their
\* types.
THEOREM TypeCorrect == Spec => []TypeOK
<1>1. IInv => TypeOK
  BY DEF IInv
<1> QED
  BY <1>1, Inductive, PTL

\* The partial unique index, and a runner that releases its row only when its agent is done,
\* keep a second agent off a check, for any number of fixes, crashes and users' requests.
THEOREM ChecksHaveOneAgent == Spec => []OneAgentPerCheck
<1>1. IInv => OneAgentPerCheck
  BY DEF IInv
<1> QED
  BY <1>1, Inductive, PTL

\* status.json never names a pull request that GitHub does not have, whatever agents claim.
THEOREM RecordedPrIsReal == Spec => []PrIsReal
<1>1. IInv => PrIsReal
  BY DEF IInv, PhaseIsVerified, PrIsReal
<1> QED
  BY <1>1, Inductive, PTL
=============================================================================
