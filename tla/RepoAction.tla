----------------------------- MODULE RepoAction -----------------------------
(***************************************************************************)
(* Posture fixes: POST /posture/fix/{check} spawns a workspace whose agent *)
(* works on the repository unattended and opens a PR.  The workspace row   *)
(* is the mutex of its check, through a partial unique index;              *)
(* history/status.json is what the UI polls.  The runner writes both, one  *)
(* after the other, at its start and at its end.                           *)
(***************************************************************************)
EXTENDS Naturals

CONSTANTS
  Workspace,   \* workspace ids: a bound on the fixes asked for
  Check,       \* the posture checks that have an agent
  MaxCrashes   \* a bound on the crashes

ASSUME CrashBound == MaxCrashes \in Nat

VARIABLES
  state,      \* the state of each workspace row, "none" when there is no row
  file,       \* the status in each workspace's status.json, "none" without the file
  task,       \* the request that spawns a workspace, then its runner
  prs,        \* the PRs on GitHub, each named by the workspace whose agent opened it
  up,         \* the server runs
  crashes,    \* crashes so far
  abandoned,  \* workspaces the user closed or deleted
  unsynced    \* workspaces whose last UPDATE failed and was logged

vars == <<state, file, task, prs, up, crashes, abandoned, unsynced>>

Phases == {"pr_created", "already_present", "failed"}
States == {"pending", "running", "succeeded", "failed", "closed"}
\* The states of the index's WHERE clause; mutation: it forgets the first.
ActiveStatesRunning == {"running"}
ActiveStates == {"pending", "running"}
IdleTask == [pc |-> "idle", check |-> "none", phase |-> "none", claim |-> "none"]

Init ==
  /\ state = [w \in Workspace |-> "none"] /\ file = [w \in Workspace |-> "none"]
  /\ task = [w \in Workspace |-> IdleTask]
  /\ prs = {} /\ up = TRUE /\ crashes = 0 /\ abandoned = {} /\ unsynced = {}

At(w, pc) == up /\ task[w].pc = pc
Goes(w, pc) == task' = [task EXCEPT ![w].pc = pc]
World == <<up, crashes, abandoned>>
Active(w) == state[w] \in ActiveStates
Working(w) == task[w].pc \notin {"idle", "insert", "done"}

-----------------------------------------------------------------------------
(* spawn_repo_workspace. *)

\* The directory is allocated before the row.
Spawn(w, c) ==
  /\ At(w, "idle") /\ task' = [task EXCEPT ![w] = [IdleTask EXCEPT !.pc = "insert", !.check = c]]
  /\ UNCHANGED <<state, file, prs, World, unsynced>>

\* idx_workspace_active_per_check.
Collides(w) == \E v \in Workspace : Active(v) /\ task[v].check = task[w].check

\* The row and the background task, or 409 and the directory is removed.
Insert(w) ==
  /\ At(w, "insert") /\ UNCHANGED <<file, prs, World, unsynced>>
  /\ IF Collides(w)
       THEN Goes(w, "done") /\ UNCHANGED state
       ELSE Goes(w, "start") /\ state' = [state EXCEPT ![w] = "pending"]

-----------------------------------------------------------------------------
(* RepoAgentRunner.run. *)

\* Mutation: the map lacks already_present.
StateOfForgetting(phase) ==
  CASE phase = "pr_created" -> "succeeded" [] phase = "failed" -> "failed" [] OTHER -> "running"
\* _PHASE_TO_WORKSPACE_STATE.
StateOf(phase) ==
  CASE phase \in {"pr_created", "already_present"} -> "succeeded"
    [] phase = "failed" -> "failed"
    [] OTHER -> "running"

\* _sync_workspace_state: a row the user deleted is not updated, an error is logged.
Sync(w, phase) ==
  \/ /\ state' = IF state[w] = "none" THEN state ELSE [state EXCEPT ![w] = StateOf(phase)]
     /\ unsynced' = unsynced \ {w}
  \/ UNCHANGED state /\ unsynced' = unsynced \cup {w}

\* _write_status makes the directory again if the user deleted it.
WriteStatus(w, phase) == file' = [file EXCEPT ![w] = phase]

Start(w) ==
  /\ At(w, "start") /\ Goes(w, "sync_running") /\ WriteStatus(w, "running")
  /\ UNCHANGED <<state, prs, World, unsynced>>

SyncRunning(w) ==
  /\ At(w, "sync_running") /\ Goes(w, "agent") /\ Sync(w, "running")
  /\ UNCHANGED <<file, prs, World>>

\* git push and gh pr create, approved in advance.
AgentOpensPr(w) ==
  /\ At(w, "agent") /\ w \notin prs /\ prs' = prs \cup {w}
  /\ UNCHANGED <<state, file, task, World, unsynced>>

To(w, phase) == task' = [task EXCEPT ![w].pc = "finalize", ![w].phase = phase]

\* No provider, a timeout, a model error or an agent that gives up; or an answer, which may
\* name any PR, one that does not exist or another fix's among them.
AgentEnds(w) ==
  /\ At(w, "agent") /\ UNCHANGED <<state, file, prs, World, unsynced>>
  /\ \/ To(w, "failed") \/ To(w, "already_present")
     \/ \E pr \in Workspace :
          task' = [task EXCEPT ![w].pc = "verify", ![w].claim = pr]

\* Mutation: the agent is believed.
VerifiedAlways(w) == TRUE
\* verify_pr_url: GitHub knows the URL.
Verified(w) == task[w].claim \in prs

\* GitHub may also fail to confirm a PR that is there; then no PR is recorded.
Verify(w) ==
  /\ At(w, "verify") /\ UNCHANGED <<state, file, prs, World, unsynced>>
  /\ \/ Verified(w) /\ To(w, "pr_created")
     \/ task' = [task EXCEPT ![w].pc = "finalize", ![w].phase = "failed", ![w].claim = "none"]

Finalize(w) ==
  /\ At(w, "finalize") /\ Goes(w, "sync_final") /\ WriteStatus(w, task[w].phase)
  /\ UNCHANGED <<state, prs, World, unsynced>>

SyncFinal(w) ==
  /\ At(w, "sync_final") /\ Goes(w, "done") /\ Sync(w, task[w].phase)
  /\ UNCHANGED <<file, prs, World>>

RunStep(w) ==
  \/ Start(w) \/ SyncRunning(w) \/ AgentEnds(w) \/ Verify(w) \/ Finalize(w) \/ SyncFinal(w)

-----------------------------------------------------------------------------
(* The user and the process. *)

\* PATCH /workspaces/{id}: no task is told.
Close(w) ==
  /\ up /\ Active(w) /\ state' = [state EXCEPT ![w] = "closed"]
  /\ abandoned' = abandoned \cup {w} /\ UNCHANGED <<file, task, prs, up, crashes, unsynced>>

\* DELETE /workspaces/{id}: the directory, then the row.
Delete(w) ==
  /\ up /\ state[w] # "none" /\ state' = [state EXCEPT ![w] = "none"]
  /\ WriteStatus(w, "none")
  /\ abandoned' = abandoned \cup {w} /\ UNCHANGED <<task, prs, up, crashes, unsynced>>

\* Nothing in the lifespan looks at these rows when the process is back.
Crash ==
  /\ up /\ crashes < MaxCrashes /\ up' = FALSE /\ crashes' = crashes + 1
  /\ task' = [w \in Workspace |->
                IF task[w].pc = "idle" THEN IdleTask ELSE [task[w] EXCEPT !.pc = "done"]]
  /\ UNCHANGED <<state, file, prs, abandoned, unsynced>>

Boot ==
  ~up /\ up' = TRUE /\ UNCHANGED <<state, file, task, prs, crashes, abandoned, unsynced>>

Next ==
  \/ Crash \/ Boot
  \/ \E w \in Workspace :
       \/ \E c \in Check : Spawn(w, c)
       \/ Insert(w) \/ RunStep(w) \/ AgentOpensPr(w) \/ Close(w) \/ Delete(w)

\* The agent runs under a timeout, and every other await of the runner ends.
Spec == Init /\ [][Next]_vars /\ \A w \in Workspace : WF_vars(RunStep(w))

-----------------------------------------------------------------------------
(* Properties. *)

\* The rows, files and tasks have their types.
TypeOK ==
  /\ state \in [Workspace -> States \cup {"none"}]
  /\ file \in [Workspace -> Phases \cup {"none", "running"}]
  /\ task \in [Workspace ->
                 [pc : {"idle", "insert", "start", "sync_running", "agent", "verify",
                        "finalize", "sync_final", "done"},
                  check : Check \cup {"none"}, phase : Phases \cup {"none"},
                  claim : Workspace \cup {"none"}]]
  /\ prs \subseteq Workspace /\ abandoned \subseteq Workspace /\ unsynced \subseteq Workspace
  /\ up \in BOOLEAN /\ crashes \in 0..MaxCrashes

\* Two unattended agents never work on one check, unless the user took the first one's
\* workspace away (the index, and the runner that releases it only when its agent is done).
OneAgentPerCheck ==
  \A v, w \in Workspace :
    (v # w /\ Working(v) /\ Working(w) /\ task[v].check = task[w].check)
      => v \in abandoned \/ w \in abandoned

\* What the UI is told of a PR is true: status.json names one only if GitHub has it, also
\* after a timeout that followed the push and after a restart, whatever the agents claim
\* (RepoAgentRunner.run, verify_pr_url).  It may be another fix's: the URL is not compared.
PrIsReal == \A w \in Workspace : file[w] = "pr_created" => task[w].claim \in prs

\* A fix whose process lives ends: the poll sees how it ended and the check may be fixed
\* again, unless the last UPDATE itself failed (_finalize, _PHASE_TO_WORKSPACE_STATE).
FixSettles ==
  \A w \in Workspace :
    Working(w) ~> (~up \/ w \in unsynced \/ (task[w].pc = "done" /\ ~Active(w)))
=============================================================================
