---------------------------- MODULE RepoProfile ----------------------------
(***************************************************************************)
(* The Project profile of one repository: the row that carries its status  *)
(* and is the mutex of its builds, the cached clone, and the artifacts,    *)
(* manifest and digest on disk.  Builds are background tasks, scheduled by *)
(* every scan and by POST /repos/profile/rebuild; each action is what one  *)
(* of them does between two awaits.                                        *)
(***************************************************************************)
EXTENDS Naturals, Sequences

CONSTANTS
  Build,       \* slots for build tasks: a bound on those in flight
  MaxCommit,   \* a bound on the commits of the remote branch
  MaxCrashes   \* a bound on the crashes

ASSUME ProfileBounds == MaxCommit \in Nat \ {0} /\ MaxCrashes \in Nat

VARIABLES
  tip,       \* the commit at the remote's tip
  row,       \* the repo row: profile_status and last_profiled_sha
  clone,     \* <id>/repo: what is there, and the commit its files are of
  store,     \* <id>/<artifact>.json: the commit each artifact was built from
  manifest,  \* MANIFEST.json: its source_sha
  digest,    \* PROFILE.md: the artifacts it was rendered from
  build,     \* the build tasks
  up,        \* the server runs
  crashes    \* crashes so far

profileVars == <<tip, row, clone, store, manifest, digest, build, up, crashes>>
disk == <<store, manifest, digest>>

Builders == <<"profile", "code_map", "threat", "dep_manifest">>
Artifact == {Builders[k] : k \in DOMAIN Builders}
Commit == 0..MaxCommit   \* 0: never written, or files of no single commit
Statuses == {"absent", "none", "building", "ready", "error"}
Idle == [pc |-> "idle", sha |-> 0, next |-> 1]
NoArtifacts == [a \in Artifact |-> 0]

ProfileInit ==
  /\ tip = 1 /\ up = TRUE /\ crashes = 0
  /\ row = [status |-> "absent", sha |-> 0]
  /\ clone = [kind |-> "none", at |-> 0]
  /\ store = NoArtifacts /\ manifest = 0 /\ digest = NoArtifacts
  /\ build = [b \in Build |-> Idle]

At(b, pc) == up /\ build[b].pc = pc
Goes(b, pc) == build' = [build EXCEPT ![b].pc = pc]
Ends(b) == build' = [build EXCEPT ![b] = Idle]
World == <<tip, up, crashes>>

-----------------------------------------------------------------------------
(* ProfileRunner.build. *)

\* schedule_profile_build, with a provider configured; without one it creates no task.
Schedule(b) == At(b, "idle") /\ Goes(b, "create") /\ UNCHANGED <<World, row, clone, disk>>

\* get_or_create_repo: every spelling of the URL finds the same row.
Create(b) ==
  /\ At(b, "create") /\ Goes(b, "begin") /\ UNCHANGED <<World, clone, disk>>
  /\ row' = IF row.status = "absent" THEN [row EXCEPT !.status = "none"] ELSE row

\* Mutation: the status is read by the build and not compared by its UPDATE.
MayBeginAlways == TRUE
\* try_begin_profile's WHERE clause.
MayBegin == row.status # "building"

TryBegin(b) ==
  /\ At(b, "begin") /\ UNCHANGED <<World, clone, disk>>
  /\ IF MayBegin
       THEN row' = [row EXCEPT !.status = "building"] /\ Goes(b, "sync")
       ELSE Ends(b) /\ UNCHANGED row

\* sync_clone, when it succeeds: fetch and hard reset, or a fresh clone in place of what
\* is not one.
Sync(b) ==
  /\ At(b, "sync") /\ Goes(b, "sha") /\ UNCHANGED <<World, row, disk>>
  /\ clone' = [kind |-> "git", at |-> tip]

\* What it may leave when it fails or is killed: a reset may be half done; git removes a
\* clone that failed, but not one that was killed.
HalfSynced ==
  IF clone.kind = "git" THEN {clone, [clone EXCEPT !.at = 0]}
  ELSE [kind : {"none", "partial", "git"}, at : {0}]

SyncFails(b) ==
  /\ At(b, "sync") /\ Goes(b, "fail") /\ UNCHANGED <<World, row, disk>>
  /\ clone' \in HalfSynced

ReadSha(b) ==
  /\ At(b, "sha") /\ UNCHANGED <<World, row, clone, disk>>
  /\ build' = [build EXCEPT ![b] = [pc |-> "build", sha |-> clone.at, next |-> 1]]

\* One builder reads the clone and its artifact is replaced.  After the last one the
\* manifest and the digest are written before the next await.
RunBuilder(b) ==
  LET k == build[b].next
      written == [store EXCEPT ![Builders[k]] = clone.at] IN
  /\ At(b, "build") /\ UNCHANGED <<World, row, clone>>
  /\ store' = written
  /\ IF k < Len(Builders)
       THEN build' = [build EXCEPT ![b].next = k + 1] /\ UNCHANGED <<manifest, digest>>
       ELSE Goes(b, "finish") /\ manifest' = build[b].sha /\ digest' = written

\* A build fails at its token, its rev-parse or a builder.
StepFails(b) ==
  /\ up /\ build[b].pc \in {"sync", "sha", "build"} /\ Goes(b, "fail")
  /\ UNCHANGED <<World, row, clone, disk>>

\* finish_profile.
FinishReady(b) ==
  /\ At(b, "finish") /\ Ends(b) /\ UNCHANGED <<World, clone, disk>>
  /\ row' = [status |-> "ready", sha |-> build[b].sha]

\* Mutation: the failure is only logged.
FailedStatusKept == row.status

\* The status a failed build leaves: the previous profile's freshness survives.
FailedStatus == "error"
FinishError(b) ==
  /\ At(b, "fail") /\ Ends(b) /\ UNCHANGED <<World, clone, disk>>
  /\ row' = [row EXCEPT !.status = FailedStatus]

BuildStep(b) ==
  \/ Create(b) \/ TryBegin(b) \/ Sync(b) \/ SyncFails(b) \/ ReadSha(b) \/ RunBuilder(b)
  \/ StepFails(b) \/ FinishReady(b) \/ FinishError(b)

-----------------------------------------------------------------------------
(* The world. *)

Push ==
  tip < MaxCommit /\ tip' = tip + 1 /\ UNCHANGED <<row, clone, disk, build, up, crashes>>

\* The tasks are gone, the row and the disk are as they were.
Crash ==
  /\ up /\ crashes < MaxCrashes /\ up' = FALSE /\ crashes' = crashes + 1
  /\ build' = [b \in Build |-> Idle]
  /\ clone' \in IF \E b \in Build : build[b].pc = "sync" THEN HalfSynced ELSE {clone}
  /\ UNCHANGED <<tip, row, disk>>

\* The lifespan does nothing about profiles: reap_stale_builds has no caller.
Boot == ~up /\ up' = TRUE /\ UNCHANGED <<tip, row, clone, disk, build, crashes>>

ProfileNext == Push \/ Crash \/ Boot \/ \E b \in Build : Schedule(b) \/ BuildStep(b)

\* Awaits end (git and the model calls have timeouts), and the process is restarted.
ProfileFairness == WF_profileVars(Boot) /\ \A b \in Build : WF_profileVars(BuildStep(b))

ProfileSpec == ProfileInit /\ [][ProfileNext]_profileVars /\ ProfileFairness

-----------------------------------------------------------------------------
(* Properties. *)

\* The rows, files and tasks have their types.
ProfileTypeOK ==
  /\ tip \in 1..MaxCommit /\ up \in BOOLEAN /\ crashes \in 0..MaxCrashes
  /\ row \in [status : Statuses, sha : Commit]
  /\ clone \in [kind : {"none", "partial", "git"}, at : Commit]
  /\ store \in [Artifact -> Commit] /\ digest \in [Artifact -> Commit] /\ manifest \in Commit
  /\ build \in [Build -> [pc : {"idle", "create", "begin", "sync", "sha", "build", "finish",
                                "fail"}, sha : Commit, next : 1..4]]

\* A profile that says ready describes one commit, the one its row names: so do all four
\* artifacts, the manifest, the digest and the clone (ProfileRunner.build, whose builders
\* run one by one on a clone that another build could move, and may fail midway).
ReadyIsOneCommit ==
  row.status = "ready" =>
    /\ row.sha > 0 /\ clone = [kind |-> "git", at |-> row.sha]
    /\ manifest = row.sha /\ digest = store /\ \A a \in Artifact : store[a] = row.sha

\* A build whose process lives gives the mutex back, whatever step of it fails
\* (the except clause of ProfileRunner.build).
MutexIsReleased ==
  (row.status = "building" /\ \E b \in Build : build[b].pc \notin {"idle", "create", "begin"})
    ~> (row.status # "building" \/ ~up)
=============================================================================
