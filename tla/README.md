# A TLA+ model of Cliff

Cliff is a self-hosted copilot for remediating security findings: a FastAPI backend over one
SQLite database, a React front end that polls it, and a CLI that installs, starts and updates
it. This directory models what is hard to test in the backend and the CLI: the interleavings
of background tasks, routes and terminals, their crashes, retries, cancellations and partial
failures, and the stores that several of them read and write.

`PROJECT.json` lists the components, the runs, the mutants that show a property can fail, the
source lines each definition stands for, the finding, the hazards and the theorems.

Check one run with `tlc -config MCIngestWorker.cfg MCIngestWorker`, the proofs with
`tlapm AgentExecutor_proofs.tla` and likewise.

## The system

One asyncio process holds one SQLite connection. A coroutine runs without interruption from
one `await` to the next, and every statement is committed at once; so the atomic steps of the
backend models are the stretches between awaits that touch shared state, and a check in one
await and a write in the next is two steps. Background tasks live in memory and die with the
process; rows and files survive. CLI commands are processes of their own, and share files,
ports and process ids.

| Component (under `backend/cliff/` unless `cli/`) | State | Operations | Interacts with | What is hard, what must hold |
|---|---|---|---|---|
| Agent executor (`agents/executor.py`) | `agent_run` rows, permission marker and history, tasks | execute, pause, resume, finalize, cancel, reconcile | pipeline, finding rows, context and sidebar | check-then-act races, cancel against completion, double resume, crash; no wedged run, green means persisted |
| Pipeline and triage (`agents/pipeline.py`, `triage_runner.py`, `api/routes/agent_execution.py`) | loop counters, the verdict | suggest_next, run-all, triage, approve | executor, stores | two human gates over two stores that are not updated together, stale outputs, retry storms |
| Workspace stores (`workspace/`, `db/repo_sidebar.py`, `agents/sidebar_mapper.py`) | `context/*.json`, `agent-runs.jsonl`, sidebar row | update_context, map_and_upsert, mark_plan_approved | executor, gates, issue page | lost updates, the two copies of `approved` |
| Finding and workspace rows (`db/repo_finding.py`, `api/routes/workspaces.py`) | status, `pr_url`, reject data, auto-close note | upsert, Start, PATCH, reject, close, resolve, delete | executor, scans, ingest | user decisions against scanners and agents |
| Ingest worker (`integrations/ingest_worker.py`, `db/repo_ingest_job.py`) | `ingest_job` rows | create, poll, chunk, pause, cancel | finding rows | cancellation against the worker's writes, restart, progress counters |
| Assessment runs (`api/_background.py`, `assessment/engine.py`, `db/dao/assessment.py`) | `assessment` and `completion` rows, tasks | run, fail, reap, reconcile | scanners, finding rows, clones | watchdog against a late result, failures after the engine; every poll ends, closing needs a look |
| Scanners and posture checks (`assessment/posture/`) | none (pure over API answers and files) | fifteen checks, criteria, grade | assessment runs, dashboard | missing answers; a grade is not earned by looking away |
| Issue derivation (`models/issue_derivation.py`) | none (pure) | derive | rows of all of the above | combinations of rows nobody wrote a test for |
| Dashboard (`api/routes/dashboard.py`, `_level_up.py`, `dashboard_metrics.py`) | none (computed per request) | payload, trend, level-up panel | assessment and finding rows, derivation | numbers computed twice, stored criteria against today's findings |
| GitHub device flow (`integrations/github_app/flow.py`, `api/routes/github_app.py`, `onboarding.py`) | installation row, vault, poll tasks | connect, poll, poll-now, callback, disconnect, onboard | vault, integrations | late poll results, disconnect in flight; one installation, a clean disconnect |
| GitHub client (`integrations/github_app/client.py`) | none | push preflight | device flow's diagnosis | three answers that may each be missing |
| AI providers (`ai/`, `main.py`, `api/routes/ai_integrations.py`) | `integration_config`, `credential`, `ai_integration`, `app_setting`, two caches, readiness | save, disconnect, model, hook, boot probe, OAuth, migration | vault, agent runs | two caches refreshed in awaits after the rows; an agent is given what the tables say |
| Vault (`integrations/vault.py`) | the encryption key of a start | resolve, store, retrieve, cascade | AI providers, GitHub | a key source that changes between starts |
| Repository profiles (`repos/`) | `repo` row, clone, artifacts, manifest, digest | schedule, begin, clone or refresh, build, finish, fail | deep dive, assessment runs | a mutex in a row, artifacts of two commits |
| Deep dive (`agents/triage_deep/`) | the dive | escalate, five stages, two panels, gate | profiles, triage | a clone that moves, reviewers who do not answer; no dismissal by default |
| Repository actions (`workspace/repo_workspace_runner.py`, `api/_engine_dep.py`) | workspace row, `status.json`, task | spawn, run, verify, finalize | unique index, GitHub | two records written one after the other; one agent per check, no PR that is not there |
| CLI daemon (`cli/cliff_cli/daemon.py`, `cli.py`) | processes, pid file, ports, `cliff.env` | start, stop, restart, uninstall, config set | updater, the operating system | stale pid files, servers nobody recorded, strangers on the port |
| CLI updater (`cli/cliff_cli/updater.py`) | `app`, `bin`, snapshots, lock file | lock, validate, swap, doctor, roll back, prune | daemon | any step may fail; an install is never lost |
| The rest | | | | see "What is not modelled" |

## The modules

| Module | Models | Extends or uses |
|---|---|---|
| `RunLifecycle` | what the executor promises of each run | refined by `AgentExecutor` |
| `AgentExecutor`, `AgentExecutor_proofs` | the executor of one workspace; its theorems and `AiConnect`'s | |
| `RemediationPipeline`, `RemediationPipeline_proofs` | run-all, triage, single runs and the approval of plans, their theorems | |
| `IngestWorker`, `IngestWorker_proofs` | import jobs and their worker; their theorems and `Dashboard`'s | |
| `FindingStore` | the finding and workspace rows and the routes that write them | |
| `AssessmentLifecycle` | what the assessment table promises a dashboard that polls it | refined by `AssessmentRun` |
| `AssessmentRun`, `AssessmentRun_proofs` | assessment rows and tasks, scanners, close pass, watchdog, crash and boot, their theorems | extends `FindingStore` |
| `PostureChecks` | checks, criteria and grade as operators | |
| `IssueDerivation` | `derive` as an operator, and how an issue's rows move | |
| `Dashboard` | the dashboard and the Issues page over one assessment and one finding | extends `PostureChecks`, `IssueDerivation` |
| `GithubClient` | the push preflight as an operator | |
| `GithubFlow`, `GithubFlow_proofs` | the device flow, onboarding and disconnect, their theorems | extends `GithubClient` |
| `CliDaemon` | processes, pid file, ports, and the daemon commands | |
| `CliUpdater`, `CliUpdater_proofs` | `cliffsec update` over the same install, their theorems | extends `CliDaemon` |
| `CredentialVault` | the rows a provider's key lives in, and the encryption key of each start | |
| `AiProvider` | the service's saves, hooks, caches, probe and start | extends `CredentialVault` |
| `AiConnect` | the routes and the OAuth sessions over them | extends `AiProvider` |
| `RepoProfile` | the profile row, the clone, the artifacts and their builds | |
| `DeepDive` | escalation and the dive, beside the builds | extends `RepoProfile` |
| `RepoAction` | posture fixes: the request, the runner, the two records | |
| `DeepDive_proofs`, `RepoAction_proofs` | the theorems of profiles and dives, and of posture fixes | |
| `MC...` | instances for TLC | |

Every specification of a component states a type invariant, and each of them is proved; the
runs check three as well. The two abstract specifications constrain steps only. `CliDaemon`, `CredentialVault`, `AiProvider` and `FindingStore` have no specification
of their own: their variables are typed in the modules that extend them.

**AgentExecutor.** `pc[t]` is the await a background task is suspended at. `status` and
`parked` are the columns of the row; a parked row keeps the status it had, as in
`_park_for_permission`. `logged` and `mirrored` say whose output reached the context files and
the sidebar. The answer of a model is abstracted to what `_advance_finding_status` and PR
verification tell apart (a PR that exists, a PR that does not, a verdict of fixed). GitHub may
refuse to confirm a real PR (network, 401, 403), never the reverse. An agent run may fail at
any step, with `failed` or `rate_limited`. `cancelling` holds the rows whose cancel handler is
between its read and its write. Left out: the raw `POST` and `PATCH` routes on `agent_run`
rows (arbitrary rows by design), and the limit of ten rows in `check_not_busy`. Workspace
data that cannot be loaded is one of the failures of the working step.

**RemediationPipeline.** A row is running exactly while a task works on it or it is parked:
what the rows themselves can do is AgentExecutor's subject. Plans are numbered, and `approved`
records the number the approval was read for; the code has only the flag, and `Suggest` tests
only whether it is set. The sidebar is read and written back whole, in two steps, as
`map_and_upsert` does. A synthesized verdict carries the `basis` it rests on: this triage's
exposure output, an older one, or the deep dive and the deterministic gates, which read code
of their own. `exposure.old` marks, per triage task, that the newest exposure row was there
before it began.

**IngestWorker.** A finding is a (job, item) pair, since `create_finding` upserts. Any subset
of a chunk's items may be valid, with or without errors. `WorkerChunk` is the size the worker
uses, `chunk` and `total` what the row was created with.

**FindingStore.** `finding` and `workspace` are the two tables, `req[r]` a route handler and
the await it is at. Creating a workspace is a lookup, an INSERT and an UPDATE of the finding,
three awaits; closing one reads the runs' pull requests and then resolves the finding. A
workspace id is never used again, as a uuid4 is not.

**AssessmentRun.** `task[a]` is the background task: clone, scanners, one upsert or close per
await, tools, result, completion. `report[a]` is what the scan saw, whatever the scanner's exit
was taken for. `Reap`, `GrowStale` and `TimeOut` are the watchdog, the age it looks at and the
600 s of the task; `Crash` kills the task and keeps the rows; `Boot` fails what was in flight.
`Phase` maps a row to `AssessmentLifecycle`; a failed row without a reason has no phase there.

**PostureChecks, IssueDerivation, Dashboard.** Evidence is the set of answers the GitHub client
can return ("unable" is `UnableToVerify`, from whatever cause) and the files of the clone that
a check looks at. `Derive` is the first rule that matches, in the code's order. `Dashboard`
recomputes on every state what one request would compute: `PayloadCounts` from the rows,
`CardCounts` from the checks' names, `Gates` from the stored criteria and today's finding.

**GithubFlow.** `poll[i]` is the polling task of an integration, `poll[0]` a poll-now request
that runs the same step; both copy the row before their HTTP call and apply the answer to what
they copied. `code` is GitHub's side. `newer` orders the integrations (`known`) by `updated_at`,
since the routes pick the newest. The connect lock is `lock`. `clean` names the last integration
disconnected with nothing beside it.

**CliDaemon, CliUpdater.** `proc` is the processes: Cliff's servers and strangers, booting or
up, on a port. `term[t]` is the command of a terminal and its step. The sweep of `stop` first
collects what it will signal (`seen`) and then signals it. An update holds a lock file by
inode (`fd`, `flock`), since the code unlinks it; `app` and `bin` are an install's directories,
`snap[u]` the ones renamed aside; a command may be killed and a rename refused at any step,
which `fault` records.

**CredentialVault, AiProvider, AiConnect.** A row of `integration_config` is an id with a
provider; `cred` says under which encryption key a credential was stored; `ai` is
`ai_integration` by connection time. `cache` is the environment and the model handed to agent
runs, each refreshed in an await of its own by the hook. `behind` is a ghost: it is set where a
change is followed by no hook (a settings route, a save that failed after its DELETE). `Restart`
is a stop and a start, with the resolution of the encryption key, the migration and the probe.

**RepoProfile, DeepDive.** `row` is the profile's status and sha, and is the mutex;
`clone.at`, `store`, `manifest` and `digest` say which commit each is of, 0 being files of no
single commit. A build fails at any step after it began. The dive's row and artifact reads are
one step, since a git or a model call separates them from any build's write. An agent of the
dive answers anything its schema lets through, or nothing.

**RepoAction.** `state` is the workspace row, `file` the status in `history/status.json`,
`task` the request and then the runner. An agent may open its PR at any moment of its life,
claim one that does not exist or another fix's, and time out after pushing.

## What the runs show

| Run | Question | Instance |
|---|---|---|
| `exec_safety` | do `NoWedgedRun`, `CompletedIsPersisted`, `NoHallucinatedPr`, `OverIsFinal` hold and is `RunLifecycle` implemented? | 2 rows, 2 tasks, planner and executor agents |
| `exec_live` | does every running row end, or wait for the user? | 1 row, 2 tasks, executor and validator, users who PATCH |
| `pipeline` | is a verdict fresh, and is no prerequisite repeated? | 2 tasks, 2 plans, 3 requests, both kinds of finding |
| `ingest` | does `completed` mean something was created, are jobs taken in order, does each end? | 2 jobs, chunks of 2, 3 faults |
| `assessment` | is `AssessmentLifecycle` implemented, its liveness included? does closing need a look, a completion a grade, and does a user's decision stand? | 2 assessments, 2 workspaces, 1 finding, 1 crash |
| `dashboard` | do the pages agree, is no critical hidden, no failure swallowed, no grade earned by blindness, and does a settled issue stay settled? | every answer that reaches the grade, 5 agents |
| `github` | is there one installation, does a disconnect clean up, is a badge earned, is a binding kept? | 2 connects beside polls, callback, disconnect, onboarding |
| `cli` | does an install survive every update, does `stop` find all of Cliff's and nothing else? | 2 terminals, 2 processes, 2 ports, 2 updates |
| `aikeys` | is an agent run given what the tables say? | 2 requests, 1 OAuth session, 3 rows, 2 providers |
| `deep_dive` | is a ready profile of one commit, is the mutex given back, is a dismissal earned? | 2 builds, 2 commits, 1 dive, 1 crash |
| `repo_action` | one agent per check, no PR that GitHub lacks, does every fix end? | 2 workspaces, 2 checks, 1 crash |
| `exec_double_resume` | where a comment of the executor is false | as `exec_safety` |

The finding: two permission decisions can both resume one parked run (`exec_double_resume`),
though a comment says that the marker prevents it. The line is quoted in `PROJECT.json`.

The passing runs show that the races stay contained: whatever overlaps, no workspace is
wedged, nothing green is unpersisted, no unverified PR is advanced, no decision of a user is
undone by a scan, no install is lost, and no agent is run on another provider's key.

### Disagreements the models reach

While the code was being modelled, these departures from its own comments, docstrings and
tests came up. They are reachable in the models (or plain from the code), no property asserts
the contrary, and no run is devoted to them.

* Two agents can work in one workspace (`executor.py:528` against 522).
* A triage can end without a verdict (`triage_runner.py:155`).
* An approved re-plan is never executed by run-all (`pipeline.py:107`), and an approval can
  land on a plan the user has not seen (`context_builder.py:213`, `pipeline.py:118`).
* A cancelled import can run on and complete (`ingest_worker.py:125`), and a small import
  counts more chunks than its total (`ingest_worker.py:129`).
* A scanner that exits with an error but printed a report counts as having run.
* A crash between an A grade and its completion row leaves the grade without it
  (`api/_background.py:325`).
* `updated_at` is not the last status flip the trend chart takes it for
  (`dashboard_metrics.py:119`); a secret-scanning setting GitHub hides is shown as a failure.
* A disconnect interrupted halfway leaves an integration that a later connect enables again
  (`flow.py:331`).
* A refused update unlinks the lock file of the one at work (`updater.py:310` against 12).
  A release without its venv fails the doctor and is rolled back; an archive whose names begin
  with `./` is refused by `verify_tarball_shape`.
* Readiness can return for a key the boot probe saw rejected (`main.py:310` against 197-198).
  Concurrent saves leave two provider rows (`service.py:481`). `_fire_key_change`, which
  "never raises", resolves the environment outside its `try` (`service.py:525`). The
  "one-shot" migration runs at each boot with an empty table (`main.py:170`).
* A profile build cut off by a crash leaves `building`, which no later build begins from
  (`dao.py:158` has no caller, against `git_ops.py:45-46`).
* A dive's `traced_sha` names the commit it began on, while the clone may be reset under it
  (`integration.py:90`). A dive that sees no exploit dismisses without a panel
  (`runner.py:414`). Its budget is never passed nor spent (`integration.py:43`). A dive that
  fails replaces the quick verdict by `needs_review` (`triage_runner.py:290`).
* A repository action running at a crash blocks its check (409) until the user closes it.

### Bounds, and why they are enough

* `exec_*`: every property speaks of one run and the tasks that could share it, so two tasks
  and one other run show every race between two actors. The theorems lift both bounds.
* `pipeline`: a plan and its re-plan; three requests let two tasks overlap and a third or a
  restart come between; `MaxIterations` = 10, the code's `len(VALID_AGENT_TYPES) + 3`; one
  approval handler at a time.
* `ingest`: an older and a newer job, one under the small-import threshold and one with a full
  and a partial chunk. `SmallImport` and `MaxConsecutive` are scaled down from 5 and 3;
  `MaxFaults` = 3 is a pause after two failures and one more fault.
* `assessment`: one finding a scanner may see, miss or skip; two assessments of one repository,
  so that there is a first scan and one that can close; two workspaces and two handlers, for
  the double Start; `MaxUserOps` = 2 (decide, then start or reject again), `MaxCrashes` = 1.
* `dashboard`: every combination of the answers that reach the grade, the others one by one
  (the checks do not interact otherwise). An issue's life is followed under one assessment
  with one agent's newest run badly ended; one day passes.
* `github`: two connects, two requests at a time beside the polling tasks, an onboarding alone.
  A behaviour is not followed past a diagnosis, nor past a second integration unless two
  connects are under way, which is how a second one would arise.
* `cli`: two terminals, two processes, two ports; two updates, so that one can fail after
  another succeeded, with `Retention` 1 in place of 3 so that pruning happens. Of two commands
  under way one is a start or the opening of the lock file; after a swap has begun the servers
  are Cliff's, on the configured port; behaviours end at two updates at once or an uninstall.
* `aikeys`: two actors at a time in an undisturbed installation, one in a disturbed one, and at
  most two disturbances (a probe at work, a leftover row, a blank or foreign credential, a
  legacy key, a session). Two providers stand for the catalog: one with a key and a default
  model, one with neither.
* `deep_dive`: two builds that may race, two commits so that one can be stale, one dive.
* `repo_action`: two fixes of one check or of two.

Instances that stop when their bounds are used up are checked without deadlock detection. The
executor and the deep dive are checked with it. Symmetry is used in runs of safety and action
properties only.

### Fairness

* `AgentExecutor`: weak fairness of each task's steps, since the event loop runs every ready
  coroutine and each await ends (the model call by `asyncio.wait_for`, verification by its HTTP
  timeout); and of `Boot`, since a supervisor restarts the process. Users and crashes owe
  nothing.
* `IngestWorker`: weak fairness of the worker's steps, which poll for ever. A model that fails
  for ever keeps a job unfinished, which is why `EveryJobEnds` needs the bound on faults.
* `AssessmentRun`: time passes, the watchdog ticks, a stopped server is started. Nothing is
  assumed of a run's own progress, so the lifecycle's liveness rests on the watchdog and the
  boot alone.
* `RepoProfile`: weak fairness of a build's steps (git and model calls have timeouts) and of
  `Boot`. Nothing is assumed of a dive.
* `RepoAction`: weak fairness of a runner's steps (the agent has a 600 s timeout).
* The other modules state no liveness.

## What is proved

`AgentExecutor_proofs` proves, for every set of rows, tasks and agent types, and every set of
statuses users may PATCH (`UserPatches`; `NoRunIsNoRun` says that the absence of a run is not
a run):

* `TypeCorrect`, `NoRunIsWedged`, `CompletedRunsArePersisted`, `FindingPrIsReal`: each
  `Spec => []P` for the invariant the runs check;
* `OverStaysOver`: the action property `OverIsFinal`;
* `ImplementsLifecycle`: `AgentExecutor` implements `RunLifecycle`.

The inductive invariant `IInv` is the type invariant and the safety properties, with the facts
they lack: a task that owns a run owns one that exists; no task works while the server is
down; and a task past a step of `_finalize_run` has the earlier steps behind it, with a
verdict and an answer that fit (a run about to be closed green is logged and mirrored, and a
task about to write the finding has a verified answer). Without the last two, `CloseRun` and
`WriteFinding` would preserve nothing. There is one lemma per conjunct, with one step per
action. The refinement rests on `Phase`, which depends only on the row and on who owns it.

`RepoAction_proofs` proves, for every set of workspaces and checks and any number of crashes
(`CrashBound`: it is a natural number), `TypeCorrect`, `ChecksHaveOneAgent` and
`RecordedPrIsReal`. Neither property is inductive. The first needs `WorkerIsActive` (a working
agent holds the index entry of its check unless the user took it away), which is what makes the
INSERT collide; every other step satisfies `Keeps`, from which both follow. The second needs
`PhaseIsVerified` (a phase of `pr_created` comes after the verification of the claim that is
still in the task).

`DeepDive_proofs` proves `ProfileTypeCorrect` and `ReadyProfileIsOneCommit` for any number of
builds, commits and crashes (`ProfileBounds`). The invariant says that the row is a mutex
(`RowIsMutex`) and what its owner has seen and written (`Progress`): the artifacts up to the
builder at work are of the commit the clone is at. `OwnerSteps` and `BystanderSteps` reduce a
step to the build that takes it. The module then carries that invariant into the composition
with dives (`ProfileStaysOneCommit`) and proves `DiveKnowsOneCommit`, which follows from it at
the beginning of a dive, and `DismissalsAreEarned`, which rests on the gate (`ConcludesKeeps`)
and on the counting of the clearing panel (`UpheldIsEarned`: of three reviewers fewer refute
than hold, and the bypass reviewer holds). `BudgetBound` is assumed and not used: the budget
restricts nothing.

`IngestWorker_proofs` proves `TypeCorrect`, `WorkIsOldestFirst` and `CompletionIsProgress` for
any number of jobs of any size and any number of faults (`Limits`: thresholds and bounds are
natural numbers). `OldestFirst` needs two facts beside itself: rows appear in the order of
their numbers (`RowsInOrder`), so that no older job turns up while the worker is at one, and
`Oldest` does return the least of a set (`OldestIsLeast`). `CompletedMeansProgress` needs what
the counter means: a job with a counted chunk created something or had a chunk with nothing to
create (`CountedIsProgress`).

`RemediationPipeline_proofs` proves `TypeCorrect`, `VerdictsAreFresh` and the action property
`PrerequisitesRunOnce` for any number of tasks, plans and requests. The invariant speaks of
one task at a time (`TaskInv`). A verdict stays fresh because a triage that has recorded an
exposure output is not among those to which the newest row is old (`TaskIsFresh`). A
prerequisite stays unrepeated because what a loop has run is in `context/`, but for the run it
is at (`RanIsDone`), and `Suggest` suggests only what is missing there.

`AssessmentRun_proofs` proves `TypeCorrect`, `CompletionsAreEarned`, `AutoClosesAreJustified`,
the action property `DecisionsStand` and `RowsFollowLifecycle` for every set of assessments,
repositories, findings, workspaces and handlers (`RepoType`: the absence of a repository is
none). The invariant says of each run how far its task has come (`RunInv`): a row is complete
only in the last two steps of its task, so that neither watchdog nor boot nor a late failure
rewrites it, and a close pass is at rows of a source that ran and did not report them. A note
names an assessment whose report is final (`NoteIsFinal`), without which a later scanner could
still see the finding closed. `RowsFollowLifecycle` is the safety part of `LifecycleSpec`: the
first state maps to a first state of `AssessmentLifecycle`, and every step to a step or a
stutter, since a step moves the phase of one row at most, except the sweeps, which fail a set
of rows at once.

`GithubFlow_proofs` proves `TypeCorrect`, `InstallationIsOne`, `DisconnectIsClean`,
`BadgesAreEarned` and the action property `InstallationStands` for any number of integrations,
device codes, installation ids and requests (`BoundsAreNat`). `OneInstallation` needs what the
holder of the connect lock knows (`ConnInv`): the lock has one holder, no row but its own
exists, and none once it has wiped. `DisconnectCleans` needs how much a disconnect has taken
away by each of its steps (`CleanInv`), the polling task before the vault above all, and that
a task polls its own integration (`PollInv`). `Ordered` says that the integrations are linearly
ordered by their last update, so that the newest is one. `BadgeIsEarned` comes down to
the preflight operator (`CanPushIsProbed`).

`CliUpdater_proofs` proves `TypeCorrect`, `InstallIsNeverLost`, `SweepsAreOwnerSafe` and
`StopsReclaim` for any number of terminals, processes, ports, releases, lock files and updates
(`MaxPidIsNat`, `UpdateBounds`: natural numbers; `TerminalsAreSome`: no terminal is the absence
of one), and without the constraint of the run `cli`: of commands under way at once, of updates
that overlap, of strangers beside a swap. The invariant has two layers. `CommandInv` says what a
command knows at each step: where its sub-command returns to (`Shape`), which lock it has
(`LockInv`), and which servers its stop has seen gone (`StopInv`), which no other command and no
process undoes since a new process takes no pid that someone has in view (`ProcMoves`).
`DirInv` says where a whole install and the release in force are at each step of the swap and
the rollback (`AppInv`, `SwapInv`), that no snapshot lies ahead of the last one taken, so that
taking one overwrites none (`NoneAhead`), and that a venv is of an app unpacked whole, so that
the doctor passes no other (`VenvIsWhole`). The layers meet in `LoneSwap`: as long as updates do
not overlap, nobody else is past a snapshot while a directory moves. What remains a bound in
these theorems is that a pid is not recycled while a command waits for it (`FreePid`).

`IngestWorker_proofs` also proves the theorems of `Dashboard`, `IssueDerivation` and
`PostureChecks`: `BoardTypeCorrect`, `TheViewsAgree`, `CriticalsAreShown`, `AIsForEverything`,
`FailuresAreShown`, and the action properties `BlindnessIsNoMerit` and `DecisionsStand`. They
hold for every set of evidence GitHub and the clone can give (`EvidenceIsSeen`), any number of
days (`DayIsNat`) and any agents beside the three of the pipeline (`PipelineAgents`). The
invariant `BoardInv` is short, since a page is computed from the rows afresh: the types, and
that no step sets the status `passed`, which only a posture check has. The rest is lemmas about
the operators:

* a posture card counts by a check's name what the payload counts by the row's grade impact
  (`AdvisoryByName`), and `derive` puts an issue in "done" exactly when its status is one the
  cards leave out (`DoneIsSettled`);
* there are ten criteria (`TenCriteria`), so that a critical among the findings makes the count
  fall short of an A (`CriticalBelowA`), below which the level-up panel has its gates;
* a check that turns to `unknown` takes a criterion away or none (`MetShrinks`);
* an agent's advance leaves a settled status alone (`AgentsLeaveTheSettled`).

`CapCutsNoGate` proves what the model leaves out on the ground of it: `derive_level_up` ends in
`gates[:4]`, and there never are more than four.

`AgentExecutor_proofs` also proves the theorems of `AiConnect` and the modules it extends:
`AiTypeCorrect`, `TheCacheIsCurrent`, `KeysGoWithTheirRows` and the action property
`RestartsKeepTheProvider`, for any number of requests, OAuth sessions, rows, providers and
disturbances, without the constraint of the run `aikeys`. Assumed are `NoIdIsNone` and
`CatalogKnown` (what stands for no row is neither an id nor a provider, and OpenRouter is in the
catalog) and `KeySourcesKnown` (the variable `CLIFF_CREDENTIAL_KEY` is set, or the key comes from
the keyring, a file, or nowhere). `CacheIsCurrent` speaks of the moments when nothing is under way. The
invariant says what holds between them:

* while no change waits for its hook, the cached key is the one the tables give, or none when
  the vault cannot read them (`KeyIsRight`), and the cached model is the one chosen for it
  unless someone has refreshed the key and has the model still to do (`ModelIsRight`);
* a refresh that is halfway was of a key that could be read (`HalfWayIsReadable`), so that its
  second half cannot put a model beside no key;
* the row a save holds is of the provider it saves or gone (`SaveHoldsItsRow`), without which
  its INSERT would break the unique index of `ai_integration`;
* a process without a vault serves no request (`NoVaultNoRequest`), so that a start without one
  leaves nothing to refresh.

`DiveTypeCorrect` adds the type invariant of `DeepDive` to those above.

Only model-checked: the liveness properties (`EveryRunSettles`, `EveryJobEnds`,
`MutexIsReleased`, `FixSettles` and the liveness part of `AssessmentRun`'s `LifecycleSpec`),
since fairness is beyond the prover. Every other property of a passing run is a theorem. None
of the modules declares a recursive operator, so all can be proved about.

## What is not modelled

Abstractions, by module:

* Prompts, parsing of model output, reference and evidence guards, and wording. Statements
  that fail for reasons of the database (disk full, locked) appear only where the code catches
  them.
* `FindingPrIsReal` is about the executor's advance: closing a workspace also copies a `pr_url`
  from a run's output, which `FindingStore` models without saying whether it was verified.
* AI keys: the DELETE of the old row and the INSERT of the new configuration are one step
  (`drop` to `store`), and so are the two environment reads of one hook; one callback handler
  per OAuth session; a row that vanishes between an INSERT and the SELECT that reads it back;
  the value of a key, as opposed to the row it came from. Refreshing the environment and the
  model are each atomic, since aiosqlite runs statements in order on one thread.
* Profiles and dives: one repository, so no URL spellings; what builders find; a kill's
  corroboration is a Boolean; the reviewers of a panel answer in one step;
  `gc_repo_clones`, `reap_stale_builds` and `mark_stale` have no caller.
* Repository actions: PATCH of a workspace only as closing an active one; `status.json` writes
  that fail; whose the pull request is (the code compares owner and repository only).
* Dashboard: layout, labels, the week's deltas, share text, and the cap of four gates, which
  cuts none (`CapCutsNoGate`). CLI: `status`, `logs`, `open` and
  doctor's texts, which only read; download and version comparison are choices of outcome.

Not modelled at all: the model call retry loop (`_run_pa_call`, sequential; its outcomes are
AgentExecutor's; its two budgets share one loop of three attempts), the permission gate and
the agents' tools (pure classification of strings), the integration gateway, audit log and
health probes (no protocol of their own), migrations, the deep dive's deterministic dependency
and code-map gates (pure over text), evals, the CLI client and the front end (their requests
are the user actions of the models).

## Plan

Left: `PaCall`, the retry loop of one model call against a reference of its two budgets.
