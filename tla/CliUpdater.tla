----------------------------- MODULE CliUpdater -----------------------------
(***************************************************************************)
(* `cliffsec update` over the install of CliDaemon: the lock file, the     *)
(* validation that must not touch the install, the swap by snapshots, the  *)
(* bundled installers, the doctor, the start, and the rollback.            *)
(***************************************************************************)
EXTENDS CliDaemon, FiniteSetsExt

CONSTANTS
  MaxUpdate,   \* bound: updates that get as far as a snapshot
  MaxInode,    \* bound: lock files at once
  Retention,   \* SNAPSHOT_RETENTION
  Releases     \* the archives GitHub serves: their shape, and whether a venv is in them

ASSUME UpdateBounds == MaxUpdate \in Nat /\ MaxInode \in Nat /\ Retention \in Nat
ASSUME TerminalsAreSome == "none" \notin Terminals

VARIABLES
  snap,        \* app.bak-*, bin.bak-*, by update
  taken,       \* updates that have a snapshot
  fd,          \* the lock file each terminal has open (0: none)
  flock,       \* the terminal that holds each lock file
  fault        \* what ever went wrong around a swap: two updates at once ("overlap"), an
               \* uninstall, a command killed or a rename refused ("broken")

updateVars == <<snap, taken, fd, flock, fault>>
vars == <<daemonVars, updateVars>>

Update == 1..MaxUpdate
NoOne == "none"

Init ==
  /\ InitDaemon
  /\ snap = [u \in Update |-> [app |-> Missing, bin |-> Missing]] /\ taken = 0
  /\ fd = [t \in Terminals |-> 0] /\ flock = [i \in 1..MaxInode |-> NoOne]
  /\ fault = {}

Locked(t) == fd[t] # 0 /\ flock[fd[t]] = t

Daemon(t) == DaemonCommand(t) /\ UNCHANGED <<snap, taken, fd, flock>>
             /\ fault' = fault \cup {x \in {"uninstall"} : app' # app \/ bin' # bin}

Keep == UNCHANGED <<proc, pidfile, configured>>
Install == UNCHANGED <<app, bin, snap, taken>>
NoLock == UNCHANGED <<lockfile, fd, flock>>

-----------------------------------------------------------------------------
(* The lock. *)

\* A new file is none that a terminal still has open.
FreshInode == Min(1..MaxInode \ {fd[t] : t \in Terminals})

\* Installed, a release found and newer (or forced), confirmed; then the lock file is opened.
UpdateOpen(t) ==
  /\ Begins(t) /\ app # Missing /\ taken < MaxUpdate /\ Goes(t, "flock")
  /\ \E i \in 1..MaxInode :
       /\ IF lockfile = 0 THEN i = FreshInode ELSE i = lockfile
       /\ lockfile' = i /\ fd' = [fd EXCEPT ![t] = i]
  /\ Keep /\ Install /\ UNCHANGED <<flock, fault>>

\* LOCK_NB: refused while another holds this file; the `finally` unlinks the path.
UpdateFlock(t) ==
  /\ term[t].pc = "flock"
  /\ \/ /\ flock[fd[t]] = NoOne /\ flock' = [flock EXCEPT ![fd[t]] = t]
        /\ Goes(t, "space") /\ UNCHANGED <<lockfile, fd>>
        /\ fault' = fault \cup {x \in {"overlap"} : \E s \in Terminals : Locked(s)}
     \/ /\ flock[fd[t]] # NoOne /\ lockfile' = 0
        /\ fd' = [fd EXCEPT ![t] = 0] /\ Goes(t, "idle") /\ UNCHANGED <<flock, fault>>
  /\ Keep /\ Install

UpdateUnlock(t) ==
  /\ term[t].pc = "unlock" /\ Goes(t, "idle")
  /\ flock' = [flock EXCEPT ![fd[t]] = NoOne] /\ fd' = [fd EXCEPT ![t] = 0]
  /\ lockfile' = 0
  /\ Keep /\ Install /\ UNCHANGED fault

-----------------------------------------------------------------------------
(* Phase A: nothing of the install is touched. *)

UpdateSpace(t) ==
  /\ term[t].pc = "space"
  /\ Goes(t, "unlock") \/ Invoke(t, "stop", "download", "unlock")
  /\ Keep /\ Install /\ NoLock /\ UNCHANGED fault

\* The download fails or does not match its checksum; or the archive is there.
UpdateDownload(t) ==
  /\ term[t].pc = "download"
  /\ \/ Goes(t, "unlock")
     \/ \E r \in Releases :
          term' = [term EXCEPT ![t] = [Idle EXCEPT !.pc = "verify", !.release = r]]
  /\ Keep /\ Install /\ NoLock /\ UNCHANGED fault

\* verify_tarball_shape knows VERSION, and not ./VERSION.
UpdateVerify(t) ==
  /\ term[t].pc = "verify"
  /\ Goes(t, IF term[t].release = "dotted" THEN "unlock" ELSE "snap_app")
  /\ Keep /\ Install /\ NoLock /\ UNCHANGED fault

-----------------------------------------------------------------------------
(* Phase B: the swap. *)

SnapshotApp(t) ==
  /\ term[t].pc = "snap_app"
  /\ \/ /\ taken < MaxUpdate /\ taken' = taken + 1
        /\ term' = [term EXCEPT ![t].pc = "snap_bin", ![t].id = taken']
        /\ snap' = [snap EXCEPT ![taken'].app = app] /\ app' = Missing
     \/ Goes(t, "unlock") /\ UNCHANGED <<app, snap, taken>>
  /\ Keep /\ NoLock /\ UNCHANGED <<bin, fault>>

\* A refused rename leaves the swap half done: it is outside the try.
SnapshotBin(t) ==
  /\ term[t].pc = "snap_bin"
  /\ \/ /\ Goes(t, "extract") /\ snap' = [snap EXCEPT ![term[t].id].bin = bin] /\ bin' = Missing
        /\ UNCHANGED fault
     \/ Goes(t, "unlock") /\ UNCHANGED <<snap, bin>> /\ fault' = fault \cup {"broken"}
  /\ Keep /\ NoLock /\ UNCHANGED <<app, taken>>

UpdateExtract(t) ==
  /\ term[t].pc = "extract"
  /\ \E ok \in BOOLEAN :
       /\ app' = [ver |-> 1, venv |-> ok /\ term[t].release = "venv", whole |-> ok]
       /\ term' = [term EXCEPT ![t].pc = IF ok THEN "installers" ELSE "rollback",
                               ![t].release = "none"]
  /\ Keep /\ NoLock /\ UNCHANGED <<bin, snap, taken, fault>>

UpdateInstallers(t) ==
  /\ term[t].pc = "installers"
  /\ \E ok \in BOOLEAN :
       /\ bin' = [ver |-> app.ver, venv |-> TRUE, whole |-> ok]
       /\ Goes(t, IF ok THEN "doctor" ELSE "rollback")
  /\ Keep /\ NoLock /\ UNCHANGED <<app, snap, taken, fault>>

\* The venv, the pinned scanners and a free port; what else it asks of the machine may fail.
DoctorPasses == app.venv /\ bin.whole /\ bin.ver = app.ver /\ PortFree(configured)

UpdateDoctor(t) ==
  /\ term[t].pc = "doctor"
  /\ \/ DoctorPasses /\ Invoke(t, "start", "updated", "unlock")
     \/ Goes(t, "rollback")
  /\ Keep /\ Install /\ NoLock /\ UNCHANGED fault

\* prune_snapshots keeps the newest.
UpdatePrune(t) ==
  /\ term[t].pc = "updated" /\ Goes(t, "unlock")
  /\ snap' = [u \in Update |-> IF u + Retention <= taken
                               THEN [app |-> Missing, bin |-> Missing] ELSE snap[u]]
  /\ Keep /\ NoLock /\ UNCHANGED <<app, bin, taken, fault>>

-----------------------------------------------------------------------------
(* _rollback. *)

\* The new directories go, or are renamed aside; when neither works the snapshot cannot
\* be renamed back.
RollbackRemove(t) ==
  /\ term[t].pc = "rollback"
  /\ \/ Goes(t, "restore_app") /\ app' = Missing /\ bin' = Missing
        /\ UNCHANGED fault
     \/ Goes(t, "unlock") /\ UNCHANGED <<app, bin>> /\ fault' = fault \cup {"broken"}
  /\ Keep /\ NoLock /\ UNCHANGED <<snap, taken>>

RollbackApp(t) ==
  LET u == term[t].id IN
  /\ term[t].pc = "restore_app" /\ Goes(t, "restore_bin")
  /\ app' = snap[u].app /\ snap' = [snap EXCEPT ![u].app = Missing]
  /\ Keep /\ NoLock /\ UNCHANGED <<bin, taken, fault>>

\* Mutation: only app comes back.
RestoredNever(u) == bin

Restored(u) == snap[u].bin

\* The start after a rollback may fail without a word.
RollbackBin(t) ==
  LET u == term[t].id IN
  /\ term[t].pc = "restore_bin" /\ Invoke(t, "start", "unlock", "unlock")
  /\ bin' = Restored(u) /\ snap' = [snap EXCEPT ![u].bin = Missing]
  /\ Keep /\ NoLock /\ UNCHANGED <<app, taken, fault>>

\* A command is killed (bound: one that holds the lock, or has a server to record): the
\* kernel lets go of its lock, the file stays.
CommandKilled(t) ==
  /\ Locked(t) \/ term[t].pc = "record"
  /\ term' = [term EXCEPT ![t] = Idle]
  /\ fd' = [fd EXCEPT ![t] = 0]
  /\ flock' = [i \in 1..MaxInode |-> IF flock[i] = t THEN NoOne ELSE flock[i]]
  /\ fault' = fault \cup {x \in {"broken"} : term[t].id # 0}
  /\ Keep /\ Install /\ UNCHANGED <<lockfile>>

UpdateStep(t) ==
  \/ UpdateOpen(t) \/ UpdateFlock(t) \/ UpdateUnlock(t)
  \/ UpdateSpace(t) \/ UpdateDownload(t) \/ UpdateVerify(t)
  \/ SnapshotApp(t) \/ SnapshotBin(t) \/ UpdateExtract(t) \/ UpdateInstallers(t)
  \/ UpdateDoctor(t) \/ UpdatePrune(t)
  \/ RollbackRemove(t) \/ RollbackApp(t) \/ RollbackBin(t)
  \/ CommandKilled(t)

Next ==
  \/ \E t \in Terminals : Daemon(t) \/ UpdateStep(t)
  \/ \E p \in Pid : ProcessStep(p) /\ UNCHANGED updateVars

Spec == Init /\ [][Next]_vars

-----------------------------------------------------------------------------
(* Properties. *)

TypeOK ==
  /\ \A p \in Pid : proc[p].st \in {"gone", "booting", "up"}
  /\ pidfile \in 0..MaxPid /\ lockfile \in 0..MaxInode /\ taken \in 0..MaxUpdate
  /\ \A t \in Terminals : fd[t] \in 0..MaxInode /\ (term[t].id # 0 => term[t].id <= taken /\ Locked(t))
  /\ \A i \in 1..MaxInode : flock[i] = NoOne \/ (flock[i] \in Terminals /\ fd[flock[i]] = i)

Mid == {t \in Terminals : term[t].id # 0}

SomeWholeInstall ==
  fault \cap {"overlap", "uninstall"} = {} =>
    Whole(app) \/ \E u \in Update : Whole(snap[u].app)

SettledInstallIsWhole ==
  fault = {} /\ Mid = {} => Whole(app) /\ bin.whole /\ bin.ver = app.ver

\* Whatever step an update stops at, killed or refused, a whole install with its venv
\* is on disk: in place or in a snapshot.  And between updates that nobody killed, what is
\* installed is one release: its app, its venv and the scanners it pins, whether the update
\* got through or was rolled back.
InstallSurvives == SomeWholeInstall /\ SettledInstallIsWhole

\* The sweep is about to signal no process that is not Cliff's, wherever that listens.
SweepIsOwnerSafe == \A t \in Terminals : \A p \in term[t].seen : proc[p].kind = "cliff"

\* When a stop has returned well, every server that ran when it began is gone: the ones
\* no pid file names and the ones that have not bound their port yet too.
StopReclaims ==
  \A t \in Terminals : term[t].pc \in {"start_again", "recheck", "download"} =>
    term[t].before \cap Servers = {}
=============================================================================
