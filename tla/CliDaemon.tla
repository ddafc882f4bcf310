------------------------------ MODULE CliDaemon ------------------------------
(***************************************************************************)
(* The local install and its server processes, as the daemon commands see  *)
(* them: start, stop, restart, uninstall and `config set`, each run in a   *)
(* terminal beside whatever the other terminals run.  A server may die at  *)
(* any time; a process that is not Cliff's may hold its port or get its    *)
(* pid.                                                                    *)
(***************************************************************************)
EXTENDS Naturals, FiniteSets

CONSTANTS
  MaxPid,      \* bound: processes
  Ports,       \* ports a server may be told to bind
  Terminals

ASSUME MaxPidIsNat == MaxPid \in Nat

VARIABLES
  proc,        \* the processes
  pidfile,     \* run/cliff.pid (0: none)
  lockfile,    \* run/update.lock, by its inode (0: none)
  configured,  \* CLIFF_APP_PORT of cliff.env
  app, bin,    \* the installed directories
  term         \* the command of each terminal

daemonVars == <<proc, pidfile, lockfile, configured, app, bin, term>>

Pid == 1..MaxPid
NoPort == "none"
Gone == [st |-> "gone", kind |-> "cliff", port |-> NoPort]

\* then: what follows a sub-command; fail: where its exit leads.
Idle == [pc |-> "idle", then |-> "idle", fail |-> "idle", pid |-> 0, port |-> NoPort,
         seen |-> {}, before |-> {}, release |-> "none", id |-> 0]

Missing == [ver |-> 0, venv |-> FALSE, whole |-> FALSE]
Whole(d) == d.whole /\ d.venv

Alive(p) == proc[p].st \in {"booting", "up"}
Servers == {p \in Pid : Alive(p) /\ proc[p].kind = "cliff"}
\* A pid that no process has, and none but a stale pid file names (bound: no pid is
\* recycled while a command waits for it).
FreePid(p) ==
  /\ ~ Alive(p)
  /\ \A t \in Terminals : p # term[t].pid /\ p \notin term[t].seen \cup term[t].before
Least(P) == CHOOSE p \in P \cup {0} : (p = 0 <=> P = {}) /\ \A q \in P : p <= q
PortFree(port) == ~ \E p \in Pid : proc[p].st = "up" /\ proc[p].port = port

InitDaemon ==
  /\ proc = [p \in Pid |-> Gone] /\ pidfile = 0 /\ lockfile = 0
  /\ configured \in Ports
  /\ app = [ver |-> 0, venv |-> TRUE, whole |-> TRUE] /\ bin = app
  /\ term = [t \in Terminals |-> Idle]

\* The next step of a sub-command, and of the command itself, which forgets the former.
To(t, to) == term' = [term EXCEPT ![t].pc = to]
Forgotten(t) == [Idle EXCEPT !.release = term[t].release, !.id = term[t].id]
Goes(t, to) ==
  term' = [term EXCEPT ![t] = IF to = "idle" THEN Idle ELSE [Forgotten(t) EXCEPT !.pc = to]]
Returns(t) ==
  term' = [term EXCEPT ![t] = IF @.then = "idle" THEN Idle
                              ELSE [Forgotten(t) EXCEPT !.pc = term[t].then, !.before = term[t].before]]
Exits(t) == Goes(t, term[t].fail)            \* emit_error

\* A command or a sub-command, with the configured port.
Invoke(t, sub, then, fail) ==
  term' = [term EXCEPT ![t] = [Forgotten(t) EXCEPT !.pc = sub, !.then = then, !.fail = fail,
                                                   !.port = configured]]

\* Reading the pid file removes it when its process is gone.
ReadPid == IF pidfile # 0 /\ Alive(pidfile) THEN pidfile ELSE 0

-----------------------------------------------------------------------------
(* start. *)

\* It must be installed, not be running by the pid file, and find its port free.
StartCheck(t) ==
  /\ term[t].pc = "start"
  /\ pidfile' = IF app.venv THEN ReadPid ELSE pidfile
  /\ IF app.venv /\ ReadPid = 0 /\ PortFree(term[t].port) THEN To(t, "spawn") ELSE Exits(t)
  /\ UNCHANGED <<proc, lockfile, configured, app, bin>>

StartSpawn(t) ==
  /\ term[t].pc = "spawn"
  /\ \/ /\ app.venv
        /\ \E p \in Pid :
             /\ p = Least({q \in Pid : FreePid(q) /\ q # pidfile})
             /\ proc' = [proc EXCEPT ![p] = [st |-> "booting", kind |-> "cliff", port |-> term[t].port]]
             /\ IF term[t].then = "exec" THEN Goes(t, "idle")      \* no pid file
                ELSE term' = [term EXCEPT ![t].pc = "record", ![t].pid = p]
     \/ ~ app.venv /\ UNCHANGED proc /\ Exits(t)          \* uninstalled meanwhile
  /\ UNCHANGED <<pidfile, lockfile, configured, app, bin>>

StartRecord(t) ==
  /\ term[t].pc = "record" /\ To(t, "health") /\ pidfile' = term[t].pid
  /\ UNCHANGED <<proc, lockfile, configured, app, bin>>

\* _wait_for_health: its process ended; or some server answers on the port; or time is up.
StartHealth(t) ==
  /\ term[t].pc = "health"
  /\ \/ ~ Alive(term[t].pid) /\ pidfile' = 0 /\ Exits(t)
     \/ /\ \E p \in Servers : proc[p].st = "up" /\ proc[p].port = term[t].port
        /\ UNCHANGED pidfile /\ Returns(t)
     \/ Alive(term[t].pid) /\ UNCHANGED pidfile /\ Exits(t)
  /\ UNCHANGED <<proc, lockfile, configured, app, bin>>

-----------------------------------------------------------------------------
(* stop. *)

\* The process of the pid file is signalled as it is.
StopRead(t) ==
  /\ term[t].pc = "stop" /\ pidfile' = ReadPid
  /\ term' = [term EXCEPT ![t].pc = IF ReadPid = 0 THEN "sweep" ELSE "stopwait",
                          ![t].pid = ReadPid, ![t].before = Servers]
  /\ UNCHANGED <<proc, lockfile, configured, app, bin>>

\* It ends by SIGTERM, or by SIGKILL when the wait is over.
StopWait(t) ==
  /\ term[t].pc = "stopwait" /\ To(t, "unlink")
  /\ proc' = [proc EXCEPT ![term[t].pid] = Gone]
  /\ UNCHANGED <<pidfile, lockfile, configured, app, bin>>

StopUnlink(t) ==
  /\ term[t].pc = "unlink" /\ To(t, "sweep") /\ pidfile' = 0
  /\ UNCHANGED <<proc, lockfile, configured, app, bin>>

\* Mutations: whoever listens on a port; only who listens on one.
OursByPort(p) == proc[p].st = "up" /\ proc[p].port = configured
OursListening(p) == proc[p].st = "up" /\ proc[p].kind = "cliff"

\* find_cliff_processes: by the command line, never by the port.
Ours(p) == Alive(p) /\ proc[p].kind = "cliff"

StopSweep(t) ==
  LET found == {p \in Pid : Ours(p)} \ {term[t].pid} IN
  /\ term[t].pc = "sweep"
  /\ IF found = {} THEN Returns(t) ELSE term' = [term EXCEPT ![t].pc = "reap", ![t].seen = found]
  /\ UNCHANGED <<proc, pidfile, lockfile, configured, app, bin>>

\* kill_processes: a process that outlives SIGKILL fails the command.
StopReap(t) ==
  /\ term[t].pc = "reap"
  /\ \E stuck \in SUBSET {p \in term[t].seen : Alive(p)} :
       /\ proc' = [p \in Pid |-> IF p \in term[t].seen \ stuck THEN Gone ELSE proc[p]]
       /\ IF stuck = {} THEN Returns(t) ELSE Exits(t)
  /\ UNCHANGED <<pidfile, lockfile, configured, app, bin>>

-----------------------------------------------------------------------------
(* The commands. *)

Begins(t) == term[t].pc = "idle"
Nothing == UNCHANGED <<proc, pidfile, lockfile, configured, app, bin>>

\* In the foreground the server takes the terminal over.
RunStart(t) == Begins(t) /\ Nothing /\ \E port \in Ports, then \in {"idle", "exec"} :
  term' = [term EXCEPT ![t] = [Idle EXCEPT !.pc = "start", !.port = port, !.then = then]]
RunStop(t) == Begins(t) /\ Nothing /\ Invoke(t, "stop", "idle", "idle")
RunRestart(t) == Begins(t) /\ Nothing /\ Invoke(t, "stop", "start_again", "idle")
RunUninstall(t) == Begins(t) /\ Nothing /\ Invoke(t, "stop", "recheck", "idle")

RestartStart(t) == term[t].pc = "start_again" /\ Nothing /\ \E port \in Ports :
  term' = [term EXCEPT ![t] = [Idle EXCEPT !.pc = "start", !.port = port]]

\* uninstall refuses while a server is alive, then asks, for as long as it takes.
UninstallRecheck(t) ==
  term[t].pc = "recheck" /\ Nothing /\ Goes(t, IF Servers = {} THEN "confirm" ELSE "idle")

\* app, bin and run go, the pid file and the lock with them.
UninstallConfirm(t) ==
  /\ term[t].pc = "confirm" /\ Goes(t, "idle")
  /\ \/ Nothing
     \/ /\ app' = Missing /\ bin' = Missing /\ pidfile' = 0 /\ lockfile' = 0
        /\ UNCHANGED <<proc, configured>>

ConfigSet(t) ==
  /\ Begins(t) /\ \E port \in Ports \ {configured} : configured' = port
  /\ UNCHANGED <<proc, pidfile, lockfile, app, bin, term>>

DaemonCommand(t) ==
  \/ RunStart(t) \/ RunStop(t) \/ RunRestart(t) \/ RunUninstall(t) \/ ConfigSet(t)
  \/ StartCheck(t) \/ StartSpawn(t) \/ StartRecord(t) \/ StartHealth(t)
  \/ StopRead(t) \/ StopWait(t) \/ StopUnlink(t) \/ StopSweep(t) \/ StopReap(t)
  \/ RestartStart(t) \/ UninstallRecheck(t) \/ UninstallConfirm(t)

-----------------------------------------------------------------------------
(* The processes. *)

\* uvicorn binds its port, or ends.
Boot(p) ==
  /\ proc[p].st = "booting"
  /\ \/ PortFree(proc[p].port) /\ proc' = [proc EXCEPT ![p].st = "up"]
     \/ proc' = [proc EXCEPT ![p] = Gone]
  /\ UNCHANGED <<pidfile, lockfile, configured, app, bin, term>>

ServerDies(p) ==
  /\ proc[p].st = "up" /\ proc' = [proc EXCEPT ![p] = Gone]
  /\ UNCHANGED <<pidfile, lockfile, configured, app, bin, term>>

\* A process of someone else takes a free port, and maybe the pid a stale file names.
Foreign(p) ==
  /\ FreePid(p)
  /\ \E port \in Ports : /\ PortFree(port)
                         /\ proc' = [proc EXCEPT ![p] = [st |-> "up", kind |-> "other", port |-> port]]
  /\ UNCHANGED <<pidfile, lockfile, configured, app, bin, term>>

ProcessStep(p) == Boot(p) \/ ServerDies(p) \/ Foreign(p)
=============================================================================
