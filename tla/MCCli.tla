------------------------------- MODULE MCCli -------------------------------
(* A small instance of CliUpdater. *)
EXTENDS CliUpdater, TLC

CONSTANTS t1, t2, port1, port2
TerminalSet == {t1, t2}
PortSet == {port1, port2}
Symmetric == Permutations(TerminalSet) \cup Permutations(PortSet)

\* Opening the lock file, or starting a server.
Light == {"idle", "flock", "start", "spawn", "record", "health"}

Busy == {t \in Terminals : term[t].pc # "idle"}

\* A behaviour is not followed past two updates at once or an uninstall.  Of two commands
\* under way at once one is a start or the opening of the lock file, and every port is the
\* configured one; once an update has begun its swap the servers are Cliff's, on that port.
Bounded ==
  /\ fault \subseteq {"broken"}
  /\ Cardinality({t \in Terminals : term[t].pc \notin Light}) <= 1
  /\ Cardinality(Busy) > 1 => \A t \in Busy : term[t].port \in {NoPort, configured}
  /\ taken > 0 => \A p \in Pid : Alive(p) => proc[p].kind = "cliff" /\ proc[p].port = configured
=============================================================================
