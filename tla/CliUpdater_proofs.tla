-------------------------- MODULE CliUpdater_proofs --------------------------
(***************************************************************************)
(* The safety of `cliffsec update` and of `stop` for any number of         *)
(* terminals, processes, ports, releases and updates.  IInv says what each *)
(* step of a command knows of the lock, of the processes it has seen and   *)
(* of the directories it has moved.                                        *)
(***************************************************************************)
EXTENDS CliUpdater, FiniteSetTheorems, TLAPS

StartPc == {"start", "spawn", "record", "health"}
StopPc == {"stop", "stopwait", "unlink", "sweep", "reap"}
SwapPc == {"snap_bin", "extract", "installers", "doctor", "updated", "rollback", "restore_app",
           "restore_bin"}
UpdatePc == SwapPc \cup {"space", "download", "verify", "snap_app", "unlock"}
Pc == StartPc \cup StopPc \cup UpdatePc \cup {"idle", "flock", "start_again", "recheck", "confirm"}

\* Where the sub-commands lead, well and badly.
StopReturns ==
  {<<"idle", "idle">>, <<"start_again", "idle">>, <<"recheck", "idle">>, <<"download", "unlock">>}
StartReturns ==
  {<<"idle", "idle">>, <<"exec", "idle">>, <<"updated", "unlock">>, <<"unlock", "unlock">>}

ProcType == [st : {"gone", "booting", "up"}, kind : {"cliff", "other"}, port : Ports \cup {NoPort}]
DirType == [ver : 0 .. 1, venv : BOOLEAN, whole : BOOLEAN]
SnapType == [app : DirType, bin : DirType]
TermType ==
  [pc : Pc, then : Pc \cup {"exec"}, fail : {"idle", "unlock"}, pid : 0 .. MaxPid,
   port : Ports \cup {NoPort}, seen : SUBSET Pid, before : SUBSET Pid,
   release : Releases \cup {"none"}, id : 0 .. MaxUpdate]

Typed ==
  /\ proc \in [Pid -> ProcType] /\ pidfile \in 0 .. MaxPid /\ configured \in Ports
  /\ term \in [Terminals -> TermType]
  /\ app \in DirType /\ bin \in DirType
  /\ snap \in [Update -> SnapType] /\ taken \in 0 .. MaxUpdate
  /\ lockfile \in 0 .. MaxInode /\ fd \in [Terminals -> 0 .. MaxInode]
  /\ flock \in [1 .. MaxInode -> Terminals \cup {NoOne}]
  /\ fault \subseteq {"overlap", "uninstall", "broken"}

-----------------------------------------------------------------------------
(* What a command knows at each of its steps. *)

\* A sub-command returns to the command it is part of; a server waited for has a pid.
Shape(t) ==
  /\ term[t].pc \in StopPc => <<term[t].then, term[t].fail>> \in StopReturns
  /\ term[t].pc \in StartPc => <<term[t].then, term[t].fail>> \in StartReturns
  /\ term[t].pc \in {"record", "health"} => term[t].then # "exec"
  /\ term[t].pc \in {"record", "health", "stopwait", "unlink"} => term[t].pid \in Pid

\* Past the lock, and past the first snapshot.
Updating(t) ==
  term[t].pc \in UpdatePc \/ (term[t].pc \in StartPc \cup StopPc /\ term[t].fail = "unlock")
Swapping(t) ==
  term[t].pc \in SwapPc \/ (term[t].pc \in StartPc /\ term[t].fail = "unlock")

LockInv(t) ==
  /\ Updating(t) => Locked(t)
  /\ term[t].pc = "flock" => fd[t] # 0 /\ ~ Locked(t)
  /\ ~ Updating(t) /\ term[t].pc # "flock" => fd[t] = 0
  /\ Swapping(t) => term[t].id # 0
  /\ term[t].id # 0 => term[t].id <= taken /\ (Swapping(t) \/ term[t].pc = "unlock")

\* stop: of the servers there were, the recorded one is gone first, then the swept ones.
StopInv(t) ==
  /\ \A p \in term[t].seen : proc[p].kind = "cliff"
  /\ term[t].pc \in {"unlink", "sweep", "reap"} /\ term[t].pid # 0 => ~ Alive(term[t].pid)
  /\ term[t].pc = "reap" => term[t].before \cap Servers \subseteq term[t].seen
  /\ term[t].pc \in {"start_again", "recheck", "download"} => term[t].before \cap Servers = {}

TermInv(t) == Shape(t) /\ LockInv(t) /\ StopInv(t)

\* The holder of a lock file has it open, and while updates do not overlap there is one.
FlockInv == \A i \in 1 .. MaxInode : flock[i] # NoOne => fd[flock[i]] = i
OneHolder == "overlap" \notin fault => \A s, t \in Terminals : Locked(s) /\ Locked(t) => s = t

-----------------------------------------------------------------------------
(* The directories. *)

\* A venv is unpacked with the rest of its release; no snapshot lies ahead.
VenvIsWhole == (app.venv => app.whole) /\ \A u \in Update : snap[u].app.venv => snap[u].app.whole
NoneAhead == \A u \in Update : u > taken => ~ Whole(snap[u].app)

OneRelease(a, b) == Whole(a) /\ b.whole /\ b.ver = a.ver

\* Where the release in force is while an update is at work and nothing was refused.
SwapInv(t) ==
  LET old == snap[term[t].id] IN
  fault = {} /\ term[t].id # 0 =>
    /\ term[t].pc = "snap_bin" => OneRelease(old.app, bin)
    /\ term[t].pc \in {"extract", "installers", "doctor", "rollback", "restore_app"} =>
         OneRelease(old.app, old.bin)
    /\ term[t].pc = "restore_bin" => OneRelease(app, old.bin)
    /\ term[t].pc \in StartPc \cup {"updated", "unlock"} => OneRelease(app, bin)

\* Where a whole install is, whatever was refused or killed before.
SomeSnap == \E u \in Update : Whole(snap[u].app)
AppInv(t) ==
  fault \cap {"overlap", "uninstall"} = {} /\ term[t].id # 0 =>
    /\ term[t].pc \in {"snap_bin", "extract", "installers", "doctor", "rollback", "restore_app"} =>
         SomeSnap
    /\ term[t].pc \in StartPc /\ term[t].then = "updated" => Whole(app)
    /\ term[t].pc = "updated" => Whole(app)

DirInv ==
  /\ VenvIsWhole /\ NoneAhead
  /\ \A t \in Terminals : SwapInv(t) /\ AppInv(t)
  /\ InstallSurvives

CommandInv == Typed /\ (\A t \in Terminals : TermInv(t)) /\ FlockInv /\ OneHolder
IInv == CommandInv /\ DirInv

-----------------------------------------------------------------------------
(* The record of a command. *)

\* Of the commands, at most that of t moves.
OwnTerm(t) == term' \in [Terminals -> TermType] /\ \A s \in Terminals \ {t} : term'[s] = term[s]

LEMMA Values ==
  /\ Pid \subseteq 0 .. MaxPid /\ 0 \in 0 .. MaxPid /\ 0 \notin Pid /\ Pid \subseteq Nat
  /\ Update \subseteq 0 .. MaxUpdate /\ 0 \in 0 .. MaxUpdate /\ 0 \notin Update
  /\ 0 \in 0 .. MaxInode /\ 1 .. MaxInode = (0 .. MaxInode) \ {0}
  /\ NoOne \notin Terminals
  /\ Missing \in DirType /\ ~ Whole(Missing) /\ ~ Missing.venv
<1>1. Pid \subseteq 0 .. MaxPid /\ 0 \in 0 .. MaxPid /\ 0 \notin Pid /\ Pid \subseteq Nat
  BY MaxPidIsNat DEF Pid
<1>2. Update \subseteq 0 .. MaxUpdate /\ 0 \in 0 .. MaxUpdate /\ 0 \notin Update
  BY UpdateBounds DEF Update
<1>3. 0 \in 0 .. MaxInode /\ 1 .. MaxInode = (0 .. MaxInode) \ {0}
  BY UpdateBounds
<1>4. NoOne \notin Terminals
  BY TerminalsAreSome DEF NoOne
<1>5. Missing \in DirType /\ ~ Whole(Missing) /\ ~ Missing.venv
  BY DEF Missing, DirType, Whole
<1>6. QED
  BY <1>1, <1>2, <1>3, <1>4, <1>5

LEMMA IdleIs ==
  /\ Idle \in TermType /\ Idle.pc = "idle" /\ Idle.then = "idle" /\ Idle.fail = "idle"
  /\ Idle.pid = 0 /\ Idle.seen = {} /\ Idle.before = {} /\ Idle.id = 0 /\ Idle.release = "none"
BY Values DEF Idle, TermType, Pc, NoPort

LEMMA ForgottenIs ==
  ASSUME Typed, NEW t \in Terminals
  PROVE  /\ Forgotten(t) \in TermType
         /\ Forgotten(t).then = "idle" /\ Forgotten(t).fail = "idle"
         /\ Forgotten(t).pid = 0 /\ Forgotten(t).seen = {} /\ Forgotten(t).before = {}
         /\ Forgotten(t).release = term[t].release /\ Forgotten(t).id = term[t].id
<1>1. term[t] \in TermType
  BY DEF Typed
<1>2. QED
  BY <1>1, Values DEF Forgotten, Idle, TermType, Pc, NoPort

LEMMA ToUpdate ==
  ASSUME Typed, NEW t \in Terminals, NEW to \in Pc, To(t, to)
  PROVE  /\ OwnTerm(t) /\ term'[t].pc = to
         /\ term'[t].then = term[t].then /\ term'[t].fail = term[t].fail
         /\ term'[t].pid = term[t].pid /\ term'[t].seen = term[t].seen
         /\ term'[t].before = term[t].before /\ term'[t].id = term[t].id
<1> DEFINE new == [term[t] EXCEPT !.pc = to]
<1>1. term \in [Terminals -> TermType] /\ term[t] \in TermType
  BY DEF Typed
<1>2. term' = [term EXCEPT ![t] = new]
  BY DEF To
<1>3. /\ new \in TermType /\ new.pc = to
      /\ new.then = term[t].then /\ new.fail = term[t].fail
      /\ new.pid = term[t].pid /\ new.seen = term[t].seen
      /\ new.before = term[t].before /\ new.id = term[t].id
  BY <1>1 DEF TermType
<1> HIDE DEF new
<1>4. QED
  BY <1>1, <1>2, <1>3 DEF OwnTerm

LEMMA GoesUpdate ==
  ASSUME Typed, NEW t \in Terminals, NEW to \in Pc, Goes(t, to)
  PROVE  /\ OwnTerm(t) /\ term'[t].pc = to
         /\ term'[t].then = "idle" /\ term'[t].fail = "idle"
         /\ term'[t].pid = 0 /\ term'[t].seen = {} /\ term'[t].before = {}
         /\ term'[t].id = IF to = "idle" THEN 0 ELSE term[t].id
<1> DEFINE new == IF to = "idle" THEN Idle ELSE [Forgotten(t) EXCEPT !.pc = to]
<1>1. term \in [Terminals -> TermType]
  BY DEF Typed
<1>2. term' = [term EXCEPT ![t] = new]
  BY DEF Goes
<1>3. /\ new \in TermType /\ new.pc = to /\ new.then = "idle" /\ new.fail = "idle"
      /\ new.pid = 0 /\ new.seen = {} /\ new.before = {}
      /\ new.id = IF to = "idle" THEN 0 ELSE term[t].id
  <2>1. CASE to = "idle"
    BY <2>1, IdleIs
  <2>2. CASE to # "idle"
    <3>1. new = [Forgotten(t) EXCEPT !.pc = to]
      BY <2>2
    <3> HIDE DEF new
    <3>2. QED
      BY <2>2, <3>1, ForgottenIs DEF TermType
  <2>3. QED
    BY <2>1, <2>2
<1> HIDE DEF new
<1>4. QED
  BY <1>1, <1>2, <1>3 DEF OwnTerm

LEMMA ReturnsUpdate ==
  ASSUME Typed, NEW t \in Terminals, term[t].then \in Pc, Returns(t)
  PROVE  /\ OwnTerm(t) /\ term'[t].pc = term[t].then
         /\ term'[t].then = "idle" /\ term'[t].fail = "idle"
         /\ term'[t].pid = 0 /\ term'[t].seen = {}
         /\ term'[t].before = IF term[t].then = "idle" THEN {} ELSE term[t].before
         /\ term'[t].id = IF term[t].then = "idle" THEN 0 ELSE term[t].id
<1> DEFINE on == [Forgotten(t) EXCEPT !.pc = term[t].then, !.before = term[t].before]
           new == IF term[t].then = "idle" THEN Idle ELSE on
<1>1. term \in [Terminals -> TermType] /\ term[t] \in TermType
  BY DEF Typed
<1>2. term' = [term EXCEPT ![t] = new]
  BY DEF Returns
<1>3. /\ on \in TermType /\ on.pc = term[t].then /\ on.then = "idle" /\ on.fail = "idle"
      /\ on.pid = 0 /\ on.seen = {} /\ on.before = term[t].before /\ on.id = term[t].id
  BY <1>1, ForgottenIs DEF TermType
<1> HIDE DEF on
<1>4. /\ new \in TermType /\ new.pc = term[t].then /\ new.then = "idle" /\ new.fail = "idle"
      /\ new.pid = 0 /\ new.seen = {}
      /\ new.before = IF term[t].then = "idle" THEN {} ELSE term[t].before
      /\ new.id = IF term[t].then = "idle" THEN 0 ELSE term[t].id
  BY <1>3, IdleIs
<1> HIDE DEF new
<1>5. QED
  BY <1>1, <1>2, <1>4 DEF OwnTerm

LEMMA InvokeUpdate ==
  ASSUME Typed, NEW t \in Terminals, NEW sub \in Pc, NEW then \in Pc,
         NEW fail \in {"idle", "unlock"}, Invoke(t, sub, then, fail)
  PROVE  /\ OwnTerm(t) /\ term'[t].pc = sub
         /\ term'[t].then = then /\ term'[t].fail = fail
         /\ term'[t].pid = 0 /\ term'[t].seen = {} /\ term'[t].before = {}
         /\ term'[t].id = term[t].id
<1> DEFINE new == [Forgotten(t) EXCEPT !.pc = sub, !.then = then, !.fail = fail,
                                       !.port = configured]
<1>1. term \in [Terminals -> TermType] /\ configured \in Ports
  BY DEF Typed
<1>2. term' = [term EXCEPT ![t] = new]
  BY DEF Invoke
<1>3. /\ new \in TermType /\ new.pc = sub /\ new.then = then /\ new.fail = fail
      /\ new.pid = 0 /\ new.seen = {} /\ new.before = {} /\ new.id = term[t].id
  BY <1>1, ForgottenIs DEF TermType
<1> HIDE DEF new
<1>4. QED
  BY <1>1, <1>2, <1>3 DEF OwnTerm

-----------------------------------------------------------------------------
(* What a step may do to processes and to locks, and who is not concerned. *)

\* Nothing takes the place of a process that someone has in view.
ProcMoves ==
  /\ proc' \in [Pid -> ProcType]
  /\ \A p \in Pid : ~ FreePid(p) =>
       /\ Alive(p)' => Alive(p) /\ proc'[p].kind = proc[p].kind
       /\ proc'[p].kind = proc[p].kind \/ proc'[p].kind = "cliff"

\* Only t's own lock changes hands; who takes one beside another says so.
LockMoves(t) ==
  /\ \A s \in Terminals \ {t} : fd'[s] = fd[s]
  /\ \A i \in 1 .. MaxInode :
       /\ flock'[i] = flock[i] \/ {flock[i], flock'[i]} \subseteq {NoOne, t}
       /\ flock'[i] = t => fd'[t] = i
  /\ taken <= taken' /\ fault \subseteq fault'
  /\ Locked(t)' /\ ~ Locked(t) => "overlap" \in fault' \/ \A s \in Terminals : ~ Locked(s)

LEMMA SameProc == Typed /\ UNCHANGED proc => ProcMoves
BY DEF Typed, ProcMoves, Alive

LEMMA GoneProc ==
  ASSUME Typed, proc' \in [Pid -> ProcType], \A p \in Pid : proc'[p] = proc[p] \/ proc'[p] = Gone
  PROVE  ProcMoves
BY DEF ProcMoves, Alive, Gone

LEMMA GoneIs == Gone \in ProcType
BY DEF Gone, ProcType, NoPort

LEMMA SameLocks ==
  ASSUME CommandInv, NEW t \in Terminals, UNCHANGED <<fd, flock>>, taken <= taken',
         fault \subseteq fault'
  PROVE  LockMoves(t)
<1>1. \A i \in 1 .. MaxInode : flock'[i] = t => fd'[t] = i
  BY Values DEF CommandInv, FlockInv
<1>2. Locked(t)' <=> Locked(t)
  BY DEF Locked
<1>3. QED
  BY <1>1, <1>2 DEF LockMoves

\* A command keeps what it knows of the processes while it stays where it is.
LEMMA StopKept ==
  ASSUME CommandInv, ProcMoves, NEW s \in Terminals, term'[s] = term[s]
  PROVE  StopInv(s)'
<1>1. StopInv(s) /\ term[s] \in TermType
  BY DEF CommandInv, TermInv, Typed
<1>2. term[s].seen \subseteq Pid /\ term[s].before \subseteq Pid /\ term[s].pid \in 0 .. MaxPid
  BY <1>1 DEF TermType
<1>3. \A p \in term[s].seen \cup term[s].before : p \in Pid /\ ~ FreePid(p)
  BY <1>2 DEF FreePid
<1>4. \A p \in term[s].seen : proc'[p].kind = "cliff"
  BY <1>1, <1>3 DEF StopInv, ProcMoves
<1>5. term[s].pid # 0 => term[s].pid \in Pid /\ ~ FreePid(term[s].pid)
  BY <1>2, MaxPidIsNat DEF FreePid, Pid
<1>6. term[s].pid # 0 /\ ~ Alive(term[s].pid) => ~ Alive(term[s].pid)'
  <2> SUFFICES ASSUME term[s].pid # 0, Alive(term[s].pid)' PROVE Alive(term[s].pid)
    OBVIOUS
  <2> DEFINE p == term[s].pid
  <2>1. p \in Pid /\ ~ FreePid(p)
    BY <1>5
  <2>2. term'[s].pid = p
    OBVIOUS
  <2> HIDE DEF p
  <2>3. proc'[p].st \in {"booting", "up"} => Alive(p)
    BY <2>1 DEF ProcMoves, Alive
  <2>4. QED
    BY <2>2, <2>3 DEF p, Alive
<1>7. term[s].before \cap Servers' \subseteq term[s].before \cap Servers
  BY <1>3 DEF ProcMoves, Servers, Alive
<1>8. term[s].pc \in {"unlink", "sweep", "reap"} /\ term[s].pid # 0 => ~ Alive(term[s].pid)'
  BY <1>1, <1>6 DEF StopInv
<1>9. QED
  BY <1>1, <1>4, <1>7, <1>8 DEF StopInv, Alive

LEMMA BystanderKeeps ==
  ASSUME CommandInv, ProcMoves, NEW s \in Terminals, term'[s] = term[s], fd'[s] = fd[s],
         Locked(s)' <=> Locked(s), taken \in Nat, taken' \in Nat, taken <= taken'
  PROVE  TermInv(s)'
<1>1. Shape(s) /\ LockInv(s) /\ term[s].id \in Nat
  BY UpdateBounds DEF CommandInv, TermInv, Typed, TermType
<1>2. Shape(s)'
  BY <1>1 DEF Shape
<1>3. LockInv(s)'
  BY <1>1 DEF LockInv, Updating, Swapping
<1>4. QED
  BY <1>2, <1>3, StopKept DEF TermInv

LEMMA OthersLocks ==
  ASSUME CommandInv, NEW t \in Terminals, LockMoves(t), NEW s \in Terminals \ {t}
  PROVE  fd'[s] = fd[s] /\ (Locked(s)' <=> Locked(s))
<1>1. fd'[s] = fd[s] /\ fd[s] \in 0 .. MaxInode
  BY DEF LockMoves, CommandInv, Typed
<1>2. fd[s] # 0 => (flock'[fd[s]] = s <=> flock[fd[s]] = s)
  BY <1>1, Values DEF LockMoves
<1>3. QED
  BY <1>1, <1>2 DEF Locked

\* A command that keeps its own facts keeps everyone's.
LEMMA CommandKeeps ==
  ASSUME CommandInv, NEW t \in Terminals, OwnTerm(t), ProcMoves, LockMoves(t), Typed', TermInv(t)'
  PROVE  CommandInv'
<1>1. taken \in Nat /\ taken' \in Nat /\ taken <= taken'
  BY UpdateBounds DEF CommandInv, Typed, LockMoves
<1>2. ASSUME NEW s \in Terminals PROVE TermInv(s)'
  <2>1. CASE s = t
    BY <2>1
  <2>2. CASE s # t
    <3>1. term'[s] = term[s] /\ fd'[s] = fd[s] /\ (Locked(s)' <=> Locked(s))
      BY <2>2, OthersLocks DEF OwnTerm
    <3>2. QED
      BY <1>1, <3>1, BystanderKeeps
  <2>3. QED
    BY <2>1, <2>2
<1>3. FlockInv'
  <2> SUFFICES ASSUME NEW i \in 1 .. MaxInode, flock'[i] # NoOne PROVE fd'[flock'[i]] = i
    BY DEF FlockInv
  <2>1. CASE flock'[i] = t
    BY <2>1 DEF LockMoves
  <2>2. CASE flock'[i] # t
    <3>1. flock'[i] = flock[i] /\ flock[i] \in Terminals \ {t} /\ fd[flock[i]] = i
      BY <2>2 DEF LockMoves, CommandInv, FlockInv, Typed
    <3>2. QED
      BY <3>1 DEF LockMoves
  <2>3. QED
    BY <2>1, <2>2
<1>4. OneHolder'
  <2> SUFFICES ASSUME "overlap" \notin fault', NEW r \in Terminals, NEW s \in Terminals,
                      Locked(r)', Locked(s)', r # s
               PROVE  FALSE
    BY DEF OneHolder
  <2>1. "overlap" \notin fault
    BY DEF LockMoves
  <2>2. \A q \in Terminals \ {t} : Locked(q)' => Locked(q)
    BY OthersLocks
  <2>3. PICK q \in {r, s} : q # t
    OBVIOUS
  <2>4. Locked(q)
    BY <2>2, <2>3
  <2>5. Locked(t)' => Locked(t)
    BY <2>1, <2>3, <2>4 DEF LockMoves
  <2>6. Locked(r) /\ Locked(s)
    BY <2>2, <2>5
  <2>7. QED
    BY <2>1, <2>6 DEF CommandInv, OneHolder
<1>5. QED
  BY <1>2, <1>3, <1>4 DEF CommandInv

\* So does a process.
LEMMA ProcessKeeps ==
  ASSUME CommandInv, NEW p \in Pid, ProcessStep(p), UNCHANGED updateVars
  PROVE  CommandInv'
<1>1. UNCHANGED <<pidfile, lockfile, configured, app, bin, term, snap, taken, fd, flock, fault>>
  BY DEF ProcessStep, Boot, ServerDies, Foreign, updateVars
<1>2. proc \in [Pid -> ProcType] /\ proc[p] \in ProcType
  BY DEF CommandInv, Typed
<1>3. ProcMoves
  <2>1. CASE Boot(p) \/ ServerDies(p)
    <3>1. CASE proc' = [proc EXCEPT ![p] = Gone]
      BY <1>2, <3>1, GoneIs, GoneProc DEF CommandInv
    <3>2. CASE proc[p].st = "booting" /\ proc' = [proc EXCEPT ![p].st = "up"]
      <4>1. [proc[p] EXCEPT !.st = "up"] \in ProcType /\ [proc[p] EXCEPT !.st = "up"].kind = proc[p].kind
        BY <1>2 DEF ProcType
      <4>2. QED
        BY <1>2, <3>2, <4>1 DEF ProcMoves, Alive
    <3>3. QED
      BY <2>1, <3>1, <3>2 DEF Boot, ServerDies
  <2>2. CASE Foreign(p)
    <3>1. PICK port \in Ports : proc' = [proc EXCEPT ![p] = [st |-> "up", kind |-> "other", port |-> port]]
      BY <2>2 DEF Foreign
    <3>2. [st |-> "up", kind |-> "other", port |-> port] \in ProcType
      BY DEF ProcType
    <3>3. proc' \in [Pid -> ProcType] /\ \A q \in Pid \ {p} : proc'[q] = proc[q]
      BY <1>2, <3>1, <3>2
    <3>4. FreePid(p)
      BY <2>2 DEF Foreign
    <3>5. QED
      BY <3>3, <3>4 DEF ProcMoves, Alive
  <2>3. QED
    BY <2>1, <2>2 DEF ProcessStep
<1>4. Typed'
  BY <1>1, <1>3 DEF CommandInv, Typed, ProcMoves
<1>5. taken \in Nat /\ taken' \in Nat /\ taken <= taken'
  BY <1>1, UpdateBounds DEF CommandInv, Typed
<1>6. ASSUME NEW s \in Terminals PROVE TermInv(s)'
  <2>1. Locked(s)' <=> Locked(s)
    BY <1>1 DEF Locked
  <2>2. QED
    BY <1>1, <1>3, <1>5, <2>1, BystanderKeeps
<1>7. FlockInv' /\ OneHolder'
  BY <1>1 DEF CommandInv, FlockInv, OneHolder, Locked
<1>8. QED
  BY <1>4, <1>6, <1>7 DEF CommandInv

-----------------------------------------------------------------------------
(* start. *)

Steps(t) == OwnTerm(t) /\ ProcMoves /\ TermInv(t)'
LocksStay == UNCHANGED <<fd, flock, taken>>

LEMMA Facts ==
  ASSUME CommandInv, NEW t \in Terminals
  PROVE  /\ Typed /\ Shape(t) /\ LockInv(t) /\ StopInv(t)
         /\ term[t] \in TermType /\ term[t].pid \in 0 .. MaxPid
         /\ term[t].fail \in Pc /\ term[t].then \in Pc \cup {"exec"} /\ term[t].id \in 0 .. MaxUpdate
         /\ term[t].seen \subseteq Pid /\ term[t].before \subseteq Pid
BY DEF CommandInv, TermInv, Typed, TermType, Pc, UpdatePc

\* Who has nothing in view knows nothing of the processes.
LEMMA BlankStop ==
  ASSUME NEW t \in Terminals, term'[t].seen = {}, term'[t].before = {}, term'[t].pid = 0
  PROVE  StopInv(t)'
BY DEF StopInv

\* A step within or outside an update.
LEMMA LockStays ==
  ASSUME CommandInv, NEW t \in Terminals, LocksStay,
         term[t].pc # "flock", term'[t].pc # "flock",
         Updating(t)' <=> Updating(t),
         Swapping(t)' <=> Swapping(t), term[t].pc # "unlock",
         term'[t].id = term[t].id
  PROVE  LockInv(t)'
BY Facts DEF LockInv, LocksStay, Locked

\* A sub-command ends: the command goes on, or ends with it.
LEMMA ExitsKeeps ==
  ASSUME CommandInv, NEW t \in Terminals, LocksStay, term[t].pc \in StartPc \cup StopPc, Exits(t)
  PROVE  OwnTerm(t) /\ TermInv(t)'
<1>1. term[t].fail \in {"idle", "unlock"}
  BY Facts DEF TermType
<1>2. /\ OwnTerm(t) /\ term'[t].pc = term[t].fail
      /\ term'[t].pid = 0 /\ term'[t].seen = {} /\ term'[t].before = {}
      /\ term'[t].id = IF term[t].fail = "idle" THEN 0 ELSE term[t].id
  BY Facts, GoesUpdate DEF Exits
<1>3. LockInv(t)'
  BY <1>1, <1>2, Facts
     DEF LockInv, LocksStay, Locked, Updating, Swapping, StartPc, StopPc, UpdatePc, SwapPc
<1>4. Shape(t)'
  BY <1>1, <1>2 DEF Shape, StartPc, StopPc
<1>5. QED
  BY <1>2, <1>3, <1>4, BlankStop DEF TermInv

LEMMA ReadPidIs ==
  ASSUME Typed
  PROVE  ReadPid \in 0 .. MaxPid /\ (ReadPid # 0 => ReadPid \in Pid /\ Alive(ReadPid))
BY MaxPidIsNat DEF Typed, ReadPid, Pid

LEMMA StartCheckKeeps ==
  ASSUME CommandInv, NEW t \in Terminals, LocksStay, StartCheck(t)
  PROVE  Steps(t) /\ pidfile' \in 0 .. MaxPid
<1>1. term[t].pc = "start" /\ ProcMoves /\ pidfile' \in 0 .. MaxPid
  <2>1. pidfile \in 0 .. MaxPid /\ ReadPid \in 0 .. MaxPid
    BY ReadPidIs, Facts DEF Typed
  <2>2. QED
    BY <2>1, SameProc, Facts DEF StartCheck
<1>2. CASE To(t, "spawn")
  <2>1. /\ OwnTerm(t) /\ term'[t].pc = "spawn"
        /\ term'[t].then = term[t].then /\ term'[t].fail = term[t].fail
        /\ term'[t].pid = term[t].pid /\ term'[t].seen = term[t].seen
        /\ term'[t].before = term[t].before /\ term'[t].id = term[t].id
    BY <1>2, Facts, ToUpdate DEF Pc, StartPc
  <2>2. Shape(t)'
    BY <1>1, <2>1, Facts DEF Shape, StartPc, StopPc
  <2>3. LockInv(t)'
    BY <1>1, <2>1, LockStays DEF Updating, Swapping, StartPc, StopPc, UpdatePc, SwapPc
  <2>4. StopInv(t)'
    BY <1>1, <2>1, Facts DEF StopInv, StartCheck
  <2>5. QED
    BY <1>1, <2>1, <2>2, <2>3, <2>4 DEF Steps, TermInv
<1>3. CASE Exits(t)
  BY <1>1, <1>3, ExitsKeeps DEF Steps, StartPc
<1>4. QED
  BY <1>1, <1>2, <1>3 DEF StartCheck

\* Least is in a set of pids that is not empty, and 0 otherwise.
LEMMA LeastIsThere ==
  ASSUME NEW P \in SUBSET Pid, Least(P) \in Pid
  PROVE  Least(P) \in P
<1>1. CASE P = {}
  <2>1. Least(P) = CHOOSE p \in {0} : (p = 0 <=> TRUE) /\ TRUE
    BY <1>1, Zenon DEF Least
  <2>2. Least(P) = 0
    BY <2>1
  <2>3. QED
    BY <2>2, Values
<1>2. CASE P # {}
  <2> DEFINE T == {0 .. k : k \in P}
             R == StrictSubsetOrdering(Nat)
  <2>1. P \subseteq Nat
    BY Values
  <2>2. \A k \in Nat : 0 .. k \in FiniteSubsetsOf(Nat)
    BY FS_Interval DEF FiniteSubsetsOf
  <2>3. T \subseteq FiniteSubsetsOf(Nat) /\ T # {}
    BY <1>2, <2>1, <2>2
  <2>4. IsWellFoundedOn(R, FiniteSubsetsOf(Nat))
    BY FS_StrictSubsetOrderingWellFounded
  <2> HIDE DEF R, T
  <2>5. \E x \in T : \A y \in T : ~ (<<y, x>> \in R)
    BY <2>3, <2>4, WFMin
  <2>6. \A j, k \in Nat : j < k => <<0 .. j, 0 .. k>> \in R
    <3> SUFFICES ASSUME NEW j \in Nat, NEW k \in Nat, j < k PROVE <<0 .. j, 0 .. k>> \in R
      OBVIOUS
    <3>1. /\ 0 .. j \in SUBSET Nat /\ 0 .. k \in SUBSET Nat /\ 0 .. j \subseteq 0 .. k
          /\ k \in 0 .. k /\ k \notin 0 .. j
      OBVIOUS
    <3>2. QED
      BY <3>1 DEF R, StrictSubsetOrdering
  <2>7. PICK m \in P : \A y \in T : ~ (<<y, 0 .. m>> \in R)
    BY <2>5 DEF T
  <2>8. ASSUME NEW k \in P, k < m PROVE FALSE
    <3>1. 0 .. k \in T
      BY DEF T
    <3>2. QED
      BY <2>1, <2>6, <2>7, <2>8, <3>1
  <2>9. \E p \in P \cup {0} : (p = 0 <=> P = {}) /\ \A q \in P : p <= q
    BY <1>2, <2>1, <2>7, <2>8, Values
  <2>10. Least(P) \in P \cup {0} /\ (Least(P) = 0 <=> P = {})
    BY <2>9 DEF Least
  <2>11. QED
    BY <1>2, <2>10
<1>3. QED
  BY <1>1, <1>2

LEMMA StartSpawnKeeps ==
  ASSUME CommandInv, NEW t \in Terminals, LocksStay, StartSpawn(t)
  PROVE  Steps(t)
<1>1. /\ term[t].pc = "spawn" /\ term \in [Terminals -> TermType] /\ term[t] \in TermType
      /\ proc \in [Pid -> ProcType]
  BY Facts DEF StartSpawn, Typed
<1>2. CASE app.venv /\ \E p \in Pid :
             /\ p = Least({q \in Pid : FreePid(q) /\ q # pidfile})
             /\ proc' = [proc EXCEPT ![p] = [st |-> "booting", kind |-> "cliff", port |-> term[t].port]]
             /\ IF term[t].then = "exec" THEN Goes(t, "idle")
                ELSE term' = [term EXCEPT ![t].pc = "record", ![t].pid = p]
  <2>1. PICK p \in Pid :
             /\ p = Least({q \in Pid : FreePid(q) /\ q # pidfile})
             /\ proc' = [proc EXCEPT ![p] = [st |-> "booting", kind |-> "cliff", port |-> term[t].port]]
             /\ IF term[t].then = "exec" THEN Goes(t, "idle")
                ELSE term' = [term EXCEPT ![t].pc = "record", ![t].pid = p]
    BY <1>2
  <2>2. FreePid(p)
    <3> DEFINE P == {q \in Pid : FreePid(q) /\ q # pidfile}
    <3>1. Least(P) \in P
      <4>1. P \in SUBSET Pid /\ Least(P) \in Pid
        BY <2>1
      <4> HIDE DEF P
      <4>2. QED
        BY <4>1, LeastIsThere
    <3>2. QED
      BY <2>1, <3>1
  <2>3. ProcMoves
    <3>1. [st |-> "booting", kind |-> "cliff", port |-> term[t].port] \in ProcType
      BY <1>1 DEF ProcType, TermType
    <3>2. proc' \in [Pid -> ProcType] /\ \A q \in Pid \ {p} : proc'[q] = proc[q]
      BY <1>1, <2>1, <3>1
    <3>3. QED
      BY <2>2, <3>2 DEF ProcMoves, Alive
  <2>4. CASE Goes(t, "idle") /\ term[t].then = "exec"
    <3>1. /\ OwnTerm(t) /\ term'[t].pc = "idle" /\ term'[t].id = 0
          /\ term'[t].pid = 0 /\ term'[t].seen = {} /\ term'[t].before = {}
      BY <2>4, Facts, GoesUpdate DEF Pc
    <3>2. term[t].fail = "idle"
      BY <1>1, <2>4, Facts DEF Shape, StartPc, StartReturns
    <3>3. LockInv(t)'
      BY <1>1, <3>1, <3>2, Facts
         DEF LockInv, LocksStay, Locked, Updating, Swapping, StartPc, StopPc, UpdatePc, SwapPc
    <3>4. Shape(t)'
      BY <3>1 DEF Shape, StartPc, StopPc
    <3>5. QED
      BY <2>3, <3>1, <3>3, <3>4, BlankStop DEF Steps, TermInv
  <2>5. CASE term' = [term EXCEPT ![t].pc = "record", ![t].pid = p] /\ term[t].then # "exec"
    <3> DEFINE new == [term[t] EXCEPT !.pc = "record", !.pid = p]
    <3>1. /\ new \in TermType /\ new.pc = "record" /\ new.pid = p
          /\ new.then = term[t].then /\ new.fail = term[t].fail /\ new.seen = term[t].seen
          /\ new.before = term[t].before /\ new.id = term[t].id
      BY <1>1, Values DEF TermType, Pc, StartPc
    <3>2. term' = [term EXCEPT ![t] = new]
      BY <2>5
    <3> HIDE DEF new
    <3>3. /\ OwnTerm(t) /\ term'[t] = new
      BY <1>1, <3>1, <3>2 DEF OwnTerm
    <3>4. Shape(t)'
      BY <1>1, <2>5, <3>1, <3>3, Facts DEF Shape, StartPc, StopPc
    <3>5. LockInv(t)'
      BY <1>1, <3>1, <3>3, LockStays DEF Updating, Swapping, StartPc, StopPc, UpdatePc, SwapPc
    <3>6. StopInv(t)'
      <4>1. \A q \in term[t].seen : proc'[q].kind = "cliff"
        BY <2>3, Facts DEF StopInv, ProcMoves, FreePid
      <4>2. QED
        BY <3>1, <3>3, <4>1 DEF StopInv
    <3>7. QED
      BY <2>3, <3>3, <3>4, <3>5, <3>6 DEF Steps, TermInv
  <2>6. QED
    BY <2>1, <2>4, <2>5
<1>3. CASE UNCHANGED proc /\ Exits(t)
  BY <1>1, <1>3, ExitsKeeps, SameProc, Facts DEF Steps, StartPc
<1>4. QED
  BY <1>2, <1>3 DEF StartSpawn

LEMMA StartRecordKeeps ==
  ASSUME CommandInv, NEW t \in Terminals, LocksStay, StartRecord(t)
  PROVE  Steps(t) /\ pidfile' \in 0 .. MaxPid
<1>1. term[t].pc = "record" /\ ProcMoves /\ pidfile' \in 0 .. MaxPid
  BY SameProc, Facts DEF StartRecord
<1>2. /\ OwnTerm(t) /\ term'[t].pc = "health"
      /\ term'[t].then = term[t].then /\ term'[t].fail = term[t].fail
      /\ term'[t].pid = term[t].pid /\ term'[t].seen = term[t].seen
      /\ term'[t].before = term[t].before /\ term'[t].id = term[t].id
  BY Facts, ToUpdate DEF Pc, StartPc, StartRecord
<1>3. Shape(t)'
  BY <1>1, <1>2, Facts DEF Shape, StartPc, StopPc
<1>4. LockInv(t)'
  BY <1>1, <1>2, LockStays DEF Updating, Swapping, StartPc, StopPc, UpdatePc, SwapPc
<1>5. StopInv(t)'
  BY <1>1, <1>2, Facts DEF StopInv, StartRecord
<1>6. QED
  BY <1>1, <1>2, <1>3, <1>4, <1>5 DEF Steps, TermInv

LEMMA StartHealthKeeps ==
  ASSUME CommandInv, NEW t \in Terminals, LocksStay, StartHealth(t)
  PROVE  Steps(t) /\ pidfile' \in 0 .. MaxPid
<1>1. term[t].pc = "health" /\ ProcMoves /\ pidfile' \in 0 .. MaxPid
  BY SameProc, Facts, Values DEF StartHealth, Typed
<1>2. CASE Returns(t)
  <2>1. <<term[t].then, term[t].fail>> \in {<<"idle", "idle">>, <<"updated", "unlock">>, <<"unlock", "unlock">>}
    BY <1>1, Facts DEF Shape, StartPc, StartReturns
  <2>2. term[t].then \in Pc
    BY <2>1 DEF Pc, UpdatePc, SwapPc
  <2>3. /\ OwnTerm(t) /\ term'[t].pc = term[t].then
        /\ term'[t].fail = "idle" /\ term'[t].pid = 0 /\ term'[t].seen = {}
        /\ term'[t].id = IF term[t].then = "idle" THEN 0 ELSE term[t].id
    BY <1>2, <2>2, Facts, ReturnsUpdate
  <2>4. Shape(t)' /\ StopInv(t)'
    BY <2>1, <2>3 DEF Shape, StopInv, StartPc, StopPc
  <2>5. LockInv(t)'
    BY <1>1, <2>1, <2>3, Facts
       DEF LockInv, LocksStay, Locked, Updating, Swapping, StartPc, StopPc, UpdatePc, SwapPc
  <2>6. QED
    BY <1>1, <2>3, <2>4, <2>5 DEF Steps, TermInv
<1>3. CASE Exits(t)
  BY <1>1, <1>3, ExitsKeeps DEF Steps, StartPc
<1>4. QED
  BY <1>1, <1>2, <1>3 DEF StartHealth

-----------------------------------------------------------------------------
(* stop. *)

LEMMA StopReadKeeps ==
  ASSUME CommandInv, NEW t \in Terminals, LocksStay, StopRead(t)
  PROVE  Steps(t) /\ pidfile' \in 0 .. MaxPid
<1>1. /\ term[t].pc = "stop" /\ pidfile' = ReadPid /\ ReadPid \in 0 .. MaxPid
      /\ ProcMoves /\ UNCHANGED proc
  BY Facts, SameProc, ReadPidIs DEF StopRead
<1> DEFINE to == IF ReadPid = 0 THEN "sweep" ELSE "stopwait"
           new == [term[t] EXCEPT !.pc = to, !.pid = ReadPid, !.before = Servers]
<1>2. /\ term \in [Terminals -> TermType] /\ term[t] \in TermType
      /\ Servers \subseteq Pid
  BY Facts DEF Typed, Servers
<1>3. to \in Pc /\ ((to = "sweep" /\ ReadPid = 0) \/ (to = "stopwait" /\ ReadPid # 0))
  BY DEF Pc, StopPc
<1>4. term' = [term EXCEPT ![t] = new]
  BY DEF StopRead
<1> HIDE DEF to
<1>5. /\ new \in TermType /\ new.pc = to /\ new.pid = ReadPid
      /\ new.then = term[t].then /\ new.fail = term[t].fail /\ new.seen = term[t].seen
      /\ new.id = term[t].id
  BY <1>1, <1>2, <1>3 DEF TermType
<1> HIDE DEF new
<1>6. OwnTerm(t) /\ term'[t] = new
  BY <1>2, <1>4, <1>5 DEF OwnTerm
<1>7. Shape(t)'
  <2>1. ReadPid # 0 => ReadPid \in Pid
    BY ReadPidIs, Facts
  <2>2. QED
    BY <1>1, <1>3, <1>5, <1>6, <2>1, Facts DEF Shape, StartPc, StopPc
<1>8. LockInv(t)'
  BY <1>1, <1>3, <1>5, <1>6, LockStays DEF Updating, Swapping, StartPc, StopPc, UpdatePc, SwapPc
<1>9. StopInv(t)'
  BY <1>1, <1>3, <1>5, <1>6, Facts DEF StopInv
<1>10. QED
  BY <1>1, <1>6, <1>7, <1>8, <1>9 DEF Steps, TermInv

LEMMA StopWaitKeeps ==
  ASSUME CommandInv, NEW t \in Terminals, LocksStay, StopWait(t)
  PROVE  Steps(t)
<1>1. /\ term[t].pc = "stopwait" /\ term[t].pid \in Pid
      /\ proc' = [proc EXCEPT ![term[t].pid] = Gone]
  BY Facts DEF StopWait, Shape
<1>2. /\ OwnTerm(t) /\ term'[t].pc = "unlink"
      /\ term'[t].then = term[t].then /\ term'[t].fail = term[t].fail
      /\ term'[t].pid = term[t].pid /\ term'[t].seen = term[t].seen
      /\ term'[t].before = term[t].before /\ term'[t].id = term[t].id
  BY Facts, ToUpdate DEF Pc, StopPc, StopWait
<1>3. ProcMoves /\ proc' \in [Pid -> ProcType] /\ proc'[term[t].pid] = Gone
  BY <1>1, Facts, GoneIs, GoneProc DEF Typed
<1>4. Shape(t)'
  BY <1>1, <1>2, Facts DEF Shape, StartPc, StopPc
<1>5. LockInv(t)'
  BY <1>1, <1>2, LockStays DEF Updating, Swapping, StartPc, StopPc, UpdatePc, SwapPc
<1>6. StopInv(t)'
  <2>1. \A q \in term[t].seen : proc'[q].kind = "cliff"
    BY <1>3, Facts DEF StopInv, ProcMoves, FreePid
  <2>2. proc'[term[t].pid].st = "gone"
    BY <1>3 DEF Gone
  <2>3. QED
    BY <1>2, <2>1, <2>2 DEF StopInv, Alive
<1>7. QED
  BY <1>2, <1>3, <1>4, <1>5, <1>6 DEF Steps, TermInv

LEMMA StopUnlinkKeeps ==
  ASSUME CommandInv, NEW t \in Terminals, LocksStay, StopUnlink(t)
  PROVE  Steps(t) /\ pidfile' \in 0 .. MaxPid
<1>1. term[t].pc = "unlink" /\ ProcMoves /\ UNCHANGED proc /\ pidfile' \in 0 .. MaxPid
  BY Facts, SameProc, Values DEF StopUnlink
<1>2. /\ OwnTerm(t) /\ term'[t].pc = "sweep"
      /\ term'[t].then = term[t].then /\ term'[t].fail = term[t].fail
      /\ term'[t].pid = term[t].pid /\ term'[t].seen = term[t].seen
      /\ term'[t].before = term[t].before /\ term'[t].id = term[t].id
  BY Facts, ToUpdate DEF Pc, StopPc, StopUnlink
<1>3. Shape(t)'
  BY <1>1, <1>2, Facts DEF Shape, StartPc, StopPc
<1>4. LockInv(t)'
  BY <1>1, <1>2, LockStays DEF Updating, Swapping, StartPc, StopPc, UpdatePc, SwapPc
<1>5. StopInv(t)'
  BY <1>1, <1>2, Facts DEF StopInv, Alive
<1>6. QED
  BY <1>1, <1>2, <1>3, <1>4, <1>5 DEF Steps, TermInv

\* A stop ends well with what it found at the beginning gone.
LEMMA StopEndsKeeps ==
  ASSUME CommandInv, NEW t \in Terminals, LocksStay, term[t].pc \in StopPc, Returns(t),
         term[t].before \cap Servers' = {}
  PROVE  OwnTerm(t) /\ TermInv(t)'
<1>1. <<term[t].then, term[t].fail>> \in StopReturns
  BY Facts DEF Shape
<1>2. term[t].then \in Pc
  BY <1>1 DEF StopReturns, Pc, UpdatePc
<1>3. /\ OwnTerm(t) /\ term'[t].pc = term[t].then
      /\ term'[t].pid = 0 /\ term'[t].seen = {}
      /\ term'[t].before = IF term[t].then = "idle" THEN {} ELSE term[t].before
      /\ term'[t].id = IF term[t].then = "idle" THEN 0 ELSE term[t].id
  BY <1>2, Facts, ReturnsUpdate
<1>4. Shape(t)'
  BY <1>1, <1>3 DEF Shape, StopReturns, StartPc, StopPc
<1>5. LockInv(t)'
  BY <1>1, <1>3, Facts
     DEF LockInv, LocksStay, Locked, Updating, Swapping, StopReturns, StartPc, StopPc, UpdatePc, SwapPc
<1>6. StopInv(t)'
  BY <1>1, <1>3 DEF StopInv, StopReturns
<1>7. QED
  BY <1>3, <1>4, <1>5, <1>6 DEF TermInv

LEMMA StopSweepKeeps ==
  ASSUME CommandInv, NEW t \in Terminals, LocksStay, StopSweep(t)
  PROVE  Steps(t)
<1> DEFINE found == {p \in Pid : Ours(p)} \ {term[t].pid}
<1>1. term[t].pc = "sweep" /\ ProcMoves /\ UNCHANGED proc
  BY Facts, SameProc DEF StopSweep
<1>2. found \subseteq Pid /\ (\A p \in found : proc[p].kind = "cliff") /\ Servers \subseteq found
  <2>1. term[t].pid \notin Servers
    BY <1>1, Facts, Values DEF StopInv, Servers
  <2>2. Servers = {p \in Pid : Ours(p)}
    BY DEF Servers, Ours
  <2>3. QED
    BY <2>1, <2>2 DEF Servers
<1>3. IF found = {} THEN Returns(t) ELSE term' = [term EXCEPT ![t].pc = "reap", ![t].seen = found]
  BY DEF StopSweep
<1> HIDE DEF found
<1>4. CASE found = {}
  <2>1. term[t].before \cap Servers' = {}
    BY <1>1, <1>2, <1>4 DEF Servers, Alive
  <2>2. QED
    BY <1>1, <1>3, <1>4, <2>1, StopEndsKeeps DEF Steps, StopPc
<1>5. CASE found # {}
  <2> DEFINE new == [term[t] EXCEPT !.pc = "reap", !.seen = found]
  <2>1. term \in [Terminals -> TermType] /\ term[t] \in TermType
    BY Facts DEF Typed
  <2>2. term' = [term EXCEPT ![t] = new]
    BY <1>3, <1>5
  <2>3. /\ new \in TermType /\ new.pc = "reap" /\ new.seen = found
        /\ new.then = term[t].then /\ new.fail = term[t].fail /\ new.pid = term[t].pid
        /\ new.before = term[t].before /\ new.id = term[t].id
    BY <1>2, <2>1 DEF TermType, Pc, StopPc
  <2> HIDE DEF new
  <2>4. OwnTerm(t) /\ term'[t] = new
    BY <2>1, <2>2, <2>3 DEF OwnTerm
  <2>5. Shape(t)'
    BY <1>1, <2>3, <2>4, Facts DEF Shape, StartPc, StopPc
  <2>6. LockInv(t)'
    BY <1>1, <2>3, <2>4, LockStays DEF Updating, Swapping, StartPc, StopPc, UpdatePc, SwapPc
  <2>7. StopInv(t)'
    BY <1>1, <1>2, <2>3, <2>4, Facts DEF StopInv, Alive, Servers
  <2>8. QED
    BY <1>1, <2>4, <2>5, <2>6, <2>7 DEF Steps, TermInv
<1>6. QED
  BY <1>4, <1>5

LEMMA StopReapKeeps ==
  ASSUME CommandInv, NEW t \in Terminals, LocksStay, StopReap(t)
  PROVE  Steps(t)
<1>1. PICK stuck \in SUBSET {p \in term[t].seen : Alive(p)} :
        /\ proc' = [p \in Pid |-> IF p \in term[t].seen \ stuck THEN Gone ELSE proc[p]]
        /\ IF stuck = {} THEN Returns(t) ELSE Exits(t)
  BY DEF StopReap
<1>2. term[t].pc = "reap"
  BY DEF StopReap
<1>3. ProcMoves
  <2>1. proc \in [Pid -> ProcType]
    BY Facts DEF Typed
  <2>2. proc' \in [Pid -> ProcType] /\ \A p \in Pid : proc'[p] = proc[p] \/ proc'[p] = Gone
    BY <1>1, <2>1, GoneIs
  <2>3. QED
    BY <2>2, Facts, GoneProc
<1>4. CASE stuck = {}
  <2>1. \A p \in Pid : proc'[p] = IF p \in term[t].seen THEN Gone ELSE proc[p]
    BY <1>1, <1>4
  <2>2. term[t].before \cap Servers \subseteq term[t].seen
    BY <1>2, Facts DEF StopInv
  <2>3. term[t].before \cap Servers' = {}
    BY <2>1, <2>2 DEF Servers, Alive, Gone
  <2>4. QED
    BY <1>1, <1>2, <1>3, <1>4, <2>3, StopEndsKeeps DEF Steps, StopPc
<1>5. CASE stuck # {}
  BY <1>1, <1>2, <1>3, <1>5, ExitsKeeps DEF Steps, StopPc
<1>6. QED
  BY <1>4, <1>5

-----------------------------------------------------------------------------
(* The commands. *)

\* A command that runs no update begins or goes on with nothing in view.
LEMMA FreshTerm ==
  ASSUME CommandInv, NEW t \in Terminals, LocksStay, OwnTerm(t), Shape(t)',
         ~ Updating(t), ~ Updating(t)', term[t].pc # "flock", term'[t].pc # "flock",
         term'[t].seen = {}, term'[t].before = {}, term'[t].pid = 0, term'[t].id = 0
  PROVE  TermInv(t)'
<1>1. LockInv(t)'
  BY Facts DEF LockInv, LocksStay, Locked, Updating, Swapping, UpdatePc
<1>2. QED
  BY <1>1, BlankStop DEF TermInv

LEMMA RunKeeps ==
  ASSUME CommandInv, NEW t \in Terminals, LocksStay,
         RunStart(t) \/ RunStop(t) \/ RunRestart(t) \/ RunUninstall(t) \/ RestartStart(t)
  PROVE  Steps(t) /\ UNCHANGED <<pidfile, configured, lockfile, app, bin>>
<1>1. /\ UNCHANGED <<proc, pidfile, configured, lockfile, app, bin>> /\ ProcMoves
      /\ term[t].pc \in {"idle", "start_again"}
  BY Facts, SameProc DEF RunStart, RunStop, RunRestart, RunUninstall, RestartStart, Nothing, Begins
<1>2. term[t].id = 0
  BY <1>1, Facts DEF LockInv, Swapping, StartPc, SwapPc
<1>3. ~ Updating(t)
  BY <1>1 DEF Updating, StartPc, StopPc, UpdatePc, SwapPc
<1>4. CASE RunStart(t) \/ RestartStart(t)
  <2>1. PICK new \in TermType :
          /\ term' = [term EXCEPT ![t] = new]
          /\ new.pc = "start" /\ new.then \in {"idle", "exec"} /\ new.fail = "idle"
          /\ new.seen = {} /\ new.before = {} /\ new.pid = 0 /\ new.id = 0
    <3>1. CASE RunStart(t)
      <4>1. PICK port \in Ports, then \in {"idle", "exec"} :
              term' = [term EXCEPT ![t] = [Idle EXCEPT !.pc = "start", !.port = port, !.then = then]]
        BY <3>1 DEF RunStart
      <4> DEFINE begun == [Idle EXCEPT !.pc = "start", !.port = port, !.then = then]
      <4>2. /\ begun \in TermType /\ begun.pc = "start" /\ begun.then \in {"idle", "exec"}
            /\ begun.fail = "idle" /\ begun.seen = {} /\ begun.before = {}
            /\ begun.pid = 0 /\ begun.id = 0
        BY IdleIs DEF TermType, Pc, StartPc
      <4>3. term' = [term EXCEPT ![t] = begun]
        BY <4>1
      <4> HIDE DEF begun
      <4>4. QED
        BY <4>2, <4>3
    <3>2. CASE RestartStart(t)
      <4>1. PICK port \in Ports :
              term' = [term EXCEPT ![t] = [Idle EXCEPT !.pc = "start", !.port = port]]
        BY <3>2 DEF RestartStart
      <4> DEFINE begun == [Idle EXCEPT !.pc = "start", !.port = port]
      <4>2. /\ begun \in TermType /\ begun.pc = "start" /\ begun.then \in {"idle", "exec"}
            /\ begun.fail = "idle" /\ begun.seen = {} /\ begun.before = {}
            /\ begun.pid = 0 /\ begun.id = 0
        BY IdleIs DEF TermType, Pc, StartPc
      <4>3. term' = [term EXCEPT ![t] = begun]
        BY <4>1
      <4> HIDE DEF begun
      <4>4. QED
        BY <4>2, <4>3
    <3>3. QED
      BY <1>4, <3>1, <3>2
  <2>2. term \in [Terminals -> TermType]
    BY Facts DEF Typed
  <2>3. OwnTerm(t) /\ term'[t] = new
    BY <2>1, <2>2 DEF OwnTerm
  <2>4. Shape(t)'
    BY <2>1, <2>3 DEF Shape, StartPc, StopPc, StartReturns
  <2>5. ~ Updating(t)'
    BY <2>1, <2>3 DEF Updating, UpdatePc, SwapPc
  <2>6. TermInv(t)'
    BY <1>1, <1>3, <2>1, <2>3, <2>4, <2>5, FreshTerm
  <2>7. QED
    BY <1>1, <2>3, <2>6 DEF Steps
<1>5. CASE RunStop(t) \/ RunRestart(t) \/ RunUninstall(t)
  <2>1. PICK then \in {"idle", "start_again", "recheck"} : Invoke(t, "stop", then, "idle")
    BY <1>5 DEF RunStop, RunRestart, RunUninstall
  <2>2. "stop" \in Pc /\ then \in Pc
    BY DEF Pc, StopPc
  <2>3. /\ OwnTerm(t) /\ term'[t].pc = "stop"
        /\ term'[t].then = then /\ term'[t].fail = "idle"
        /\ term'[t].pid = 0 /\ term'[t].seen = {} /\ term'[t].before = {}
        /\ term'[t].id = 0
    BY <1>2, <2>1, <2>2, Facts, InvokeUpdate
  <2>4. Shape(t)'
    BY <2>3 DEF Shape, StartPc, StopPc, StopReturns
  <2>5. ~ Updating(t)'
    BY <2>3 DEF Updating, UpdatePc, SwapPc
  <2>6. TermInv(t)'
    BY <1>1, <1>3, <2>3, <2>4, <2>5, FreshTerm
  <2>7. QED
    BY <1>1, <2>3, <2>6 DEF Steps
<1>6. QED
  BY <1>4, <1>5

LEMMA UninstallKeeps ==
  ASSUME CommandInv, NEW t \in Terminals, LocksStay, UninstallRecheck(t) \/ UninstallConfirm(t)
  PROVE  Steps(t)
<1>1. PICK to \in {"confirm", "idle"} : Goes(t, to)
  BY DEF UninstallRecheck, UninstallConfirm
<1>2. UNCHANGED proc /\ ProcMoves /\ term[t].pc \in {"recheck", "confirm"}
  BY Facts, SameProc DEF UninstallRecheck, UninstallConfirm, Nothing
<1>3. term[t].id = 0
  BY <1>2, Facts DEF LockInv, Swapping, StartPc, SwapPc
<1>4. /\ OwnTerm(t) /\ term'[t].pc = to /\ term'[t].id = 0
      /\ term'[t].pid = 0 /\ term'[t].seen = {} /\ term'[t].before = {}
  BY <1>1, <1>3, Facts, GoesUpdate DEF Pc
<1>5. Shape(t)' /\ ~ Updating(t) /\ ~ Updating(t)'
  BY <1>2, <1>4 DEF Shape, Updating, StartPc, StopPc, UpdatePc, SwapPc
<1>6. TermInv(t)'
  BY <1>2, <1>4, <1>5, FreshTerm
<1>7. QED
  BY <1>2, <1>4, <1>6 DEF Steps

LEMMA ConfigSetKeeps ==
  ASSUME CommandInv, NEW t \in Terminals, LocksStay, ConfigSet(t)
  PROVE  Steps(t) /\ configured' \in Ports
<1>1. UNCHANGED <<proc, term>> /\ ProcMoves /\ configured' \in Ports
  BY Facts, SameProc DEF ConfigSet
<1>2. OwnTerm(t)
  BY <1>1, Facts DEF OwnTerm, Typed
<1>3. TermInv(t)'
  <2>1. taken \in Nat /\ taken' \in Nat /\ taken <= taken'
    BY Facts, UpdateBounds DEF LocksStay, Typed
  <2>2. Locked(t)' <=> Locked(t)
    BY DEF Locked, LocksStay
  <2>3. QED
    BY <1>1, <2>1, <2>2, BystanderKeeps DEF LocksStay
<1>4. QED
  BY <1>1, <1>2, <1>3 DEF Steps

\* The daemon commands, beside updates.
LEMMA DaemonKeeps == ASSUME CommandInv, NEW t \in Terminals, Daemon(t) PROVE CommandInv'
<1>1. /\ LocksStay /\ UNCHANGED snap
      /\ fault' \subseteq {"overlap", "uninstall", "broken"} /\ fault \subseteq fault'
  BY Facts DEF Daemon, LocksStay, Typed
<1>2. /\ Steps(t) /\ pidfile' \in 0 .. MaxPid /\ configured' \in Ports
      /\ lockfile' \in 0 .. MaxInode /\ app' \in DirType /\ bin' \in DirType
  <2> USE Facts
  <2>1. CASE RunStart(t) \/ RunStop(t) \/ RunRestart(t) \/ RunUninstall(t) \/ RestartStart(t)
    BY <1>1, <2>1, RunKeeps DEF Typed
  <2>2. CASE ConfigSet(t)
    BY <1>1, <2>2, ConfigSetKeeps DEF Typed, ConfigSet
  <2>3. CASE StartCheck(t)
    BY <1>1, <2>3, StartCheckKeeps DEF Typed, StartCheck
  <2>4. CASE StartSpawn(t)
    BY <1>1, <2>4, StartSpawnKeeps DEF Typed, StartSpawn
  <2>5. CASE StartRecord(t)
    BY <1>1, <2>5, StartRecordKeeps DEF Typed, StartRecord
  <2>6. CASE StartHealth(t)
    BY <1>1, <2>6, StartHealthKeeps DEF Typed, StartHealth
  <2>7. CASE StopRead(t)
    BY <1>1, <2>7, StopReadKeeps DEF Typed, StopRead
  <2>8. CASE StopWait(t)
    BY <1>1, <2>8, StopWaitKeeps DEF Typed, StopWait
  <2>9. CASE StopUnlink(t)
    BY <1>1, <2>9, StopUnlinkKeeps DEF Typed, StopUnlink
  <2>10. CASE StopSweep(t)
    BY <1>1, <2>10, StopSweepKeeps DEF Typed, StopSweep
  <2>11. CASE StopReap(t)
    BY <1>1, <2>11, StopReapKeeps DEF Typed, StopReap
  <2>12. CASE UninstallRecheck(t) \/ UninstallConfirm(t)
    BY <1>1, <2>12, UninstallKeeps, Values
       DEF Typed, UninstallRecheck, UninstallConfirm, Nothing
  <2>13. QED
    BY <2>1, <2>2, <2>3, <2>4, <2>5, <2>6, <2>7, <2>8, <2>9, <2>10, <2>11, <2>12
       DEF Daemon, DaemonCommand
<1>3. taken <= taken'
  BY <1>1, Facts, UpdateBounds DEF LocksStay, Typed
<1>4. Typed'
  BY <1>1, <1>2, Facts DEF Typed, Steps, OwnTerm, ProcMoves, LocksStay
<1>5. LockMoves(t)
  BY <1>1, <1>3, SameLocks DEF LocksStay
<1>6. QED
  BY <1>2, <1>4, <1>5, CommandKeeps DEF Steps

-----------------------------------------------------------------------------
(* update, and what it knows of the lock. *)

\* A step within an update: on to another step of it, or into a sub-command.
LEMMA GoesWithin ==
  ASSUME CommandInv, NEW t \in Terminals, LocksStay, UNCHANGED proc,
         term[t].pc \in UpdatePc \ {"unlock"}, NEW to \in UpdatePc, Goes(t, to),
         to = "unlock" \/ (to \in SwapPc <=> term[t].pc \in SwapPc)
  PROVE  Steps(t) /\ term'[t].pc = to /\ term'[t].id = term[t].id
<1>1. /\ OwnTerm(t) /\ term'[t].pc = to /\ term'[t].id = term[t].id
      /\ term'[t].pid = 0 /\ term'[t].seen = {} /\ term'[t].before = {}
  BY Facts, GoesUpdate DEF Pc, UpdatePc, SwapPc
<1>2. Shape(t)'
  BY <1>1 DEF Shape, StartPc, StopPc, UpdatePc, SwapPc
<1>3. LockInv(t)'
  BY <1>1, Facts
     DEF LockInv, LocksStay, Locked, Updating, Swapping, StartPc, StopPc, UpdatePc, SwapPc
<1>4. ProcMoves
  BY Facts, SameProc
<1>5. QED
  BY <1>1, <1>2, <1>3, <1>4, BlankStop DEF Steps, TermInv

LEMMA InvokeWithin ==
  ASSUME CommandInv, NEW t \in Terminals, LocksStay, UNCHANGED proc,
         NEW sub \in {"stop", "start"}, NEW then \in {"download", "updated", "unlock"},
         Invoke(t, sub, then, "unlock"),
         \/ sub = "stop" /\ then = "download" /\ term[t].pc = "space"
         \/ sub = "start" /\ then # "download" /\ term[t].pc \in SwapPc
  PROVE  /\ Steps(t) /\ term'[t].pc = sub /\ term'[t].then = then /\ term'[t].id = term[t].id
<1>1. sub \in Pc /\ then \in Pc
  BY DEF Pc, StartPc, StopPc, UpdatePc, SwapPc
<1>2. /\ OwnTerm(t) /\ term'[t].pc = sub /\ term'[t].then = then /\ term'[t].fail = "unlock"
      /\ term'[t].id = term[t].id
      /\ term'[t].pid = 0 /\ term'[t].seen = {} /\ term'[t].before = {}
  BY <1>1, Facts, InvokeUpdate
<1>3. Shape(t)'
  BY <1>2 DEF Shape, StartPc, StopPc, StopReturns, StartReturns
<1>4. LockInv(t)'
  BY <1>2, Facts
     DEF LockInv, LocksStay, Locked, Updating, Swapping, StartPc, StopPc, UpdatePc, SwapPc
<1>5. ProcMoves
  BY Facts, SameProc
<1>6. QED
  BY <1>2, <1>3, <1>4, <1>5, BlankStop DEF Steps, TermInv

\* Such a step, wherever the directories go.
LEMMA WithinKeeps ==
  ASSUME CommandInv, NEW t \in Terminals, Steps(t), Keep, NoLock,
         app' \in DirType, bin' \in DirType, snap' \in [Update -> SnapType],
         taken' \in 0 .. MaxUpdate, taken <= taken',
         fault \subseteq fault', fault' \subseteq {"overlap", "uninstall", "broken"}
  PROVE  CommandInv'
<1>1. Typed'
  BY Facts DEF Typed, Steps, OwnTerm, ProcMoves, Keep, NoLock
<1>2. LockMoves(t)
  BY SameLocks DEF NoLock
<1>3. QED
  BY <1>1, <1>2, CommandKeeps DEF Steps

\* It takes no directory out of its type.
LEMMA WithinStays ==
  ASSUME CommandInv, NEW t \in Terminals, Steps(t), Keep, NoLock, UNCHANGED taken,
         app' \in DirType, bin' \in DirType, snap' \in [Update -> SnapType],
         UNCHANGED fault \/ fault' = fault \cup {"broken"}
  PROVE  CommandInv'
<1>1. /\ taken' \in 0 .. MaxUpdate /\ taken <= taken'
      /\ fault \subseteq fault' /\ fault' \subseteq {"overlap", "uninstall", "broken"}
  BY Facts, UpdateBounds DEF Typed
<1>2. QED
  BY <1>1, WithinKeeps

LEMMA PhaseACommand ==
  ASSUME CommandInv, NEW t \in Terminals, UpdateSpace(t) \/ UpdateDownload(t) \/ UpdateVerify(t)
  PROVE  CommandInv' /\ OwnTerm(t) /\ term[t].id = 0 /\ term'[t].id = 0
<1>1. /\ LocksStay /\ Keep /\ NoLock /\ UNCHANGED <<proc, app, bin, snap, taken, fault>>
      /\ term[t].pc \in {"space", "download", "verify"}
  BY DEF UpdateSpace, UpdateDownload, UpdateVerify, Keep, Install, NoLock, LocksStay
<1>2. term[t].id = 0
  BY <1>1, Facts DEF LockInv, Swapping, StartPc, SwapPc
<1> DEFINE Fetched ==
  \E r \in Releases : term' = [term EXCEPT ![t] = [Idle EXCEPT !.pc = "verify", !.release = r]]
<1>3. ASSUME Goes(t, "unlock") \/ Goes(t, "snap_app") PROVE Steps(t) /\ term'[t].id = 0
  BY <1>1, <1>2, <1>3, GoesWithin DEF UpdatePc, SwapPc, Steps
<1>4. ASSUME UpdateSpace(t), Invoke(t, "stop", "download", "unlock")
      PROVE  Steps(t) /\ term'[t].id = 0
  BY <1>1, <1>2, <1>4, InvokeWithin DEF UpdateSpace, Steps
<1>5. ASSUME Fetched PROVE Steps(t) /\ term'[t].id = 0
  <2>1. PICK r \in Releases :
          term' = [term EXCEPT ![t] = [Idle EXCEPT !.pc = "verify", !.release = r]]
    BY <1>5
  <2> DEFINE new == [Idle EXCEPT !.pc = "verify", !.release = r]
  <2>2. /\ new \in TermType /\ new.pc = "verify" /\ new.id = 0
        /\ new.pid = 0 /\ new.seen = {} /\ new.before = {}
    BY IdleIs DEF TermType, Pc, UpdatePc
  <2>3. term' = [term EXCEPT ![t] = new] /\ term \in [Terminals -> TermType]
    BY <2>1, Facts DEF Typed
  <2> HIDE DEF new
  <2>4. OwnTerm(t) /\ term'[t] = new
    BY <2>2, <2>3 DEF OwnTerm
  <2>5. Shape(t)'
    BY <2>2, <2>4 DEF Shape, StartPc, StopPc
  <2>6. LockInv(t)'
    BY <1>1, <2>2, <2>4, Facts
       DEF LockInv, LocksStay, Locked, Updating, Swapping, StartPc, StopPc, UpdatePc, SwapPc
  <2>7. QED
    BY <1>1, <1>2, <2>2, <2>4, <2>5, <2>6, BlankStop, SameProc, Facts DEF Steps, TermInv
<1>6. Steps(t) /\ term'[t].id = 0
  <2>1. UpdateDownload(t) => Goes(t, "unlock") \/ Fetched
    BY Zenon DEF UpdateDownload
  <2> HIDE DEF Fetched
  <2>2. QED
    BY <1>3, <1>4, <1>5, <2>1 DEF UpdateSpace, UpdateVerify
<1>7. app' \in DirType /\ bin' \in DirType /\ snap' \in [Update -> SnapType]
  BY <1>1, Facts DEF Typed
<1>8. QED
  BY <1>1, <1>2, <1>6, <1>7, WithinStays DEF Steps

-----------------------------------------------------------------------------
(* What a step may do to the directories. *)

\* While updates do not overlap, who holds a lock is alone past its snapshot.
LEMMA LoneSwap ==
  ASSUME CommandInv, NEW t \in Terminals, Locked(t), "overlap" \notin fault
  PROVE  \A s \in Terminals \ {t} : term[s].id = 0
<1> SUFFICES ASSUME NEW s \in Terminals \ {t}, term[s].id # 0 PROVE FALSE
  OBVIOUS
<1>1. Updating(s)
  BY Facts DEF LockInv, Updating, Swapping, UpdatePc
<1>2. Locked(s)
  BY <1>1, Facts DEF LockInv
<1>3. QED
  BY <1>2 DEF CommandInv, OneHolder

\* The directories stay, and a command that ends leaves one release in force.
LEMMA QuietKeeps ==
  ASSUME IInv, NEW t \in Terminals, OwnTerm(t), Install, fault \subseteq fault',
         SwapInv(t)', AppInv(t)',
         term[t].id # 0 /\ term'[t].id = 0 /\ fault' = {} => OneRelease(app, bin)
  PROVE  DirInv'
<1>1. VenvIsWhole' /\ NoneAhead'
  BY DEF IInv, DirInv, VenvIsWhole, NoneAhead, Install, Whole
<1>2. ASSUME NEW s \in Terminals PROVE SwapInv(s)' /\ AppInv(s)'
  <2>1. CASE s = t
    BY <2>1
  <2>2. CASE s # t
    <3>1. term'[s] = term[s] /\ SwapInv(s) /\ AppInv(s)
      BY <2>2 DEF OwnTerm, IInv, DirInv
    <3>2. QED
      BY <3>1 DEF SwapInv, AppInv, SomeSnap, OneRelease, Install, Whole
  <2>3. QED
    BY <2>1, <2>2
<1>3. SomeWholeInstall'
  BY DEF IInv, DirInv, InstallSurvives, SomeWholeInstall, Install, Whole
<1>4. SettledInstallIsWhole'
  <2> SUFFICES ASSUME fault' = {}, Mid' = {} PROVE OneRelease(app, bin)
    BY DEF SettledInstallIsWhole, OneRelease, Install, Whole
  <2>1. \A s \in Terminals : term'[s].id = 0
    BY DEF Mid
  <2>2. CASE term[t].id # 0
    BY <2>1, <2>2
  <2>3. CASE term[t].id = 0
    <3>1. Mid = {}
      BY <2>1, <2>3 DEF Mid, OwnTerm
    <3>2. QED
      BY <3>1 DEF IInv, DirInv, InstallSurvives, SettledInstallIsWhole, OneRelease
  <2>4. QED
    BY <2>2, <2>3
<1>5. QED
  BY <1>1, <1>2, <1>3, <1>4 DEF DirInv, InstallSurvives

\* No snapshot of its own, no claim.
LEMMA NoSwap ==
  ASSUME NEW t \in Terminals, term'[t].id = 0
  PROVE  SwapInv(t)' /\ AppInv(t)'
BY DEF SwapInv, AppInv

LEMMA QuietOutside ==
  ASSUME IInv, NEW t \in Terminals, OwnTerm(t), Install, fault \subseteq fault',
         term[t].id = 0, term'[t].id = 0
  PROVE  DirInv'
BY NoSwap, QuietKeeps

\* A directory moves, by the hand of the one update there is.
LEMMA MovesKeep ==
  ASSUME IInv, NEW t \in Terminals, OwnTerm(t), Locked(t), fault \subseteq fault',
         term'[t].id # 0, VenvIsWhole', NoneAhead', SwapInv(t)', AppInv(t)', SomeWholeInstall'
  PROVE  DirInv'
<1>1. ASSUME NEW s \in Terminals PROVE SwapInv(s)' /\ AppInv(s)'
  <2>1. CASE s = t
    BY <2>1
  <2>2. CASE s # t
    <3>1. "overlap" \notin fault' => term'[s].id = 0
      BY <2>2, LoneSwap DEF OwnTerm, IInv
    <3>2. QED
      BY <3>1 DEF SwapInv, AppInv
  <2>3. QED
    BY <2>1, <2>2
<1>2. SettledInstallIsWhole'
  BY DEF SettledInstallIsWhole, Mid
<1>3. QED
  BY <1>1, <1>2 DEF DirInv, InstallSurvives

LEMMA DirFacts ==
  ASSUME IInv, NEW t \in Terminals
  PROVE  /\ CommandInv /\ app \in DirType /\ bin \in DirType /\ snap \in [Update -> SnapType]
         /\ \A u \in Update : snap[u] \in SnapType /\ snap[u].app \in DirType /\ snap[u].bin \in DirType
         /\ VenvIsWhole /\ NoneAhead /\ SwapInv(t) /\ AppInv(t)
         /\ SomeWholeInstall /\ SettledInstallIsWhole
         /\ (term[t].pc \in SwapPc => term[t].id \in Update /\ Locked(t))
<1>1. term[t].id \in 0 .. MaxUpdate /\ LockInv(t) /\ Typed
  BY Facts DEF IInv
<1>2. term[t].pc \in SwapPc => term[t].id \in Update /\ Locked(t)
  BY <1>1, UpdateBounds DEF LockInv, Swapping, Updating, UpdatePc, Update
<1>3. QED
  BY <1>1, <1>2 DEF IInv, DirInv, InstallSurvives, Typed, SnapType

-----------------------------------------------------------------------------
(* The daemon commands and the directories. *)

\* Only the start of an update runs with a snapshot taken.
LEMMA DaemonMoves ==
  ASSUME CommandInv, NEW t \in Terminals, Daemon(t)
  PROVE  \/ term[t].id = 0 /\ term'[t].id = 0
         \/ /\ term[t].pc \in StartPc /\ term'[t].id = term[t].id
            /\ \/ term'[t].pc \in StartPc /\ term'[t].then = term[t].then
               \/ term'[t].pc = "unlock"
               \/ term'[t].pc = "updated" /\ term[t].then = "updated"
<1> USE Facts
<1>1. /\ Typed /\ term \in [Terminals -> TermType] /\ term[t] \in TermType
      /\ term[t].fail \in Pc
  BY DEF Typed
<1>2. CASE term[t].id # 0
  <2>1. \/ term[t].pc \in StartPc /\ term[t].fail = "unlock"
        \/ term[t].pc \in SwapPc \cup {"unlock"}
    BY <1>2 DEF LockInv, Swapping
  <2>2. StartCheck(t) \/ StartSpawn(t) \/ StartRecord(t) \/ StartHealth(t)
    BY <2>1 DEF Daemon, DaemonCommand, SwapPc, StartPc, Begins, RunStart, RunStop, RunRestart,
                RunUninstall, ConfigSet, StopRead, StopWait, StopUnlink, StopSweep, StopReap,
                RestartStart, UninstallRecheck, UninstallConfirm
  <2>3. term[t].pc \in StartPc /\ term[t].fail = "unlock" /\ term[t].then \in {"updated", "unlock"}
    <3>1. term[t].pc \in StartPc
      BY <2>2 DEF StartPc, StartCheck, StartSpawn, StartRecord, StartHealth
    <3>2. term[t].fail = "unlock"
      BY <2>1, <3>1 DEF StartPc, SwapPc
    <3>3. QED
      BY <3>1, <3>2 DEF Shape, StartReturns
  <2>4. ASSUME Exits(t) PROVE term'[t].pc = "unlock" /\ term'[t].id = term[t].id
    BY <1>1, <2>3, <2>4, GoesUpdate DEF Exits
  <2>5. ASSUME Returns(t)
        PROVE  term'[t].pc = term[t].then /\ term'[t].id = term[t].id
    BY <1>1, <2>3, <2>5, ReturnsUpdate DEF Pc, UpdatePc, SwapPc
  <2>6. ASSUME NEW to \in StartPc, To(t, to)
        PROVE  term'[t].pc = to /\ term'[t].id = term[t].id /\ term'[t].then = term[t].then
    BY <1>1, <2>6, ToUpdate DEF Pc
  <2>7. ASSUME NEW p \in Pid, term' = [term EXCEPT ![t].pc = "record", ![t].pid = p]
        PROVE  term'[t].pc = "record" /\ term'[t].id = term[t].id /\ term'[t].then = term[t].then
    BY <1>1, <2>7 DEF TermType
  <2>8. CASE StartSpawn(t)
    BY <2>3, <2>4, <2>7, <2>8 DEF StartSpawn, StartPc
  <2>9. CASE StartCheck(t) \/ StartRecord(t) \/ StartHealth(t)
    BY <2>3, <2>4, <2>5, <2>6, <2>9 DEF StartCheck, StartRecord, StartHealth, StartPc
  <2>10. QED
    BY <2>2, <2>8, <2>9
<1>3. CASE term[t].id = 0
  <2>1. Exits(t) => term'[t].id = 0
    BY <1>1, <1>3, GoesUpdate DEF Exits
  <2>2. ASSUME NEW to \in Pc, Goes(t, to) \/ To(t, to) PROVE term'[t].id = 0
    BY <1>1, <1>3, <2>2, GoesUpdate, ToUpdate
  <2>3. ASSUME Returns(t) PROVE term'[t].id = 0
    BY <1>1, <1>3, <2>3, ForgottenIs, IdleIs DEF Returns, TermType
  <2>4. ASSUME NEW sub \in Pc, NEW then \in Pc, Invoke(t, sub, then, "idle") PROVE term'[t].id = 0
    BY <1>1, <1>3, <2>4, InvokeUpdate
  <2>5. CASE RunStart(t) \/ RestartStart(t)
    <3>1. CASE RunStart(t)
      <4>1. PICK port \in Ports, then \in {"idle", "exec"} :
              term' = [term EXCEPT ![t] = [Idle EXCEPT !.pc = "start", !.port = port, !.then = then]]
        BY <3>1 DEF RunStart
      <4>2. QED
        BY <1>1, <1>3, <4>1, IdleIs DEF TermType
    <3>2. CASE RestartStart(t)
      <4>1. PICK port \in Ports :
              term' = [term EXCEPT ![t] = [Idle EXCEPT !.pc = "start", !.port = port]]
        BY <3>2 DEF RestartStart
      <4>2. QED
        BY <1>1, <1>3, <4>1, IdleIs DEF TermType
    <3>3. QED
      BY <2>5, <3>1, <3>2
  <2>6. CASE RunStop(t) \/ RunRestart(t) \/ RunUninstall(t)
    BY <1>3, <2>4, <2>6 DEF RunStop, RunRestart, RunUninstall, Pc, StopPc
  <2>7. CASE ConfigSet(t)
    BY <1>3, <2>7 DEF ConfigSet
  <2>8. CASE StartCheck(t) \/ StartRecord(t) \/ StartHealth(t) \/ StopWait(t) \/ StopUnlink(t)
    BY <1>3, <2>1, <2>2, <2>3, <2>8
       DEF StartCheck, StartRecord, StartHealth, StopWait, StopUnlink, Pc, StartPc, StopPc
  <2>9. CASE StartSpawn(t)
    <3>1. ASSUME NEW p \in Pid, term' = [term EXCEPT ![t].pc = "record", ![t].pid = p]
          PROVE  term'[t].id = 0
      BY <1>1, <1>3, <3>1 DEF TermType
    <3>2. QED
      BY <1>3, <2>1, <2>2, <2>9, <3>1 DEF StartSpawn, Pc
  <2>10. CASE StopRead(t)
    BY <1>1, <1>3, <2>10 DEF StopRead, TermType
  <2>11. CASE StopSweep(t)
    BY <1>1, <1>3, <2>3, <2>11 DEF StopSweep, TermType
  <2>12. CASE StopReap(t)
    BY <1>3, <2>1, <2>3, <2>12 DEF StopReap
  <2>13. CASE UninstallRecheck(t) \/ UninstallConfirm(t)
    BY <1>3, <2>2, <2>13 DEF UninstallRecheck, UninstallConfirm, Pc
  <2>14. QED
    BY <2>5, <2>6, <2>7, <2>8, <2>9, <2>10, <2>11, <2>12, <2>13 DEF Daemon, DaemonCommand
<1>4. QED
  BY <1>2, <1>3

LEMMA DaemonOwn ==
  ASSUME CommandInv, NEW t \in Terminals, Daemon(t)
  PROVE  \A s \in Terminals \ {t} : term'[s] = term[s]
<1>1. term \in [Terminals -> TermType]
  BY Facts DEF Typed
<1>2. UNCHANGED term \/ \E new : term' = [term EXCEPT ![t] = new]
  BY DEF Daemon, DaemonCommand, RunStart, RunStop, RunRestart, RunUninstall, ConfigSet,
         StartCheck, StartSpawn, StartRecord, StartHealth, StopRead, StopWait, StopUnlink,
         StopSweep, StopReap, RestartStart, UninstallRecheck, UninstallConfirm,
         Goes, Exits, Returns, To, Invoke
<1>3. QED
  BY <1>1, <1>2


\* No daemon command moves a directory but an uninstall, which says so.
LEMMA DaemonDirs == ASSUME IInv, NEW t \in Terminals, Daemon(t) PROVE IInv'
<1>1. CommandInv /\ CommandInv' /\ fault \subseteq fault' /\ UNCHANGED <<snap, taken>>
  BY DaemonKeeps DEF IInv, Daemon
<1>2. OwnTerm(t)
  BY <1>1, DaemonOwn DEF OwnTerm, CommandInv, Typed
<1>3. CASE UNCHANGED <<app, bin>>
  <2>1. Install
    BY <1>1, <1>3 DEF Install
  <2>2. CASE term[t].id = 0 /\ term'[t].id = 0
    BY <1>1, <1>2, <2>1, <2>2, QuietOutside DEF IInv
  <2>3. CASE /\ term[t].pc \in StartPc /\ term'[t].id = term[t].id
             /\ \/ term'[t].pc \in StartPc /\ term'[t].then = term[t].then
                \/ term'[t].pc = "unlock"
                \/ term'[t].pc = "updated" /\ term[t].then = "updated"
    <3>1. SwapInv(t)'
      BY <1>1, <2>1, <2>3, DirFacts DEF SwapInv, Install, StartPc
    <3>2. AppInv(t)'
      BY <1>1, <2>1, <2>3, DirFacts DEF AppInv, Install, StartPc
    <3>3. QED
      BY <1>1, <1>2, <2>1, <2>3, <3>1, <3>2, QuietKeeps DEF IInv
  <2>4. QED
    BY <1>1, <2>2, <2>3, DaemonMoves
<1>4. CASE ~ UNCHANGED <<app, bin>>
  <2>1. "uninstall" \in fault'
    BY <1>4 DEF Daemon
  <2>2. UninstallConfirm(t) /\ app' = Missing
    BY <1>4 DEF Daemon, DaemonCommand, RunStart, RunStop, RunRestart, RunUninstall, ConfigSet,
           StartCheck, StartSpawn, StartRecord, StartHealth, StopRead, StopWait, StopUnlink,
           StopSweep, StopReap, RestartStart, UninstallRecheck, UninstallConfirm, Nothing
  <2>3. VenvIsWhole' /\ NoneAhead'
    BY <1>1, <2>2, Values, DirFacts DEF VenvIsWhole, NoneAhead
  <2>4. \A s \in Terminals : SwapInv(s)' /\ AppInv(s)'
    BY <2>1 DEF SwapInv, AppInv
  <2>5. InstallSurvives'
    BY <2>1 DEF InstallSurvives, SomeWholeInstall, SettledInstallIsWhole
  <2>6. QED
    BY <1>1, <2>3, <2>4, <2>5 DEF IInv, DirInv
<1>5. QED
  BY <1>3, <1>4

LEMMA ProcessDirs ==
  ASSUME IInv, NEW p \in Pid, ProcessStep(p), UNCHANGED updateVars PROVE IInv'
<1>1. UNCHANGED <<app, bin, term, snap, taken, fd, flock, fault>>
  BY DEF ProcessStep, Boot, ServerDies, Foreign, updateVars
<1>2. CommandInv'
  BY ProcessKeeps DEF IInv
<1>3. DirInv'
  BY <1>1 DEF IInv, DirInv, VenvIsWhole, NoneAhead, SwapInv, AppInv, SomeSnap, OneRelease, Whole,
              InstallSurvives, SomeWholeInstall, SettledInstallIsWhole, Mid
<1>4. QED
  BY <1>2, <1>3 DEF IInv

-----------------------------------------------------------------------------
(* The lock of an update. *)

LEMMA OpenKeeps == ASSUME IInv, NEW t \in Terminals, UpdateOpen(t) PROVE IInv'
<1>1. PICK i \in 1 .. MaxInode : lockfile' = i /\ fd' = [fd EXCEPT ![t] = i]
  BY DEF UpdateOpen
<1>2. /\ CommandInv /\ Typed /\ term[t].pc = "idle" /\ UNCHANGED <<proc, pidfile, configured>>
      /\ Install /\ UNCHANGED <<flock, fault>>
  BY Facts DEF IInv, UpdateOpen, Begins, Keep
<1>3. /\ OwnTerm(t) /\ term'[t].pc = "flock" /\ term'[t].id = term[t].id
      /\ term'[t].pid = 0 /\ term'[t].seen = {} /\ term'[t].before = {}
  BY <1>2, GoesUpdate DEF UpdateOpen, Pc
<1>4. term[t].id = 0 /\ fd[t] = 0
  BY <1>2, Facts DEF LockInv, Updating, Swapping, StartPc, StopPc, UpdatePc, SwapPc
<1>5. /\ fd' \in [Terminals -> 0 .. MaxInode] /\ fd'[t] = i
      /\ \A s \in Terminals \ {t} : fd'[s] = fd[s]
  BY <1>1, <1>2, Values DEF Typed
<1>6. \A j \in 1 .. MaxInode : flock[j] # t
  BY <1>2, <1>4, Values DEF CommandInv, FlockInv
<1>7. ProcMoves /\ taken' \in 0 .. MaxUpdate /\ taken <= taken'
  BY <1>2, SameProc, UpdateBounds DEF Typed, Install
<1>8. LockMoves(t)
  BY <1>2, <1>5, <1>6, <1>7 DEF LockMoves, Locked
<1>9. TermInv(t)'
  <2>1. Shape(t)' /\ StopInv(t)'
    BY <1>3, BlankStop DEF Shape, StartPc, StopPc
  <2>2. ~ Locked(t)' /\ fd'[t] # 0
    BY <1>2, <1>5, <1>6 DEF Locked
  <2>3. LockInv(t)'
    BY <1>3, <1>4, <2>2 DEF LockInv, Updating, Swapping, StartPc, StopPc, UpdatePc, SwapPc
  <2>4. QED
    BY <2>1, <2>3 DEF TermInv
<1>10. Typed'
  BY <1>1, <1>2, <1>3, <1>5, <1>7, Values DEF Typed, OwnTerm, Install
<1>11. CommandInv'
  BY <1>2, <1>3, <1>7, <1>8, <1>9, <1>10, CommandKeeps
<1>12. DirInv'
  BY <1>2, <1>3, <1>4, QuietOutside
<1>13. QED
  BY <1>11, <1>12 DEF IInv

\* Whoever holds another lock file is an update at work beside this one.
LEMMA FlockKeeps == ASSUME IInv, NEW t \in Terminals, UpdateFlock(t) PROVE IInv'
<1>1. /\ CommandInv /\ Typed /\ term[t].pc = "flock" /\ UNCHANGED <<proc, pidfile, configured>>
      /\ Install
  BY Facts DEF IInv, UpdateFlock, Keep
<1>2. /\ fd[t] \in 1 .. MaxInode /\ ~ Locked(t) /\ term[t].id = 0
  BY <1>1, Facts, Values DEF LockInv, Typed, Swapping, StartPc, SwapPc
<1>3. ProcMoves /\ taken' \in 0 .. MaxUpdate /\ taken <= taken'
  BY <1>1, SameProc, UpdateBounds DEF Typed, Install
<1>4. CASE /\ flock[fd[t]] = NoOne /\ flock' = [flock EXCEPT ![fd[t]] = t]
           /\ Goes(t, "space") /\ UNCHANGED <<lockfile, fd>>
           /\ fault' = fault \cup {x \in {"overlap"} : \E s \in Terminals : Locked(s)}
  <2>1. /\ OwnTerm(t) /\ term'[t].pc = "space" /\ term'[t].id = term[t].id
        /\ term'[t].pid = 0 /\ term'[t].seen = {} /\ term'[t].before = {}
    BY <1>1, <1>4, GoesUpdate DEF Pc, UpdatePc
  <2>2. /\ flock' \in [1 .. MaxInode -> Terminals \cup {NoOne}] /\ flock'[fd[t]] = t
        /\ \A i \in (1 .. MaxInode) \ {fd[t]} : flock'[i] = flock[i]
    BY <1>1, <1>2, <1>4 DEF Typed
  <2>3. fault \subseteq fault' /\ fault' \subseteq {"overlap", "uninstall", "broken"}
    BY <1>1, <1>4 DEF Typed
  <2>4. Locked(t)' /\ fd'[t] # 0
    BY <1>2, <1>4, <2>2, Values DEF Locked
  <2>5. LockMoves(t)
    <3>1. \A i \in 1 .. MaxInode : flock[i] = t => fd[t] = i
      BY <1>1, Values DEF CommandInv, FlockInv
    <3>2. QED
      BY <1>2, <1>3, <1>4, <2>2, <2>3, <3>1 DEF LockMoves
  <2>6. TermInv(t)'
    <3>1. Shape(t)' /\ StopInv(t)'
      BY <2>1, BlankStop DEF Shape, StartPc, StopPc
    <3>2. LockInv(t)'
      BY <1>2, <2>1, <2>4 DEF LockInv, Updating, Swapping, StartPc, StopPc, UpdatePc, SwapPc
    <3>3. QED
      BY <3>1, <3>2 DEF TermInv
  <2>7. Typed'
    BY <1>1, <1>3, <1>4, <2>1, <2>2, <2>3 DEF Typed, OwnTerm, Install
  <2>8. CommandInv'
    BY <1>1, <1>3, <2>1, <2>5, <2>6, <2>7, CommandKeeps
  <2>9. DirInv'
    BY <1>1, <1>2, <2>1, <2>3, QuietOutside
  <2>10. QED
    BY <2>8, <2>9 DEF IInv
<1>5. CASE /\ flock[fd[t]] # NoOne /\ lockfile' = 0
           /\ fd' = [fd EXCEPT ![t] = 0] /\ Goes(t, "idle") /\ UNCHANGED <<flock, fault>>
  <2>1. /\ OwnTerm(t) /\ term'[t].pc = "idle" /\ term'[t].id = 0
        /\ term'[t].pid = 0 /\ term'[t].seen = {} /\ term'[t].before = {}
    BY <1>1, <1>5, GoesUpdate DEF Pc
  <2>2. /\ fd' \in [Terminals -> 0 .. MaxInode] /\ fd'[t] = 0 /\ ~ Locked(t)'
        /\ \A s \in Terminals \ {t} : fd'[s] = fd[s]
    BY <1>1, <1>5, Values DEF Typed, Locked
  <2>3. \A i \in 1 .. MaxInode : flock[i] # t
    BY <1>1, <1>2, Values DEF CommandInv, FlockInv, Locked
  <2>4. LockMoves(t)
    BY <1>3, <1>5, <2>2, <2>3 DEF LockMoves
  <2>5. TermInv(t)'
    <3>1. Shape(t)' /\ StopInv(t)'
      BY <2>1, BlankStop DEF Shape, StartPc, StopPc
    <3>2. LockInv(t)'
      BY <2>1, <2>2 DEF LockInv, Updating, Swapping, StartPc, StopPc, UpdatePc, SwapPc
    <3>3. QED
      BY <3>1, <3>2 DEF TermInv
  <2>6. Typed'
    BY <1>1, <1>3, <1>5, <2>1, <2>2, Values DEF Typed, OwnTerm, Install
  <2>7. CommandInv'
    BY <1>1, <1>3, <2>1, <2>4, <2>5, <2>6, CommandKeeps
  <2>8. DirInv'
    BY <1>1, <1>2, <1>5, <2>1, QuietOutside
  <2>9. QED
    BY <2>7, <2>8 DEF IInv
<1>6. QED
  BY <1>4, <1>5 DEF UpdateFlock

\* What an update leaves when it lets go of the lock is one release, or broken.
LEMMA UnlockKeeps == ASSUME IInv, NEW t \in Terminals, UpdateUnlock(t) PROVE IInv'
<1>1. /\ CommandInv /\ Typed /\ term[t].pc = "unlock" /\ UNCHANGED <<proc, pidfile, configured>>
      /\ Install /\ UNCHANGED fault /\ lockfile' = 0
  BY Facts DEF IInv, UpdateUnlock, Keep
<1>2. /\ OwnTerm(t) /\ term'[t].pc = "idle" /\ term'[t].id = 0
      /\ term'[t].pid = 0 /\ term'[t].seen = {} /\ term'[t].before = {}
  BY <1>1, GoesUpdate DEF Pc, UpdateUnlock
<1>3. Locked(t) /\ fd[t] \in 1 .. MaxInode /\ flock[fd[t]] = t
  BY <1>1, Facts, Values DEF LockInv, Updating, UpdatePc, Locked, Typed
<1>4. /\ fd' \in [Terminals -> 0 .. MaxInode] /\ fd'[t] = 0 /\ ~ Locked(t)'
      /\ \A s \in Terminals \ {t} : fd'[s] = fd[s]
  BY <1>1, Values DEF Typed, Locked, UpdateUnlock
<1>5. /\ flock' \in [1 .. MaxInode -> Terminals \cup {NoOne}] /\ flock'[fd[t]] = NoOne
      /\ \A i \in (1 .. MaxInode) \ {fd[t]} : flock'[i] = flock[i] /\ flock[i] # t
  <2>1. \A i \in (1 .. MaxInode) \ {fd[t]} : flock[i] # t
    BY <1>1, Values DEF CommandInv, FlockInv
  <2>2. QED
    BY <1>1, <1>3, <2>1 DEF Typed, UpdateUnlock
<1>6. ProcMoves /\ taken' \in 0 .. MaxUpdate /\ taken <= taken'
  BY <1>1, SameProc, UpdateBounds DEF Typed, Install
<1>7. LockMoves(t)
  BY <1>1, <1>3, <1>4, <1>5, <1>6, Values DEF LockMoves
<1>8. TermInv(t)'
  <2>1. Shape(t)' /\ StopInv(t)'
    BY <1>2, BlankStop DEF Shape, StartPc, StopPc
  <2>2. LockInv(t)'
    BY <1>2, <1>4 DEF LockInv, Updating, Swapping, StartPc, StopPc, UpdatePc, SwapPc
  <2>3. QED
    BY <2>1, <2>2 DEF TermInv
<1>9. Typed'
  BY <1>1, <1>2, <1>4, <1>5, <1>6, Values DEF Typed, OwnTerm, Install
<1>10. CommandInv'
  BY <1>1, <1>2, <1>6, <1>7, <1>8, <1>9, CommandKeeps
<1>11. DirInv'
  <2>1. term[t].id # 0 /\ fault' = {} => OneRelease(app, bin)
    BY <1>1, DirFacts DEF SwapInv
  <2>2. QED
    BY <1>1, <1>2, <2>1, NoSwap, QuietKeeps
<1>12. QED
  BY <1>10, <1>11 DEF IInv

\* A command killed past a snapshot says so; the kernel has its lock.
LEMMA KilledKeeps == ASSUME IInv, NEW t \in Terminals, CommandKilled(t) PROVE IInv'
<1>1. /\ CommandInv /\ Typed /\ UNCHANGED <<proc, pidfile, configured, lockfile>> /\ Install
      /\ fault' = fault \cup {x \in {"broken"} : term[t].id # 0}
  BY Facts DEF IInv, CommandKilled, Keep
<1>2. OwnTerm(t) /\ term'[t] = Idle
  BY <1>1, IdleIs DEF OwnTerm, Typed, CommandKilled
<1>3. /\ fd' \in [Terminals -> 0 .. MaxInode] /\ fd'[t] = 0 /\ ~ Locked(t)'
      /\ \A s \in Terminals \ {t} : fd'[s] = fd[s]
  BY <1>1, Values DEF Typed, Locked, CommandKilled
<1>4. /\ flock' \in [1 .. MaxInode -> Terminals \cup {NoOne}]
      /\ \A i \in 1 .. MaxInode : flock'[i] = IF flock[i] = t THEN NoOne ELSE flock[i]
  BY <1>1 DEF Typed, CommandKilled
<1>5. /\ ProcMoves /\ taken' \in 0 .. MaxUpdate /\ taken <= taken'
      /\ fault \subseteq fault' /\ fault' \subseteq {"overlap", "uninstall", "broken"}
  <2>1. ProcMoves /\ taken' \in 0 .. MaxUpdate /\ taken <= taken'
    BY <1>1, SameProc, UpdateBounds DEF Typed, Install
  <2>2. fault \subseteq fault' /\ fault' \subseteq {"overlap", "uninstall", "broken"}
    BY <1>1 DEF Typed
  <2>3. QED
    BY <2>1, <2>2
<1>6. LockMoves(t)
  BY <1>3, <1>4, <1>5, Values DEF LockMoves
<1>7. TermInv(t)'
  <2>1. Shape(t)' /\ StopInv(t)'
    BY <1>2, IdleIs, BlankStop DEF Shape, StartPc, StopPc
  <2>2. LockInv(t)'
    BY <1>2, <1>3, IdleIs DEF LockInv, Updating, Swapping, StartPc, StopPc, UpdatePc, SwapPc
  <2>3. QED
    BY <2>1, <2>2 DEF TermInv
<1>8. Typed'
  BY <1>1, <1>2, <1>3, <1>4, <1>5, Values DEF Typed, OwnTerm, Install
<1>9. CommandInv'
  BY <1>1, <1>2, <1>5, <1>6, <1>7, <1>8, CommandKeeps
<1>10. DirInv'
  <2>1. term'[t].id = 0 /\ (term[t].id # 0 => fault' # {})
    BY <1>1, <1>2, IdleIs
  <2>2. QED
    BY <1>1, <1>2, <1>5, <2>1, NoSwap, QuietKeeps
<1>11. QED
  BY <1>9, <1>10 DEF IInv

LEMMA PhaseAKeeps ==
  ASSUME IInv, NEW t \in Terminals, UpdateSpace(t) \/ UpdateDownload(t) \/ UpdateVerify(t)
  PROVE  IInv'
<1>1. Install /\ fault' = fault /\ CommandInv
  BY DEF IInv, UpdateSpace, UpdateDownload, UpdateVerify
<1>2. CommandInv' /\ OwnTerm(t) /\ term[t].id = 0 /\ term'[t].id = 0
  BY <1>1, PhaseACommand
<1>3. DirInv'
  BY <1>1, <1>2, QuietOutside
<1>4. QED
  BY <1>2, <1>3 DEF IInv


-----------------------------------------------------------------------------
(* The swap. *)

\* What a step of the swap starts from.
LEMMA SwapFacts ==
  ASSUME IInv, NEW t \in Terminals, term[t].pc \in SwapPc \cup {"snap_app"}, Keep, NoLock
  PROVE  /\ CommandInv /\ Typed /\ Locked(t) /\ UNCHANGED proc
         /\ term \in [Terminals -> TermType] /\ term[t] \in TermType
         /\ (term[t].pc = "snap_app" => term[t].id = 0)
         /\ (term[t].pc # "snap_app" => term[t].id \in Update /\ term[t].id # 0)
         /\ (UNCHANGED taken => LocksStay)
<1>1. /\ CommandInv /\ Typed /\ LockInv(t) /\ term \in [Terminals -> TermType]
      /\ term[t] \in TermType
  BY Facts DEF IInv, Typed
<1>2. Locked(t) /\ (term[t].pc = "snap_app" => term[t].id = 0)
  BY <1>1 DEF LockInv, Updating, Swapping, UpdatePc, SwapPc, StartPc
<1>3. term[t].pc # "snap_app" => term[t].id \in Update
  BY DirFacts
<1>4. QED
  BY <1>1, <1>2, <1>3, Values DEF Keep, NoLock, LocksStay

\* The only app that moves away is put in a snapshot that was free.
LEMMA SnapshotAppKeeps == ASSUME IInv, NEW t \in Terminals, SnapshotApp(t) PROVE IInv'
<1>1. /\ term[t].pc = "snap_app" /\ Keep /\ NoLock /\ UNCHANGED <<bin, fault>>
  BY DEF SnapshotApp
<1>2. /\ CommandInv /\ Typed /\ Locked(t) /\ UNCHANGED proc /\ term[t].id = 0
      /\ term \in [Terminals -> TermType] /\ term[t] \in TermType
  BY <1>1, SwapFacts
<1>3. CASE Goes(t, "unlock") /\ UNCHANGED <<app, snap, taken>>
  <2>1. Install /\ LocksStay /\ fault' = fault
    BY <1>1, <1>3 DEF Install, NoLock, LocksStay
  <2>2. Steps(t) /\ term'[t].id = 0
    BY <1>1, <1>2, <1>3, <2>1, GoesWithin DEF UpdatePc, SwapPc
  <2>3. CommandInv'
    BY <1>1, <1>2, <1>3, <2>2, WithinStays DEF Typed
  <2>4. DirInv'
    BY <1>2, <2>1, <2>2, QuietOutside DEF Steps
  <2>5. QED
    BY <2>3, <2>4 DEF IInv
<1>4. CASE /\ taken < MaxUpdate /\ taken' = taken + 1
           /\ term' = [term EXCEPT ![t].pc = "snap_bin", ![t].id = taken']
           /\ snap' = [snap EXCEPT ![taken'].app = app] /\ app' = Missing
  <2> DEFINE u == taken'
             new == [term[t] EXCEPT !.pc = "snap_bin", !.id = u]
  <2>1. taken \in Nat /\ u \in Nat /\ u \in Update /\ u = taken + 1 /\ u <= MaxUpdate
    BY <1>2, <1>4, UpdateBounds DEF Typed, Update
  <2>2. u # 0 /\ u \in 0 .. MaxUpdate /\ taken <= u
    BY <2>1, Values
  <2>3. /\ app \in DirType /\ bin \in DirType /\ snap \in [Update -> SnapType]
        /\ VenvIsWhole /\ NoneAhead /\ SomeWholeInstall /\ SettledInstallIsWhole
    BY DirFacts
  <2>4. term' = [term EXCEPT ![t] = new]
    BY <1>4
  <2>5. /\ snap'[u] = [snap[u] EXCEPT !.app = app] /\ snap' \in [Update -> SnapType]
        /\ \A v \in Update \ {u} : snap'[v] = snap[v]
    BY <1>4, <2>1, <2>3 DEF SnapType
  <2>6. snap'[u].app = app
    BY <2>1, <2>3, <2>5 DEF SnapType
  <2> HIDE DEF u
  <2>7. /\ new \in TermType /\ new.pc = "snap_bin" /\ new.id = u /\ new.pid = term[t].pid
        /\ new.seen = term[t].seen /\ new.before = term[t].before
    <3>1. "snap_bin" \in Pc
      BY DEF Pc, UpdatePc, SwapPc
    <3>2. QED
      BY <1>2, <2>2, <3>1 DEF TermType
  <2> HIDE DEF new
  <2>8. OwnTerm(t) /\ term'[t] = new
    BY <1>2, <2>4, <2>7 DEF OwnTerm
  <2>9. TermInv(t)'
    <3>1. Shape(t)' /\ StopInv(t)'
      BY <1>1, <1>2, <2>7, <2>8, Facts DEF Shape, StopInv, StartPc, StopPc
    <3>2. Locked(t)'
      BY <1>1, <1>2 DEF Locked, NoLock
    <3>3. LockInv(t)'
      BY <2>1, <2>2, <2>7, <2>8, <3>2
         DEF LockInv, Updating, Swapping, StartPc, StopPc, UpdatePc, SwapPc, u
    <3>4. QED
      BY <3>1, <3>3 DEF TermInv
  <2>10. CommandInv'
    <3>1. Steps(t)
      BY <1>2, <2>8, <2>9, SameProc DEF Steps
    <3>2. /\ app' \in DirType /\ bin' \in DirType /\ taken' \in 0 .. MaxUpdate /\ taken <= taken'
          /\ fault \subseteq fault' /\ fault' \subseteq {"overlap", "uninstall", "broken"}
      BY <1>1, <1>2, <1>4, <2>2, <2>3, Values DEF Typed, u
    <3>3. QED
      BY <1>1, <1>2, <2>5, <3>1, <3>2, WithinKeeps
  <2>11. VenvIsWhole'
    BY <1>4, <2>3, <2>5, <2>6, Values DEF VenvIsWhole
  <2>12. NoneAhead'
    <3> SUFFICES ASSUME NEW v \in Update, v > taken' PROVE ~ Whole(snap'[v].app)
      BY DEF NoneAhead, Whole
    <3>1. v \in Nat /\ v > taken /\ v # u
      BY <2>1, UpdateBounds DEF u, Update
    <3>2. QED
      BY <2>3, <2>5, <3>1 DEF NoneAhead
  <2>13. SwapInv(t)'
    <3> SUFFICES ASSUME fault' = {} PROVE OneRelease(snap'[u].app, bin')
      BY <2>7, <2>8 DEF SwapInv, StartPc, OneRelease, Whole
    <3>1. Mid = {}
      BY <1>1, <1>2, LoneSwap DEF Mid
    <3>2. QED
      BY <1>1, <2>3, <2>6, <3>1 DEF SettledInstallIsWhole, OneRelease
  <2>14. SomeWholeInstall' /\ AppInv(t)'
    <3>1. fault' \cap {"overlap", "uninstall"} = {} => \E v \in Update : Whole(snap'[v].app)
      <4> SUFFICES ASSUME fault \cap {"overlap", "uninstall"} = {}
                   PROVE  \E v \in Update : Whole(snap'[v].app)
        BY <1>1
      <4>1. CASE Whole(app)
        BY <2>1, <2>6, <4>1
      <4>2. CASE \E v \in Update : Whole(snap[v].app)
        <5>1. PICK v \in Update : Whole(snap[v].app)
          BY <4>2
        <5>2. v # u
          BY <2>1, <2>3, <5>1 DEF NoneAhead
        <5>3. QED
          BY <2>5, <5>1, <5>2
      <4>3. QED
        BY <2>3, <4>1, <4>2 DEF SomeWholeInstall
    <3>2. QED
      BY <2>7, <2>8, <3>1 DEF SomeWholeInstall, AppInv, SomeSnap, StartPc, Whole
  <2>15. DirInv'
    BY <1>1, <1>2, <2>2, <2>7, <2>8, <2>11, <2>12, <2>13, <2>14, MovesKeep
  <2>16. QED
    BY <2>10, <2>15 DEF IInv
<1>5. QED
  BY <1>3, <1>4 DEF SnapshotApp

LEMMA SnapshotBinKeeps == ASSUME IInv, NEW t \in Terminals, SnapshotBin(t) PROVE IInv'
<1> DEFINE u == term[t].id
<1>1. term[t].pc = "snap_bin" /\ Keep /\ NoLock /\ UNCHANGED <<app, taken>>
  BY DEF SnapshotBin
<1>2. /\ CommandInv /\ Typed /\ Locked(t) /\ UNCHANGED proc /\ LocksStay
      /\ u \in Update /\ u # 0
  BY <1>1, SwapFacts DEF SwapPc
<1>3. /\ app \in DirType /\ bin \in DirType /\ snap \in [Update -> SnapType]
      /\ VenvIsWhole /\ NoneAhead /\ SwapInv(t) /\ AppInv(t) /\ SomeWholeInstall
  BY DirFacts
<1>4. CASE Goes(t, "extract") /\ snap' = [snap EXCEPT ![u].bin = bin] /\ bin' = Missing
           /\ UNCHANGED fault
  <2>1. Steps(t) /\ term'[t].pc = "extract" /\ term'[t].id = u
    BY <1>1, <1>2, <1>4, GoesWithin DEF UpdatePc, SwapPc
  <2>2. /\ snap' \in [Update -> SnapType] /\ snap'[u].bin = bin /\ snap'[u].app = snap[u].app
        /\ \A v \in Update : snap'[v].app = snap[v].app
    BY <1>2, <1>3, <1>4 DEF SnapType
  <2>3. CommandInv'
    BY <1>1, <1>2, <1>3, <1>4, <2>1, <2>2, Values, WithinStays
  <2>4. VenvIsWhole' /\ NoneAhead' /\ SomeWholeInstall'
    BY <1>1, <1>3, <1>4, <2>2 DEF VenvIsWhole, NoneAhead, SomeWholeInstall, Whole
  <2>5. SwapInv(t)'
    BY <1>1, <1>2, <1>3, <1>4, <2>1, <2>2 DEF SwapInv, OneRelease, Whole, StartPc
  <2>6. AppInv(t)'
    BY <1>1, <1>2, <1>3, <1>4, <2>1, <2>2 DEF AppInv, SomeSnap, Whole, StartPc
  <2>7. DirInv'
    BY <1>2, <1>4, <2>1, <2>4, <2>5, <2>6, MovesKeep DEF Steps
  <2>8. QED
    BY <2>3, <2>7 DEF IInv
<1>5. CASE Goes(t, "unlock") /\ UNCHANGED <<snap, bin>> /\ fault' = fault \cup {"broken"}
  <2>1. Steps(t) /\ term'[t].pc = "unlock" /\ term'[t].id = u
    BY <1>1, <1>2, <1>5, GoesWithin DEF UpdatePc, SwapPc
  <2>2. CommandInv'
    BY <1>1, <1>2, <1>3, <1>5, <2>1, WithinStays
  <2>3. Install /\ SwapInv(t)' /\ AppInv(t)'
    BY <1>1, <1>5, <2>1 DEF Install, SwapInv, AppInv, StartPc
  <2>4. DirInv'
    BY <1>2, <1>5, <2>1, <2>3, QuietKeeps DEF Steps
  <2>5. QED
    BY <2>2, <2>4 DEF IInv
<1>6. QED
  BY <1>4, <1>5 DEF SnapshotBin

\* What is unpacked has its venv only when it is whole, and the old one stays where it is.
LEMMA ExtractKeeps == ASSUME IInv, NEW t \in Terminals, UpdateExtract(t) PROVE IInv'
<1> DEFINE u == term[t].id
<1>1. /\ term[t].pc = "extract" /\ Keep /\ NoLock /\ UNCHANGED <<bin, snap, taken, fault>>
  BY DEF UpdateExtract
<1>2. /\ CommandInv /\ Typed /\ Locked(t) /\ UNCHANGED proc /\ LocksStay
      /\ term \in [Terminals -> TermType] /\ term[t] \in TermType /\ u \in Update /\ u # 0
  BY <1>1, SwapFacts DEF SwapPc
<1>3. /\ bin \in DirType /\ snap \in [Update -> SnapType]
      /\ VenvIsWhole /\ NoneAhead /\ SwapInv(t) /\ AppInv(t) /\ SomeWholeInstall
  BY DirFacts
<1>4. PICK ok \in BOOLEAN :
        /\ app' = [ver |-> 1, venv |-> ok /\ term[t].release = "venv", whole |-> ok]
        /\ term' = [term EXCEPT ![t].pc = IF ok THEN "installers" ELSE "rollback",
                                ![t].release = "none"]
  BY DEF UpdateExtract
<1> DEFINE to == IF ok THEN "installers" ELSE "rollback"
           new == [term[t] EXCEPT !.pc = to, !.release = "none"]
<1>5. to \in {"installers", "rollback"} /\ to \in Pc
  BY DEF Pc, UpdatePc, SwapPc
<1>6. term' = [term EXCEPT ![t] = new]
  BY <1>4
<1> HIDE DEF to
<1>7. /\ new \in TermType /\ new.pc = to /\ new.id = u
      /\ new.seen = term[t].seen /\ new.before = term[t].before
  BY <1>2, <1>5 DEF TermType
<1> HIDE DEF new
<1>8. OwnTerm(t) /\ term'[t] = new
  BY <1>2, <1>6, <1>7 DEF OwnTerm
<1>9. Steps(t)
  <2>1. Shape(t)' /\ StopInv(t)'
    BY <1>2, <1>5, <1>7, <1>8, Facts DEF Shape, StopInv, StartPc, StopPc
  <2>2. LockInv(t)'
    BY <1>1, <1>2, <1>5, <1>7, <1>8, Facts
       DEF LockInv, LocksStay, Locked, Updating, Swapping, StartPc, StopPc, UpdatePc, SwapPc
  <2>3. QED
    BY <1>2, <1>8, <2>1, <2>2, SameProc DEF Steps, TermInv
<1>10. app' \in DirType /\ (app'.venv => app'.whole)
  BY <1>4 DEF DirType
<1>11. CommandInv'
  BY <1>1, <1>2, <1>3, <1>9, <1>10, WithinStays
<1>12. SomeSnap \/ fault' \cap {"overlap", "uninstall"} # {}
  BY <1>1, <1>2, <1>3 DEF AppInv
<1>13. VenvIsWhole' /\ NoneAhead' /\ SomeWholeInstall'
  BY <1>1, <1>3, <1>10, <1>12 DEF VenvIsWhole, NoneAhead, SomeWholeInstall, SomeSnap, Whole
<1>14. SwapInv(t)' /\ AppInv(t)'
  <2>1. SwapInv(t)'
    BY <1>1, <1>2, <1>3, <1>5, <1>7, <1>8 DEF SwapInv, OneRelease, Whole, StartPc
  <2>2. AppInv(t)'
    BY <1>1, <1>5, <1>7, <1>8, <1>12 DEF AppInv, SomeSnap, Whole, StartPc
  <2>3. QED
    BY <2>1, <2>2
<1>15. DirInv'
  BY <1>1, <1>2, <1>7, <1>8, <1>13, <1>14, MovesKeep
<1>16. QED
  BY <1>11, <1>15 DEF IInv


LEMMA InstallersKeeps == ASSUME IInv, NEW t \in Terminals, UpdateInstallers(t) PROVE IInv'
<1> DEFINE u == term[t].id
<1>1. term[t].pc = "installers" /\ Keep /\ NoLock /\ UNCHANGED <<app, snap, taken, fault>>
  BY DEF UpdateInstallers
<1>2. /\ CommandInv /\ Typed /\ Locked(t) /\ UNCHANGED proc /\ LocksStay
      /\ u \in Update /\ u # 0
  BY <1>1, SwapFacts DEF SwapPc
<1>3. /\ app \in DirType /\ snap \in [Update -> SnapType]
      /\ VenvIsWhole /\ NoneAhead /\ SwapInv(t) /\ AppInv(t) /\ SomeWholeInstall
  BY DirFacts
<1>4. PICK ok \in BOOLEAN :
        bin' = [ver |-> app.ver, venv |-> TRUE, whole |-> ok]
        /\ Goes(t, IF ok THEN "doctor" ELSE "rollback")
  BY DEF UpdateInstallers
<1>5. bin' \in DirType
  BY <1>3, <1>4 DEF DirType
<1>6. PICK to \in {"doctor", "rollback"} : Goes(t, to)
  BY <1>4
<1>7. Steps(t) /\ term'[t].pc = to /\ term'[t].id = u
  BY <1>1, <1>2, <1>6, GoesWithin DEF UpdatePc, SwapPc
<1>8. CommandInv'
  BY <1>1, <1>2, <1>3, <1>5, <1>7, WithinStays
<1>9. VenvIsWhole' /\ NoneAhead' /\ SomeWholeInstall'
  BY <1>1, <1>3 DEF VenvIsWhole, NoneAhead, SomeWholeInstall, Whole
<1>10. SwapInv(t)'
  BY <1>1, <1>2, <1>3, <1>7 DEF SwapInv, OneRelease, Whole, StartPc
<1>11. AppInv(t)'
  BY <1>1, <1>2, <1>3, <1>7 DEF AppInv, SomeSnap, Whole, StartPc
<1>12. DirInv'
  BY <1>1, <1>2, <1>7, <1>9, <1>10, <1>11, MovesKeep DEF Steps
<1>13. QED
  BY <1>8, <1>12 DEF IInv

\* The doctor passes a whole app only, with the scanners it pins.
LEMMA DoctorKeeps == ASSUME IInv, NEW t \in Terminals, UpdateDoctor(t) PROVE IInv'
<1> DEFINE u == term[t].id
<1>1. /\ term[t].pc = "doctor" /\ Keep /\ Install /\ NoLock /\ UNCHANGED <<taken, fault>>
      /\ UNCHANGED <<app, bin, snap>>
  BY DEF UpdateDoctor, Install
<1>2. /\ CommandInv /\ Typed /\ Locked(t) /\ UNCHANGED proc /\ LocksStay
      /\ u \in Update /\ u # 0
  BY <1>1, SwapFacts DEF SwapPc
<1>3. /\ app \in DirType /\ bin \in DirType /\ snap \in [Update -> SnapType]
      /\ VenvIsWhole /\ SwapInv(t) /\ AppInv(t)
  BY DirFacts
<1>4. CASE DoctorPasses /\ Invoke(t, "start", "updated", "unlock")
  <2>1. Steps(t) /\ term'[t].pc = "start" /\ term'[t].then = "updated" /\ term'[t].id = u
    BY <1>1, <1>2, <1>4, InvokeWithin DEF SwapPc
  <2>2. OneRelease(app, bin)
    BY <1>3, <1>4 DEF DoctorPasses, VenvIsWhole, OneRelease, Whole
  <2>3. CommandInv'
    BY <1>1, <1>2, <1>3, <2>1, WithinStays
  <2>4. SwapInv(t)' /\ AppInv(t)'
    BY <1>1, <2>1, <2>2 DEF SwapInv, AppInv, OneRelease, Whole, StartPc
  <2>5. DirInv'
    BY <1>1, <1>2, <2>1, <2>4, QuietKeeps DEF Steps
  <2>6. QED
    BY <2>3, <2>5 DEF IInv
<1>5. CASE Goes(t, "rollback")
  <2>1. Steps(t) /\ term'[t].pc = "rollback" /\ term'[t].id = u
    BY <1>1, <1>2, <1>5, GoesWithin DEF UpdatePc, SwapPc
  <2>2. CommandInv'
    BY <1>1, <1>2, <1>3, <2>1, WithinStays
  <2>3. SwapInv(t)'
    BY <1>1, <1>2, <1>3, <2>1 DEF SwapInv, OneRelease, Whole, StartPc
  <2>4. AppInv(t)'
    BY <1>1, <1>2, <1>3, <2>1 DEF AppInv, SomeSnap, Whole, StartPc
  <2>5. DirInv'
    BY <1>1, <1>2, <2>1, <2>3, <2>4, QuietKeeps DEF Steps
  <2>6. QED
    BY <2>2, <2>5 DEF IInv
<1>6. QED
  BY <1>4, <1>5 DEF UpdateDoctor

\* Snapshots are thrown away only beside a whole app.
LEMMA PruneKeeps == ASSUME IInv, NEW t \in Terminals, UpdatePrune(t) PROVE IInv'
<1> DEFINE u == term[t].id
           none == [app |-> Missing, bin |-> Missing]
<1>1. /\ term[t].pc = "updated" /\ Keep /\ NoLock /\ UNCHANGED <<app, bin, taken, fault>>
      /\ snap' = [v \in Update |-> IF v + Retention <= taken THEN none ELSE snap[v]]
  BY DEF UpdatePrune
<1>2. /\ CommandInv /\ Typed /\ Locked(t) /\ UNCHANGED proc /\ LocksStay
      /\ u \in Update /\ u # 0
  BY <1>1, SwapFacts DEF SwapPc
<1>3. /\ app \in DirType /\ bin \in DirType /\ snap \in [Update -> SnapType]
      /\ VenvIsWhole /\ NoneAhead /\ SwapInv(t) /\ AppInv(t)
  BY DirFacts
<1>4. none \in SnapType /\ none.app = Missing /\ none.bin = Missing
  BY Values DEF SnapType
<1> HIDE DEF none
<1>5. Steps(t) /\ term'[t].pc = "unlock" /\ term'[t].id = u
  BY <1>1, <1>2, GoesWithin DEF UpdatePc, SwapPc, UpdatePrune
<1>6. snap' \in [Update -> SnapType] /\ \A v \in Update : snap'[v] \in {none, snap[v]}
  BY <1>1, <1>3, <1>4
<1>7. CommandInv'
  BY <1>1, <1>2, <1>3, <1>5, <1>6, WithinStays
<1>8. VenvIsWhole' /\ NoneAhead'
  BY <1>1, <1>3, <1>4, <1>6, Values DEF VenvIsWhole, NoneAhead, Whole
<1>9. fault \cap {"overlap", "uninstall"} = {} => Whole(app)
  BY <1>1, <1>2, <1>3 DEF AppInv
<1>10. SwapInv(t)' /\ AppInv(t)' /\ SomeWholeInstall'
  <2>1. SwapInv(t)'
    BY <1>1, <1>2, <1>3, <1>5 DEF SwapInv, OneRelease, Whole, StartPc
  <2>2. AppInv(t)'
    BY <1>5 DEF AppInv, StartPc
  <2>3. SomeWholeInstall'
    BY <1>1, <1>9 DEF SomeWholeInstall, Whole
  <2>4. QED
    BY <2>1, <2>2, <2>3
<1>11. DirInv'
  BY <1>1, <1>2, <1>5, <1>8, <1>10, MovesKeep DEF Steps
<1>12. QED
  BY <1>7, <1>11 DEF IInv

-----------------------------------------------------------------------------
(* The rollback. *)

LEMMA RollbackRemoveKeeps == ASSUME IInv, NEW t \in Terminals, RollbackRemove(t) PROVE IInv'
<1> DEFINE u == term[t].id
<1>1. term[t].pc = "rollback" /\ Keep /\ NoLock /\ UNCHANGED <<snap, taken>>
  BY DEF RollbackRemove
<1>2. /\ CommandInv /\ Typed /\ Locked(t) /\ UNCHANGED proc /\ LocksStay
      /\ u \in Update /\ u # 0
  BY <1>1, SwapFacts DEF SwapPc
<1>3. /\ app \in DirType /\ bin \in DirType /\ snap \in [Update -> SnapType]
      /\ VenvIsWhole /\ NoneAhead /\ SwapInv(t) /\ AppInv(t)
  BY DirFacts
<1>4. CASE Goes(t, "restore_app") /\ app' = Missing /\ bin' = Missing /\ UNCHANGED fault
  <2>1. Steps(t) /\ term'[t].pc = "restore_app" /\ term'[t].id = u
    BY <1>1, <1>2, <1>4, GoesWithin DEF UpdatePc, SwapPc
  <2>2. CommandInv'
    BY <1>1, <1>2, <1>3, <1>4, <2>1, Values, WithinStays
  <2>3. VenvIsWhole' /\ NoneAhead'
    BY <1>1, <1>3, <1>4, Values DEF VenvIsWhole, NoneAhead, Whole
  <2>4. SwapInv(t)'
    BY <1>1, <1>2, <1>3, <1>4, <2>1 DEF SwapInv, OneRelease, Whole, StartPc
  <2>5. AppInv(t)' /\ SomeWholeInstall'
    BY <1>1, <1>2, <1>3, <1>4, <2>1 DEF AppInv, SomeSnap, SomeWholeInstall, Whole, StartPc
  <2>6. DirInv'
    BY <1>2, <1>4, <2>1, <2>3, <2>4, <2>5, MovesKeep DEF Steps
  <2>7. QED
    BY <2>2, <2>6 DEF IInv
<1>5. CASE Goes(t, "unlock") /\ UNCHANGED <<app, bin>> /\ fault' = fault \cup {"broken"}
  <2>1. Steps(t) /\ term'[t].pc = "unlock" /\ term'[t].id = u
    BY <1>1, <1>2, <1>5, GoesWithin DEF UpdatePc, SwapPc
  <2>2. CommandInv'
    BY <1>1, <1>2, <1>3, <1>5, <2>1, WithinStays
  <2>3. Install /\ SwapInv(t)' /\ AppInv(t)'
    BY <1>1, <1>5, <2>1 DEF Install, SwapInv, AppInv, StartPc
  <2>4. DirInv'
    BY <1>2, <1>5, <2>1, <2>3, QuietKeeps DEF Steps
  <2>5. QED
    BY <2>2, <2>4 DEF IInv
<1>6. QED
  BY <1>4, <1>5 DEF RollbackRemove

\* The app that comes back is no longer in its snapshot; every other snapshot stays.
LEMMA RollbackAppKeeps == ASSUME IInv, NEW t \in Terminals, RollbackApp(t) PROVE IInv'
<1> DEFINE u == term[t].id
<1>1. /\ term[t].pc = "restore_app" /\ Goes(t, "restore_bin") /\ Keep /\ NoLock
      /\ app' = snap[u].app /\ snap' = [snap EXCEPT ![u].app = Missing]
      /\ UNCHANGED <<bin, taken, fault>>
  BY DEF RollbackApp
<1>2. /\ CommandInv /\ Typed /\ Locked(t) /\ UNCHANGED proc /\ LocksStay
      /\ u \in Update /\ u # 0
  BY <1>1, SwapFacts DEF SwapPc
<1>3. /\ bin \in DirType /\ snap \in [Update -> SnapType] /\ snap[u].app \in DirType
      /\ VenvIsWhole /\ NoneAhead /\ SwapInv(t) /\ AppInv(t)
  BY <1>2, DirFacts
<1>4. /\ snap' \in [Update -> SnapType] /\ snap'[u].app = Missing /\ snap'[u].bin = snap[u].bin
      /\ \A v \in Update \ {u} : snap'[v] = snap[v]
  BY <1>1, <1>2, <1>3, Values DEF SnapType
<1>5. Steps(t) /\ term'[t].pc = "restore_bin" /\ term'[t].id = u
  BY <1>1, <1>2, GoesWithin DEF UpdatePc, SwapPc
<1>6. CommandInv'
  BY <1>1, <1>2, <1>3, <1>4, <1>5, WithinStays
<1>7. VenvIsWhole'
  BY <1>1, <1>2, <1>3, <1>4, Values DEF VenvIsWhole
<1>8. NoneAhead'
  BY <1>1, <1>3, <1>4, Values DEF NoneAhead, Whole
<1>9. SwapInv(t)'
  BY <1>1, <1>2, <1>3, <1>4, <1>5 DEF SwapInv, OneRelease, Whole, StartPc
<1>10. AppInv(t)'
  BY <1>5 DEF AppInv, StartPc
<1>11. SomeWholeInstall'
  <2> SUFFICES ASSUME fault \cap {"overlap", "uninstall"} = {}
               PROVE  Whole(app') \/ \E v \in Update : Whole(snap'[v].app)
    BY <1>1 DEF SomeWholeInstall, Whole
  <2>1. PICK v \in Update : Whole(snap[v].app)
    BY <1>1, <1>2, <1>3 DEF AppInv, SomeSnap
  <2>2. CASE v = u
    BY <1>1, <2>1, <2>2
  <2>3. CASE v # u
    BY <1>4, <2>1, <2>3
  <2>4. QED
    BY <2>2, <2>3
<1>12. DirInv'
  BY <1>1, <1>2, <1>5, <1>7, <1>8, <1>9, <1>10, <1>11, MovesKeep DEF Steps
<1>13. QED
  BY <1>6, <1>12 DEF IInv

LEMMA RollbackBinKeeps == ASSUME IInv, NEW t \in Terminals, RollbackBin(t) PROVE IInv'
<1> DEFINE u == term[t].id
<1>1. /\ term[t].pc = "restore_bin" /\ Invoke(t, "start", "unlock", "unlock") /\ Keep /\ NoLock
      /\ bin' = snap[u].bin /\ snap' = [snap EXCEPT ![u].bin = Missing]
      /\ UNCHANGED <<app, taken, fault>>
  BY DEF RollbackBin, Restored
<1>2. /\ CommandInv /\ Typed /\ Locked(t) /\ UNCHANGED proc /\ LocksStay
      /\ u \in Update /\ u # 0
  BY <1>1, SwapFacts DEF SwapPc
<1>3. /\ app \in DirType /\ snap \in [Update -> SnapType] /\ snap[u].bin \in DirType
      /\ VenvIsWhole /\ NoneAhead /\ SwapInv(t) /\ AppInv(t) /\ SomeWholeInstall
  BY <1>2, DirFacts
<1>4. snap' \in [Update -> SnapType] /\ \A v \in Update : snap'[v].app = snap[v].app
  BY <1>1, <1>2, <1>3, Values DEF SnapType
<1>5. Steps(t) /\ term'[t].pc = "start" /\ term'[t].then = "unlock" /\ term'[t].id = u
  BY <1>1, <1>2, InvokeWithin DEF SwapPc
<1>6. CommandInv'
  BY <1>1, <1>2, <1>3, <1>4, <1>5, WithinStays
<1>7. VenvIsWhole' /\ NoneAhead' /\ SomeWholeInstall'
  BY <1>1, <1>3, <1>4 DEF VenvIsWhole, NoneAhead, SomeWholeInstall, Whole
<1>8. SwapInv(t)'
  BY <1>1, <1>2, <1>3, <1>5 DEF SwapInv, OneRelease, Whole, StartPc
<1>9. AppInv(t)'
  BY <1>5 DEF AppInv, StartPc
<1>10. DirInv'
  BY <1>1, <1>2, <1>5, <1>7, <1>8, <1>9, MovesKeep DEF Steps
<1>11. QED
  BY <1>6, <1>10 DEF IInv

-----------------------------------------------------------------------------
(* The invariant. *)

LEMMA InitIInv == Init => IInv
<1> SUFFICES ASSUME Init PROVE IInv
  OBVIOUS
<1> USE DEF Init, InitDaemon
<1>1. \A t \in Terminals : term[t] = Idle /\ fd[t] = 0 /\ ~ Locked(t)
  BY DEF Locked
<1>2. Typed
  <2>1. Gone \in ProcType /\ app \in DirType /\ bin \in DirType
        /\ [app |-> Missing, bin |-> Missing] \in SnapType
    BY GoneIs, Values DEF DirType, SnapType
  <2>2. QED
    BY <2>1, IdleIs, Values, UpdateBounds DEF Typed
<1>3. \A t \in Terminals : TermInv(t)
  BY <1>1, IdleIs DEF TermInv, Shape, LockInv, StopInv, Updating, Swapping,
                      StartPc, StopPc, UpdatePc, SwapPc
<1>4. FlockInv /\ OneHolder
  BY <1>1 DEF FlockInv, OneHolder
<1>5. \A u \in Update : snap[u].app = Missing
  OBVIOUS
<1>6. DirInv
  <2>1. VenvIsWhole /\ NoneAhead
    BY <1>5, Values DEF VenvIsWhole, NoneAhead
  <2>2. \A t \in Terminals : SwapInv(t) /\ AppInv(t)
    BY <1>1, IdleIs DEF SwapInv, AppInv
  <2>3. Whole(app) /\ bin.whole /\ bin.ver = app.ver
    BY DEF Whole
  <2>4. QED
    BY <2>1, <2>2, <2>3 DEF DirInv, InstallSurvives, SomeWholeInstall, SettledInstallIsWhole
<1>7. QED
  BY <1>2, <1>3, <1>4, <1>6 DEF IInv, CommandInv

LEMMA SameKeeps == IInv /\ UNCHANGED vars => IInv'
BY DEF vars, daemonVars, updateVars, IInv, CommandInv, Typed, TermInv, Shape, LockInv, StopInv,
       Updating, Swapping, Locked, Alive, Servers, FlockInv, OneHolder, DirInv, VenvIsWhole,
       NoneAhead, SwapInv, AppInv, SomeSnap, OneRelease, Whole, InstallSurvives,
       SomeWholeInstall, SettledInstallIsWhole, Mid

LEMMA StepKeeps == IInv /\ [Next]_vars => IInv'
<1> SUFFICES ASSUME IInv, [Next]_vars PROVE IInv'
  OBVIOUS
<1>1. ASSUME NEW t \in Terminals, UpdateStep(t) PROVE IInv'
  <2>1. CASE UpdateOpen(t) \/ UpdateFlock(t) \/ UpdateUnlock(t) \/ CommandKilled(t)
    BY <2>1, OpenKeeps, FlockKeeps, UnlockKeeps, KilledKeeps
  <2>2. CASE UpdateSpace(t) \/ UpdateDownload(t) \/ UpdateVerify(t)
    BY <2>2, PhaseAKeeps
  <2>3. CASE SnapshotApp(t) \/ SnapshotBin(t) \/ UpdateExtract(t) \/ UpdateInstallers(t)
    BY <2>3, SnapshotAppKeeps, SnapshotBinKeeps, ExtractKeeps, InstallersKeeps
  <2>4. CASE UpdateDoctor(t) \/ UpdatePrune(t)
    BY <2>4, DoctorKeeps, PruneKeeps
  <2>5. CASE RollbackRemove(t) \/ RollbackApp(t) \/ RollbackBin(t)
    BY <2>5, RollbackRemoveKeeps, RollbackAppKeeps, RollbackBinKeeps
  <2>6. QED
    BY <1>1, <2>1, <2>2, <2>3, <2>4, <2>5 DEF UpdateStep
<1>2. QED
  BY <1>1, DaemonDirs, ProcessDirs, SameKeeps DEF Next

LEMMA Invariance == Spec => []IInv
BY InitIInv, StepKeeps, PTL DEF Spec

-----------------------------------------------------------------------------
(* The theorems. *)

\* Whoever is past a snapshot holds the lock, and who holds a lock file has it open:
\* updater.py's UpdateLock and the kernel's flock agree.
THEOREM TypeCorrect == Spec => []TypeOK
<1>1. IInv => TypeOK
  <2> SUFFICES ASSUME IInv PROVE TypeOK
    OBVIOUS
  <2>1. CommandInv /\ Typed /\ FlockInv
    BY DEF IInv, CommandInv
  <2>2. \A p \in Pid : proc[p].st \in {"gone", "booting", "up"}
    BY <2>1 DEF Typed, ProcType
  <2>3. ASSUME NEW t \in Terminals
        PROVE  fd[t] \in 0 .. MaxInode /\ (term[t].id # 0 => term[t].id <= taken /\ Locked(t))
    BY <2>1, Facts DEF Typed, LockInv, Updating, Swapping, UpdatePc
  <2>4. \A i \in 1 .. MaxInode : flock[i] = NoOne \/ (flock[i] \in Terminals /\ fd[flock[i]] = i)
    BY <2>1 DEF Typed, FlockInv
  <2>5. QED
    BY <2>1, <2>2, <2>3, <2>4 DEF Typed, TypeOK
<1>2. QED
  BY <1>1, Invariance, PTL

\* Whatever step an update stops at, killed or refused, a whole install is on disk; and
\* between updates nobody killed, app, venv and scanners are of one release.
THEOREM InstallIsNeverLost == Spec => []InstallSurvives
<1>1. IInv => InstallSurvives
  BY DEF IInv, DirInv
<1>2. QED
  BY <1>1, Invariance, PTL

\* The sweep of `stop` has no process in view that is not Cliff's, though pids are reused
\* and anyone may listen on its ports.
THEOREM SweepsAreOwnerSafe == Spec => []SweepIsOwnerSafe
<1>1. IInv => SweepIsOwnerSafe
  BY DEF IInv, CommandInv, TermInv, StopInv, SweepIsOwnerSafe
<1>2. QED
  BY <1>1, Invariance, PTL

\* When a stop has returned well, every server that ran when it began is gone.
THEOREM StopsReclaim == Spec => []StopReclaims
<1>1. IInv => StopReclaims
  BY DEF IInv, CommandInv, TermInv, StopInv, StopReclaims
<1>2. QED
  BY <1>1, Invariance, PTL
=============================================================================
