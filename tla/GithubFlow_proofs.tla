-------------------------- MODULE GithubFlow_proofs --------------------------
(***************************************************************************)
(* The safety of the device flow for every number of integrations, device  *)
(* codes, installations and requests.  IInv says what a request that holds *)
(* the connect lock knows of the rows, and how much of an integration a    *)
(* /disconnect has taken away.                                             *)
(***************************************************************************)
EXTENDS GithubFlow, TLAPS, FiniteSetTheorems

RowType == [status : Statuses \cup {"none"}, code : 0 .. MaxCode, install : Installs \cup {0}]
VaultType == [token : Tokens \cup {"none"}, device : 0 .. MaxCode]
PollPc ==
  {"off", "sleep", "read", "sent", "granted", "pending", "failing", "terminate", "stored",
   "login", "connected", "enabled"}
PollType == [pc : PollPc, id : Id, bound : BOOLEAN, code : 0 .. MaxCode]
ConnType ==
  [pc : {"idle", "resolved", "wiped", "issued", "start"}, id : Id, code : 0 .. MaxCode]

Typed ==
  /\ row \in [App -> RowType]
  /\ vault \in [Id -> VaultType]
  /\ poll \in [Poller -> PollType]
  /\ conn \in [Requests -> ConnType] /\ lock \subseteq Requests
  /\ disc \in [pc : {"idle", "stop", "wipe", "drop"}, id : Id]
  /\ onb \in [pc : {"idle", "probe", "store"}, id : Id, token : Tokens \cup {"none"}]

\* The integrations are linearly ordered by their last update.
Ordered ==
  /\ enabled \subseteq known /\ known \subseteq Id /\ newer \subseteq known \X known
  /\ \A i, j \in known : i # j => (<<i, j>> \in newer <=> <<j, i>> \notin newer)

\* A task polls its own integration.
PollInv ==
  \A p \in Poller : poll[p].pc # "off" =>
    poll[p].id \in App \cap known /\ (p \in App => poll[p].id = p)

\* One App row at most.
RowInv ==
  \A i \in App : HasRow(i) =>
    /\ i \in known /\ row[i].status \in Statuses /\ row[i].code \in Codes
    /\ \A j \in App \ {i} : ~ HasRow(j)

\* Who holds the lock knows that no App row but its own exists, and none once it has wiped.
Holding == {"resolved", "wiped", "issued"}
ConnInvOf(r) ==
  /\ conn[r].pc # "idle" => conn[r].id \in App \cap known
  /\ conn[r].pc \in Holding => r \in lock /\ \A j \in App \ {conn[r].id} : ~ HasRow(j)
  /\ conn[r].pc = "wiped" => ~ HasRow(conn[r].id)
ConnInv == (\A r, s \in lock : r = s) /\ \A r \in Requests : ConnInvOf(r)

\* How far a lone /disconnect has come; what is gone stays gone.
CleanInv ==
  clean # 0 =>
    /\ clean \in App \cap known /\ poll[Now].pc = "off" /\ onb.pc = "idle"
    /\ disc.pc # "idle" => disc.id = clean /\ \A r \in Requests : conn[r].pc = "idle"
    /\ disc.pc = "idle" =>
         ~ HasRow(clean) /\ \A r \in Requests : conn[r].pc # "idle" => conn[r].id # clean
    /\ disc.pc \in {"wipe", "drop", "idle"} => poll[clean].pc = "off"
    /\ disc.pc \in {"drop", "idle"} => vault[clean] = Empty

BadgeInv ==
  badge \subseteq [push : BOOLEAN, probed : BOOLEAN, asked : BOOLEAN] /\ BadgeIsEarned

IInv == Typed /\ Ordered /\ PollInv /\ RowInv /\ ConnInv /\ CleanInv /\ BadgeInv

-----------------------------------------------------------------------------
(* Values. *)

LEMMA ValueTypes ==
  /\ App \subseteq Nat /\ 0 \notin App /\ App \subseteq Id /\ 0 \in Id /\ Now = 0
  /\ App \subseteq Poller /\ Poller = Id /\ Now \in Poller
  /\ Codes \subseteq 0 .. MaxCode /\ 0 \in 0 .. MaxCode /\ 0 \notin Codes
  /\ Off \in PollType /\ Off.pc = "off"
  /\ NoRow \in RowType /\ NoRow.status = "none" /\ NoRow.code = 0 /\ NoRow.install = 0
  /\ Empty \in VaultType
  /\ IdleConn \in ConnType /\ IdleConn.pc = "idle"
<1>1. /\ App \subseteq Nat /\ 0 \notin App /\ App \subseteq Id /\ 0 \in Id /\ Now = 0
      /\ App \subseteq Poller /\ Poller = Id /\ Now \in Poller
  BY DEF App, Id, Pat, Now, Poller
<1>2. Codes \subseteq 0 .. MaxCode /\ 0 \in 0 .. MaxCode /\ 0 \notin Codes
  BY BoundsAreNat DEF Codes
<1>3. Off \in PollType /\ Off.pc = "off"
  BY <1>1, <1>2 DEF Off, PollType, PollPc
<1>4. NoRow \in RowType /\ NoRow.status = "none" /\ NoRow.code = 0 /\ NoRow.install = 0
  BY <1>2 DEF NoRow, RowType
<1>5. Empty \in VaultType
  BY <1>2 DEF Empty, VaultType
<1>6. IdleConn \in ConnType /\ IdleConn.pc = "idle"
  BY <1>1, <1>2 DEF IdleConn, ConnType
<1>7. QED
  BY <1>1, <1>2, <1>3, <1>4, <1>5, <1>6

\* An update moves integrations to the front and keeps the order linear.
LEMMA TouchKeepsOrder ==
  ASSUME Ordered, NEW S \in SUBSET Id, newer' = Touched(S), known' = known \cup S,
         S \subseteq known \/ \E i \in Id : S = {i},
         enabled' \subseteq known'
  PROVE  Ordered'
<1>1. CASE S \subseteq known
  <2>1. newer' \subseteq known' \X known'
    BY <1>1 DEF Ordered, Touched
  <2>2. ASSUME NEW i \in known', NEW j \in known', i # j
        PROVE  <<i, j>> \in newer' <=> <<j, i>> \notin newer'
    BY <1>1, <2>2 DEF Ordered, Touched
  <2>3. QED
    BY <1>1, <2>1, <2>2 DEF Ordered
<1>2. CASE \E i \in Id \ known : S = {i}
  <2>1. newer' \subseteq known' \X known'
    BY <1>2 DEF Ordered, Touched
  <2>2. ASSUME NEW i \in known', NEW j \in known', i # j
        PROVE  <<i, j>> \in newer' <=> <<j, i>> \notin newer'
    BY <1>2, <2>2 DEF Ordered, Touched
  <2>3. QED
    BY <1>2, <2>1, <2>2 DEF Ordered
<1>3. QED
  BY <1>1, <1>2

LEMMA StatusUpdate ==
  ASSUME row \in [App -> RowType], NEW i, NEW s \in Statuses, SetStatus(i, s)
  PROVE  /\ row' \in [App -> RowType]
         /\ \A j \in App : /\ HasRow(j)' <=> HasRow(j)
                           /\ row'[j].code = row[j].code /\ row'[j].install = row[j].install
                           /\ row'[j].status = row[j].status \/ row'[j].status = s
<1> DEFINE new == IF row[i] = NoRow THEN row[i] ELSE [row[i] EXCEPT !.status = s]
<1>1. row' = [row EXCEPT ![i] = new]
  BY DEF SetStatus
<1>2. ASSUME i \in App
      PROVE  /\ new \in RowType /\ new.code = row[i].code /\ new.install = row[i].install
             /\ new.status = row[i].status \/ new.status = s
             /\ new = NoRow <=> row[i] = NoRow
  <2>1. CASE row[i] = NoRow
    BY <1>2, <2>1
  <2>2. CASE row[i] # NoRow
    <3>1. new = [row[i] EXCEPT !.status = s] /\ row[i] \in RowType
      BY <1>2, <2>2
    <3>2. /\ new \in RowType /\ new.code = row[i].code /\ new.install = row[i].install
          /\ new.status = s
      BY <3>1 DEF RowType
    <3>3. new # NoRow
      BY <3>2, ValueTypes DEF Statuses, PendingStatuses
    <3>4. QED
      BY <2>2, <3>2, <3>3
  <2>3. QED
    BY <2>1, <2>2
<1> HIDE DEF new
<1>3. QED
  BY <1>1, <1>2 DEF HasRow

LEMMA BindUpdate ==
  ASSUME row \in [App -> RowType], NEW i \in App, NEW n \in Installs, Unbound(i), Bind(i, n)
  PROVE  /\ row' \in [App -> RowType]
         /\ \A j \in App : /\ HasRow(j)' <=> HasRow(j)
                           /\ row'[j].code = row[j].code
                           /\ row'[j].install = row[j].install \/ row[j].install = 0
                           /\ row'[j].status = row[j].status \/ row'[j].status = "device_pending"
<1> DEFINE new == [row[i] EXCEPT !.install = n, !.status = "device_pending"]
<1>1. row' = [row EXCEPT ![i] = new]
  BY DEF Bind
<1>2. row[i] # NoRow /\ row[i].install = 0
  BY ValueTypes DEF Unbound
<1>3. /\ new \in RowType /\ new.code = row[i].code /\ new.status = "device_pending"
  BY DEF RowType, Statuses, PendingStatuses
<1>4. new # NoRow
  BY <1>3, ValueTypes
<1> HIDE DEF new
<1>5. QED
  BY <1>1, <1>2, <1>3, <1>4 DEF HasRow

LEMMA GoesUpdate ==
  ASSUME conn \in [Requests -> ConnType], NEW r \in Requests,
         NEW to \in {"idle", "resolved", "wiped", "issued", "start"}, NEW i \in Id,
         NEW c \in 0 .. MaxCode, Goes(r, to, i, c)
  PROVE  /\ conn' \in [Requests -> ConnType]
         /\ conn'[r].pc = to /\ conn'[r].id = i
         /\ \A s \in Requests \ {r} : conn'[s] = conn[s]
<1> DEFINE new == [pc |-> to, id |-> i, code |-> c]
<1>1. new \in ConnType /\ new.pc = to /\ new.id = i
  BY DEF ConnType
<1>2. conn' = [conn EXCEPT ![r] = new]
  BY DEF Goes
<1> HIDE DEF new
<1>3. QED
  BY <1>1, <1>2

-----------------------------------------------------------------------------
(* What a poller does: its own place, its integration's row and credentials. *)

PollOthers == UNCHANGED <<known, conn, lock, disc, onb, badge, clean>>

\* The other pollers stay; a poller keeps its integration, or ends.
PollMoves(p) ==
  /\ poll' \in [Poller -> PollType] /\ \A q \in Poller \ {p} : poll'[q] = poll[q]
  /\ poll'[p].pc # "off" => poll'[p].id = poll[p].id

\* The rows stay the ones that exist, with the codes and installations they have.
RowsStay ==
  /\ row' \in [App -> RowType]
  /\ \A j \in App : /\ HasRow(j)' <=> HasRow(j)
                    /\ row'[j].code = row[j].code
                    /\ row'[j].install = row[j].install \/ row[j].install = 0
                    /\ row'[j].status = row[j].status \/ row'[j].status \in Statuses

VaultMoves(i) ==
  vault' \in [Id -> VaultType] /\ \A j \in Id \ {i} : vault'[j] = vault[j]

OrderMoves ==
  \/ UNCHANGED <<newer, enabled>>
  \/ \E S \in SUBSET known : newer' = Touched(S) /\ enabled' \subseteq known

LEMMA StepsUpdate ==
  ASSUME poll \in [Poller -> PollType], NEW p \in Poller, NEW to \in PollPc, Steps(p, to)
  PROVE  PollMoves(p)
<1> DEFINE new == [poll[p] EXCEPT !.pc = to]
<1>1. new \in PollType /\ new.id = poll[p].id
  BY DEF PollType
<1>2. poll' = [poll EXCEPT ![p] = new]
  BY DEF Steps
<1> HIDE DEF new
<1>3. QED
  BY <1>1, <1>2 DEF PollMoves

LEMMA EndsUpdate ==
  ASSUME Typed, PollInv, NEW p \in Poller, poll[p].pc # "off", Ends(p)
  PROVE  PollMoves(p)
<1>1. p = Now => Done(p) = Off
  BY DEF Done
<1>2. p # Now => Done(p) \in PollType /\ Done(p).id = poll[p].id
  <2> SUFFICES ASSUME p # Now PROVE Done(p) \in PollType /\ Done(p).id = poll[p].id
    OBVIOUS
  <2>1. p \in App /\ poll[p].id = p
    BY DEF Poller, PollInv
  <2>2. Done(p) = [Off EXCEPT !.pc = "sleep", !.id = p]
    BY DEF Done
  <2>3. QED
    BY <2>1, <2>2, ValueTypes DEF Off, PollType, PollPc
<1>3. poll' = [poll EXCEPT ![p] = Done(p)]
  BY DEF Ends
<1>4. QED
  BY <1>1, <1>2, <1>3, ValueTypes DEF PollMoves, Typed

LEMMA AnswerUpdate ==
  ASSUME Typed, PollInv, NEW p \in Poller, Answer(p)
  PROVE  PollMoves(p)
<1>1. CASE Ends(p)
  BY <1>1, EndsUpdate DEF Answer
<1>2. CASE \E to \in {"granted", "pending", "failing"} :
             poll' = [poll EXCEPT ![p].pc = to, ![p].code = 0]
  <2>1. PICK to \in {"granted", "pending", "failing"} :
          poll' = [poll EXCEPT ![p].pc = to, ![p].code = 0]
    BY <1>2
  <2> DEFINE new == [poll[p] EXCEPT !.pc = to, !.code = 0]
  <2>2. new \in PollType /\ new.id = poll[p].id
    BY ValueTypes DEF PollType, PollPc, Typed
  <2>3. poll' = [poll EXCEPT ![p] = new]
    BY <2>1
  <2> HIDE DEF new
  <2>4. QED
    BY <2>2, <2>3 DEF PollMoves, Typed
<1>3. QED
  BY <1>1, <1>2 DEF Answer

LEMMA ReadCodeUpdate ==
  ASSUME Typed, PollInv, NEW p \in Poller, ReadCode(p)
  PROVE  PollMoves(p)
<1> DEFINE c == vault[poll[p].id].device
           new == IF c = 0 THEN [poll[p] EXCEPT !.pc = "failing"]
                           ELSE [poll[p] EXCEPT !.pc = "sent", !.code = c]
<1>1. poll' = [poll EXCEPT ![p] = new]
  BY DEF ReadCode
<1>2. c \in 0 .. MaxCode
  BY ValueTypes DEF Typed, PollType, VaultType
<1> HIDE DEF c
<1>3. new \in PollType /\ new.id = poll[p].id
  BY <1>2 DEF Typed, PollType, PollPc
<1> HIDE DEF new
<1>4. QED
  BY <1>1, <1>3 DEF PollMoves, Typed

LEMMA VaultUpdate ==
  ASSUME Typed, NEW i \in Id
  PROVE  /\ vault' = [vault EXCEPT ![i].device = 0] => VaultMoves(i)
         /\ vault' = [vault EXCEPT ![i].token = "app"] => VaultMoves(i)
         /\ vault' = [vault EXCEPT ![i] = Empty] => VaultMoves(i) /\ vault'[i] = Empty
         /\ UNCHANGED vault => VaultMoves(i)
<1>1. vault[i] \in VaultType
  BY DEF Typed
<1>2. [vault[i] EXCEPT !.device = 0] \in VaultType
  BY <1>1, ValueTypes DEF VaultType
<1>3. [vault[i] EXCEPT !.token = "app"] \in VaultType
  BY <1>1 DEF VaultType, Tokens
<1>4. vault' = [vault EXCEPT ![i].device = 0] => VaultMoves(i)
  BY <1>2 DEF Typed, VaultMoves
<1>5. vault' = [vault EXCEPT ![i].token = "app"] => VaultMoves(i)
  BY <1>3 DEF Typed, VaultMoves
<1>6. vault' = [vault EXCEPT ![i] = Empty] => VaultMoves(i) /\ vault'[i] = Empty
  BY ValueTypes DEF Typed, VaultMoves
<1>7. UNCHANGED vault => VaultMoves(i)
  BY DEF Typed, VaultMoves
<1>8. QED
  BY <1>4, <1>5, <1>6, <1>7

LEMMA SameRows == Typed /\ RowInv /\ UNCHANGED row => RowsStay
BY DEF Typed, RowsStay, HasRow

LEMMA StatusRows ==
  ASSUME Typed, NEW i, NEW s \in Statuses, SetStatus(i, s)
  PROVE  RowsStay
BY StatusUpdate DEF Typed, RowsStay

\* The steps on the row, the credentials and the order.
LEMMA PollStepEffect ==
  ASSUME Typed, Ordered, PollInv, RowInv, NEW p \in Poller, PollStep(p)
  PROVE  /\ PollOthers /\ PollMoves(p) /\ poll[p].pc # "off"
         /\ RowsStay /\ VaultMoves(poll[p].id) /\ OrderMoves
<1>1. /\ PollOthers /\ poll[p].pc # "off" /\ poll[p].id \in Id /\ poll[p].id \in known
      /\ poll \in [Poller -> PollType]
  <2>1. PollOthers /\ poll[p].pc # "off"
    BY DEF PollStep, ReadCode, Answer, ApplyPending, ApplyFailure, Terminate, StoreToken,
           DropCode, MarkConnected, Enable, Archive, Rest, PollOthers
  <2>2. QED
    BY <2>1, ValueTypes DEF PollInv, Typed
<1>2. CASE ReadCode(p)
  BY <1>1, <1>2, ReadCodeUpdate, VaultUpdate, SameRows DEF ReadCode, OrderMoves
<1>3. CASE Answer(p)
  BY <1>1, <1>3, AnswerUpdate, VaultUpdate, SameRows DEF Answer, OrderMoves
<1>4. CASE ApplyPending(p)
  BY <1>1, <1>4, EndsUpdate, StatusRows, VaultUpdate
     DEF ApplyPending, OrderMoves, Statuses, PendingStatuses
<1>5. CASE ApplyFailure(p)
  BY <1>1, <1>5, StepsUpdate, VaultUpdate, SameRows DEF ApplyFailure, OrderMoves, PollPc
<1>6. CASE Terminate(p)
  BY <1>1, <1>6, EndsUpdate, StatusRows, VaultUpdate DEF Terminate, OrderMoves, Statuses
<1>7. CASE StoreToken(p)
  BY <1>1, <1>7, StepsUpdate, VaultUpdate, SameRows DEF StoreToken, OrderMoves, PollPc
<1>8. CASE DropCode(p)
  BY <1>1, <1>8, StepsUpdate, VaultUpdate, SameRows DEF DropCode, OrderMoves, PollPc
<1>9. CASE MarkConnected(p)
  <2>1. PollMoves(p)
    <3>1. CASE Steps(p, "connected")
      BY <1>1, <3>1, StepsUpdate DEF PollPc
    <3>2. CASE poll' = [poll EXCEPT ![p] = Off]
      BY <1>1, <3>2, ValueTypes DEF PollMoves
    <3>3. QED
      BY <1>9, <3>1, <3>2 DEF MarkConnected
  <2>2. QED
    BY <1>1, <1>9, <2>1, StatusRows, VaultUpdate DEF MarkConnected, OrderMoves, Statuses
<1>10. CASE Enable(p)
  <2>1. newer' = Touched({poll[p].id}) /\ enabled' \subseteq known /\ {poll[p].id} \in SUBSET known
    BY <1>1, <1>10 DEF Enable, Ordered
  <2>2. QED
    BY <1>1, <1>10, <2>1, StepsUpdate, VaultUpdate, SameRows DEF Enable, OrderMoves, PollPc
<1>11. CASE Archive(p)
  <2>1. /\ newer' = Touched(enabled \ {poll[p].id}) /\ enabled' \subseteq known
        /\ enabled \ {poll[p].id} \in SUBSET known
    BY <1>11 DEF Archive, Ordered
  <2>2. QED
    BY <1>1, <1>11, <2>1, EndsUpdate, VaultUpdate, SameRows DEF Archive, OrderMoves
<1>12. QED
  BY <1>2, <1>3, <1>4, <1>5, <1>6, <1>7, <1>8, <1>9, <1>10, <1>11 DEF PollStep

\* While no integration is added, the order stays linear and the rows stay as few.
LEMMA OrderKept == Ordered /\ UNCHANGED known /\ OrderMoves => Ordered'
<1> SUFFICES ASSUME Ordered, UNCHANGED known, OrderMoves PROVE Ordered'
  OBVIOUS
<1>1. CASE UNCHANGED <<newer, enabled>>
  BY <1>1 DEF Ordered
<1>2. CASE \E S \in SUBSET known : newer' = Touched(S) /\ enabled' \subseteq known
  <2>1. PICK S \in SUBSET known : newer' = Touched(S) /\ enabled' \subseteq known
    BY <1>2
  <2>2. S \in SUBSET Id /\ known' = known \cup S
    BY <2>1 DEF Ordered
  <2>3. QED
    BY <2>1, <2>2, TouchKeepsOrder
<1>3. QED
  BY <1>1, <1>2 DEF OrderMoves

LEMMA RowsKept == RowInv /\ RowsStay /\ UNCHANGED known => RowInv'
BY DEF RowInv, RowsStay

LEMMA ConnKept == ConnInv /\ RowsStay /\ UNCHANGED <<known, conn, lock>> => ConnInv'
<1> SUFFICES ASSUME ConnInv, RowsStay, UNCHANGED <<known, conn, lock>> PROVE ConnInv'
  OBVIOUS
<1>1. ASSUME NEW r \in Requests PROVE ConnInvOf(r)'
  BY DEF ConnInv, ConnInvOf, RowsStay, HasRow
<1>2. QED
  BY <1>1 DEF ConnInv

LEMMA PollStepKeeps == ASSUME IInv, NEW p \in Poller, PollStep(p) PROVE IInv'
<1>1. /\ PollOthers /\ PollMoves(p) /\ poll[p].pc # "off"
      /\ RowsStay /\ VaultMoves(poll[p].id) /\ OrderMoves
  BY PollStepEffect DEF IInv
<1>2. Typed'
  BY <1>1 DEF IInv, Typed, PollOthers, PollMoves, RowsStay, VaultMoves
<1>3. Ordered' /\ RowInv' /\ ConnInv'
  BY <1>1, OrderKept, RowsKept, ConnKept DEF IInv, PollOthers
<1>4. PollInv'
  BY <1>1 DEF IInv, PollInv, PollOthers, PollMoves
<1>5. CleanInv'
  <2> SUFFICES ASSUME clean # 0 PROVE CleanInv'
    BY <1>1 DEF CleanInv, PollOthers
  <2>1. p \in App /\ poll[p].id = p
    BY <1>1 DEF IInv, CleanInv, PollInv, Poller
  <2>2. p # Now /\ clean \in App
    BY <2>1, ValueTypes DEF IInv, CleanInv
  <2>3. CASE p = clean
    <3>1. disc.pc = "stop"
      BY <1>1, <2>3 DEF IInv, CleanInv, Typed
    <3>2. QED
      BY <1>1, <2>2, <3>1, ValueTypes DEF IInv, CleanInv, PollOthers, PollMoves
  <2>4. CASE p # clean
    <3>1. poll'[clean] = poll[clean] /\ poll'[Now] = poll[Now] /\ vault'[clean] = vault[clean]
      BY <1>1, <2>1, <2>2, <2>4, ValueTypes DEF PollMoves, VaultMoves
    <3>2. QED
      BY <1>1, <2>2, <3>1 DEF IInv, CleanInv, PollOthers, RowsStay
  <2>5. QED
    BY <2>3, <2>4
<1>6. BadgeInv'
  BY <1>1 DEF IInv, BadgeInv, BadgeIsEarned, PollOthers
<1>7. QED
  BY <1>2, <1>3, <1>4, <1>5, <1>6 DEF IInv

-----------------------------------------------------------------------------
(* The loops, /poll-now and the user. *)

\* Only the pollers move, each keeping its integration: one that was off stays off, but for a
\* request, which ends the count as clean.
LEMMA PollersKeep ==
  ASSUME IInv, UNCHANGED <<known, newer, enabled, row, vault, conn, lock, disc, onb, badge>>,
         poll' \in [Poller -> PollType], PollInv',
         \/ clean' = 0
         \/ clean' = clean /\ \A p \in Poller : poll[p].pc = "off" => poll'[p].pc = "off"
  PROVE  IInv'
<1>1. Typed' /\ Ordered' /\ BadgeInv'
  BY DEF IInv, Typed, Ordered, BadgeInv, BadgeIsEarned
<1>2. RowInv' /\ ConnInv'
  <2>1. RowsStay
    BY SameRows DEF IInv
  <2>2. QED
    BY <2>1, RowsKept, ConnKept DEF IInv
<1>3. CleanInv'
  BY ValueTypes DEF IInv, CleanInv, HasRow
<1>4. QED
  BY <1>1, <1>2, <1>3 DEF IInv

LEMMA LoopTickKeeps == ASSUME IInv, NEW i \in App, LoopTick(i) \/ LoopCap(i) PROVE IInv'
<1>1. /\ UNCHANGED <<known, newer, enabled, row, vault, conn, lock, disc, onb, badge, clean>>
      /\ poll[i].pc = "sleep"
  BY DEF LoopTick, LoopCap, Rest
<1> DEFINE read == [poll[i] EXCEPT !.pc = "read", !.bound = row[i].install # 0]
<1>2. poll' = [poll EXCEPT ![i] = read] \/ poll' = [poll EXCEPT ![i] = Off]
  BY DEF LoopTick, LoopCap
<1>3. read \in PollType /\ read.id = poll[i].id
  BY ValueTypes DEF IInv, Typed, PollType, PollPc
<1> HIDE DEF read
<1>4. /\ poll' \in [Poller -> PollType] /\ \A q \in Poller \ {i} : poll'[q] = poll[q]
      /\ poll'[i].pc # "off" => poll'[i].id = poll[i].id
  BY <1>2, <1>3, ValueTypes DEF IInv, Typed
<1>5. PollInv'
  BY <1>1, <1>4 DEF IInv, PollInv
<1>6. \A p \in Poller : poll[p].pc = "off" => poll'[p].pc = "off"
  BY <1>1, <1>4
<1>7. QED
  BY <1>1, <1>4, <1>5, <1>6, PollersKeep

LEMMA PollNowKeeps == IInv /\ PollNow => IInv'
<1> SUFFICES ASSUME IInv, PollNow PROVE IInv'
  OBVIOUS
<1>1. UNCHANGED <<known, newer, enabled, row, vault, conn, lock, disc, onb, badge>> /\ clean' = 0
  BY DEF PollNow, Rest
<1>2. PICK i \in App : /\ IsPending(i)
                       /\ poll' = [poll EXCEPT ![Now] = [Off EXCEPT !.pc = "read", !.id = i,
                                                              !.bound = row[i].install # 0]]
  BY DEF PollNow
<1> DEFINE new == [Off EXCEPT !.pc = "read", !.id = i, !.bound = row[i].install # 0]
<1>3. new \in PollType /\ new.id = i
  BY ValueTypes DEF Off, PollType, PollPc
<1> HIDE DEF new
<1>4. /\ poll' \in [Poller -> PollType] /\ \A q \in Poller \ {Now} : poll'[q] = poll[q]
      /\ poll'[Now].id = i
  BY <1>2, <1>3, ValueTypes DEF IInv, Typed, new
<1>5. i \in known
  <2>1. HasRow(i)
    BY <1>2, ValueTypes DEF IsPending, HasRow, PendingStatuses
  <2>2. QED
    BY <2>1 DEF IInv, RowInv
<1>6. PollInv'
  BY <1>1, <1>4, <1>5, ValueTypes DEF IInv, PollInv
<1>7. QED
  BY <1>1, <1>4, <1>6, PollersKeep

LEMMA UserKeeps ==
  ASSUME IInv, NEW c \in Codes,
         Authorize(c) \/ DenyOrExpire(c) \/ \E n \in Installs : Attach(c, n)
  PROVE  IInv'
<1>1. UNCHANGED <<known, newer, enabled, vault, poll, conn, lock, disc, onb, badge, clean>>
  BY DEF Authorize, DenyOrExpire, Becomes, Attach, Rest
<1>2. RowsStay
  <2>1. CASE UNCHANGED row
    BY <2>1, SameRows DEF IInv
  <2>2. CASE \E n \in Installs, i \in App : Unbound(i) /\ Bind(i, n)
    <3>1. PICK n \in Installs, i \in App : Unbound(i) /\ Bind(i, n)
      BY <2>2
    <3>2. QED
      BY <3>1, BindUpdate DEF IInv, Typed, RowsStay, Statuses, PendingStatuses
  <2>3. QED
    BY <2>1, <2>2 DEF Authorize, DenyOrExpire, Becomes, Attach
<1>3. Typed' /\ Ordered' /\ BadgeInv' /\ PollInv'
  BY <1>1, <1>2 DEF IInv, Typed, RowsStay, Ordered, BadgeInv, BadgeIsEarned, PollInv
<1>4. RowInv' /\ ConnInv'
  BY <1>1, <1>2, RowsKept, ConnKept DEF IInv
<1>5. CleanInv'
  BY <1>1, <1>2 DEF IInv, CleanInv, RowsStay
<1>6. QED
  BY <1>3, <1>4, <1>5 DEF IInv

-----------------------------------------------------------------------------
(* POST /connect. *)

ConnOthers == UNCHANGED <<vault, poll, disc, onb, badge>>

LEMMA ConnectResolveKeeps == ASSUME IInv, NEW r \in Requests, ConnectResolve(r) PROVE IInv'
<1>1. /\ UNCHANGED <<enabled, row, vault, code, poll, disc, onb, badge>>
      /\ conn[r].pc = "idle" /\ lock = {} /\ lock' = lock \cup {r}
      /\ clean' = IF disc.pc = "idle" THEN clean ELSE 0
  BY DEF ConnectResolve, LockFree
<1>2. PICK i \in App :
        /\ Goes(r, "resolved", i, 0) /\ \A j \in App \ {i} : ~ HasRow(j)
        /\ \/ HasRow(i) /\ UNCHANGED <<known, newer>>
           \/ i \notin known /\ known' = known \cup {i} /\ newer' = Touched({i})
  <2>1. CASE \E i \in App : HasRow(i) /\ Goes(r, "resolved", i, 0) /\ UNCHANGED <<known, newer>>
    BY <2>1 DEF IInv, RowInv
  <2>2. CASE /\ \A i \in App : ~ HasRow(i)
             /\ \E i \in App \ known : /\ known' = known \cup {i} /\ newer' = Touched({i})
                                       /\ Goes(r, "resolved", i, 0)
    BY <2>2
  <2>3. QED
    BY <2>1, <2>2 DEF ConnectResolve
<1>3. /\ conn' \in [Requests -> ConnType] /\ conn'[r].pc = "resolved" /\ conn'[r].id = i
      /\ \A s \in Requests \ {r} : conn'[s] = conn[s]
  BY <1>2, GoesUpdate, ValueTypes DEF IInv, Typed
<1>4. i \in known' /\ known \subseteq known'
  BY <1>2 DEF IInv, RowInv
<1>5. Typed'
  BY <1>1, <1>3 DEF IInv, Typed
<1>6. Ordered'
  <2>1. CASE UNCHANGED <<known, newer>>
    BY <1>1, <2>1 DEF IInv, Ordered
  <2>2. CASE known' = known \cup {i} /\ newer' = Touched({i})
    <3>1. i \in Id /\ enabled' \subseteq known'
      BY <1>1, <1>4, ValueTypes DEF IInv, Ordered
    <3>2. QED
      BY <2>2, <3>1, TouchKeepsOrder DEF IInv
  <2>3. QED
    BY <1>2, <2>1, <2>2
<1>7. PollInv' /\ RowInv' /\ BadgeInv'
  BY <1>1, <1>4 DEF IInv, PollInv, RowInv, HasRow, BadgeInv, BadgeIsEarned
<1>8. ConnInv'
  <2>1. \A s \in Requests \ {r} : conn[s].pc \notin Holding
    BY <1>1 DEF IInv, ConnInv, ConnInvOf
  <2>2. ASSUME NEW s \in Requests PROVE ConnInvOf(s)'
    <3>1. CASE s = r
      BY <1>1, <1>2, <1>3, <1>4, <3>1 DEF ConnInvOf, HasRow
    <3>2. CASE s # r
      BY <1>3, <1>4, <2>1, <3>2 DEF IInv, ConnInv, ConnInvOf, Holding
    <3>3. QED
      BY <3>1, <3>2
  <2>3. \A s, t \in lock' : s = t
    BY <1>1
  <2>4. QED
    BY <2>2, <2>3 DEF ConnInv
<1>9. CleanInv'
  <2> SUFFICES ASSUME disc.pc = "idle", clean # 0 PROVE CleanInv'
    BY <1>1 DEF CleanInv
  <2>1. ~ HasRow(clean) /\ clean \in App \cap known
    BY DEF IInv, CleanInv
  <2>2. i # clean
    BY <1>2, <2>1
  <2>3. \A s \in Requests : conn'[s].pc # "idle" => conn'[s].id # clean
    BY <1>3, <2>2 DEF IInv, CleanInv
  <2>4. QED
    BY <1>1, <1>4, <2>1, <2>3 DEF IInv, CleanInv, HasRow
<1>10. QED
  BY <1>5, <1>6, <1>7, <1>8, <1>9 DEF IInv

\* A request that is under way goes on to `to`, with its integration, or ends.
ConnMoves(r, to) ==
  /\ conn' \in [Requests -> ConnType]
  /\ conn'[r].pc = to /\ (to = "idle" \/ conn'[r].id = conn[r].id)
  /\ \A s \in Requests \ {r} : conn'[s] = conn[s]

\* The later steps: the lock is kept or released; the row of the request's integration may go
\* or come, while no other row exists.
LEMMA ConnectKeeps ==
  ASSUME IInv, NEW r \in Requests, conn[r].pc # "idle",
         NEW i, i = conn[r].id,
         NEW to \in {"idle", "wiped", "issued", "start"}, ConnMoves(r, to),
         UNCHANGED <<known, newer, enabled, disc, onb, badge, clean>>,
         lock' \subseteq lock, lock \ {r} \subseteq lock', to \in Holding => r \in lock',
         row' \in [App -> RowType], \A j \in App \ {i} : row'[j] = row[j],
         row'[i] = row[i] \/ conn[r].pc \in Holding,
         HasRow(i)' => row'[i].status \in Statuses /\ row'[i].code \in Codes,
         to \in Holding => conn[r].pc \in Holding, to = "wiped" => ~ HasRow(i)',
         VaultMoves(i),
         poll' \in [Poller -> PollType], PollInv',
         \A p \in Poller \ {i} : poll'[p] = poll[p]
  PROVE  IInv'
<1>1. i \in App \cap known
  BY DEF IInv, ConnInv, ConnInvOf
<1>2. Typed' /\ Ordered' /\ BadgeInv'
  BY DEF IInv, Typed, Ordered, BadgeInv, BadgeIsEarned, ConnMoves, VaultMoves
<1>3. RowInv'
  <2>1. CASE conn[r].pc \in Holding
    <3>1. \A j \in App \ {i} : ~ HasRow(j)'
      BY <2>1 DEF IInv, ConnInv, ConnInvOf, HasRow
    <3>2. HasRow(i)' => i \in known' /\ row'[i].status \in Statuses /\ row'[i].code \in Codes
      BY <1>1
    <3>3. ASSUME NEW j \in App, HasRow(j)'
          PROVE  /\ j \in known' /\ row'[j].status \in Statuses /\ row'[j].code \in Codes
                 /\ \A k \in App \ {j} : ~ HasRow(k)'
      BY <3>1, <3>2, <3>3
    <3>4. QED
      BY <3>3 DEF RowInv
  <2>2. CASE conn[r].pc \notin Holding
    <3>1. \A j \in App : row'[j] = row[j]
      BY <2>2
    <3>2. QED
      BY <3>1 DEF IInv, RowInv, HasRow
  <2>3. QED
    BY <2>1, <2>2
<1>4. ConnInv'
  <2>1. ASSUME NEW s \in Requests PROVE ConnInvOf(s)'
    <3>1. CASE s = r
      BY <1>1, <3>1 DEF IInv, ConnInv, ConnInvOf, ConnMoves, HasRow, Holding
    <3>2. CASE s # r /\ conn[s].pc \in Holding
      <4>1. conn[r].pc \notin Holding
        BY <3>2 DEF IInv, ConnInv, ConnInvOf
      <4>2. \A j \in App : row'[j] = row[j]
        BY <4>1
      <4>3. conn'[s] = conn[s] /\ s \in lock'
        BY <3>2 DEF IInv, ConnInv, ConnInvOf, ConnMoves
      <4>4. QED
        BY <3>2, <4>2, <4>3 DEF IInv, ConnInv, ConnInvOf, HasRow
    <3>3. CASE s # r /\ conn[s].pc \notin Holding
      BY <3>3 DEF IInv, ConnInv, ConnInvOf, ConnMoves, Holding
    <3>4. QED
      BY <3>1, <3>2, <3>3
  <2>2. QED
    BY <2>1 DEF IInv, ConnInv, ConnInvOf
<1>5. CleanInv'
  <2> SUFFICES ASSUME clean # 0 PROVE CleanInv'
    BY DEF CleanInv
  <2>1. disc.pc = "idle" /\ i # clean /\ clean \in App \cap known
    BY DEF IInv, CleanInv
  <2>2. /\ row'[clean] = row[clean] /\ vault'[clean] = vault[clean]
        /\ poll'[clean] = poll[clean] /\ poll'[Now] = poll[Now]
    BY <1>1, <2>1, ValueTypes DEF VaultMoves
  <2>3. \A s \in Requests : conn'[s].pc # "idle" => conn'[s].id # clean
    BY <2>1 DEF IInv, CleanInv, ConnMoves
  <2>4. QED
    BY <2>1, <2>2, <2>3 DEF IInv, CleanInv, HasRow
<1>6. QED
  BY <1>2, <1>3, <1>4, <1>5 DEF IInv

LEMMA ConnectInflightKeeps == ASSUME IInv, NEW r \in Requests, ConnectInflight(r) PROVE IInv'
<1>1. /\ UNCHANGED <<known, newer, enabled, vault, poll, disc, onb, badge, clean>>
      /\ conn[r].pc = "resolved" /\ r \in lock
  BY DEF ConnectInflight, ConnRest, IInv, ConnInv, ConnInvOf, Holding
<1>2. PICK i \in App : i = conn[r].id
  BY <1>1 DEF IInv, ConnInv, ConnInvOf
<1>3. i \in Id /\ 0 \in Id /\ 0 \in 0 .. MaxCode
  BY <1>2, ValueTypes
<1>4. VaultMoves(i) /\ PollInv' /\ poll' \in [Poller -> PollType]
  BY <1>1, <1>3, VaultUpdate DEF IInv, PollInv, Typed
<1>5. CASE Goes(r, "start", i, 0) /\ lock' = lock \ {r} /\ UNCHANGED row
  <2>1. ConnMoves(r, "start")
    BY <1>2, <1>3, <1>5, GoesUpdate DEF IInv, Typed, ConnMoves
  <2>2. HasRow(i)' => row'[i].status \in Statuses /\ row'[i].code \in Codes
    BY <1>5 DEF IInv, RowInv, HasRow
  <2>3. row' \in [App -> RowType]
    BY <1>5 DEF IInv, Typed
  <2>4. QED
    BY <1>1, <1>2, <1>4, <1>5, <2>1, <2>2, <2>3, ConnectKeeps DEF Holding
<1>6. CASE Goes(r, "idle", 0, 0) /\ lock' = lock \ {r} /\ UNCHANGED row
  <2>1. ConnMoves(r, "idle")
    BY <1>3, <1>6, GoesUpdate DEF IInv, Typed, ConnMoves
  <2>2. HasRow(i)' => row'[i].status \in Statuses /\ row'[i].code \in Codes
    BY <1>6 DEF IInv, RowInv, HasRow
  <2>3. row' \in [App -> RowType]
    BY <1>6 DEF IInv, Typed
  <2>4. QED
    BY <1>1, <1>2, <1>4, <1>6, <2>1, <2>2, <2>3, ConnectKeeps DEF Holding
<1>7. CASE row' = [row EXCEPT ![i] = NoRow] /\ Goes(r, "wiped", i, 0) /\ UNCHANGED lock
  <2>1. ConnMoves(r, "wiped")
    BY <1>2, <1>3, <1>7, GoesUpdate DEF IInv, Typed, ConnMoves
  <2>2. row' \in [App -> RowType] /\ row'[i] = NoRow /\ \A j \in App \ {i} : row'[j] = row[j]
    BY <1>7, ValueTypes DEF IInv, Typed
  <2>3. QED
    BY <1>1, <1>2, <1>4, <1>7, <2>1, <2>2, ConnectKeeps DEF Holding, HasRow
<1>8. QED
  BY <1>2, <1>5, <1>6, <1>7 DEF ConnectInflight

LEMMA ConnectIssueKeeps == ASSUME IInv, NEW r \in Requests, ConnectIssue(r) PROVE IInv'
<1>1. /\ UNCHANGED <<known, newer, enabled, vault, poll, disc, onb, badge, clean>>
      /\ conn[r].pc = "wiped" /\ r \in lock
  BY DEF ConnectIssue, ConnRest, IInv, ConnInv, ConnInvOf, Holding
<1>2. PICK i \in App : i = conn[r].id
  BY <1>1 DEF IInv, ConnInv, ConnInvOf
<1>3. i \in Id /\ 0 \in Id /\ 0 \in 0 .. MaxCode /\ Codes \subseteq 0 .. MaxCode
  BY <1>2, ValueTypes
<1>4. VaultMoves(i) /\ PollInv' /\ poll' \in [Poller -> PollType]
  BY <1>1, <1>3, VaultUpdate DEF IInv, PollInv, Typed
<1>5. CASE Goes(r, "idle", 0, 0) /\ lock' = lock \ {r} /\ UNCHANGED <<row, code>>
  <2>1. ConnMoves(r, "idle")
    BY <1>3, <1>5, GoesUpdate DEF IInv, Typed, ConnMoves
  <2>2. HasRow(i)' => row'[i].status \in Statuses /\ row'[i].code \in Codes
    BY <1>5 DEF IInv, RowInv, HasRow
  <2>3. row' \in [App -> RowType]
    BY <1>5 DEF IInv, Typed
  <2>4. QED
    BY <1>1, <1>2, <1>4, <1>5, <2>1, <2>2, <2>3, ConnectKeeps DEF Holding
<1>6. CASE \E c \in Codes :
             /\ row' = [row EXCEPT ![i] =
                          [status |-> "installation_pending", code |-> c, install |-> 0]]
             /\ Goes(r, "issued", i, c) /\ UNCHANGED lock
  <2>1. PICK c \in Codes :
          /\ row' = [row EXCEPT ![i] =
                       [status |-> "installation_pending", code |-> c, install |-> 0]]
          /\ Goes(r, "issued", i, c) /\ UNCHANGED lock
    BY <1>6
  <2> DEFINE new == [status |-> "installation_pending", code |-> c, install |-> 0]
  <2>2. new \in RowType /\ new.status \in Statuses /\ new.code \in Codes
    BY <1>3 DEF RowType, Statuses, PendingStatuses
  <2>3. row' = [row EXCEPT ![i] = new]
    BY <2>1
  <2> HIDE DEF new
  <2>4. row' \in [App -> RowType] /\ row'[i] = new /\ \A j \in App \ {i} : row'[j] = row[j]
    BY <2>2, <2>3 DEF IInv, Typed
  <2>5. ConnMoves(r, "issued")
    BY <1>2, <1>3, <2>1, GoesUpdate DEF IInv, Typed, ConnMoves
  <2>6. QED
    BY <1>1, <1>2, <1>4, <2>1, <2>2, <2>4, <2>5, ConnectKeeps DEF Holding
<1>7. QED
  BY <1>2, <1>5, <1>6 DEF ConnectIssue

LEMMA ConnectStoreKeeps == ASSUME IInv, NEW r \in Requests, ConnectStore(r) PROVE IInv'
<1>1. /\ UNCHANGED <<known, newer, enabled, row, poll, disc, onb, badge, clean>>
      /\ conn[r].pc = "issued" /\ r \in lock /\ lock' = lock \ {r}
  BY DEF ConnectStore, ConnRest, IInv, ConnInv, ConnInvOf, Holding
<1>2. PICK i \in App, c \in 0 .. MaxCode : i = conn[r].id /\ c = conn[r].code
  BY <1>1 DEF IInv, ConnInv, ConnInvOf, Typed, ConnType
<1>3. i \in Id /\ 0 \in 0 .. MaxCode
  BY <1>2, ValueTypes
<1>4. VaultMoves(i)
  <2> DEFINE new == [vault[i] EXCEPT !.device = c]
  <2>1. new \in VaultType
    BY <1>3 DEF IInv, Typed, VaultType
  <2>2. vault' = [vault EXCEPT ![i] = new]
    BY <1>2 DEF ConnectStore
  <2> HIDE DEF new
  <2>3. QED
    BY <1>3, <2>1, <2>2 DEF IInv, Typed, VaultMoves
<1>5. PollInv' /\ poll' \in [Poller -> PollType]
  BY <1>1 DEF IInv, PollInv, Typed
<1>6. ConnMoves(r, "start")
  <2>1. Goes(r, "start", i, 0)
    BY <1>2 DEF ConnectStore
  <2>2. QED
    BY <1>2, <1>3, <2>1, GoesUpdate DEF IInv, Typed, ConnMoves
<1>7. HasRow(i)' => row'[i].status \in Statuses /\ row'[i].code \in Codes
  BY <1>1 DEF IInv, RowInv, HasRow
<1>8. row' \in [App -> RowType]
  BY <1>1 DEF IInv, Typed
<1>9. QED
  BY <1>1, <1>2, <1>4, <1>5, <1>6, <1>7, <1>8, ConnectKeeps DEF Holding

LEMMA ConnectStartKeeps == ASSUME IInv, NEW r \in Requests, ConnectStart(r) PROVE IInv'
<1>1. /\ UNCHANGED <<known, newer, enabled, row, vault, lock, disc, onb, badge, clean>>
      /\ conn[r].pc = "start" /\ Goes(r, "idle", 0, 0)
  BY DEF ConnectStart
<1>2. PICK i \in App : i = conn[r].id /\ i \in known
  BY <1>1 DEF IInv, ConnInv, ConnInvOf
<1>3. i \in Id /\ i \in Poller /\ 0 \in Id /\ 0 \in 0 .. MaxCode
  BY <1>2, ValueTypes
<1>4. /\ poll' \in [Poller -> PollType] /\ \A p \in Poller \ {i} : poll'[p] = poll[p]
      /\ poll'[i] = poll[i] \/ poll'[i].id = i
  <2> DEFINE task == [Off EXCEPT !.pc = "sleep", !.id = i]
             new == IF poll[i].pc = "off" THEN task ELSE poll[i]
  <2>1. task \in PollType /\ task.id = i
    BY <1>3, ValueTypes DEF Off, PollType, PollPc
  <2>2. poll' = [poll EXCEPT ![i] = IF @.pc = "off" THEN task ELSE @]
    BY <1>2 DEF ConnectStart
  <2>3. poll' = [poll EXCEPT ![i] = new]
    BY <1>3, <2>2 DEF IInv, Typed
  <2> HIDE DEF task
  <2>4. new \in PollType /\ (new = poll[i] \/ new.id = i)
    BY <1>3, <2>1 DEF IInv, Typed
  <2> HIDE DEF new
  <2>5. QED
    BY <1>3, <2>3, <2>4 DEF IInv, Typed
<1>5. PollInv'
  BY <1>1, <1>2, <1>4 DEF IInv, PollInv
<1>6. VaultMoves(i)
  BY <1>1, <1>3, VaultUpdate DEF IInv
<1>7. ConnMoves(r, "idle")
  BY <1>1, <1>3, GoesUpdate DEF IInv, Typed, ConnMoves
<1>8. HasRow(i)' => row'[i].status \in Statuses /\ row'[i].code \in Codes
  BY <1>1 DEF IInv, RowInv, HasRow
<1>9. row' \in [App -> RowType]
  BY <1>1 DEF IInv, Typed
<1>10. QED
  BY <1>1, <1>2, <1>4, <1>5, <1>6, <1>7, <1>8, <1>9, ConnectKeeps DEF Holding

-----------------------------------------------------------------------------
(* POST /disconnect, and POST /onboarding/repo. *)

LEMMA DisconnectBegins == IInv /\ Disconnect => IInv'
<1> SUFFICES ASSUME IInv, Disconnect PROVE IInv'
  OBVIOUS
<1>1. /\ UNCHANGED <<known, row, vault, code, poll, conn, lock, onb, badge>> /\ disc.pc = "idle"
  BY DEF Disconnect
<1>2. PICK i \in App :
        /\ HasRow(i) /\ disc' = [pc |-> "stop", id |-> i]
        /\ enabled' = enabled \ {i} /\ newer' = Touched({i})
        /\ \/ clean' = 0
           \/ /\ clean' = i /\ poll[Now].pc = "off" /\ onb.pc = "idle"
              /\ \A r \in Requests : conn[r].pc = "idle"
  BY DEF Disconnect
<1>3. i \in known /\ i \in Id
  BY <1>2, ValueTypes DEF IInv, RowInv
<1>4. Ordered'
  <2>1. {i} \in SUBSET known /\ enabled' \subseteq known
    BY <1>2, <1>3 DEF IInv, Ordered
  <2>2. QED
    BY <1>1, <1>2, <2>1, OrderKept DEF IInv, OrderMoves
<1>5. Typed' /\ PollInv' /\ RowInv' /\ ConnInv' /\ BadgeInv'
  <2>1. RowInv' /\ ConnInv'
    BY <1>1, SameRows, RowsKept, ConnKept DEF IInv
  <2>2. QED
    BY <1>1, <1>2, <1>3, <2>1 DEF IInv, Typed, PollInv, BadgeInv, BadgeIsEarned
<1>6. CleanInv'
  BY <1>1, <1>2, <1>3 DEF CleanInv
<1>7. QED
  BY <1>4, <1>5, <1>6 DEF IInv

LEMMA DisconnectStopKeeps == IInv /\ DisconnectStop => IInv'
<1> SUFFICES ASSUME IInv, DisconnectStop PROVE IInv'
  OBVIOUS
<1>1. /\ UNCHANGED <<known, newer, enabled, row, vault, conn, lock, onb, badge, clean>>
      /\ disc.pc = "stop" /\ disc' = [disc EXCEPT !.pc = "wipe"]
      /\ poll' = [poll EXCEPT ![disc.id] = Off]
  BY DEF DisconnectStop, Stopped
<1>2. disc' \in [pc : {"idle", "stop", "wipe", "drop"}, id : Id] /\ disc'.pc = "wipe"
        /\ disc'.id = disc.id
  BY <1>1 DEF IInv, Typed
<1>3. poll' \in [Poller -> PollType] /\ \A p \in Poller : poll'[p] = poll[p] \/ poll'[p] = Off
  BY <1>1, ValueTypes DEF IInv, Typed
<1>4. poll'[disc.id].pc = "off"
  BY <1>1, ValueTypes DEF IInv, Typed
<1>5. Typed' /\ Ordered' /\ BadgeInv' /\ PollInv'
  BY <1>1, <1>2, <1>3, ValueTypes DEF IInv, Typed, Ordered, BadgeInv, BadgeIsEarned, PollInv
<1>6. RowInv' /\ ConnInv'
  BY <1>1, SameRows, RowsKept, ConnKept DEF IInv
<1>7. CleanInv'
  BY <1>1, <1>2, <1>3, <1>4, ValueTypes DEF IInv, CleanInv, HasRow
<1>8. QED
  BY <1>5, <1>6, <1>7 DEF IInv

LEMMA DisconnectWipeKeeps == IInv /\ DisconnectWipe => IInv'
<1> SUFFICES ASSUME IInv, DisconnectWipe PROVE IInv'
  OBVIOUS
<1>1. /\ UNCHANGED <<known, newer, enabled, row, poll, conn, lock, onb, badge, clean>>
      /\ disc.pc = "wipe" /\ disc' = [disc EXCEPT !.pc = "drop"]
      /\ vault' = [vault EXCEPT ![disc.id] = Empty]
  BY DEF DisconnectWipe
<1>2. disc' \in [pc : {"idle", "stop", "wipe", "drop"}, id : Id] /\ disc'.pc = "drop"
        /\ disc'.id = disc.id
  BY <1>1 DEF IInv, Typed
<1>3. vault' \in [Id -> VaultType] /\ vault'[disc.id] = Empty
  BY <1>1, ValueTypes DEF IInv, Typed
<1>4. Typed' /\ Ordered' /\ BadgeInv' /\ PollInv'
  BY <1>1, <1>2, <1>3 DEF IInv, Typed, Ordered, BadgeInv, BadgeIsEarned, PollInv
<1>5. RowInv' /\ ConnInv'
  BY <1>1, SameRows, RowsKept, ConnKept DEF IInv
<1>6. CleanInv'
  BY <1>1, <1>2, <1>3 DEF IInv, CleanInv, HasRow
<1>7. QED
  BY <1>4, <1>5, <1>6 DEF IInv

LEMMA DisconnectDropKeeps == IInv /\ DisconnectDrop => IInv'
<1> SUFFICES ASSUME IInv, DisconnectDrop PROVE IInv'
  OBVIOUS
<1>1. /\ UNCHANGED <<known, newer, enabled, vault, poll, conn, lock, onb, badge, clean>>
      /\ disc.pc = "drop" /\ disc' = Idle
      /\ row' = [row EXCEPT ![disc.id] = NoRow]
  BY DEF DisconnectDrop
<1>2. Idle \in [pc : {"idle", "stop", "wipe", "drop"}, id : Id] /\ Idle.pc = "idle"
  BY ValueTypes DEF Idle
<1>3. /\ row' \in [App -> RowType] /\ \A j \in App : row'[j] = row[j] \/ row'[j] = NoRow
      /\ disc.id \in App => row'[disc.id] = NoRow
  BY <1>1, ValueTypes DEF IInv, Typed
<1>4. Typed' /\ Ordered' /\ BadgeInv' /\ PollInv'
  BY <1>1, <1>2, <1>3 DEF IInv, Typed, Ordered, BadgeInv, BadgeIsEarned, PollInv
<1>5. RowInv'
  BY <1>1, <1>3 DEF IInv, RowInv, HasRow
<1>6. ConnInv'
  <2>1. ASSUME NEW r \in Requests PROVE ConnInvOf(r)'
    <3>1. \A j \in App : HasRow(j)' => HasRow(j)
      BY <1>3 DEF HasRow
    <3>2. conn'[r] = conn[r] /\ lock' = lock /\ known' = known
      BY <1>1
    <3>3. conn[r].pc # "idle" => conn[r].id \in App
      BY DEF IInv, ConnInv, ConnInvOf
    <3>4. QED
      BY <3>1, <3>2, <3>3 DEF IInv, ConnInv, ConnInvOf, Holding, HasRow
  <2>2. QED
    BY <1>1, <2>1 DEF IInv, ConnInv
<1>7. CleanInv'
  BY <1>1, <1>2, <1>3 DEF IInv, CleanInv, HasRow
<1>8. QED
  BY <1>4, <1>5, <1>6, <1>7 DEF IInv

\* An onboarding leaves the App's flow alone, and is not beside a clean /disconnect.
LEMMA OnboardKeeps ==
  ASSUME IInv, UNCHANGED <<row, poll, conn, lock, disc, badge>>,
         known \subseteq known', Ordered', vault' \in [Id -> VaultType],
         onb' \in [pc : {"idle", "probe", "store"}, id : Id, token : Tokens \cup {"none"}],
         clean' = 0
  PROVE  IInv'
<1>1. Typed' /\ PollInv' /\ RowInv' /\ BadgeInv' /\ CleanInv'
  BY DEF IInv, Typed, PollInv, RowInv, HasRow, BadgeInv, BadgeIsEarned, CleanInv
<1>2. ConnInv'
  <2>1. ASSUME NEW r \in Requests PROVE ConnInvOf(r)'
    BY DEF IInv, ConnInv, ConnInvOf, HasRow
  <2>2. QED
    BY <2>1 DEF IInv, ConnInv
<1>3. QED
  BY <1>1, <1>2 DEF IInv

LEMMA OnboardingKeeps == IInv /\ (Onboard \/ OnboardUpsert \/ OnboardStore) => IInv'
<1> SUFFICES ASSUME IInv, Onboard \/ OnboardUpsert \/ OnboardStore PROVE IInv'
  OBVIOUS
<1>1. UNCHANGED <<row, poll, conn, lock, disc, badge>> /\ clean' = 0
  <2>1. UNCHANGED <<row, poll, conn, lock, disc, badge>>
    BY DEF Onboard, OnboardUpsert, OnboardStore, OnboardRest
  <2>2. onb.pc # "idle" => clean = 0
    BY DEF IInv, CleanInv
  <2>3. QED
    BY <2>1, <2>2 DEF Onboard, OnboardUpsert, OnboardStore
<1> DEFINE OnbType == [pc : {"idle", "probe", "store"}, id : Id, token : Tokens \cup {"none"}]
<1>2. IdleOnb \in OnbType /\ 0 \in Id /\ onb \in OnbType
  BY ValueTypes DEF IdleOnb, IInv, Typed
<1>3. CASE Onboard
  <2>1. PICK t \in {"pat"} \cup ActiveToken : onb' = [pc |-> "probe", id |-> 0, token |-> t]
    BY <1>3 DEF Onboard
  <2>2. t \in Tokens \cup {"none"}
    BY DEF ActiveToken, Newest, Tokens, IInv, Typed, Ordered, VaultType
  <2>3. onb' \in OnbType
    BY <1>2, <2>1, <2>2
  <2>4. UNCHANGED <<known, newer, enabled, vault>>
    BY <1>3 DEF Onboard
  <2>5. Ordered' /\ vault' \in [Id -> VaultType]
    BY <2>4 DEF IInv, Typed, Ordered
  <2>6. QED
    BY <1>1, <2>3, <2>4, <2>5, OnboardKeeps
<1>4. CASE OnboardUpsert
  <2>1. UNCHANGED vault
    BY <1>4 DEF OnboardUpsert
  <2>2. CASE onb' = IdleOnb /\ UNCHANGED <<known, newer, enabled>>
    <3>1. Ordered' /\ vault' \in [Id -> VaultType]
      BY <2>1, <2>2 DEF IInv, Typed, Ordered
    <3>2. QED
      BY <1>1, <1>2, <2>2, <3>1, OnboardKeeps
  <2>3. CASE \E i \in IF known = {} THEN {Pat} ELSE Newest(known) :
               /\ onb' = [onb EXCEPT !.pc = "store", !.id = i]
               /\ known' = known \cup {i} /\ enabled' = enabled \cup {i} /\ newer' = Touched({i})
    <3>1. PICK i \in IF known = {} THEN {Pat} ELSE Newest(known) :
               /\ onb' = [onb EXCEPT !.pc = "store", !.id = i]
               /\ known' = known \cup {i} /\ enabled' = enabled \cup {i} /\ newer' = Touched({i})
      BY <2>3
    <3>2. i \in Id
      BY ValueTypes DEF Newest, Pat, IInv, Ordered
    <3>3. onb' \in OnbType
      BY <1>2, <3>1, <3>2
    <3>4. Ordered'
      <4>1. {i} \in SUBSET Id /\ (\E j \in Id : {i} = {j}) /\ enabled' \subseteq known'
        BY <3>1, <3>2 DEF IInv, Ordered
      <4>2. QED
        BY <3>1, <4>1, TouchKeepsOrder DEF IInv
    <3>5. known \subseteq known' /\ vault' \in [Id -> VaultType]
      BY <2>1, <3>1 DEF IInv, Typed
    <3>6. QED
      BY <1>1, <3>3, <3>4, <3>5, OnboardKeeps
  <2>4. QED
    BY <1>4, <2>2, <2>3 DEF OnboardUpsert
<1>5. CASE OnboardStore
  <2> DEFINE new == [vault[onb.id] EXCEPT !.token = onb.token]
  <2>1. vault' = [vault EXCEPT ![onb.id] = new] /\ onb' = IdleOnb
    BY <1>5 DEF OnboardStore
  <2>2. new \in VaultType
    BY <1>2 DEF IInv, Typed, VaultType
  <2> HIDE DEF new
  <2>3. vault' \in [Id -> VaultType]
    BY <2>1, <2>2 DEF IInv, Typed
  <2>4. UNCHANGED <<known, newer, enabled>>
    BY <1>5 DEF OnboardStore
  <2>5. Ordered'
    BY <2>4 DEF IInv, Ordered
  <2>6. QED
    BY <1>1, <1>2, <2>1, <2>3, <2>4, <2>5, OnboardKeeps
<1>6. QED
  BY <1>3, <1>4, <1>5

-----------------------------------------------------------------------------
(* The push-access badge, and a restart. *)

\* Of a user GitHub could be asked about, only an accepted push is allowed.
LEMMA CanPushIsProbed ==
  ASSUME NEW a \in Answers
  PROVE  /\ CanPush(a) \in BOOLEAN
         /\ CanPush(a) /\ a.user \notin {"unreachable", "busy"} => a.probe = "pushed"
<1>1. CASE a.user \in {"unreachable", "busy"}
  BY <1>1 DEF CanPush
<1>2. CASE a.user = "refused"
  BY <1>2 DEF CanPush
<1>3. CASE a.user = "push"
  <2>1. CanPush(a) = PushAllowed(a)
    BY <1>3 DEF CanPush
  <2>2. QED
    BY <2>1, <1>3 DEF PushAllowed, ProbePasses
<1>4. QED
  BY <1>1, <1>2, <1>3 DEF Answers, UserAnswers

LEMMA DiagnoseKeeps == IInv /\ Diagnose => IInv'
<1> SUFFICES ASSUME IInv, Diagnose PROVE IInv'
  OBVIOUS
<1>1. UNCHANGED <<known, newer, enabled, row, vault, code, poll, conn, lock, disc, onb, clean>>
  BY DEF Diagnose
<1>2. PICK a \in Answers :
        badge' = {[push |-> CanPush(a), probed |-> a.probe = "pushed",
                   asked |-> a.user \notin {"unreachable", "busy"}]}
  BY DEF Diagnose
<1>3. BadgeInv'
  BY <1>2, CanPushIsProbed DEF BadgeInv, BadgeIsEarned
<1>4. RowInv' /\ ConnInv'
  BY <1>1, SameRows, RowsKept, ConnKept DEF IInv
<1>5. Typed' /\ Ordered' /\ PollInv' /\ CleanInv'
  BY <1>1 DEF IInv, Typed, Ordered, PollInv, CleanInv, HasRow
<1>6. QED
  BY <1>3, <1>4, <1>5 DEF IInv

LEMMA RestartKeeps == IInv /\ Restart => IInv'
<1> SUFFICES ASSUME IInv, Restart PROVE IInv'
  OBVIOUS
<1>1. /\ UNCHANGED <<known, newer, enabled, row, vault, badge>>
      /\ poll' = [p \in Poller |-> Off] /\ conn' = [r \in Requests |-> IdleConn] /\ lock' = {}
      /\ disc' = Idle /\ onb' = IdleOnb /\ clean' = 0
  BY DEF Restart
<1>2. /\ Idle \in [pc : {"idle", "stop", "wipe", "drop"}, id : Id]
      /\ IdleOnb \in [pc : {"idle", "probe", "store"}, id : Id, token : Tokens \cup {"none"}]
  BY ValueTypes DEF Idle, IdleOnb
<1>3. Typed' /\ Ordered' /\ BadgeInv' /\ PollInv' /\ RowInv' /\ CleanInv'
  BY <1>1, <1>2, ValueTypes
     DEF IInv, Typed, Ordered, BadgeInv, BadgeIsEarned, PollInv, RowInv, HasRow, CleanInv
<1>4. ConnInv'
  BY <1>1, ValueTypes DEF ConnInv, ConnInvOf, Holding
<1>5. QED
  BY <1>3, <1>4 DEF IInv

-----------------------------------------------------------------------------
(* The invariant. *)

LEMMA InitIInv == Init => IInv
<1> SUFFICES ASSUME Init PROVE IInv
  OBVIOUS
<1>1. /\ Idle \in [pc : {"idle", "stop", "wipe", "drop"}, id : Id]
      /\ IdleOnb \in [pc : {"idle", "probe", "store"}, id : Id, token : Tokens \cup {"none"}]
  BY ValueTypes DEF Idle, IdleOnb
<1>2. [Empty EXCEPT !.token = "pat"] \in VaultType
  BY ValueTypes DEF Empty, VaultType, Tokens
<1>3. vault \in [Id -> VaultType]
  BY <1>2, ValueTypes DEF Init
<1>4. Typed
  BY <1>1, <1>3, ValueTypes DEF Init, Typed
<1>5. Ordered
  BY ValueTypes DEF Init, Ordered, Pat
<1>6. PollInv /\ RowInv /\ ConnInv
  BY ValueTypes DEF Init, PollInv, RowInv, HasRow, ConnInv, ConnInvOf, Holding
<1>7. CleanInv /\ BadgeInv
  BY DEF Init, CleanInv, BadgeInv, BadgeIsEarned
<1>8. QED
  BY <1>4, <1>5, <1>6, <1>7 DEF IInv

LEMMA ConnectStepKeeps == ASSUME IInv, NEW r \in Requests, Connect(r) PROVE IInv'
BY ConnectResolveKeeps, ConnectInflightKeeps, ConnectIssueKeeps, ConnectStoreKeeps,
   ConnectStartKeeps DEF Connect

LEMMA StepKeeps == IInv /\ [Next]_vars => IInv'
<1> SUFFICES ASSUME IInv, [Next]_vars PROVE IInv'
  OBVIOUS
<1>1. CASE UNCHANGED vars
  <2>1. UNCHANGED <<known, newer, enabled, row, vault, poll, conn, lock, disc, onb, badge, clean>>
    BY <1>1 DEF vars
  <2>2. RowInv' /\ ConnInv'
    BY <2>1, SameRows, RowsKept, ConnKept DEF IInv
  <2>3. QED
    BY <2>1, <2>2 DEF IInv, Typed, Ordered, PollInv, CleanInv, HasRow, BadgeInv, BadgeIsEarned
<1>2. CASE Next
  BY <1>2, ConnectStepKeeps, LoopTickKeeps, PollNowKeeps, PollStepKeeps, UserKeeps,
     DisconnectBegins, DisconnectStopKeeps, DisconnectWipeKeeps, DisconnectDropKeeps,
     OnboardingKeeps, DiagnoseKeeps, RestartKeeps DEF Next
<1>3. QED
  BY <1>1, <1>2

LEMMA Invariance == Spec => []IInv
BY InitIInv, StepKeeps, PTL DEF Spec

\* The integrations, rows, credentials, lock and badge keep their types, and the integrations
\* their linear order, whatever connects, polls, disconnects and restarts do.
THEOREM TypeCorrect == Spec => []TypeOK
<1>1. IInv => TypeOK
  BY ValueTypes DEF IInv, Typed, Ordered, RowInv, BadgeInv, TypeOK, VaultType
<1>2. QED
  BY <1>1, Invariance, PTL

\* Any number of /connect requests, beside pollers, a /disconnect and restarts, leave at most
\* one installation row (github_app.py's connect lock).
THEOREM InstallationIsOne == Spec => []OneInstallation
<1>1. IInv => OneInstallation
  <2> SUFFICES ASSUME IInv PROVE OneInstallation
    OBVIOUS
  <2> DEFINE S == {i \in App : HasRow(i)}
  <2>1. \A i, j \in S : i = j
    BY DEF IInv, RowInv
  <2>2. CASE S = {}
    BY <2>2, FS_EmptySet DEF OneInstallation
  <2>3. CASE S # {}
    <3>1. PICK i : S = {i}
      BY <2>1, <2>3
    <3>2. Cardinality(S) = 1
      BY <3>1, FS_Singleton
    <3>3. QED
      BY <3>2 DEF OneInstallation
  <2>4. QED
    BY <2>2, <2>3
<1>2. QED
  BY <1>1, Invariance, PTL

\* After a /disconnect no other request ran beside, no task, poll answered late or later
\* /connect puts a token, a device code or a row of that integration back.
THEOREM DisconnectIsClean == Spec => []DisconnectCleans
<1>1. IInv => DisconnectCleans
  BY DEF IInv, CleanInv, DisconnectCleans
<1>2. QED
  BY <1>1, Invariance, PTL

\* No badge is green on a token GitHub was asked about unless a push was accepted.
THEOREM BadgesAreEarned == Spec => []BadgeIsEarned
<1>1. IInv => BadgeIsEarned
  BY DEF IInv, BadgeInv
<1>2. QED
  BY <1>1, Invariance, PTL

-----------------------------------------------------------------------------
(* The installation of a flow, step by step. *)

InstallationKept ==
  \A i \in App : row[i].install # 0 /\ row'[i].code = row[i].code
                   => row'[i].install = row[i].install

\* A row that goes takes its code along, and one that comes had no installation.
LEMMA RowReplaced ==
  ASSUME IInv, NEW i, NEW new, row' = [row EXCEPT ![i] = new],
         i \in App => ~ HasRow(i) \/ new = NoRow
  PROVE  InstallationKept
<1>1. ASSUME NEW j \in App, row[j].install # 0
      PROVE  HasRow(j) /\ row[j].code # 0
  BY <1>1, ValueTypes DEF HasRow, IInv, RowInv
<1>2. ASSUME NEW j \in App, row[j].install # 0, row'[j].code = row[j].code
      PROVE  row'[j].install = row[j].install
  <2>1. CASE i = j
    <3>1. new = NoRow /\ row'[j] = NoRow
      BY <1>1, <1>2, <2>1 DEF IInv, Typed
    <3>2. QED
      BY <1>1, <1>2, <3>1, ValueTypes
  <2>2. CASE i # j
    BY <1>2, <2>2 DEF IInv, Typed
  <2>3. QED
    BY <2>1, <2>2
<1>3. QED
  BY <1>2 DEF InstallationKept

LEMMA InstallationKeptStep == IInv /\ [Next]_vars => InstallationKept
<1> SUFFICES ASSUME IInv, [Next]_vars PROVE InstallationKept
  OBVIOUS
<1>1. CASE UNCHANGED row
  BY <1>1 DEF InstallationKept
<1>2. CASE RowsStay
  BY <1>2 DEF RowsStay, InstallationKept
<1>3. CASE \E p \in Poller : PollStep(p)
  BY <1>2, <1>3, PollStepEffect DEF IInv
<1>4. CASE \E c \in Codes, n \in Installs : Attach(c, n)
  <2>1. PICK n \in Installs, i \in App : Unbound(i) /\ Bind(i, n)
    BY <1>4 DEF Attach
  <2>2. RowsStay
    BY <2>1, BindUpdate DEF IInv, Typed, RowsStay, Statuses, PendingStatuses
  <2>3. QED
    BY <1>2, <2>2
<1>5. CASE \E r \in Requests : Connect(r)
  <2>1. PICK r \in Requests : Connect(r)
    BY <1>5
  <2>2. CASE ConnectInflight(r)
    <3>1. UNCHANGED row \/ row' = [row EXCEPT ![conn[r].id] = NoRow]
      BY <2>2 DEF ConnectInflight
    <3>2. QED
      BY <1>1, <3>1, RowReplaced
  <2>3. CASE ConnectIssue(r)
    <3>1. UNCHANGED row \/ \E new : row' = [row EXCEPT ![conn[r].id] = new]
      BY <2>3 DEF ConnectIssue
    <3>2. ~ HasRow(conn[r].id)
      BY <2>3 DEF ConnectIssue, IInv, ConnInv, ConnInvOf
    <3>3. QED
      BY <1>1, <3>1, <3>2, RowReplaced
  <2>4. QED
    BY <1>1, <2>1, <2>2, <2>3 DEF Connect, ConnectResolve, ConnectStore, ConnectStart
<1>6. CASE DisconnectDrop
  BY <1>6, RowReplaced DEF DisconnectDrop
<1>7. QED
  BY <1>1, <1>3, <1>4, <1>5, <1>6
     DEF Next, LoopTick, LoopCap, PollNow, Authorize, DenyOrExpire, Becomes, Disconnect,
         DisconnectStop, DisconnectWipe, Onboard, OnboardUpsert, OnboardStore, OnboardRest,
         Diagnose, Restart, vars

\* An installation bound to a device flow is never replaced: not by a second callback, nor
\* by a stage that a late poll put back (attach_installation_id's guard).
THEOREM InstallationStands == Spec => InstallationIsKept
<1>1. IInv /\ [Next]_vars => [InstallationKept]_vars
  BY InstallationKeptStep
<1>2. [][InstallationKept]_vars => InstallationIsKept
  BY DEF InstallationKept, InstallationIsKept
<1>3. QED
  BY <1>1, <1>2, Invariance, PTL DEF Spec
=============================================================================
