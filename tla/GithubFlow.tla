----------------------------- MODULE GithubFlow -----------------------------
(***************************************************************************)
(* The GitHub App device flow: POST /connect under its lock, the background *)
(* polling task of each integration and the /poll-now request that runs    *)
(* the same step beside it, the installation callback, /disconnect, and    *)
(* POST /onboarding/repo, which writes the same integrations and the same  *)
(* vault.  Every action ends at an await.                                  *)
(***************************************************************************)
EXTENDS Naturals, FiniteSets, GithubClient

CONSTANTS
  MaxId,       \* bound: integrations the App flow creates
  MaxCode,     \* bound: device codes issued
  Installs,    \* installation ids GitHub hands out
  Requests     \* POST /connect requests

ASSUME BoundsAreNat == MaxId \in Nat /\ MaxCode \in Nat

VARIABLES
  known,     \* GitHub integrations
  newer,     \* <<i, j>>: i was updated after j
  enabled,   \* the enabled ones
  row,       \* github_app_installation, by integration
  vault,     \* what the vault keeps for each integration: a token, a device code
  code,      \* GitHub's side of each device code
  poll,      \* the pollers: one task per integration, and the /poll-now request
  conn,      \* the /connect requests
  lock,      \* who holds the connect lock
  disc,      \* the /disconnect request
  onb,       \* the /onboarding/repo request
  badge,     \* the last push-access diagnosis, and what it rests on
  clean      \* the last integration disconnected with no request beside it, and no
             \* /poll-now or /onboarding/repo since (0: none)

vars == <<known, newer, enabled, row, vault, code, poll, conn, lock, disc, onb, badge, clean>>

Pat == 0                       \* the integration of a personal access token
App == 1..MaxId
Id == {Pat} \cup App
Codes == 1..MaxCode
Tokens == {"pat", "app"}       \* the user's own, or a device flow's
Now == 0                       \* the poller of a /poll-now request
Poller == {Now} \cup App

NoRow == [status |-> "none", code |-> 0, install |-> 0]    \* install 0: none bound
Empty == [token |-> "none", device |-> 0]
PendingStatuses == {"installation_pending", "device_pending"}
Statuses == PendingStatuses \cup {"connected", "failed"}     \* failed: expired, denied, error
IsPending(i) == row[i].status \in PendingStatuses
HasRow(i) == row[i] # NoRow

Off == [pc |-> "off", id |-> 0, bound |-> FALSE, code |-> 0]
IdleConn == [pc |-> "idle", id |-> 0, code |-> 0]
Idle == [pc |-> "idle", id |-> 0]
IdleOnb == [pc |-> "idle", id |-> 0, token |-> "none"]

\* list_integrations, ORDER BY updated_at DESC: its first in S; an update moves S to the front.
Newest(S) == {i \in S : \A j \in S \ {i} : <<i, j>> \in newer}
Touched(S) == {p \in newer : p[1] \in S \/ p[2] \notin S} \cup (S \X (known \ S))

\* The token of the newest enabled integration, which clones, scans and pushes use.
ActiveToken == {vault[i].token : i \in Newest(enabled)} \ {"none"}

Init ==
  /\ newer = {}
  /\ \/ known = {} /\ enabled = {} /\ vault = [i \in Id |-> Empty]
     \/ /\ known = {Pat} /\ enabled = {Pat}
        /\ vault = [i \in Id |-> IF i = Pat THEN [Empty EXCEPT !.token = "pat"] ELSE Empty]
  /\ row = [i \in App |-> NoRow]
  /\ code = [c \in Codes |-> "unissued"]
  /\ poll = [p \in Poller |-> Off]
  /\ conn = [r \in Requests |-> IdleConn] /\ lock = {}
  /\ disc = Idle /\ onb = IdleOnb
  /\ badge = {} /\ clean = 0

-----------------------------------------------------------------------------
(* POST /connect. *)

Goes(r, to, i, c) == conn' = [conn EXCEPT ![r] = [pc |-> to, id |-> i, code |-> c]]
ConnRest == UNCHANGED <<poll, disc, onb, badge, clean>>

\* Mutation: two requests at a time.
LockFreeAlways(r) == TRUE

LockFree(r) == lock = {}

\* _resolve_or_create_app_integration.
ConnectResolve(r) ==
  /\ conn[r].pc = "idle" /\ LockFree(r) /\ lock' = lock \cup {r}
  /\ \/ \E i \in App : HasRow(i) /\ Goes(r, "resolved", i, 0) /\ UNCHANGED <<known, newer>>
     \/ /\ \A i \in App : ~ HasRow(i)
        /\ \E i \in App \ known : /\ \A j \in App : j < i => j \in known
                                  /\ known' = known \cup {i} /\ newer' = Touched({i})
                                  /\ Goes(r, "resolved", i, 0)
  /\ clean' = IF disc.pc = "idle" THEN clean ELSE 0
  /\ UNCHANGED <<enabled, row, vault, code, poll, disc, onb, badge>>

\* initiate: a pending row is handed back, a connected one refused, any other wiped.
ConnectInflight(r) ==
  LET i == conn[r].id IN
  /\ conn[r].pc = "resolved"
  /\ \/ IsPending(i) /\ Goes(r, "start", i, 0) /\ lock' = lock \ {r} /\ UNCHANGED row
     \/ row[i].status = "connected" /\ Goes(r, "idle", 0, 0) /\ lock' = lock \ {r} /\ UNCHANGED row
     \/ /\ ~ IsPending(i) /\ row[i].status # "connected"
        /\ row' = [row EXCEPT ![i] = NoRow] /\ Goes(r, "wiped", i, 0) /\ UNCHANGED lock
  /\ UNCHANGED <<known, newer, enabled, vault, code>> /\ ConnRest

\* request_device_code fails, or the row is created for the code it returned.
ConnectIssue(r) ==
  /\ conn[r].pc = "wiped"
  /\ \/ Goes(r, "idle", 0, 0) /\ lock' = lock \ {r} /\ UNCHANGED <<row, code>>
     \/ \E c \in Codes :
          /\ code[c] = "unissued" /\ \A d \in Codes : d < c => code[d] # "unissued"
          /\ code' = [code EXCEPT ![c] = "pending"]
          /\ row' = [row EXCEPT ![conn[r].id] =
                       [status |-> "installation_pending", code |-> c, install |-> 0]]
          /\ Goes(r, "issued", conn[r].id, c) /\ UNCHANGED lock
  /\ UNCHANGED <<known, newer, enabled, vault>> /\ ConnRest

ConnectStore(r) ==
  /\ conn[r].pc = "issued"
  /\ vault' = [vault EXCEPT ![conn[r].id].device = conn[r].code]
  /\ Goes(r, "start", conn[r].id, 0) /\ lock' = lock \ {r}
  /\ UNCHANGED <<known, newer, enabled, row, code>> /\ ConnRest

\* start: no second task while one is running.
ConnectStart(r) ==
  LET i == conn[r].id IN
  /\ conn[r].pc = "start" /\ Goes(r, "idle", 0, 0)
  /\ poll' = [poll EXCEPT ![i] = IF @.pc = "off" THEN [Off EXCEPT !.pc = "sleep", !.id = i] ELSE @]
  /\ UNCHANGED <<known, newer, enabled, row, vault, code, lock, disc, onb, badge, clean>>

Connect(r) ==
  ConnectResolve(r) \/ ConnectInflight(r) \/ ConnectIssue(r) \/ ConnectStore(r) \/ ConnectStart(r)

-----------------------------------------------------------------------------
(* run_poll_step, by the task of an integration or by /poll-now. *)

Rest == UNCHANGED <<conn, lock, disc, onb, badge>>

\* A task sleeps until its next tick; the request is over.
Done(p) == IF p = Now THEN Off ELSE [Off EXCEPT !.pc = "sleep", !.id = p]
Steps(p, to) == poll' = [poll EXCEPT ![p].pc = to]
Ends(p) == poll' = [poll EXCEPT ![p] = Done(p)]

\* A tick of the loop reads the row; on a row that is over, or none, the task ends.
LoopTick(i) ==
  /\ poll[i].pc = "sleep"
  /\ poll' = [poll EXCEPT ![i] =
       IF IsPending(i) THEN [@ EXCEPT !.pc = "read", !.bound = row[i].install # 0] ELSE Off]
  /\ UNCHANGED <<known, newer, enabled, row, vault, code, clean>> /\ Rest

\* The loop's half hour is over; the row stays.
LoopCap(i) ==
  /\ poll[i].pc = "sleep" /\ IsPending(i) /\ code[row[i].code] = "over"
  /\ poll' = [poll EXCEPT ![i] = Off]
  /\ UNCHANGED <<known, newer, enabled, row, vault, code, clean>> /\ Rest

PollNow ==
  /\ poll[Now].pc = "off"
  /\ \E i \in App :
       /\ IsPending(i)
       /\ poll' = [poll EXCEPT ![Now] =
                     [Off EXCEPT !.pc = "read", !.id = i, !.bound = row[i].install # 0]]
  /\ clean' = 0
  /\ UNCHANGED <<known, newer, enabled, row, vault, code>> /\ Rest

\* The device code; without one the row fails.
ReadCode(p) ==
  LET c == vault[poll[p].id].device IN
  /\ poll[p].pc = "read"
  /\ poll' = [poll EXCEPT ![p] =
       IF c = 0 THEN [@ EXCEPT !.pc = "failing"] ELSE [@ EXCEPT !.pc = "sent", !.code = c]]
  /\ UNCHANGED <<known, newer, enabled, row, vault, code, clean>> /\ Rest

\* GitHub's answer, by the state of the code when it was asked: a token, and the code is
\* spent; still pending; or denied, expired, spent. The answer may be lost, or be to
\* slow down: the next tick asks again.
Answer(p) ==
  LET c == poll[p].code
      Answered(to) == poll' = [poll EXCEPT ![p].pc = to, ![p].code = 0] IN
  /\ poll[p].pc = "sent"
  /\ \/ code[c] = "authorized" /\ code' = [code EXCEPT ![c] = "over"] /\ Answered("granted")
     \/ code[c] = "pending" /\ UNCHANGED code /\ Answered("pending")
     \/ code[c] = "over" /\ UNCHANGED code /\ Answered("failing")
     \/ code[c] # "authorized" /\ UNCHANGED code /\ Ends(p)
     \/ code[c] = "authorized" /\ code' = [code EXCEPT ![c] = "over"] /\ Ends(p)
  /\ UNCHANGED <<known, newer, enabled, row, vault, clean>> /\ Rest

\* A status written by the pollers, if the row is still there.
SetStatus(i, s) == row' = [row EXCEPT ![i] = IF @ = NoRow THEN @ ELSE [@ EXCEPT !.status = s]]

\* _apply_poll_result while the user has not answered: the stage is the one the
\* row read before asking GitHub was in.
ApplyPending(p) ==
  /\ poll[p].pc = "pending"
  /\ SetStatus(poll[p].id, IF poll[p].bound THEN "device_pending" ELSE "installation_pending")
  /\ Ends(p)
  /\ UNCHANGED <<known, newer, enabled, vault, code, clean>> /\ Rest

\* _terminate: the device code first, then the status.
ApplyFailure(p) ==
  /\ poll[p].pc = "failing"
  /\ vault' = [vault EXCEPT ![poll[p].id].device = 0]
  /\ Steps(p, "terminate")
  /\ UNCHANGED <<known, newer, enabled, row, code, clean>> /\ Rest

Terminate(p) ==
  /\ poll[p].pc = "terminate" /\ SetStatus(poll[p].id, "failed") /\ Ends(p)
  /\ UNCHANGED <<known, newer, enabled, vault, code, clean>> /\ Rest

\* The token is the connection: it is stored first.
StoreToken(p) ==
  /\ poll[p].pc = "granted"
  /\ vault' = [vault EXCEPT ![poll[p].id].token = "app"]
  /\ Steps(p, "stored")
  /\ UNCHANGED <<known, newer, enabled, row, code, clean>> /\ Rest

DropCode(p) ==
  /\ poll[p].pc = "stored"
  /\ vault' = [vault EXCEPT ![poll[p].id].device = 0]
  /\ Steps(p, "login")
  /\ UNCHANGED <<known, newer, enabled, row, code, clean>> /\ Rest

\* mark_connected after fetch_user; a row gone meanwhile ends the poller in an assertion.
MarkConnected(p) ==
  /\ poll[p].pc = "login"
  /\ SetStatus(poll[p].id, "connected")
  /\ IF HasRow(poll[p].id) THEN Steps(p, "connected") ELSE poll' = [poll EXCEPT ![p] = Off]
  /\ UNCHANGED <<known, newer, enabled, vault, code, clean>> /\ Rest

Enable(p) ==
  /\ poll[p].pc = "connected"
  /\ enabled' = enabled \cup {poll[p].id} /\ newer' = Touched({poll[p].id})
  /\ Steps(p, "enabled")
  /\ UNCHANGED <<known, row, vault, code, clean>> /\ Rest

\* Every other enabled GitHub integration is archived.
Archive(p) ==
  LET others == enabled \ {poll[p].id} IN
  /\ poll[p].pc = "enabled"
  /\ enabled' = enabled \cap {poll[p].id}
  /\ newer' = Touched(others)
  /\ Ends(p)
  /\ UNCHANGED <<known, row, vault, code, clean>> /\ Rest

PollStep(p) ==
  \/ ReadCode(p) \/ Answer(p) \/ ApplyPending(p) \/ ApplyFailure(p) \/ Terminate(p)
  \/ StoreToken(p) \/ DropCode(p) \/ MarkConnected(p) \/ Enable(p) \/ Archive(p)

-----------------------------------------------------------------------------
(* The user on github.com. *)

Becomes(c, s) ==
  /\ code[c] = "pending" /\ code' = [code EXCEPT ![c] = s]
  /\ UNCHANGED <<known, newer, enabled, row, vault, poll, clean>> /\ Rest

Authorize(c) == Becomes(c, "authorized")
DenyOrExpire(c) == Becomes(c, "over")

\* Mutation: a row that has an installation takes another.
UnboundAlways(i) == row[i].status = "installation_pending"

Unbound(i) == row[i].status = "installation_pending" /\ row[i].install = 0

Bind(i, n) == row' = [row EXCEPT ![i].install = n, ![i].status = "device_pending"]

\* The /setup callback, or the id pasted by hand, for a state issued earlier. The same
\* id again changes nothing, another one is refused.
Attach(c, n) ==
  /\ \E i \in App :
       /\ row[i].code = c /\ Unbound(i) /\ Bind(i, n)
  /\ UNCHANGED <<known, newer, enabled, vault, code, poll, clean>> /\ Rest

-----------------------------------------------------------------------------
(* POST /disconnect, which takes no lock. *)

Disconnect ==
  /\ disc.pc = "idle"
  /\ \E i \in App :
       /\ HasRow(i) /\ disc' = [pc |-> "stop", id |-> i]
       /\ enabled' = enabled \ {i} /\ newer' = Touched({i})
       /\ clean' = IF poll[Now].pc = "off" /\ onb.pc = "idle" /\ \A r \in Requests : conn[r].pc = "idle"
                     THEN i ELSE 0
  /\ UNCHANGED <<known, row, vault, code, poll, conn, lock, onb, badge>>

\* Mutation: the task keeps polling.
StoppedNot(i) == poll

\* stop: the task is cancelled at the await it is in.
Stopped(i) == [poll EXCEPT ![i] = Off]

DisconnectStop ==
  /\ disc.pc = "stop" /\ disc' = [disc EXCEPT !.pc = "wipe"]
  /\ poll' = Stopped(disc.id)
  /\ UNCHANGED <<known, newer, enabled, row, vault, code, conn, lock, onb, badge, clean>>

DisconnectWipe ==
  /\ disc.pc = "wipe" /\ disc' = [disc EXCEPT !.pc = "drop"]
  /\ vault' = [vault EXCEPT ![disc.id] = Empty]
  /\ UNCHANGED <<known, newer, enabled, row, code, poll, conn, lock, onb, badge, clean>>

DisconnectDrop ==
  /\ disc.pc = "drop" /\ disc' = Idle
  /\ row' = [row EXCEPT ![disc.id] = NoRow]
  /\ UNCHANGED <<known, newer, enabled, vault, code, poll, conn, lock, onb, badge, clean>>

-----------------------------------------------------------------------------
(* POST /onboarding/repo. *)

OnboardRest == UNCHANGED <<row, code, poll, conn, lock, disc, badge>>

\* A token from the form, or the active integration's; the repository is then probed.
Onboard ==
  /\ onb.pc = "idle"
  /\ \E t \in {"pat"} \cup ActiveToken : onb' = [pc |-> "probe", id |-> 0, token |-> t]
  /\ clean' = 0
  /\ UNCHANGED <<known, newer, enabled, vault>> /\ OnboardRest

\* The probe refuses the token, or the newest GitHub integration is enabled; one is
\* created when there is none.
OnboardUpsert ==
  /\ onb.pc = "probe"
  /\ \/ onb' = IdleOnb /\ UNCHANGED <<known, newer, enabled>>
     \/ \E i \in IF known = {} THEN {Pat} ELSE Newest(known) :
          /\ onb' = [onb EXCEPT !.pc = "store", !.id = i]
          /\ known' = known \cup {i} /\ enabled' = enabled \cup {i} /\ newer' = Touched({i})
  /\ UNCHANGED <<vault, clean>> /\ OnboardRest

OnboardStore ==
  /\ onb.pc = "store" /\ onb' = IdleOnb
  /\ vault' = [vault EXCEPT ![onb.id].token = onb.token]
  /\ UNCHANGED <<known, newer, enabled, clean>> /\ OnboardRest

-----------------------------------------------------------------------------
\* GET /diagnose, kept until it is refreshed. It reads nothing but the token (bound: it
\* is asked for at rest).
Diagnose ==
  /\ ActiveToken # {} /\ badge = {} /\ lock = {} /\ disc = Idle /\ onb = IdleOnb
  /\ \A p \in Poller : poll[p].pc = "off"
  /\ \E a \in Answers :
       badge' = {[push |-> CanPush(a), probed |-> a.probe = "pushed",
                  asked |-> a.user \notin {"unreachable", "busy"}]}
  /\ UNCHANGED <<known, newer, enabled, row, vault, code, poll, conn, lock, disc, onb, clean>>

\* A restart: tasks and requests are gone, and nothing restarts a task.
Restart ==
  /\ poll' = [p \in Poller |-> Off] /\ conn' = [r \in Requests |-> IdleConn] /\ lock' = {}
  /\ disc' = Idle /\ onb' = IdleOnb /\ clean' = 0
  /\ UNCHANGED <<known, newer, enabled, row, vault, code, badge>>

Next ==
  \/ \E r \in Requests : Connect(r)
  \/ \E i \in App : LoopTick(i) \/ LoopCap(i)
  \/ PollNow \/ \E p \in Poller : PollStep(p)
  \/ \E c \in Codes : Authorize(c) \/ DenyOrExpire(c) \/ \E n \in Installs : Attach(c, n)
  \/ Disconnect \/ DisconnectStop \/ DisconnectWipe \/ DisconnectDrop
  \/ Onboard \/ OnboardUpsert \/ OnboardStore
  \/ Diagnose \/ Restart

Spec == Init /\ [][Next]_vars

-----------------------------------------------------------------------------
(* Properties. *)

TypeOK ==
  /\ enabled \subseteq known /\ known \subseteq Id
  /\ \A i, j \in known : i # j => (<<i, j>> \in newer <=> <<j, i>> \notin newer)
  /\ \A i \in App : HasRow(i) => i \in known /\ row[i].status \in Statuses /\ row[i].code \in Codes
  /\ \A i \in Id : vault[i].token \in Tokens \cup {"none"} /\ vault[i].device \in 0..MaxCode
  /\ lock \subseteq Requests /\ badge \subseteq [push : BOOLEAN, probed : BOOLEAN, asked : BOOLEAN]

\* Two /connect requests never leave two installations behind, so /status,
\* /poll-now and /disconnect, which each pick one row, mean the same one.
OneInstallation == Cardinality({i \in App : HasRow(i)}) <= 1

\* An installation id once bound to a device flow is never replaced, even when a
\* poll answered late has put the flow's stage back.
InstallationIsKept ==
  [][\A i \in App : row[i].install # 0 /\ row'[i].code = row[i].code
        => row'[i].install = row[i].install]_vars

\* After a /disconnect that no other request ran beside, nothing of the App is left:
\* not the token, not a device code, not the row; the polling task puts none back.
DisconnectCleans ==
  clean # 0 /\ disc.pc = "idle" =>
    vault[clean] = Empty /\ ~ HasRow(clean)

\* A green badge stands on a push the server accepted, unless GitHub could not be
\* asked at all.
BadgeIsEarned ==
  \A b \in badge : b.push /\ b.asked => b.probed
=============================================================================
