------------------------------ MODULE AiConnect ------------------------------
(***************************************************************************)
(* The routes over the AI service: a pasted or detected key, the OpenRouter *)
(* OAuth handshake with its one-shot listener, the model picker and         *)
(* /disconnect, beside the settings routes and restarts of the process.     *)
(***************************************************************************)
EXTENDS AiProvider

AiInit ==
  /\ VaultInit
  /\ setting = "none" /\ cache = EmptyCache /\ ready = FALSE
  /\ req = [a \in Actors |-> IdleReq] /\ sess = [s \in Sessions |-> NoSession]
  /\ probe = NoProbe /\ legacy \in BOOLEAN

Begins(a, to, id, p) == req' = [req EXCEPT ![a] = [pc |-> to, id |-> id, prov |-> p]]
RouteRest == UNCHANGED <<dbVars, setting, cache, ready, probe, legacy>>

-----------------------------------------------------------------------------
(* POST /byok, /autodetect/adopt, /disconnect and PUT /model, from their first read. *)

\* Only a verdict of "ok" lets the key in, and only with a vault to keep it.
Connect(r, p, verdict) ==
  /\ verdict = "ok" /\ vault # "none" /\ req[r].pc = "idle"
  /\ Begins(r, "drop", Active, p) /\ UNCHANGED sess /\ RouteRest

Byok(r) ==
  \E p \in Providers, host \in HostKinds : \E v \in Verdicts(p, host) : Connect(r, p, v)

\* autodetect.scan finds keys in the environment and in other tools' files: never Ollama's.
Detectable == {p \in Providers : Keyed(p)}
Adopt(r) == \E p \in Detectable : \E v \in Verdicts(p, "public") : Connect(r, p, v)

Disconnect(r) ==
  /\ vault # "none" /\ req[r].pc = "idle" /\ Active # NoId
  /\ Begins(r, "remove", Active, "none") /\ UNCHANGED sess /\ RouteRest

\* The model id must be in the active provider's namespace.
SetModel(r) ==
  /\ vault # "none" /\ req[r].pc = "idle" /\ Active # NoId
  /\ Begins(r, "model", NoId, cfg[Active]) /\ UNCHANGED sess /\ RouteRest

-----------------------------------------------------------------------------
(* The OAuth handshake. *)

\* /openrouter/start: the port serves one listener at a time; a refused session is removed.
OAuthStart(s) ==
  /\ vault # "none" /\ req[s].pc = "idle"
  /\ \A t \in Sessions : ~sess[t].up
  /\ sess' = [sess EXCEPT ![s] = [st |-> "waiting", up |-> TRUE]]
  /\ UNCHANGED req /\ RouteRest

\* The browser arrives with a code, a first time or again.
OAuthCallback(s) ==
  /\ sess[s].up /\ req[s].pc = "idle"
  /\ Begins(s, "exchange", NoId, "openrouter") /\ UNCHANGED sess /\ RouteRest

\* OpenRouter trades the code for a key, whose save begins by reading what is active; or
\* it refuses, and the session is in error whatever it was.
OAuthExchange(s) ==
  /\ req[s].pc = "exchange"
  /\ \/ Begins(s, "drop", Active, "openrouter") /\ UNCHANGED sess
     \/ Ends(s, "error")
  /\ RouteRest

\* Any other request to the port.
OAuthStray(s) ==
  /\ sess[s].up /\ sess[s].st = "waiting"
  /\ sess' = [sess EXCEPT ![s].st = "error"]
  /\ UNCHANGED req /\ RouteRest

\* The listener's five minutes.
OAuthTimer(s) ==
  /\ sess[s].up
  /\ sess' = [sess EXCEPT ![s] = [st |-> IF @.st \in Terminal THEN @.st ELSE "timeout",
                                  up |-> FALSE]]
  /\ UNCHANGED req /\ RouteRest

\* /openrouter/status frees the listener of a session that is over.
OAuthPoll(s) ==
  /\ sess[s].up /\ sess[s].st \in Terminal
  /\ sess' = [sess EXCEPT ![s].up = FALSE]
  /\ UNCHANGED req /\ RouteRest

OAuth(s) ==
  OAuthStart(s) \/ OAuthCallback(s) \/ OAuthExchange(s) \/ OAuthStray(s)
    \/ OAuthTimer(s) \/ OAuthPoll(s)

Route(r) == Byok(r) \/ Adopt(r) \/ Disconnect(r) \/ SetModel(r)

AiNext ==
  \/ \E r \in Requests : Route(r) \/ Remove(r) \/ StoreModel(r)
  \/ \E a \in Actors : Save(a) \/ Hook(a)
  \/ \E s \in Sessions : OAuth(s)
  \/ Probe
  \/ Restart
  \/ SettingsRoute /\ UNCHANGED memVars

AiSpec == AiInit /\ [][AiNext]_aiVars

-----------------------------------------------------------------------------
(* Properties. *)

Quiet == (\A a \in Actors : req[a].pc \in {"idle", "exchange"}) /\ probe.pc \in {"done", "ask"}

\* The rows respect the schema's keys, the requests and sessions are in states the code
\* has, and a session that waits has the listener that will answer or time it out.
AiTypeOK ==
  /\ VaultTypeOK
  /\ setting \in Providers \cup {"none"}
  /\ cache \in [id : Id \cup {NoId}, model : Providers \cup {"none"}]
  /\ ready \in BOOLEAN /\ legacy \in BOOLEAN
  /\ req \in [Actors -> [pc : {"idle", "drop", "store", "insert", "sync", "remove", "model",
                               "hook", "cached", "exchange"},
                         id : Id \cup {NoId}, prov : Providers \cup {"none"}]]
  /\ probe \in [pc : {"done", "env", "model", "ask"}, id : Id \cup {NoId}]
  /\ sess \in [Sessions -> [st : Terminal \cup {"none", "waiting"}, up : BOOLEAN]]
  /\ \A s \in Sessions : sess[s].st = "waiting" => sess[s].up

\* With no change under way, an agent run is given what the tables say: the key of the
\* active provider and the model chosen for it (or nothing, when the vault cannot read
\* them), however the requests, handlers and the boot probe interleaved; with both there,
\* a run can be built from them.
CacheIsCurrent ==
  Quiet /\ ~behind =>
    /\ cache = IF vault = "none" \/ EnvRaises THEN EmptyCache
               ELSE [id |-> EnvOf, model |-> ModelOf]
    /\ cache.id # NoId /\ cache.model # "none" => Builds

\* A key whose row is gone is still handed to runs only while a request that will refresh
\* the cache is on its way to its hook, or after one failed before it (or a settings route
\* went past it).
NoKeyOutlivesItsRow ==
  cache.id # NoId /\ ~InAi(cache.id) =>
    behind \/ \E a \in Actors : req[a].pc \in {"store", "insert", "sync", "hook"}

\* A restart never replaces what the user has connected: the migration of a legacy key
\* is for an installation that has nothing.
RestartKeepsTheProvider == [][Restart /\ ai # <<>> => ai' = ai]_aiVars
=============================================================================
