----------------------------- MODULE AiProvider -----------------------------
(***************************************************************************)
(* AIIntegrationService and what main.py keeps of it in memory: connecting, *)
(* disconnecting and choosing a model, each a series of awaits on one      *)
(* database connection, the key-change hook that refreshes the cached      *)
(* environment and model every agent run is given, and the start of the    *)
(* process with its legacy migration and its background probe.             *)
(***************************************************************************)
EXTENDS CredentialVault

CONSTANTS
  Requests,     \* requests under way at a time
  Sessions      \* OAuth sessions; a session's callback handler saves like a request

VARIABLES
  setting,      \* app_setting(model): the provider whose namespace the model id is in
  cache,        \* ai_env_cache, the integration whose key it holds, and ai_model_cache
  ready,        \* ai_provider_credential_ok
  req,          \* the requests and the callback handlers under way
  sess,         \* the OAuth sessions: what /status answers, and whether the listener is up
  probe,        \* the background task that verifies the credential after a start
  legacy        \* an api_key:* setting of an older version, which nothing deletes

dbVars == <<cfg, cred, ai, vault, behind>>
memVars == <<setting, cache, ready, req, sess, probe, legacy>>
aiVars == <<dbVars, memVars>>

Actors == Requests \cup Sessions
IdleReq == [pc |-> "idle", id |-> NoId, prov |-> "none"]
NoProbe == [pc |-> "done", id |-> NoId]
EmptyCache == [id |-> NoId, model |-> "none"]
NoSession == [st |-> "none", up |-> FALSE]
Terminal == {"connected", "error", "timeout"}

\* The catalog.
Keyed(p) == p # "ollama"
DefaultOf(p) == IF p = "ollama" THEN "none" ELSE p

\* _resolve_canonical_model: the stored model if it is in the provider's namespace.
Canonical(p) == IF setting = p THEN p ELSE DefaultOf(p)

\* resolve_env_for_workspace raises when the active key was encrypted under another key;
\* a missing or blank credential leaves the environment empty.
EnvRaises == Active # NoId /\ Keyed(cfg[Active]) /\ Undecryptable(Active)
HasEnv(i) == Keyed(cfg[i]) => ~Missing(i) /\ cred[i].val # "blank"
EnvOf == IF Active # NoId /\ HasEnv(Active) THEN Active ELSE NoId
ModelOf == IF Active = NoId THEN "none" ELSE Canonical(cfg[Active])

\* build_model over the two caches: the model's namespace picks the key an agent run needs.
Builds == cache.model # "none" /\ (Keyed(cache.model) => cfg[cache.id] = cache.model)

\* Where a base URL may lead: Ollama's to this machine and its network, any other provider's
\* to a public host only ("other": link-local, multicast, reserved or unspecified).
HostKinds == {"public", "private", "local", "other"}
Allowed(p, host) == IF p = "ollama" THEN host # "other" ELSE host = "public"

\* Each provider's own probe: 401 and 403 mean a key that is rejected.
Rejections(p) == IF Keyed(p) THEN {"auth_failed"} ELSE {}

\* validators.validate; other statuses and an unreachable host are "other".
Verdicts(p, host) == IF Allowed(p, host) THEN {"ok", "other"} \cup Rejections(p) ELSE {"other"}

\* A row number nothing refers to any more.
Fresh(i) ==
  /\ ~Live(i) /\ cache.id # i /\ probe.id # i
  /\ \A a \in Actors : req[a].id # i

Goes(a, to) == req' = [req EXCEPT ![a].pc = to]
Ends(a, outcome) ==
  /\ req' = [req EXCEPT ![a] = IdleReq]
  /\ sess' = IF a \in Sessions THEN [sess EXCEPT ![a].st = outcome] ELSE sess

\* An exception leaves the request before its hook: the tables stay as they are.
Fails(a) == Ends(a, "error") /\ behind' = TRUE

-----------------------------------------------------------------------------
(* _save_internal: what it found active goes, then the three rows one by one. *)

SaveRest == UNCHANGED <<vault, cache, ready, probe, legacy>>

SaveDrop(a, i) ==
  LET old == req[a].id IN
  /\ req[a].pc = "drop" /\ Fresh(i)
  /\ cfg' = [j \in Id |-> IF j = i THEN req[a].prov ELSE IF j = old THEN "none" ELSE cfg[j]]
  /\ cred' = [j \in Id |-> IF j = old THEN NoCred ELSE cred[j]]
  /\ ai' = Without(ai, old)
  /\ req' = [req EXCEPT ![a].pc = "store", ![a].id = i]
  /\ UNCHANGED <<behind, setting, sess>> /\ SaveRest

SaveStore(a) ==
  /\ req[a].pc = "store"
  /\ IF Live(req[a].id)
     THEN Encrypted(req[a].id, "key") /\ Goes(a, "insert") /\ UNCHANGED <<behind, sess>>
     ELSE Fails(a) /\ UNCHANGED cred
  /\ UNCHANGED <<cfg, ai, setting>> /\ SaveRest

\* The foreign key, and one row per provider.
Insertable(a) ==
  /\ Live(req[a].id)
  /\ \A k \in DOMAIN ai : cfg[ai[k]] # req[a].prov

SaveInsert(a) ==
  /\ req[a].pc = "insert"
  /\ IF Insertable(a)
     THEN ai' = Append(ai, req[a].id) /\ Goes(a, "sync") /\ UNCHANGED <<behind, sess>>
     ELSE Fails(a) /\ UNCHANGED ai
  /\ UNCHANGED <<cfg, cred, setting>> /\ SaveRest

\* _sync_canonical_model: a model the request named, else what the provider resolves to;
\* with neither the setting is deleted.
SaveSync(a) ==
  /\ req[a].pc = "sync" /\ Goes(a, "hook")
  /\ setting' \in {Canonical(req[a].prov)} \cup (IF a \in Requests THEN {req[a].prov} ELSE {})
  /\ UNCHANGED <<cfg, cred, ai, behind, sess>> /\ SaveRest

Save(a) == (\E i \in Id : SaveDrop(a, i)) \/ SaveStore(a) \/ SaveInsert(a) \/ SaveSync(a)

-----------------------------------------------------------------------------
(* Disconnecting, choosing a model, and the hook the three of them end in. *)

\* Mutation: a disconnect that leaves the cached environment alone.
AfterRemoveNothing == "idle"
AfterRemove == "hook"

Remove(a) ==
  /\ req[a].pc = "remove" /\ Cascade(req[a].id)
  /\ req' = [req EXCEPT ![a] = [IdleReq EXCEPT !.pc = AfterRemove]]
  /\ UNCHANGED <<vault, behind, setting, cache, ready, sess, probe, legacy>>

\* Mutation: the new model is stored and no hook is fired.
AfterModelNothing == "idle"
AfterModel == "hook"

StoreModel(a) ==
  /\ req[a].pc = "model" /\ setting' = req[a].prov
  /\ req' = [req EXCEPT ![a] = [IdleReq EXCEPT !.pc = AfterModel]]
  /\ UNCHANGED <<dbVars, cache, ready, sess, probe, legacy>>

\* _fire_key_change resolves the environment outside its try: that may raise.
HookEnv(a) ==
  /\ req[a].pc = "hook"
  /\ IF EnvRaises
     THEN Fails(a) /\ UNCHANGED cache
     ELSE /\ cache' = [cache EXCEPT !.id = EnvOf] /\ behind' = FALSE
          /\ Goes(a, "cached") /\ UNCHANGED sess
  /\ UNCHANGED <<cfg, cred, ai, vault, setting, ready, probe, legacy>>

\* Then the model; a non-empty environment is taken for a working one, unverified.
HookModel(a) ==
  /\ req[a].pc = "cached" /\ Ends(a, "connected")
  /\ cache' = [cache EXCEPT !.model = ModelOf]
  /\ ready' = (cache.id # NoId)
  /\ UNCHANGED <<dbVars, setting, probe, legacy>>

Hook(a) == HookEnv(a) \/ HookModel(a)

-----------------------------------------------------------------------------
(* The start of the process, and the probe it leaves running. *)

\* Mutation: the legacy key is migrated whatever is connected already.
NothingConnectedUnasked == TRUE
NothingConnected == ai = <<>>

\* migrate_legacy_api_keys_once: a save of its own, with no hook and no validation.
Migrated(i) ==
  LET old == Active IN
  /\ cfg' = [j \in Id |-> IF j = i THEN "openrouter" ELSE IF j = old THEN "none" ELSE cfg[j]]
  /\ cred' = [j \in Id |-> IF j = i THEN [enc |-> vault', val |-> "key"]
                           ELSE IF j = old THEN NoCred ELSE cred[j]]
  /\ ai' = <<i>> /\ setting' = Canonical("openrouter")

Migrates == legacy /\ vault' # "none" /\ NothingConnected

Warmed(id, model) ==
  /\ cache' = [id |-> id, model |-> model]
  /\ ready' = (id # NoId)

\* The first refresh of the caches, unverified, with nothing else running.
WarmUp ==
  LET raises == Active' # NoId /\ Keyed(cfg'[Active']) /\ cred'[Active'] # NoCred
                  /\ cred'[Active'].enc # vault'
  IN IF vault' = "none" \/ raises THEN Warmed(NoId, "none") ELSE Warmed(EnvOf', ModelOf')

Restart ==
  /\ \E source \in KeySources : Resolved(source)
  /\ IF Migrates
     THEN \E i \in Id : ~Live(i) /\ Migrated(i)
     ELSE UNCHANGED <<cfg, cred, ai, setting>>
  /\ behind' = FALSE
  /\ req' = [a \in Actors |-> IdleReq] /\ sess' = [s \in Sessions |-> NoSession]
  /\ WarmUp /\ probe' = [pc |-> "env", id |-> NoId]
  /\ UNCHANGED legacy

ProbeRest == UNCHANGED <<cfg, cred, ai, vault, setting, req, sess, legacy>>

ProbeEnv ==
  /\ probe.pc = "env"
  /\ IF vault = "none" \/ EnvRaises
     THEN cache' = EmptyCache /\ ready' = FALSE /\ probe' = NoProbe /\ UNCHANGED behind
     ELSE /\ cache' = [cache EXCEPT !.id = EnvOf] /\ probe' = [pc |-> "model", id |-> NoId]
          /\ behind' = FALSE /\ UNCHANGED ready
  /\ ProbeRest

\* verify_active_credential reads the active row and its key again before it asks; a key it
\* cannot decrypt keeps the readiness there was.
ProbeModel ==
  /\ probe.pc = "model" /\ cache' = [cache EXCEPT !.model = ModelOf]
  /\ IF cache.id # NoId /\ EnvOf # NoId /\ ~EnvRaises
     THEN probe' = [pc |-> "ask", id |-> EnvOf] /\ UNCHANGED ready
     ELSE /\ probe' = NoProbe
          /\ ready' = (ready /\ cache.id # NoId /\ EnvRaises)
  /\ UNCHANGED behind /\ ProbeRest

\* The provider's verdict: only a rejected key makes the provider not ready.
ProbeAnswer(verdict) ==
  /\ probe.pc = "ask" /\ (Live(probe.id) => verdict \in Verdicts(cfg[probe.id], "public"))
  /\ ready' = (verdict # "auth_failed")
  /\ probe' = NoProbe /\ UNCHANGED <<cache, behind>> /\ ProbeRest

Probe == ProbeEnv \/ ProbeModel \/ \E v \in {"ok", "other", "auth_failed"} : ProbeAnswer(v)
=============================================================================
