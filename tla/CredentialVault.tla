--------------------------- MODULE CredentialVault ---------------------------
(***************************************************************************)
(* The rows an AI provider's key lives in: integration_config, credential  *)
(* and ai_integration, the encryption key each start of the process        *)
(* resolves, and the settings routes that edit those rows behind the AI    *)
(* service's back.                                                          *)
(***************************************************************************)
EXTENDS Naturals, Sequences, FiniteSets

CONSTANTS
  Id,           \* bound: integration_config rows at a time; a free one is used again
  NoId,
  Providers,    \* the providers of the catalog: "ollama" has no key and no default model
  KeySources    \* where a start may find its encryption key: {"env"}, or what is left of
                \* {"ring", "file", "none"} when CLIFF_CREDENTIAL_KEY is not set

ASSUME NoIdIsNone == NoId \notin Id
ASSUME CatalogKnown == "openrouter" \in Providers /\ "none" \notin Providers
ASSUME KeySourcesKnown ==
  KeySources = {"env"} \/ (KeySources # {} /\ KeySources \subseteq {"ring", "file", "none"})

VARIABLES
  cfg,       \* integration_config: the provider of each row, "none" where there is no row
  cred,      \* credential: under which key it is encrypted, and what it holds
  ai,        \* ai_integration: the integrations with a row, in the order they connected
  vault,     \* the key this process encrypts with; "none": no vault
  behind     \* a change of these rows that no key-change hook will follow

Values == {"key", "blank"}
NoCred == [enc |-> "none", val |-> "none"]
Live(i) == cfg[i] # "none"
InAi(i) == \E k \in DOMAIN ai : ai[k] = i
Active == IF ai = <<>> THEN NoId ELSE ai[Len(ai)]

\* What the vault answers for a stored credential: KeyError, an exception, or the value.
Missing(i) == cred[i] = NoCred
Undecryptable(i) == ~Missing(i) /\ cred[i].enc # vault

Encrypted(i, v) == cred' = [cred EXCEPT ![i] = [enc |-> vault, val |-> v]]

\* The ai_integration rows without the one of i, which has one at most.
Without(s, i) ==
  IF \A k \in DOMAIN s : s[k] # i THEN s
  ELSE LET gone == CHOOSE k \in DOMAIN s : s[k] = i
       IN  [k \in 1..(Len(s) - 1) |-> s[IF k < gone THEN k ELSE k + 1]]

\* Deleting an integration_config row takes the rows that reference it along.
Cascade(i) ==
  /\ cfg' = [cfg EXCEPT ![i] = "none"] /\ cred' = [cred EXCEPT ![i] = NoCred]
  /\ ai' = Without(ai, i)

VaultInit ==
  /\ cfg = [i \in Id |-> "none"] /\ cred = [i \in Id |-> NoCred] /\ ai = <<>>
  /\ vault \in KeySources /\ behind = FALSE

VaultTypeOK ==
  /\ cfg \in [Id -> Providers \cup {"none"}]
  /\ cred \in [Id -> [enc : KeySources, val : Values] \cup {NoCred}]
  /\ \A k \in DOMAIN ai : ai[k] \in Id /\ Live(ai[k])
  /\ \A j, k \in DOMAIN ai : j # k => cfg[ai[j]] # cfg[ai[k]]       \* the unique index
  /\ \A i \in Id : cred[i] # NoCred => Live(i)                     \* the foreign keys
  /\ vault \in KeySources /\ behind \in BOOLEAN

-----------------------------------------------------------------------------
(* The settings routes: none of them tells the AI service. *)

\* DELETE /settings/integrations/{id}
SettingsDelete(i) == Live(i) /\ Cascade(i) /\ behind' = TRUE /\ UNCHANGED vault

\* DELETE /settings/integrations/{id}/credentials/{key}
SettingsForget(i) ==
  /\ vault # "none" /\ ~Missing(i)
  /\ cred' = [cred EXCEPT ![i] = NoCred] /\ behind' = TRUE
  /\ UNCHANGED <<cfg, ai, vault>>

\* POST /settings/integrations/{id}/credentials: the value is stored as it comes.
SettingsStore(i, v) ==
  /\ vault # "none" /\ Live(i) /\ Encrypted(i, v) /\ behind' = TRUE
  /\ UNCHANGED <<cfg, ai, vault>>

SettingsRoute ==
  \E i \in Id : SettingsDelete(i) \/ SettingsForget(i) \/ \E v \in Values : SettingsStore(i, v)

\* A start takes CLIFF_CREDENTIAL_KEY before the system keyring before the key file, and
\* has no vault when none of them yields a key.
Resolved(source) == source \in KeySources /\ vault' = source
=============================================================================
