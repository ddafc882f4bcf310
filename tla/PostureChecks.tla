---------------------------- MODULE PostureChecks ----------------------------
(***************************************************************************)
(* What an assessment concludes from what it saw: the fifteen posture      *)
(* checks, the finding rows they become, the ten-criterion snapshot and    *)
(* the grade.  Pure functions of the evidence, which is the answers of the *)
(* GitHub client and the files of the clone.                               *)
(***************************************************************************)
EXTENDS Naturals, FiniteSets

\* Answers of the GitHub client: "unable" is UnableToVerify, whatever the cause.
Protections == {"unable", "none", "rule", "force"}   \* branch protection; force pushes allowed
Infos == {"unable", "hidden", "enabled", "disabled"} \* repo info; secret scanning in it
Commits == {"unable", "empty", "signed", "mixed"}
Teams == {"unable", "small", "broad"}
\* Collaborators who can push: not listed, or which kinds of last activity they show.
Activity == {"stale", "fresh", "dark"}
Files == {"security_md", "dependabot", "code_owners", "lockfile", "secret"}
Workflows == {"unpinned", "untrusted", "dangerous"}
Severities == {"critical", "high", "unknown"}

Evidence ==
  [protection : Protections, info : Infos, commits : Commits, teams : Teams,
   listed : BOOLEAN, active : SUBSET Activity, files : SUBSET Files,
   workflows : SUBSET Workflows, severities : SUBSET Severities]

AdvisoryChecks == {"signed_commits", "workflow_trigger_scope", "broad_team_permissions"}

-----------------------------------------------------------------------------
(* The checks. *)

PassIf(p) == IF p THEN "pass" ELSE "fail"

BranchProtection(e) ==
  IF e.protection = "unable" THEN "unknown" ELSE PassIf(e.protection # "none")

NoForcePushes(e) ==
  IF e.protection = "unable" THEN "unknown" ELSE PassIf(e.protection = "rule")

\* Repo info names the default branch, whose protection is then read.
DefaultBranchPermissions(e) == IF e.info = "unable" THEN "unknown" ELSE BranchProtection(e)

\* A body without security_and_analysis reads as disabled.
SecretScanning(e) == IF e.info = "unable" THEN "unknown" ELSE PassIf(e.info = "enabled")

SignedCommits(e) ==
  CASE e.commits = "unable" -> "unknown" [] e.commits = "signed" -> "pass" [] OTHER -> "advisory"

\* Only a collaborator seen to be stale fails the check: one without public events does not.
StaleCollaborators(e) == IF ~ e.listed THEN "unknown" ELSE PassIf("stale" \notin e.active)

BroadTeams(e) ==
  CASE e.teams = "unable" -> "unknown" [] e.teams = "broad" -> "advisory" [] OTHER -> "pass"

PinnedActions(e) == PassIf("unpinned" \notin e.workflows)
TrustedActions(e) == PassIf("untrusted" \notin e.workflows)
TriggerScope(e) == IF "dangerous" \in e.workflows THEN "advisory" ELSE "pass"

SecurityMd(e) == PassIf("security_md" \in e.files)
Dependabot(e) == PassIf("dependabot" \in e.files)
LockfilePresent(e) == PassIf("lockfile" \in e.files)
CodeOwners(e) == PassIf("code_owners" \in e.files)
NoSecretsInCode(e) == PassIf("secret" \notin e.files)

\* run_all_posture_checks.
Results(e) ==
  [branch_protection |-> BranchProtection(e), no_force_pushes |-> NoForcePushes(e),
   no_secrets_in_code |-> NoSecretsInCode(e), security_md |-> SecurityMd(e),
   lockfile_present |-> LockfilePresent(e), dependabot_config |-> Dependabot(e),
   signed_commits |-> SignedCommits(e), code_owners_exists |-> CodeOwners(e),
   secret_scanning_enabled |-> SecretScanning(e), actions_pinned_to_sha |-> PinnedActions(e),
   trusted_action_sources |-> TrustedActions(e), workflow_trigger_scope |-> TriggerScope(e),
   stale_collaborators |-> StaleCollaborators(e), broad_team_permissions |-> BroadTeams(e),
   default_branch_permissions |-> DefaultBranchPermissions(e)]

\* from_posture: a check that is unknown has no row.
PostureRows(results) ==
  LET Row(c) ==
        [status |-> IF results[c] = "pass" THEN "passed" ELSE "new",
         impact |-> IF c \in AdvisoryChecks \/ results[c] = "advisory" THEN "advisory" ELSE "counts"]
  IN  [c \in {d \in DOMAIN results : results[d] # "unknown"} |-> Row(c)]

-----------------------------------------------------------------------------
(* The snapshot and the grade. *)

\* Criteria read off a check.
PostureCriteria ==
  {"security_md", "dependabot_config", "branch_protection", "no_secrets_in_code",
   "actions_pinned_to_sha", "stale_collaborators", "code_owners_exists",
   "secret_scanning_enabled"}
Criteria == PostureCriteria \cup {"no_critical_vulns", "no_high_vulns"}

\* Mutation: what cannot be verified is taken as met.
TriStateLenient(status) == IF status \in {"pass", "unknown"} THEN "met" ELSE "unmet"

TriState(status) ==
  CASE status = "pass" -> "met" [] status = "unknown" -> "unknown" [] OTHER -> "unmet"

MetIf(p) == IF p THEN "met" ELSE "unmet"

\* A finding of unknown severity counts against both vulnerability criteria.
Snapshot(e) ==
  LET results == Results(e) IN
  [c \in Criteria |->
     CASE c = "no_critical_vulns" -> MetIf(e.severities \cap {"critical", "unknown"} = {})
       [] c = "no_high_vulns" -> MetIf(e.severities = {})
       [] OTHER -> TriState(results[c])]

Met(snapshot) == {c \in Criteria : snapshot[c] = "met"}
MetCount(snapshot) == Cardinality(Met(snapshot))

\* Mutation: every boundary one row off.
GradeGenerous(snapshot) ==
  LET n == MetCount(snapshot)
  IN  CASE n >= 8 -> "A" [] n \in {6, 7} -> "B" [] n \in {4, 5} -> "C" [] OTHER -> "D"

Grade(snapshot) ==
  LET n == MetCount(snapshot)
  IN  CASE n = 10 -> "A" [] n \in {8, 9} -> "B" [] n \in {6, 7} -> "C" [] n \in {4, 5} -> "D"
        [] OTHER -> "F"

\* Answers that fall out of sight, everything else unchanged.
Blinded(e, f) ==
  f \in {[e EXCEPT !.protection = "unable"], [e EXCEPT !.info = "unable"],
         [e EXCEPT !.listed = FALSE], [e EXCEPT !.commits = "unable"],
         [e EXCEPT !.teams = "unable"]}
=============================================================================
