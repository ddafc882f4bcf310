---------------------------- MODULE GithubClient ----------------------------
(***************************************************************************)
(* The push-access preflight of the GitHub client: what two API answers    *)
(* and a `git push --dry-run` against the repository add up to.            *)
(***************************************************************************)

UserAnswers == {"unreachable", "busy", "refused", "push"}       \* GET /repos/{owner}/{repo}
InstallAnswers == {"unreachable", "unclear", "read", "write"}    \* its /installation
ProbeAnswers == {"not_run", "timed_out", "refused", "pushed"}    \* the dry-run push

Answers == [user : UserAnswers, install : InstallAnswers, probe : ProbeAnswers]

\* _probe_git_push: it never reaches the network without its bootstrap, and only exit 0 passes.
ProbePasses(a) == a.probe = "pushed"

\* Mutation: an unanswered installation lookup leaves the user's verdict alone.
PushAllowedTrusting(a) == a.install # "read" /\ (a.install = "unreachable" \/ ProbePasses(a))

\* A read-only installation refuses; any other answer, or none, leaves it to the probe.
PushAllowed(a) == a.install # "read" /\ ProbePasses(a)

\* check_repo_push_access.
CanPush(a) ==
  CASE a.user \in {"unreachable", "busy"} -> TRUE           \* skipped: the executor will see
    [] a.user = "refused" -> FALSE
    [] OTHER -> PushAllowed(a)
=============================================================================
