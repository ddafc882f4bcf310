----------------------------- MODULE MCDashboard -----------------------------
(* A small instance of Dashboard: every answer of GitHub, few sets of files. *)
EXTENDS Dashboard

Agents == {"finding_enricher", "report_triager", "remediation_planner",
           "remediation_executor", "validation_checker"}

Complete10 == {"security_md", "dependabot", "code_owners", "lockfile"}
SomeFiles == {Complete10, {"code_owners"}, Complete10 \cup {"secret"}}

Base ==
  [protection |-> "rule", info |-> "enabled", commits |-> "signed", teams |-> "small",
   listed |-> TRUE, active |-> {"fresh"}, files |-> Complete10, workflows |-> {},
   severities |-> {}]

\* Every combination of the answers that reach the grade, and the others one by one.
SomeEvidence ==
  {[Base EXCEPT !.protection = p, !.info = i, !.listed = l, !.active = a, !.files = f,
                !.severities = s] :
     p \in Protections, i \in Infos, l \in BOOLEAN, a \in {{"dark"}, {"fresh", "stale"}},
     f \in SomeFiles, s \in {{}, {"critical"}, {"high"}, {"unknown"}}}
  \cup {[Base EXCEPT !.commits = c, !.teams = t, !.workflows = w] :
          c \in Commits, t \in Teams, w \in SUBSET Workflows}
  \cup {[Base EXCEPT !.severities = s, !.files = f] :
          s \in SUBSET Severities, f \in SomeFiles}

Findings == {[severity |-> "critical", secret |-> TRUE], [severity |-> "high", secret |-> FALSE]}

\* The issue's life is explored under one assessment, one agent's newest run at
\* a time having ended badly.
Studied == [Base EXCEPT !.severities = {"critical", "high"}, !.files = {"code_owners"}]
BadlyEnded == {a \in Agent : issue.run[a] \in {"failed", "rate_limited", "cancelled"}}
Bounded ==
  \/ issue = NewIssue
  \/ evidence = Studied /\ others = HighTarget /\ Cardinality(BadlyEnded) <= 1
=============================================================================
