---------------------------- MODULE MCGithubFlow ----------------------------
(* A small instance of GithubFlow. *)
EXTENDS GithubFlow, TLC

CONSTANTS r1, r2, i1, i2
RequestSet == {r1, r2}
InstallSet == {i1, i2}
Symmetric == Permutations(RequestSet) \cup Permutations(InstallSet)

\* Two requests at a time beside the polling tasks, an onboarding alone beside them; a
\* behaviour is not followed past its diagnosis, nor past a second integration, but for two
\* /connect requests that are under way.
UnderWay ==
  {r \in Requests : conn[r] # IdleConn} \cup {x \in {"now"} : poll[Now] # Off}
    \cup {x \in {"disconnect"} : disc # Idle} \cup {x \in {"onboarding"} : onb # IdleOnb}
Bounded ==
  /\ badge = {} /\ (2 \in known => \A r \in Requests : conn[r] # IdleConn)
  /\ Cardinality(UnderWay) <= IF onb = IdleOnb THEN 2 ELSE 1
=============================================================================
