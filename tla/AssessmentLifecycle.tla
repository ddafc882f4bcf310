------------------------- MODULE AssessmentLifecycle -------------------------
(***************************************************************************)
(* What the assessment table promises a dashboard that polls it: a run is  *)
(* asked for once, it ends with a grade or with a reason, a graded run is  *)
(* never taken back, and a failed one may still turn out well.             *)
(***************************************************************************)
CONSTANT Assessment

VARIABLE phase

Init == phase = [a \in Assessment |-> "unborn"]

Ask(a) == phase[a] = "unborn" /\ phase' = [phase EXCEPT ![a] = "asked"]

\* The run, or a late answer of a run given up before, lands its grade.
Grade(a) == phase[a] \in {"asked", "explained"} /\ phase' = [phase EXCEPT ![a] = "graded"]

\* The task itself reports why it failed.
Explain(a) == phase[a] = "asked" /\ phase' = [phase EXCEPT ![a] = "explained"]

\* A run that was given up starts after all.
Reopen(a) == phase[a] = "explained" /\ phase' = [phase EXCEPT ![a] = "asked"]

\* The watchdog or the next boot gives up every run it finds unfinished.
GiveUp ==
  \E given \in SUBSET {a \in Assessment : phase[a] = "asked"} :
    phase' = [a \in Assessment |-> IF a \in given THEN "explained" ELSE phase[a]]

Next == (\E a \in Assessment : Ask(a) \/ Grade(a) \/ Explain(a) \/ Reopen(a)) \/ GiveUp

\* No unfinished run is forgotten: it is graded or explained.
Spec == Init /\ [][Next]_phase /\ \A a \in Assessment : (phase[a] = "asked") ~> (phase[a] # "asked")
=============================================================================
