-------------------------- MODULE MCAssessmentRun --------------------------
(* Two assessments of one repository; one finding a scanner may miss or skip, one check. *)
EXTENDS AssessmentRun

MCSource == [f \in Finding |-> IF f = "code" THEN "semgrep" ELSE "posture"]
=============================================================================
