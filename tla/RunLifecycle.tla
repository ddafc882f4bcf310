---------------------------- MODULE RunLifecycle ----------------------------
(***************************************************************************)
(* What the executor promises about one workspace's agent runs, whatever   *)
(* requests, cancellations and crashes interleave: a run is born once, is  *)
(* driven or waits for the user, and when it is over it stays over.        *)
(***************************************************************************)
CONSTANT Run

VARIABLE phase

Phases == {"unborn", "live", "parked", "over"}

Init == phase = [r \in Run |-> "unborn"]

\* Driven by a task from the moment the row exists.
Start(r) == phase[r] = "unborn" /\ phase' = [phase EXCEPT ![r] = "live"]

\* The last task driving the run leaves it to the user, or ends it.
Park(r) == phase[r] = "live" /\ phase' = [phase EXCEPT ![r] = "parked"]
Finish(r) == phase[r] = "live" /\ phase' = [phase EXCEPT ![r] = "over"]

\* Only a parked run can be driven again.
Resume(r) == phase[r] = "parked" /\ phase' = [phase EXCEPT ![r] = "live"]

\* The process stops or restarts: live runs are cut off, parked ones may be given up.
Interrupt ==
  /\ phase' \in [Run -> Phases]
  /\ \A r \in Run :
       \/ phase'[r] = phase[r]
       \/ phase[r] = "live" /\ phase'[r] \in {"parked", "over"}
       \/ phase[r] = "parked" /\ phase'[r] = "over"

Next == (\E r \in Run : Start(r) \/ Park(r) \/ Finish(r) \/ Resume(r)) \/ Interrupt

Spec == Init /\ [][Next]_phase
=============================================================================
