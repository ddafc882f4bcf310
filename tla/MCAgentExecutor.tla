-------------------------- MODULE MCAgentExecutor --------------------------
(* The executor on small sets of rows and concurrent tasks, interchangeable. *)
EXTENDS AgentExecutor, TLC

Symmetry == Permutations(Run) \cup Permutations(Task)
=============================================================================
