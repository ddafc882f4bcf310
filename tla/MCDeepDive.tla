----------------------------- MODULE MCDeepDive -----------------------------
(***************************************************************************)
(* DeepDive for TLC: two builds may move the clone under one dive at a     *)
(* time, and the process crashes once.  The configuration gives the bounds. *)
(***************************************************************************)
EXTENDS DeepDive
=============================================================================
