---------------------------- MODULE MCRepoAction ----------------------------
(***************************************************************************)
(* RepoAction for TLC: two fixes are asked for, of one check or of two,    *)
(* and the process crashes once.  The configuration gives the bounds.      *)
(***************************************************************************)
EXTENDS RepoAction
=============================================================================
