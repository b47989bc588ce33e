---------------------------- MODULE MCWorkspaces ----------------------------
(* Small instances of Workspaces for TLC. *)
EXTENDS Workspaces, TLC

Interchangeable == Permutations(Procs) \cup Permutations(Ids) \cup Permutations(Paths)
=============================================================================
