---------------------------- MODULE MCCheckouts ----------------------------
(* Small instances of Checkouts for TLC. *)
EXTENDS Checkouts, TLC

Interchangeable == Permutations(Procs) \cup Permutations(Ids)
=============================================================================
