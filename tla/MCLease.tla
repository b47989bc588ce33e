------------------------------ MODULE MCLease ------------------------------
(* A small instance of Lease for TLC. *)
EXTENDS Lease, TLC

Interchangeable == Permutations(Commands)
=============================================================================
