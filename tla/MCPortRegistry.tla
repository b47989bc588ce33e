--------------------------- MODULE MCPortRegistry ---------------------------
(* A small instance of PortRegistry for TLC: two assignments of one        *)
(* repository and one of another.                                          *)
EXTENDS PortRegistry, TLC

CONSTANTS a1, a2, a3, r1, r2

TwoRepos == a1 :> r1 @@ a2 :> r1 @@ a3 :> r2
=============================================================================
