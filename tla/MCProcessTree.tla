--------------------------- MODULE MCProcessTree ----------------------------
(* One command with up to two more processes, and a release that is tried  *)
(* as often as needed.                                                     *)
EXTENDS ProcessTree
=============================================================================
