-------------------------- MODULE MCDirectoryLock --------------------------
(* Small instances of DirectoryLock for TLC. *)
EXTENDS DirectoryLock, TLC

CONSTANTS t1, t2, t3, p1, p2, p3

OneHost == [p \in Procs |-> "host"]
TwoHosts == [p \in Procs |-> IF p = p1 THEN "host" ELSE "other"]
Either == {OneHost, TwoHosts}
Single == {OneHost}

Interchangeable == Permutations(Procs) \cup Permutations(Tokens)
=============================================================================
