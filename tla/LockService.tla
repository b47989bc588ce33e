---------------------------- MODULE LockService ----------------------------
(***************************************************************************)
(* What the directory lock of one path promises to the commands that are   *)
(* written against it (lock.With, Workspaces!Take): one process inside at  *)
(* a time, until the day a recovery has taken the directory of a live      *)
(* owner away.  How the directories achieve that is DirectoryLock's.       *)
(***************************************************************************)
CONSTANT Procs

VARIABLES
  inside,  \* processes between Acquire and Release
  lost     \* whether a directory has ever been retired by mistake

vars == <<inside, lost>>

Init == inside = {} /\ lost \in BOOLEAN

Grant(p) ==
  /\ p \notin inside
  /\ inside = {} \/ lost
  /\ inside' = inside \cup {p}
  /\ UNCHANGED lost

(* Release, or the death of the process. *)
Leave(p) ==
  /\ p \in inside
  /\ inside' = inside \ {p}
  /\ UNCHANGED lost

(* The error that only a recovery makes, and that nothing repairs. *)
Lose ==
  /\ ~lost /\ lost' = TRUE
  /\ UNCHANGED inside

Next == Lose \/ \E p \in Procs : Grant(p) \/ Leave(p)

Spec == Init /\ [][Next]_vars
=============================================================================
