--------------------------- MODULE DirectoryLock ---------------------------
(***************************************************************************)
(* The owner-fenced directory lock of internal/lock/lock.go.  One lock     *)
(* path is shared by several ruk processes.  Every acquisition stages a    *)
(* directory holding its owner record beside the lock path and renames it  *)
(* onto the path; contenders retire directories whose owner is gone; a     *)
(* guard releases by renaming its directory away and verifying what it     *)
(* moved.                                                                  *)
(*                                                                         *)
(* A directory is named by the token it was staged under, so the file      *)
(* system next to the lock path is four functions over directories.  A     *)
(* contender's locals (the Lstat result, the owner record it read) are     *)
(* state too: the code reads, decides and renames in separate system       *)
(* calls, and every one of them is a step here.                            *)
(***************************************************************************)
CONSTANTS
  Procs,    \* ruk processes; a new invocation is another member
  Tokens,   \* owner tokens, bounding the directories that coexist
  Legacy,   \* a directory left at the path by a mkdir-first publisher
  None,     \* no token, no process
  Hosts     \* the ways in which the processes may be spread over hosts

ASSUME ConstantsAssumption == Legacy \notin Tokens /\ None \notin Tokens \cup {Legacy} \cup Procs

Dirs == Tokens \cup {Legacy}

(* Where a directory is: nowhere, its own pending-<token> name, the lock   *)
(* path, or a tombstone, named after a releasing guard's token, after the  *)
(* token of an owner record, or after the path and modification time of    *)
(* the directory that was stat'ed.  The time changes exactly when the      *)
(* owner record is unlinked, hence the flag in Stamped.                    *)
Absent == <<"absent">>
Pending == <<"pending">>
Canonical == <<"canonical">>
Released(t) == <<"released", t>>
Retired(t) == <<"retired", t>>
Stamped(t, o) == <<"stamped", t, o>>

Locations == {Absent, Pending, Canonical}
               \cup {Released(t) : t \in Dirs} \cup {Retired(t) : t \in Dirs}
               \cup {Stamped(t, o) : t \in Dirs, o \in BOOLEAN}

VARIABLES
  at,      \* location of each directory
  owned,   \* its owner.json exists (and names the token and by)
  stale,   \* its modification time is older than Options.Stale
  by,      \* the process in its owner record
  pc,      \* what each process is about to do
  tok,     \* token of the acquisition or guard in progress
  stat,    \* directory and mtime flag of the last Lstat of the path
  seen,    \* token of the owner record read last, None if there was none
  sweep,   \* stale pending directories an acquisition is removing
  host,    \* hostname of each process
  kept     \* history: locks that a live process has been told it has not
           \* released, and that it tries to release no more

fs == <<at, owned, stale, by>>
locals == <<pc, tok, stat, seen, sweep>>
vars == <<at, owned, stale, by, pc, tok, stat, seen, sweep, host, kept>>

Steps == {"idle", "sweep", "stage", "publish", "busy", "read", "inspect",
          "retire", "hold", "rename", "verify", "restore", "dead"}

NoStat == [dir |-> None, owned |-> FALSE]
Stats == [dir : Dirs \cup {None}, owned : BOOLEAN]

TypeOK ==
  /\ at \in [Dirs -> Locations]
  /\ owned \in [Dirs -> BOOLEAN]
  /\ stale \in [Dirs -> BOOLEAN]
  /\ by \in [Dirs -> Procs \cup {None}]
  /\ pc \in [Procs -> Steps]
  /\ tok \in [Procs -> Tokens \cup {None}]
  /\ stat \in [Procs -> Stats]
  /\ seen \in [Procs -> Tokens \cup {None}]
  /\ sweep \in [Procs -> SUBSET Tokens]
  /\ host \in Hosts
  /\ kept \subseteq Tokens

Free == \A t \in Dirs : at[t] # Canonical

Dead(p) == pc[p] = "dead"

(* A random token occurs nowhere: in no directory, tombstone name or local.*)
Fresh(t) ==
  /\ at[t] = Absent
  /\ \A u \in Dirs : at[u] # Released(t) /\ at[u] # Retired(t) /\ \A o \in BOOLEAN : at[u] # Stamped(t, o)
  /\ \A p \in Procs : tok[p] # t /\ stat[p].dir # t /\ seen[p] # t /\ t \notin sweep[p]

Init ==
  /\ at \in {[t \in Dirs |-> Absent], [t \in Dirs |-> IF t = Legacy THEN Canonical ELSE Absent]}
  /\ owned = [t \in Dirs |-> FALSE]
  /\ stale = [t \in Dirs |-> FALSE]
  /\ by = [t \in Dirs |-> None]
  /\ pc = [p \in Procs |-> "idle"]
  /\ tok = [p \in Procs |-> None]
  /\ stat = [p \in Procs |-> NoStat]
  /\ seen = [p \in Procs |-> None]
  /\ sweep = [p \in Procs |-> {}]
  /\ host \in Hosts
  /\ kept = {}

Goto(p, step) == pc' = [pc EXCEPT ![p] = step]

-----------------------------------------------------------------------------
(* Acquire: sweep leftovers, then stage and publish until the path is won. *)

Begin(p) ==
  /\ pc[p] = "idle"
  /\ at' = [t \in Dirs |-> IF at[t] = Released(t) /\ owned[t] THEN Absent ELSE at[t]]
  /\ sweep' = [sweep EXCEPT ![p] = {t \in Tokens : at[t] = Pending /\ stale[t]}]
  /\ Goto(p, "sweep")
  /\ UNCHANGED <<owned, stale, by, tok, stat, seen, host, kept>>

(* RemoveAll opens the directory, unlinks its entries and removes its      *)
(* pending name.  A directory published after it was opened keeps its      *)
(* place and loses its owner record; "opened" is the set of those.         *)
Sweep(p) ==
  /\ pc[p] = "sweep"
  /\ \E opened \in SUBSET {t \in sweep[p] : at[t] # Pending} :
       LET emptied == opened \cup {t \in sweep[p] : at[t] = Pending} IN
       /\ at' = [t \in Dirs |-> IF t \in sweep[p] /\ at[t] = Pending THEN Absent ELSE at[t]]
       /\ owned' = [t \in Dirs |-> owned[t] /\ t \notin emptied]
       /\ stale' = [t \in Dirs |-> stale[t] /\ t \notin emptied]
  /\ sweep' = [sweep EXCEPT ![p] = {}]
  /\ Goto(p, "stage")
  /\ UNCHANGED <<by, tok, stat, seen, host, kept>>

Stage(p) ==
  /\ pc[p] = "stage"
  /\ \E t \in Tokens :
       /\ Fresh(t)
       /\ at' = [at EXCEPT ![t] = Pending]
       /\ owned' = [owned EXCEPT ![t] = TRUE]
       /\ stale' = [stale EXCEPT ![t] = FALSE]
       /\ by' = [by EXCEPT ![t] = p]
       /\ tok' = [tok EXCEPT ![p] = t]
       /\ kept' = kept \ {t}
  /\ Goto(p, "publish")
  /\ UNCHANGED <<stat, seen, sweep, host>>

(* Variant: publishes over whatever is at the path. *)
PublishOver(p) ==
  /\ pc[p] = "publish"
  /\ at[tok[p]] = Pending
  /\ at' = [at EXCEPT ![tok[p]] = Canonical]
  /\ Goto(p, "hold")
  /\ UNCHANGED <<owned, stale, by, tok, stat, seen, sweep, host, kept>>

(* os.Rename refuses an existing target directory. *)
Publish(p) ==
  /\ pc[p] = "publish"
  /\ at[tok[p]] = Pending
  /\ Free
  /\ at' = [at EXCEPT ![tok[p]] = Canonical]
  /\ Goto(p, "hold")
  /\ UNCHANGED <<owned, stale, by, tok, stat, seen, sweep, host, kept>>

PublishBusy(p) ==
  /\ pc[p] = "publish"
  /\ ~Free
  /\ at' = [at EXCEPT ![tok[p]] = Absent]
  /\ tok' = [tok EXCEPT ![p] = None]
  /\ Goto(p, "busy")
  /\ UNCHANGED <<owned, stale, by, stat, seen, sweep, host, kept>>

(* The staging directory was swept away and nobody owns the path. *)
PublishLost(p) ==
  /\ pc[p] = "publish"
  /\ at[tok[p]] # Pending
  /\ Free
  /\ tok' = [tok EXCEPT ![p] = None]
  /\ Goto(p, "idle")
  /\ UNCHANGED <<fs, stat, seen, sweep, host, kept>>

(* A context or I/O error, or the timeout, ends the attempt. *)
GiveUp(p) ==
  /\ pc[p] \in {"stage", "busy"}
  /\ Goto(p, "idle")
  /\ UNCHANGED <<fs, tok, stat, seen, sweep, host, kept>>

-----------------------------------------------------------------------------
(* recoverAbandoned: Lstat, read the owner, probe it, rename it away.      *)

(* Lstat finds nothing (retry at once) or a directory not yet stale (wait  *)
(* and retry); both go on with a new token.                                *)
StatRetry(p) ==
  /\ pc[p] = "busy"
  /\ \A t \in Dirs : at[t] = Canonical => ~stale[t]
  /\ Goto(p, "stage")
  /\ UNCHANGED <<fs, tok, stat, seen, sweep, host, kept>>

StatStale(p) ==
  /\ pc[p] = "busy"
  /\ \E t \in Dirs :
       /\ at[t] = Canonical /\ stale[t]
       /\ stat' = [stat EXCEPT ![p] = [dir |-> t, owned |-> owned[t]]]
  /\ Goto(p, "read")
  /\ UNCHANGED <<fs, tok, seen, sweep, host, kept>>

(* readOwner reports ErrNotExist when the directory at the path has no     *)
(* owner record and also when there is no directory at the path any more.  *)
ReadNoOwner(p) ==
  /\ pc[p] = "read"
  /\ \A t \in Dirs : at[t] = Canonical => ~owned[t]
  /\ seen' = [seen EXCEPT ![p] = None]
  /\ Goto(p, "retire")
  /\ UNCHANGED <<fs, tok, stat, sweep, host, kept>>

(* Variant: takes an unpublished owner record for a readable one. *)
ReadAnyOwner(p) ==
  /\ pc[p] = "read"
  /\ \E t \in Dirs :
       /\ at[t] = Canonical
       /\ seen' = [seen EXCEPT ![p] = t]
  /\ Goto(p, "inspect")
  /\ UNCHANGED <<fs, tok, stat, sweep, host, kept>>

ReadOwner(p) ==
  /\ pc[p] = "read"
  /\ \E t \in Tokens :
       /\ at[t] = Canonical /\ owned[t]
       /\ seen' = [seen EXCEPT ![p] = t]
  /\ Goto(p, "inspect")
  /\ UNCHANGED <<fs, tok, stat, sweep, host, kept>>

Forget(p) ==
  /\ seen' = [seen EXCEPT ![p] = None]
  /\ stat' = [stat EXCEPT ![p] = NoStat]

(* A local owner the probe finds alive, or cannot identify, stays.         *)
JudgeAlive(p) ==
  /\ pc[p] = "inspect"
  /\ host[by[seen[p]]] = host[p]
  /\ Forget(p)
  /\ Goto(p, "stage")
  /\ UNCHANGED <<fs, tok, sweep, host, kept>>

(* Variants: retires by age alone; never retires an owner it cannot probe. *)
JudgeByAge(p) ==
  /\ pc[p] = "inspect"
  /\ Goto(p, "retire")
  /\ UNCHANGED <<fs, tok, stat, seen, sweep, host, kept>>

JudgeLocalDead(p) ==
  /\ pc[p] = "inspect"
  /\ host[by[seen[p]]] = host[p] /\ Dead(by[seen[p]])
  /\ Goto(p, "retire")
  /\ UNCHANGED <<fs, tok, stat, seen, sweep, host, kept>>

(* Only a local owner is probed: another host's owner goes by age alone.   *)
JudgeDead(p) ==
  /\ pc[p] = "inspect"
  /\ host[by[seen[p]]] = host[p] => Dead(by[seen[p]])
  /\ Goto(p, "retire")
  /\ UNCHANGED <<fs, tok, stat, seen, sweep, host, kept>>

Tombstone(p) == IF seen[p] # None THEN Retired(seen[p]) ELSE Stamped(stat[p].dir, stat[p].owned)

Retire(p) ==
  /\ pc[p] = "retire"
  /\ \A u \in Dirs : at[u] # Tombstone(p)
  /\ \E t \in Dirs :
       /\ at[t] = Canonical
       /\ at' = [at EXCEPT ![t] = Tombstone(p)]
  /\ Forget(p)
  /\ Goto(p, "stage")
  /\ UNCHANGED <<owned, stale, by, tok, sweep, host, kept>>

RetireRefused(p) ==
  /\ pc[p] = "retire"
  /\ Free \/ \E u \in Dirs : at[u] = Tombstone(p)
  /\ Forget(p)
  /\ Goto(p, "stage")
  /\ UNCHANGED <<fs, tok, sweep, host, kept>>

-----------------------------------------------------------------------------
(* Guard.Release: check the token, rename away, verify, clean or restore.  *)

Done(p) == tok' = [tok EXCEPT ![p] = None] /\ Goto(p, "idle")

(* The path is empty, unreadable as an owner, or carries another token.    *)
ReleaseNotOwner(p) ==
  /\ pc[p] = "hold"
  /\ ~(at[tok[p]] = Canonical /\ owned[tok[p]])
  /\ Done(p)
  /\ UNCHANGED <<fs, stat, seen, sweep, host, kept>>

ReleaseOwner(p) ==
  /\ pc[p] = "hold"
  /\ at[tok[p]] = Canonical /\ owned[tok[p]]
  /\ Goto(p, "rename")
  /\ UNCHANGED <<fs, tok, stat, seen, sweep, host, kept>>

(* The rename moves whatever is at the path by now; it refuses an existing *)
(* tombstone, which a raced release of the same guard may have left.       *)
ReleaseRename(p) ==
  /\ pc[p] = "rename"
  /\ \A u \in Dirs : at[u] # Released(tok[p])
  /\ \E t \in Dirs :
       /\ at[t] = Canonical
       /\ at' = [at EXCEPT ![t] = Released(tok[p])]
  /\ Goto(p, "verify")
  /\ UNCHANGED <<owned, stale, by, tok, stat, seen, sweep, host, kept>>

(* ErrNotExist: somebody has renamed the directory before. *)
ReleaseGone(p) ==
  /\ pc[p] = "rename"
  /\ Free
  /\ Done(p)
  /\ UNCHANGED <<fs, stat, seen, sweep, host, kept>>

(* Variant: an I/O error is not reported, and the guard is taken for released. *)
ReleaseFailsSilently(p) ==
  /\ pc[p] \in {"hold", "rename"}
  /\ Done(p)
  /\ UNCHANGED <<fs, stat, seen, sweep, host, kept>>

(* The guard stays releasable: who holds it calls Release again            *)
(* (releaseAcquisitionGuard, the deferred release of a command), or gives  *)
(* up (With) and goes on with the error.                                   *)
ReportFailure(p) ==
  \/ Goto(p, "hold") /\ UNCHANGED <<tok, host, kept>>
  \/ Done(p) /\ kept' = kept \cup {tok[p]}

(* An I/O error of Lstat, of the reading of the owner or of the rename.    *)
ReleaseFails(p) ==
  /\ pc[p] \in {"hold", "rename"}
  /\ ReportFailure(p)
  /\ UNCHANGED <<fs, stat, seen, sweep, host>>

(* Variant: removes the tombstone without reading the moved record again. *)
ReleaseUnverified(p) ==
  /\ pc[p] = "verify"
  /\ at' = [t \in Dirs |-> IF at[t] = Released(tok[p]) THEN Absent ELSE at[t]]
  /\ Done(p)
  /\ UNCHANGED <<owned, stale, by, stat, seen, sweep, host, kept>>

(* The moved record is this guard's or is gone: remove it, best effort.    *)
ReleaseVerified(p) ==
  /\ pc[p] = "verify"
  /\ \A t \in Dirs : at[t] = Released(tok[p]) /\ owned[t] => t = tok[p]
  /\ \/ at' = [t \in Dirs |-> IF t = tok[p] /\ at[t] = Released(t) /\ owned[t] THEN Absent ELSE at[t]]
     \/ UNCHANGED at
  /\ Done(p)
  /\ UNCHANGED <<owned, stale, by, stat, seen, sweep, host, kept>>

(* Another owner was moved, or what was moved cannot be read: put it back  *)
(* unless the path is taken again.                                         *)
ReleaseRaced(p) ==
  /\ pc[p] = "verify"
  /\ \E t \in Dirs : at[t] = Released(tok[p]) /\ owned[t]
  /\ IF Free THEN Goto(p, "restore") /\ UNCHANGED tok ELSE Done(p)
  /\ UNCHANGED <<fs, stat, seen, sweep, host, kept>>

Restore(p) ==
  /\ pc[p] = "restore"
  /\ at' = [t \in Dirs |-> IF at[t] = Released(tok[p]) /\ Free THEN Canonical ELSE at[t]]
  /\ IF at'[tok[p]] = Canonical THEN ReportFailure(p) ELSE Done(p) /\ UNCHANGED kept
  /\ UNCHANGED <<owned, stale, by, stat, seen, sweep, host>>

-----------------------------------------------------------------------------
(* The environment: processes end, anywhere, and directories grow old.     *)

Crash(p) ==
  /\ ~Dead(p)
  /\ Goto(p, "dead")
  /\ tok' = [tok EXCEPT ![p] = None]
  /\ sweep' = [sweep EXCEPT ![p] = {}]
  /\ kept' = {t \in kept : by[t] # p}
  /\ Forget(p)
  /\ UNCHANGED <<fs, host>>

Age(t) ==
  /\ at[t] \in {Pending, Canonical}
  /\ ~stale[t]
  /\ stale' = [stale EXCEPT ![t] = TRUE]
  /\ UNCHANGED <<at, owned, by, locals, host, kept>>

Acquire(p) == Begin(p) \/ Sweep(p) \/ Stage(p) \/ Publish(p) \/ PublishBusy(p) \/ PublishLost(p)
Recover(p) == StatRetry(p) \/ StatStale(p) \/ ReadNoOwner(p) \/ ReadOwner(p)
                \/ JudgeAlive(p) \/ JudgeDead(p) \/ Retire(p) \/ RetireRefused(p)
Release(p) == ReleaseNotOwner(p) \/ ReleaseOwner(p) \/ ReleaseRename(p) \/ ReleaseGone(p)
                \/ ReleaseFails(p) \/ ReleaseVerified(p) \/ ReleaseRaced(p) \/ Restore(p)

Next == \/ \E p \in Procs : Acquire(p) \/ Recover(p) \/ Release(p) \/ GiveUp(p) \/ Crash(p)
        \/ \E t \in Dirs : Age(t)

Spec == Init /\ [][Next]_vars

-----------------------------------------------------------------------------
(* Properties.  The fence of a retirement is the tombstone's name: at most *)
(* one directory is ever moved under the name of one owner token.  A       *)
(* directory is misfiled when it sits under a name that describes another  *)
(* directory, or under the name of an ownerless one though a process       *)
(* staged it.  Tombstones of abandoned locks are never moved again, so     *)
(* what happened stays visible.                                            *)
Misfiled(u) ==
  \/ \E v \in Dirs : at[u] = Retired(v) /\ v # u
  \/ u \in Tokens /\ \E v \in Dirs, o \in BOOLEAN : at[u] = Stamped(v, o)

SingleHost == \A p, q \in Procs : host[p] = host[q]

Clean == SingleHost /\ \A u \in Dirs : ~Misfiled(u)

Holds(p) == pc[p] \in {"hold", "rename"}

(* As long as no directory has been misfiled, whoever holds a guard owns   *)
(* the directory at the lock path, whatever crashes, sweeps, recoveries    *)
(* and releases went on around it: a lost lock always leaves a misfiled    *)
(* tombstone behind.                                                       *)
LossLeavesEvidence == Clean => \A p \in Procs : Holds(p) => at[tok[p]] = Canonical

(* Two live processes are never both inside the lock (Acquire, "waits for  *)
(* exclusive ownership of path").                                          *)
MutualExclusion == \A p, q \in Procs : Holds(p) /\ Holds(q) => p = q

FencedExclusion == Clean => MutualExclusion

(* To its callers the protocol is a lock service: every system call either *)
(* lets one process in, lets one out, misfiles a directory for good, or is *)
(* nothing to them.                                                        *)
Service == INSTANCE LockService WITH inside <- {p \in Procs : Holds(p)}, lost <- ~Clean

ImplementsLockService == Service!Spec

(* A raced release that moved a replacement owner's directory never        *)
(* deletes it, and neither does the tombstone collection of a later        *)
(* Acquire: the owner record of a process still inside the lock survives,  *)
(* wherever it was moved to.  Only the sweep of a staging directory can    *)
(* take it.                                                                *)
NoLiveDirectoryDestroyed == \A p \in Procs : Holds(p) => at[tok[p]] \notin {Absent, Pending}

(* A release either frees the path or says that it has not: a directory    *)
(* with a live owner at the lock path belongs to a process still inside    *)
(* the lock, or to one whose Release has reported an error, and such a     *)
(* lock stays where it was, so that nobody enters beside it and the death  *)
(* of its owner frees it.  Else nobody could retire what was taken for     *)
(* released while its owner lives.                                         *)
NoZombieLock ==
  Clean =>
    /\ \A t \in Tokens : at[t] = Canonical /\ owned[t] /\ ~Dead(by[t])
                          => (tok[by[t]] = t /\ Holds(by[t])) \/ t \in kept
    /\ \A t \in kept : at[t] = Canonical

(* What recovery puts away is the directory of a dead owner: "Within one   *)
(* host, an exact live owner remains fenced by its token" (Guard.Release). *)
(* Refuted when the owner that was read releases its lock and ends before  *)
(* it is probed: whoever has published since is moved in its place.        *)
RetiredOwnerIsGone ==
  SingleHost => \A u \in Dirs, v \in Dirs : at[u] = Retired(v) /\ owned[u] => Dead(by[u])

(* Commands keep being run and every attempt ends, by the timeout at the   *)
(* latest; they are not for ever cancelled before their next system call,  *)
(* nor is the process probe for ever inconclusive.                         *)
Fairness ==
  /\ \A p \in Procs : /\ WF_vars(Acquire(p) \/ Recover(p) \/ Release(p) \/ GiveUp(p))
                      /\ SF_vars(Stage(p)) /\ SF_vars(StatStale(p)) /\ SF_vars(JudgeDead(p))
  /\ \A t \in Dirs : WF_vars(Age(t))

FairSpec == Spec /\ Fairness

(* The bound of a finite instance: apart from the lock itself, every token *)
(* is in a tombstone nothing removes.                                      *)
TokensSpent ==
  \A t \in Tokens : at[t] \notin {Absent, Pending} /\ ~(at[t] = Released(t) /\ owned[t])

Abandoned == \E t \in Dirs : at[t] = Canonical /\ (~owned[t] \/ Dead(by[t]))

(* A lock whose owner died, or that never had one, does not stay in the    *)
(* way for ever while somebody wants it.                                   *)
AbandonedLockRecovered ==
  Abandoned ~> ~Abandoned \/ (\A p \in Procs : Dead(p)) \/ TokensSpent
=============================================================================
