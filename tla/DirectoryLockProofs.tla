------------------------ MODULE DirectoryLockProofs ------------------------
(***************************************************************************)
(* Proofs about DirectoryLock for every set of processes, tokens and every *)
(* assignment of hosts: its types, and that a process inside the lock only *)
(* loses it to a misfiled directory (LossLeavesEvidence), from which       *)
(* mutual exclusion follows (FencedExclusion); that nothing removes its    *)
(* directory (NoLiveDirectoryDestroyed), and that a released guard leaves  *)
(* none behind (NoZombieLock); and that the protocol is a lock service.    *)
(***************************************************************************)
EXTENDS DirectoryLock, TLAPS

(* A process has a token exactly while an acquisition or a guard is in     *)
(* progress, and the directory it staged names it as its owner.            *)
TokensOwned ==
  \A p \in Procs :
    /\ pc[p] \in {"publish", "hold", "rename", "verify", "restore"} => tok[p] \in Tokens
    /\ tok[p] # None => by[tok[p]] = p

(* What was reported and kept has a live owner, and no guard any more. *)
KeptAlive ==
  /\ \A t \in kept : by[t] \in Procs /\ ~Dead(by[t])
  /\ \A p \in Procs : tok[p] \notin kept

(* Owner records name a process. *)
OwnersKnown == \A t \in Dirs : owned[t] => t \in Tokens /\ by[t] \in Procs

(* One directory at a time has the lock path, and one a released name,     *)
(* which no guard's own directory has before its release.                  *)
OnePerPath ==
  /\ \A t, u \in Dirs : at[t] = Canonical /\ at[u] = Canonical => t = u
  /\ \A t, u, v \in Dirs : at[t] = Released(v) /\ at[u] = Released(v) => t = u
  /\ \A p \in Procs : pc[p] \in {"publish", "hold", "rename"} => at[tok[p]] # Released(tok[p])

(* A directory being published has not been anywhere else yet. *)
StagedApart == \A p \in Procs : pc[p] = "publish" => at[tok[p]] \in {Pending, Absent}

(* A contender about to retire an owner has seen it dead. *)
RetiresTheDead ==
  \A p \in Procs :
    /\ seen[p] # None => by[seen[p]] \in Procs
    /\ pc[p] = "inspect" => seen[p] # None
    /\ pc[p] = "retire" /\ seen[p] # None /\ SingleHost => Dead(by[seen[p]])

(* Without a misfiled directory a guard has its own directory at the path  *)
(* until it renames it, under its own name, and a lock it was told it has  *)
(* not released stays there.                                               *)
GuardsHeld ==
  /\ \A p \in Procs : Holds(p) => at[tok[p]] = Canonical
  /\ \A t, u \in Dirs : at[t] = Released(u) => t = u
  /\ \A t \in kept : at[t] = Canonical

GuardsInPlace == Clean => GuardsHeld

(* A contender past its Lstat knows what it saw at the path. *)
StatTaken == \A p \in Procs : pc[p] \in {"read", "inspect", "retire"} => stat[p].dir \in Dirs

Basics == TypeOK /\ StatTaken /\ TokensOwned /\ KeptAlive /\ OwnersKnown

Inv == Basics /\ OnePerPath /\ StagedApart /\ RetiresTheDead /\ GuardsInPlace

-----------------------------------------------------------------------------
(* The names a directory can have are distinct. *)
LEMMA LocationsDiffer ==
  /\ Absent # Pending /\ Absent # Canonical /\ Pending # Canonical
  /\ \A t : Released(t) \notin {Absent, Pending, Canonical}
  /\ \A t : Retired(t) \notin {Absent, Pending, Canonical}
  /\ \A t, o : Stamped(t, o) \notin {Absent, Pending, Canonical}
  /\ \A t, u : Released(t) # Retired(u)
  /\ \A t, u, o : Released(t) # Stamped(u, o) /\ Retired(t) # Stamped(u, o)
  /\ \A t, u : (Released(t) = Released(u) => t = u) /\ (Retired(t) = Retired(u) => t = u)
BY DEF Absent, Pending, Canonical, Released, Retired, Stamped

(* And they are all locations. *)
LEMMA LocationsKnown ==
  /\ {Absent, Pending, Canonical} \subseteq Locations
  /\ \A t \in Dirs : Released(t) \in Locations /\ Retired(t) \in Locations
  /\ \A t \in Dirs, o \in BOOLEAN : Stamped(t, o) \in Locations
BY DEF Locations

(* Type correctness is inductive together with what the locals refer to. *)
LEMMA BasicsStep ==
  ASSUME Basics, [Next]_vars
  PROVE  Basics'
<1> USE DEF Basics, TypeOK, StatTaken, TokensOwned, KeptAlive, OwnersKnown, Dead, Dirs, Stats, Steps, NoStat, Goto, fs, locals
<1>1. ASSUME NEW p \in Procs, Begin(p) PROVE Basics'
  BY <1>1, LocationsKnown, ConstantsAssumption DEF Begin
<1>2. ASSUME NEW p \in Procs, Sweep(p) PROVE Basics'
  BY <1>2, LocationsKnown, ConstantsAssumption DEF Sweep
<1>3. ASSUME NEW p \in Procs, Stage(p) PROVE Basics'
  BY <1>3, LocationsKnown, ConstantsAssumption DEF Stage, Fresh
<1>4. ASSUME NEW p \in Procs, Publish(p) PROVE Basics'
  BY <1>4, LocationsKnown, ConstantsAssumption DEF Publish
<1>5. ASSUME NEW p \in Procs, PublishBusy(p) PROVE Basics'
  BY <1>5, LocationsKnown, ConstantsAssumption DEF PublishBusy
<1>6. ASSUME NEW p \in Procs, PublishLost(p) PROVE Basics'
  BY <1>6, LocationsKnown, ConstantsAssumption DEF PublishLost
<1>7. ASSUME NEW p \in Procs, StatRetry(p) PROVE Basics'
  BY <1>7, LocationsKnown, ConstantsAssumption DEF StatRetry
<1>8. ASSUME NEW p \in Procs, StatStale(p) PROVE Basics'
  BY <1>8, LocationsKnown, ConstantsAssumption DEF StatStale
<1>9. ASSUME NEW p \in Procs, ReadNoOwner(p) PROVE Basics'
  BY <1>9, LocationsKnown, ConstantsAssumption DEF ReadNoOwner
<1>10. ASSUME NEW p \in Procs, ReadOwner(p) PROVE Basics'
  BY <1>10, LocationsKnown, ConstantsAssumption DEF ReadOwner
<1>11. ASSUME NEW p \in Procs, JudgeAlive(p) PROVE Basics'
  BY <1>11, LocationsKnown, ConstantsAssumption DEF JudgeAlive, Forget
<1>12. ASSUME NEW p \in Procs, JudgeDead(p) PROVE Basics'
  BY <1>12, LocationsKnown, ConstantsAssumption DEF JudgeDead
<1>13. ASSUME NEW p \in Procs, Retire(p) PROVE Basics'
  BY <1>13, LocationsKnown, ConstantsAssumption DEF Retire, Forget, Tombstone
<1>14. ASSUME NEW p \in Procs, RetireRefused(p) PROVE Basics'
  BY <1>14, LocationsKnown, ConstantsAssumption DEF RetireRefused, Forget
<1>15. ASSUME NEW p \in Procs, ReleaseNotOwner(p) PROVE Basics'
  BY <1>15, LocationsKnown, ConstantsAssumption DEF ReleaseNotOwner, Done
<1>16. ASSUME NEW p \in Procs, ReleaseOwner(p) PROVE Basics'
  BY <1>16, LocationsKnown, ConstantsAssumption DEF ReleaseOwner
<1>17. ASSUME NEW p \in Procs, ReleaseRename(p) PROVE Basics'
  BY <1>17, LocationsKnown, ConstantsAssumption DEF ReleaseRename
<1>18. ASSUME NEW p \in Procs, ReleaseGone(p) PROVE Basics'
  BY <1>18, LocationsKnown, ConstantsAssumption DEF ReleaseGone, Done
<1>19. ASSUME NEW p \in Procs, ReleaseFails(p) PROVE Basics'
  <2>1. UNCHANGED <<at, owned, stale, by, stat, seen, sweep, host>> /\ pc[p] \in {"hold", "rename"}
    BY <1>19 DEF ReleaseFails
  <2>2. CASE pc' = [pc EXCEPT ![p] = "hold"] /\ UNCHANGED <<tok, kept>>
    BY <2>1, <2>2
  <2>3. CASE pc' = [pc EXCEPT ![p] = "idle"] /\ tok' = [tok EXCEPT ![p] = None] /\ kept' = kept \cup {tok[p]}
    BY <2>1, <2>3, ConstantsAssumption
  <2> QED
    BY <1>19, <2>2, <2>3 DEF ReleaseFails, ReportFailure, Done
<1>20. ASSUME NEW p \in Procs, ReleaseVerified(p) PROVE Basics'
  BY <1>20, LocationsKnown, ConstantsAssumption DEF ReleaseVerified, Done
<1>21. ASSUME NEW p \in Procs, ReleaseRaced(p) PROVE Basics'
  <2>1. UNCHANGED <<at, owned, stale, by, stat, seen, sweep, host, kept>> /\ pc[p] = "verify"
    BY <1>21 DEF ReleaseRaced
  <2>2. CASE pc' = [pc EXCEPT ![p] = "restore"] /\ tok' = tok
    BY <2>1, <2>2
  <2>3. CASE pc' = [pc EXCEPT ![p] = "idle"] /\ tok' = [tok EXCEPT ![p] = None]
    BY <2>1, <2>3, ConstantsAssumption
  <2> QED
    BY <1>21, <2>2, <2>3 DEF ReleaseRaced, Done
<1>22. ASSUME NEW p \in Procs, Restore(p) PROVE Basics'
  <2>1. /\ UNCHANGED <<owned, stale, by, stat, seen, sweep, host>> /\ pc[p] = "restore"
        /\ at' = [t \in Dirs |-> IF at[t] = Released(tok[p]) /\ Free THEN Canonical ELSE at[t]]
    BY <1>22 DEF Restore
  <2>2. CASE at'[tok[p]] = Canonical /\ pc' = [pc EXCEPT ![p] = "hold"] /\ UNCHANGED <<tok, kept>>
    BY <2>1, <2>2, LocationsKnown, ConstantsAssumption DEF Free
  <2>3. CASE /\ pc' = [pc EXCEPT ![p] = "idle"] /\ tok' = [tok EXCEPT ![p] = None]
             /\ kept' = IF at'[tok[p]] = Canonical THEN kept \cup {tok[p]} ELSE kept
    BY <2>1, <2>3, LocationsKnown, ConstantsAssumption DEF Free
  <2> QED
    BY <1>22, <2>2, <2>3 DEF Restore, ReportFailure, Done
<1>23. ASSUME NEW p \in Procs, GiveUp(p) PROVE Basics'
  BY <1>23, LocationsKnown, ConstantsAssumption DEF GiveUp
<1>24. ASSUME NEW p \in Procs, Crash(p) PROVE Basics'
  BY <1>24, LocationsKnown, ConstantsAssumption DEF Crash, Forget
<1>25. ASSUME NEW t \in Dirs, Age(t) PROVE Basics'
  BY <1>25, LocationsKnown, ConstantsAssumption DEF Age
<1>26. CASE UNCHANGED vars
  BY <1>26 DEF vars
<1> QED
  BY <1>1, <1>2, <1>3, <1>4, <1>5, <1>6, <1>7, <1>8, <1>9, <1>10, <1>11, <1>12, <1>13, <1>14, <1>15, <1>16, <1>17, <1>18, <1>19, <1>20, <1>21, <1>22, <1>23, <1>24, <1>25, <1>26 DEF Next, Acquire, Recover, Release

(* The files, the owner records and the locals of Acquire, recover and     *)
(* Release keep the shape that TypeOK states.                              *)
THEOREM TypeCorrect == Spec => []TypeOK
<1>1. Init => Basics
  BY LocationsKnown, ConstantsAssumption
     DEF Init, Basics, TypeOK, StatTaken, TokensOwned, KeptAlive, OwnersKnown, Dead, Dirs, Stats, Steps, NoStat
<1>2. Basics /\ [Next]_vars => Basics'
  BY BasicsStep
<1>3. Basics => TypeOK
  BY DEF Basics
<1> QED
  BY <1>1, <1>2, <1>3, PTL DEF Spec

(* Renames move one directory, to a path where there is none. *)
LEMMA OnePerPathStep ==
  ASSUME Basics, OnePerPath, [Next]_vars
  PROVE  OnePerPath'
<1> USE DEF Basics, TypeOK, StatTaken, TokensOwned, KeptAlive, OwnersKnown, OnePerPath, Dirs, Goto, fs, locals
<1>1. ASSUME NEW p \in Procs, Begin(p) PROVE OnePerPath'
  BY <1>1, LocationsDiffer, ConstantsAssumption DEF Begin
<1>2. ASSUME NEW p \in Procs, Sweep(p) PROVE OnePerPath'
  BY <1>2, LocationsDiffer, ConstantsAssumption DEF Sweep
<1>3. ASSUME NEW p \in Procs, Stage(p) PROVE OnePerPath'
  BY <1>3, LocationsDiffer, ConstantsAssumption DEF Stage, Fresh
<1>4. ASSUME NEW p \in Procs, Publish(p) PROVE OnePerPath'
  BY <1>4, LocationsDiffer, ConstantsAssumption DEF Publish, Free
<1>5. ASSUME NEW p \in Procs, PublishBusy(p) PROVE OnePerPath'
  BY <1>5, LocationsDiffer, ConstantsAssumption DEF PublishBusy
<1>6. ASSUME NEW p \in Procs, PublishLost(p) PROVE OnePerPath'
  BY <1>6, LocationsDiffer, ConstantsAssumption DEF PublishLost
<1>7. ASSUME NEW p \in Procs, StatRetry(p) PROVE OnePerPath'
  BY <1>7, LocationsDiffer, ConstantsAssumption DEF StatRetry
<1>8. ASSUME NEW p \in Procs, StatStale(p) PROVE OnePerPath'
  BY <1>8, LocationsDiffer, ConstantsAssumption DEF StatStale
<1>9. ASSUME NEW p \in Procs, ReadNoOwner(p) PROVE OnePerPath'
  BY <1>9, LocationsDiffer, ConstantsAssumption DEF ReadNoOwner
<1>10. ASSUME NEW p \in Procs, ReadOwner(p) PROVE OnePerPath'
  BY <1>10, LocationsDiffer, ConstantsAssumption DEF ReadOwner
<1>11. ASSUME NEW p \in Procs, JudgeAlive(p) PROVE OnePerPath'
  BY <1>11, LocationsDiffer, ConstantsAssumption DEF JudgeAlive, Forget
<1>12. ASSUME NEW p \in Procs, JudgeDead(p) PROVE OnePerPath'
  BY <1>12, LocationsDiffer, ConstantsAssumption DEF JudgeDead
<1>13. ASSUME NEW p \in Procs, Retire(p) PROVE OnePerPath'
  BY <1>13, LocationsDiffer, ConstantsAssumption DEF Retire, Forget, Tombstone
<1>14. ASSUME NEW p \in Procs, RetireRefused(p) PROVE OnePerPath'
  BY <1>14, LocationsDiffer, ConstantsAssumption DEF RetireRefused, Forget
<1>15. ASSUME NEW p \in Procs, ReleaseNotOwner(p) PROVE OnePerPath'
  BY <1>15, LocationsDiffer, ConstantsAssumption DEF ReleaseNotOwner, Done
<1>16. ASSUME NEW p \in Procs, ReleaseOwner(p) PROVE OnePerPath'
  BY <1>16, LocationsDiffer, ConstantsAssumption DEF ReleaseOwner
<1>17. ASSUME NEW p \in Procs, ReleaseRename(p) PROVE OnePerPath'
  BY <1>17, LocationsDiffer, ConstantsAssumption DEF ReleaseRename
<1>18. ASSUME NEW p \in Procs, ReleaseGone(p) PROVE OnePerPath'
  BY <1>18, LocationsDiffer, ConstantsAssumption DEF ReleaseGone, Done
<1>19. ASSUME NEW p \in Procs, ReleaseFails(p) PROVE OnePerPath'
  <2>1. UNCHANGED <<at, owned, stale, by, stat, seen, sweep, host>> /\ pc[p] \in {"hold", "rename"}
    BY <1>19 DEF ReleaseFails
  <2>2. CASE pc' = [pc EXCEPT ![p] = "hold"] /\ UNCHANGED <<tok, kept>>
    BY <2>1, <2>2
  <2>3. CASE pc' = [pc EXCEPT ![p] = "idle"] /\ tok' = [tok EXCEPT ![p] = None] /\ kept' = kept \cup {tok[p]}
    BY <2>1, <2>3, ConstantsAssumption
  <2> QED
    BY <1>19, <2>2, <2>3 DEF ReleaseFails, ReportFailure, Done
<1>20. ASSUME NEW p \in Procs, ReleaseVerified(p) PROVE OnePerPath'
  BY <1>20, LocationsDiffer, ConstantsAssumption DEF ReleaseVerified, Done
<1>21. ASSUME NEW p \in Procs, ReleaseRaced(p) PROVE OnePerPath'
  <2>1. UNCHANGED <<at, owned, stale, by, stat, seen, sweep, host, kept>> /\ pc[p] = "verify"
    BY <1>21 DEF ReleaseRaced
  <2>2. CASE pc' = [pc EXCEPT ![p] = "restore"] /\ tok' = tok
    BY <2>1, <2>2
  <2>3. CASE pc' = [pc EXCEPT ![p] = "idle"] /\ tok' = [tok EXCEPT ![p] = None]
    BY <2>1, <2>3, ConstantsAssumption
  <2> QED
    BY <1>21, <2>2, <2>3 DEF ReleaseRaced, Done
<1>22. ASSUME NEW p \in Procs, Restore(p) PROVE OnePerPath'
  <2>1. /\ UNCHANGED <<owned, stale, by, stat, seen, sweep, host>> /\ pc[p] = "restore"
        /\ at' = [t \in Dirs |-> IF at[t] = Released(tok[p]) /\ Free THEN Canonical ELSE at[t]]
    BY <1>22 DEF Restore
  <2>2. CASE at'[tok[p]] = Canonical /\ pc' = [pc EXCEPT ![p] = "hold"] /\ UNCHANGED <<tok, kept>>
    BY <2>1, <2>2, LocationsDiffer, ConstantsAssumption DEF Free
  <2>3. CASE /\ pc' = [pc EXCEPT ![p] = "idle"] /\ tok' = [tok EXCEPT ![p] = None]
             /\ kept' = IF at'[tok[p]] = Canonical THEN kept \cup {tok[p]} ELSE kept
    BY <2>1, <2>3, LocationsDiffer, ConstantsAssumption DEF Free
  <2> QED
    BY <1>22, <2>2, <2>3 DEF Restore, ReportFailure, Done
<1>23. ASSUME NEW p \in Procs, GiveUp(p) PROVE OnePerPath'
  BY <1>23, LocationsDiffer, ConstantsAssumption DEF GiveUp
<1>24. ASSUME NEW p \in Procs, Crash(p) PROVE OnePerPath'
  BY <1>24, LocationsDiffer, ConstantsAssumption DEF Crash, Forget
<1>25. ASSUME NEW t \in Dirs, Age(t) PROVE OnePerPath'
  BY <1>25, LocationsDiffer, ConstantsAssumption DEF Age
<1>26. CASE UNCHANGED vars
  BY <1>26 DEF vars
<1> QED
  BY <1>1, <1>2, <1>3, <1>4, <1>5, <1>6, <1>7, <1>8, <1>9, <1>10, <1>11, <1>12, <1>13, <1>14, <1>15, <1>16, <1>17, <1>18, <1>19, <1>20, <1>21, <1>22, <1>23, <1>24, <1>25, <1>26 DEF Next, Acquire, Recover, Release

(* Nothing moves a pending directory but its publisher and the sweep. *)
LEMMA StagedApartStep ==
  ASSUME Basics, OnePerPath, StagedApart, [Next]_vars
  PROVE  StagedApart'
<1> USE DEF Basics, TypeOK, StatTaken, TokensOwned, KeptAlive, OwnersKnown, OnePerPath, StagedApart, Dirs, Goto, fs, locals
<1>1. ASSUME NEW p \in Procs, Begin(p) PROVE StagedApart'
  BY <1>1, LocationsDiffer, ConstantsAssumption DEF Begin
<1>2. ASSUME NEW p \in Procs, Sweep(p) PROVE StagedApart'
  BY <1>2, LocationsDiffer, ConstantsAssumption DEF Sweep
<1>3. ASSUME NEW p \in Procs, Stage(p) PROVE StagedApart'
  BY <1>3, LocationsDiffer, ConstantsAssumption DEF Stage, Fresh
<1>4. ASSUME NEW p \in Procs, Publish(p) PROVE StagedApart'
  BY <1>4, LocationsDiffer, ConstantsAssumption DEF Publish, Free
<1>5. ASSUME NEW p \in Procs, PublishBusy(p) PROVE StagedApart'
  BY <1>5, LocationsDiffer, ConstantsAssumption DEF PublishBusy
<1>6. ASSUME NEW p \in Procs, PublishLost(p) PROVE StagedApart'
  BY <1>6, LocationsDiffer, ConstantsAssumption DEF PublishLost
<1>7. ASSUME NEW p \in Procs, StatRetry(p) PROVE StagedApart'
  BY <1>7, LocationsDiffer, ConstantsAssumption DEF StatRetry
<1>8. ASSUME NEW p \in Procs, StatStale(p) PROVE StagedApart'
  BY <1>8, LocationsDiffer, ConstantsAssumption DEF StatStale
<1>9. ASSUME NEW p \in Procs, ReadNoOwner(p) PROVE StagedApart'
  BY <1>9, LocationsDiffer, ConstantsAssumption DEF ReadNoOwner
<1>10. ASSUME NEW p \in Procs, ReadOwner(p) PROVE StagedApart'
  BY <1>10, LocationsDiffer, ConstantsAssumption DEF ReadOwner
<1>11. ASSUME NEW p \in Procs, JudgeAlive(p) PROVE StagedApart'
  BY <1>11, LocationsDiffer, ConstantsAssumption DEF JudgeAlive, Forget
<1>12. ASSUME NEW p \in Procs, JudgeDead(p) PROVE StagedApart'
  BY <1>12, LocationsDiffer, ConstantsAssumption DEF JudgeDead
<1>13. ASSUME NEW p \in Procs, Retire(p) PROVE StagedApart'
  BY <1>13, LocationsDiffer, ConstantsAssumption DEF Retire, Forget, Tombstone
<1>14. ASSUME NEW p \in Procs, RetireRefused(p) PROVE StagedApart'
  BY <1>14, LocationsDiffer, ConstantsAssumption DEF RetireRefused, Forget
<1>15. ASSUME NEW p \in Procs, ReleaseNotOwner(p) PROVE StagedApart'
  BY <1>15, LocationsDiffer, ConstantsAssumption DEF ReleaseNotOwner, Done
<1>16. ASSUME NEW p \in Procs, ReleaseOwner(p) PROVE StagedApart'
  BY <1>16, LocationsDiffer, ConstantsAssumption DEF ReleaseOwner
<1>17. ASSUME NEW p \in Procs, ReleaseRename(p) PROVE StagedApart'
  BY <1>17, LocationsDiffer, ConstantsAssumption DEF ReleaseRename
<1>18. ASSUME NEW p \in Procs, ReleaseGone(p) PROVE StagedApart'
  BY <1>18, LocationsDiffer, ConstantsAssumption DEF ReleaseGone, Done
<1>19. ASSUME NEW p \in Procs, ReleaseFails(p) PROVE StagedApart'
  <2>1. UNCHANGED <<at, owned, stale, by, stat, seen, sweep, host>> /\ pc[p] \in {"hold", "rename"}
    BY <1>19 DEF ReleaseFails
  <2>2. CASE pc' = [pc EXCEPT ![p] = "hold"] /\ UNCHANGED <<tok, kept>>
    BY <2>1, <2>2
  <2>3. CASE pc' = [pc EXCEPT ![p] = "idle"] /\ tok' = [tok EXCEPT ![p] = None] /\ kept' = kept \cup {tok[p]}
    BY <2>1, <2>3, ConstantsAssumption
  <2> QED
    BY <1>19, <2>2, <2>3 DEF ReleaseFails, ReportFailure, Done
<1>20. ASSUME NEW p \in Procs, ReleaseVerified(p) PROVE StagedApart'
  BY <1>20, LocationsDiffer, ConstantsAssumption DEF ReleaseVerified, Done
<1>21. ASSUME NEW p \in Procs, ReleaseRaced(p) PROVE StagedApart'
  <2>1. UNCHANGED <<at, owned, stale, by, stat, seen, sweep, host, kept>> /\ pc[p] = "verify"
    BY <1>21 DEF ReleaseRaced
  <2>2. CASE pc' = [pc EXCEPT ![p] = "restore"] /\ tok' = tok
    BY <2>1, <2>2
  <2>3. CASE pc' = [pc EXCEPT ![p] = "idle"] /\ tok' = [tok EXCEPT ![p] = None]
    BY <2>1, <2>3, ConstantsAssumption
  <2> QED
    BY <1>21, <2>2, <2>3 DEF ReleaseRaced, Done
<1>22. ASSUME NEW p \in Procs, Restore(p) PROVE StagedApart'
  <2>1. /\ UNCHANGED <<owned, stale, by, stat, seen, sweep, host>> /\ pc[p] = "restore"
        /\ at' = [t \in Dirs |-> IF at[t] = Released(tok[p]) /\ Free THEN Canonical ELSE at[t]]
    BY <1>22 DEF Restore
  <2>2. CASE at'[tok[p]] = Canonical /\ pc' = [pc EXCEPT ![p] = "hold"] /\ UNCHANGED <<tok, kept>>
    BY <2>1, <2>2, LocationsDiffer, ConstantsAssumption DEF Free
  <2>3. CASE /\ pc' = [pc EXCEPT ![p] = "idle"] /\ tok' = [tok EXCEPT ![p] = None]
             /\ kept' = IF at'[tok[p]] = Canonical THEN kept \cup {tok[p]} ELSE kept
    BY <2>1, <2>3, LocationsDiffer, ConstantsAssumption DEF Free
  <2> QED
    BY <1>22, <2>2, <2>3 DEF Restore, ReportFailure, Done
<1>23. ASSUME NEW p \in Procs, GiveUp(p) PROVE StagedApart'
  BY <1>23, LocationsDiffer, ConstantsAssumption DEF GiveUp
<1>24. ASSUME NEW p \in Procs, Crash(p) PROVE StagedApart'
  BY <1>24, LocationsDiffer, ConstantsAssumption DEF Crash, Forget
<1>25. ASSUME NEW t \in Dirs, Age(t) PROVE StagedApart'
  BY <1>25, LocationsDiffer, ConstantsAssumption DEF Age
<1>26. CASE UNCHANGED vars
  BY <1>26 DEF vars
<1> QED
  BY <1>1, <1>2, <1>3, <1>4, <1>5, <1>6, <1>7, <1>8, <1>9, <1>10, <1>11, <1>12, <1>13, <1>14, <1>15, <1>16, <1>17, <1>18, <1>19, <1>20, <1>21, <1>22, <1>23, <1>24, <1>25, <1>26 DEF Next, Acquire, Recover, Release

(* An owner once seen dead stays dead, and its record stays its own. *)
LEMMA RetiresTheDeadStep ==
  ASSUME Basics, RetiresTheDead, [Next]_vars
  PROVE  RetiresTheDead'
<1> USE DEF Basics, TypeOK, StatTaken, TokensOwned, KeptAlive, OwnersKnown, RetiresTheDead, SingleHost, Dead, Dirs, Goto, fs, locals
<1>1. ASSUME NEW p \in Procs, Begin(p) PROVE RetiresTheDead'
  BY <1>1, LocationsDiffer, ConstantsAssumption DEF Begin
<1>2. ASSUME NEW p \in Procs, Sweep(p) PROVE RetiresTheDead'
  BY <1>2, LocationsDiffer, ConstantsAssumption DEF Sweep
<1>3. ASSUME NEW p \in Procs, Stage(p) PROVE RetiresTheDead'
  BY <1>3, LocationsDiffer, ConstantsAssumption DEF Stage, Fresh
<1>4. ASSUME NEW p \in Procs, Publish(p) PROVE RetiresTheDead'
  BY <1>4, LocationsDiffer, ConstantsAssumption DEF Publish, Free
<1>5. ASSUME NEW p \in Procs, PublishBusy(p) PROVE RetiresTheDead'
  BY <1>5, LocationsDiffer, ConstantsAssumption DEF PublishBusy
<1>6. ASSUME NEW p \in Procs, PublishLost(p) PROVE RetiresTheDead'
  BY <1>6, LocationsDiffer, ConstantsAssumption DEF PublishLost
<1>7. ASSUME NEW p \in Procs, StatRetry(p) PROVE RetiresTheDead'
  BY <1>7, LocationsDiffer, ConstantsAssumption DEF StatRetry
<1>8. ASSUME NEW p \in Procs, StatStale(p) PROVE RetiresTheDead'
  BY <1>8, LocationsDiffer, ConstantsAssumption DEF StatStale
<1>9. ASSUME NEW p \in Procs, ReadNoOwner(p) PROVE RetiresTheDead'
  BY <1>9, LocationsDiffer, ConstantsAssumption DEF ReadNoOwner
<1>10. ASSUME NEW p \in Procs, ReadOwner(p) PROVE RetiresTheDead'
  BY <1>10, LocationsDiffer, ConstantsAssumption DEF ReadOwner
<1>11. ASSUME NEW p \in Procs, JudgeAlive(p) PROVE RetiresTheDead'
  BY <1>11, LocationsDiffer, ConstantsAssumption DEF JudgeAlive, Forget
<1>12. ASSUME NEW p \in Procs, JudgeDead(p) PROVE RetiresTheDead'
  BY <1>12, LocationsDiffer, ConstantsAssumption DEF JudgeDead
<1>13. ASSUME NEW p \in Procs, Retire(p) PROVE RetiresTheDead'
  BY <1>13, LocationsDiffer, ConstantsAssumption DEF Retire, Forget, Tombstone
<1>14. ASSUME NEW p \in Procs, RetireRefused(p) PROVE RetiresTheDead'
  BY <1>14, LocationsDiffer, ConstantsAssumption DEF RetireRefused, Forget
<1>15. ASSUME NEW p \in Procs, ReleaseNotOwner(p) PROVE RetiresTheDead'
  BY <1>15, LocationsDiffer, ConstantsAssumption DEF ReleaseNotOwner, Done
<1>16. ASSUME NEW p \in Procs, ReleaseOwner(p) PROVE RetiresTheDead'
  BY <1>16, LocationsDiffer, ConstantsAssumption DEF ReleaseOwner
<1>17. ASSUME NEW p \in Procs, ReleaseRename(p) PROVE RetiresTheDead'
  BY <1>17, LocationsDiffer, ConstantsAssumption DEF ReleaseRename
<1>18. ASSUME NEW p \in Procs, ReleaseGone(p) PROVE RetiresTheDead'
  BY <1>18, LocationsDiffer, ConstantsAssumption DEF ReleaseGone, Done
<1>19. ASSUME NEW p \in Procs, ReleaseFails(p) PROVE RetiresTheDead'
  <2>1. UNCHANGED <<at, owned, stale, by, stat, seen, sweep, host>> /\ pc[p] \in {"hold", "rename"}
    BY <1>19 DEF ReleaseFails
  <2>2. CASE pc' = [pc EXCEPT ![p] = "hold"] /\ UNCHANGED <<tok, kept>>
    BY <2>1, <2>2
  <2>3. CASE pc' = [pc EXCEPT ![p] = "idle"] /\ tok' = [tok EXCEPT ![p] = None] /\ kept' = kept \cup {tok[p]}
    BY <2>1, <2>3, ConstantsAssumption
  <2> QED
    BY <1>19, <2>2, <2>3 DEF ReleaseFails, ReportFailure, Done
<1>20. ASSUME NEW p \in Procs, ReleaseVerified(p) PROVE RetiresTheDead'
  BY <1>20, LocationsDiffer, ConstantsAssumption DEF ReleaseVerified, Done
<1>21. ASSUME NEW p \in Procs, ReleaseRaced(p) PROVE RetiresTheDead'
  <2>1. UNCHANGED <<at, owned, stale, by, stat, seen, sweep, host, kept>> /\ pc[p] = "verify"
    BY <1>21 DEF ReleaseRaced
  <2>2. CASE pc' = [pc EXCEPT ![p] = "restore"] /\ tok' = tok
    BY <2>1, <2>2
  <2>3. CASE pc' = [pc EXCEPT ![p] = "idle"] /\ tok' = [tok EXCEPT ![p] = None]
    BY <2>1, <2>3, ConstantsAssumption
  <2> QED
    BY <1>21, <2>2, <2>3 DEF ReleaseRaced, Done
<1>22. ASSUME NEW p \in Procs, Restore(p) PROVE RetiresTheDead'
  <2>1. /\ UNCHANGED <<owned, stale, by, stat, seen, sweep, host>> /\ pc[p] = "restore"
        /\ at' = [t \in Dirs |-> IF at[t] = Released(tok[p]) /\ Free THEN Canonical ELSE at[t]]
    BY <1>22 DEF Restore
  <2>2. CASE at'[tok[p]] = Canonical /\ pc' = [pc EXCEPT ![p] = "hold"] /\ UNCHANGED <<tok, kept>>
    BY <2>1, <2>2, LocationsDiffer, ConstantsAssumption DEF Free
  <2>3. CASE /\ pc' = [pc EXCEPT ![p] = "idle"] /\ tok' = [tok EXCEPT ![p] = None]
             /\ kept' = IF at'[tok[p]] = Canonical THEN kept \cup {tok[p]} ELSE kept
    BY <2>1, <2>3, LocationsDiffer, ConstantsAssumption DEF Free
  <2> QED
    BY <1>22, <2>2, <2>3 DEF Restore, ReportFailure, Done
<1>23. ASSUME NEW p \in Procs, GiveUp(p) PROVE RetiresTheDead'
  BY <1>23, LocationsDiffer, ConstantsAssumption DEF GiveUp
<1>24. ASSUME NEW p \in Procs, Crash(p) PROVE RetiresTheDead'
  BY <1>24, LocationsDiffer, ConstantsAssumption DEF Crash, Forget
<1>25. ASSUME NEW t \in Dirs, Age(t) PROVE RetiresTheDead'
  BY <1>25, LocationsDiffer, ConstantsAssumption DEF Age
<1>26. CASE UNCHANGED vars
  BY <1>26 DEF vars
<1> QED
  BY <1>1, <1>2, <1>3, <1>4, <1>5, <1>6, <1>7, <1>8, <1>9, <1>10, <1>11, <1>12, <1>13, <1>14, <1>15, <1>16, <1>17, <1>18, <1>19, <1>20, <1>21, <1>22, <1>23, <1>24, <1>25, <1>26 DEF Next, Acquire, Recover, Release

(* A directory in a tombstone of an abandoned lock stays there. *)
LEMMA TombstonesStay ==
  ASSUME Basics, OnePerPath, StagedApart, Clean', [Next]_vars
  PROVE  Clean
<1> USE DEF Basics, TypeOK, StatTaken, TokensOwned, KeptAlive, OwnersKnown, OnePerPath, StagedApart, Clean, Misfiled, SingleHost, Dirs, Goto, fs, locals
<1>1. ASSUME NEW p \in Procs, Begin(p) PROVE Clean
  BY <1>1, LocationsDiffer, ConstantsAssumption DEF Begin
<1>2. ASSUME NEW p \in Procs, Sweep(p) PROVE Clean
  BY <1>2, LocationsDiffer, ConstantsAssumption DEF Sweep
<1>3. ASSUME NEW p \in Procs, Stage(p) PROVE Clean
  BY <1>3, LocationsDiffer, ConstantsAssumption DEF Stage, Fresh
<1>4. ASSUME NEW p \in Procs, Publish(p) PROVE Clean
  BY <1>4, LocationsDiffer, ConstantsAssumption DEF Publish, Free
<1>5. ASSUME NEW p \in Procs, PublishBusy(p) PROVE Clean
  BY <1>5, LocationsDiffer, ConstantsAssumption DEF PublishBusy
<1>6. ASSUME NEW p \in Procs, PublishLost(p) PROVE Clean
  BY <1>6, LocationsDiffer, ConstantsAssumption DEF PublishLost
<1>7. ASSUME NEW p \in Procs, StatRetry(p) PROVE Clean
  BY <1>7, LocationsDiffer, ConstantsAssumption DEF StatRetry
<1>8. ASSUME NEW p \in Procs, StatStale(p) PROVE Clean
  BY <1>8, LocationsDiffer, ConstantsAssumption DEF StatStale
<1>9. ASSUME NEW p \in Procs, ReadNoOwner(p) PROVE Clean
  BY <1>9, LocationsDiffer, ConstantsAssumption DEF ReadNoOwner
<1>10. ASSUME NEW p \in Procs, ReadOwner(p) PROVE Clean
  BY <1>10, LocationsDiffer, ConstantsAssumption DEF ReadOwner
<1>11. ASSUME NEW p \in Procs, JudgeAlive(p) PROVE Clean
  BY <1>11, LocationsDiffer, ConstantsAssumption DEF JudgeAlive, Forget
<1>12. ASSUME NEW p \in Procs, JudgeDead(p) PROVE Clean
  BY <1>12, LocationsDiffer, ConstantsAssumption DEF JudgeDead
<1>13. ASSUME NEW p \in Procs, Retire(p) PROVE Clean
  BY <1>13, LocationsDiffer, ConstantsAssumption DEF Retire, Forget, Tombstone
<1>14. ASSUME NEW p \in Procs, RetireRefused(p) PROVE Clean
  BY <1>14, LocationsDiffer, ConstantsAssumption DEF RetireRefused, Forget
<1>15. ASSUME NEW p \in Procs, ReleaseNotOwner(p) PROVE Clean
  BY <1>15, LocationsDiffer, ConstantsAssumption DEF ReleaseNotOwner, Done
<1>16. ASSUME NEW p \in Procs, ReleaseOwner(p) PROVE Clean
  BY <1>16, LocationsDiffer, ConstantsAssumption DEF ReleaseOwner
<1>17. ASSUME NEW p \in Procs, ReleaseRename(p) PROVE Clean
  BY <1>17, LocationsDiffer, ConstantsAssumption DEF ReleaseRename
<1>18. ASSUME NEW p \in Procs, ReleaseGone(p) PROVE Clean
  BY <1>18, LocationsDiffer, ConstantsAssumption DEF ReleaseGone, Done
<1>19. ASSUME NEW p \in Procs, ReleaseFails(p) PROVE Clean
  <2>1. UNCHANGED <<at, owned, stale, by, stat, seen, sweep, host>> /\ pc[p] \in {"hold", "rename"}
    BY <1>19 DEF ReleaseFails
  <2>2. CASE pc' = [pc EXCEPT ![p] = "hold"] /\ UNCHANGED <<tok, kept>>
    BY <2>1, <2>2
  <2>3. CASE pc' = [pc EXCEPT ![p] = "idle"] /\ tok' = [tok EXCEPT ![p] = None] /\ kept' = kept \cup {tok[p]}
    BY <2>1, <2>3, ConstantsAssumption
  <2> QED
    BY <1>19, <2>2, <2>3 DEF ReleaseFails, ReportFailure, Done
<1>20. ASSUME NEW p \in Procs, ReleaseVerified(p) PROVE Clean
  BY <1>20, LocationsDiffer, ConstantsAssumption DEF ReleaseVerified, Done
<1>21. ASSUME NEW p \in Procs, ReleaseRaced(p) PROVE Clean
  <2>1. UNCHANGED <<at, owned, stale, by, stat, seen, sweep, host, kept>> /\ pc[p] = "verify"
    BY <1>21 DEF ReleaseRaced
  <2>2. CASE pc' = [pc EXCEPT ![p] = "restore"] /\ tok' = tok
    BY <2>1, <2>2
  <2>3. CASE pc' = [pc EXCEPT ![p] = "idle"] /\ tok' = [tok EXCEPT ![p] = None]
    BY <2>1, <2>3, ConstantsAssumption
  <2> QED
    BY <1>21, <2>2, <2>3 DEF ReleaseRaced, Done
<1>22. ASSUME NEW p \in Procs, Restore(p) PROVE Clean
  <2>1. /\ UNCHANGED <<owned, stale, by, stat, seen, sweep, host>> /\ pc[p] = "restore"
        /\ at' = [t \in Dirs |-> IF at[t] = Released(tok[p]) /\ Free THEN Canonical ELSE at[t]]
    BY <1>22 DEF Restore
  <2>2. CASE at'[tok[p]] = Canonical /\ pc' = [pc EXCEPT ![p] = "hold"] /\ UNCHANGED <<tok, kept>>
    BY <2>1, <2>2, LocationsDiffer, ConstantsAssumption DEF Free
  <2>3. CASE /\ pc' = [pc EXCEPT ![p] = "idle"] /\ tok' = [tok EXCEPT ![p] = None]
             /\ kept' = IF at'[tok[p]] = Canonical THEN kept \cup {tok[p]} ELSE kept
    BY <2>1, <2>3, LocationsDiffer, ConstantsAssumption DEF Free
  <2> QED
    BY <1>22, <2>2, <2>3 DEF Restore, ReportFailure, Done
<1>23. ASSUME NEW p \in Procs, GiveUp(p) PROVE Clean
  BY <1>23, LocationsDiffer, ConstantsAssumption DEF GiveUp
<1>24. ASSUME NEW p \in Procs, Crash(p) PROVE Clean
  BY <1>24, LocationsDiffer, ConstantsAssumption DEF Crash, Forget
<1>25. ASSUME NEW t \in Dirs, Age(t) PROVE Clean
  BY <1>25, LocationsDiffer, ConstantsAssumption DEF Age
<1>26. CASE UNCHANGED vars
  BY <1>26 DEF vars
<1> QED
  BY <1>1, <1>2, <1>3, <1>4, <1>5, <1>6, <1>7, <1>8, <1>9, <1>10, <1>11, <1>12, <1>13, <1>14, <1>15, <1>16, <1>17, <1>18, <1>19, <1>20, <1>21, <1>22, <1>23, <1>24, <1>25, <1>26 DEF Next, Acquire, Recover, Release

(* Without misfiling, renames hit only the directories they mean. *)
LEMMA GuardsStep ==
  ASSUME Basics, OnePerPath, StagedApart, RetiresTheDead, GuardsHeld, Clean, Clean', [Next]_vars
  PROVE  GuardsHeld'
<1> USE DEF Basics, TypeOK, StatTaken, TokensOwned, KeptAlive, OwnersKnown, OnePerPath, StagedApart, RetiresTheDead, GuardsHeld, Holds, Clean, Misfiled, SingleHost, Dead, Dirs, Goto, fs, locals
<1>1. ASSUME NEW p \in Procs, Begin(p) PROVE GuardsHeld'
  BY <1>1, LocationsDiffer, ConstantsAssumption DEF Begin
<1>2. ASSUME NEW p \in Procs, Sweep(p) PROVE GuardsHeld'
  BY <1>2, LocationsDiffer, ConstantsAssumption DEF Sweep
<1>3. ASSUME NEW p \in Procs, Stage(p) PROVE GuardsHeld'
  BY <1>3, LocationsDiffer, ConstantsAssumption DEF Stage, Fresh
<1>4. ASSUME NEW p \in Procs, Publish(p) PROVE GuardsHeld'
  BY <1>4, LocationsDiffer, ConstantsAssumption DEF Publish, Free
<1>5. ASSUME NEW p \in Procs, PublishBusy(p) PROVE GuardsHeld'
  BY <1>5, LocationsDiffer, ConstantsAssumption DEF PublishBusy
<1>6. ASSUME NEW p \in Procs, PublishLost(p) PROVE GuardsHeld'
  BY <1>6, LocationsDiffer, ConstantsAssumption DEF PublishLost
<1>7. ASSUME NEW p \in Procs, StatRetry(p) PROVE GuardsHeld'
  BY <1>7, LocationsDiffer, ConstantsAssumption DEF StatRetry
<1>8. ASSUME NEW p \in Procs, StatStale(p) PROVE GuardsHeld'
  BY <1>8, LocationsDiffer, ConstantsAssumption DEF StatStale
<1>9. ASSUME NEW p \in Procs, ReadNoOwner(p) PROVE GuardsHeld'
  BY <1>9, LocationsDiffer, ConstantsAssumption DEF ReadNoOwner
<1>10. ASSUME NEW p \in Procs, ReadOwner(p) PROVE GuardsHeld'
  BY <1>10, LocationsDiffer, ConstantsAssumption DEF ReadOwner
<1>11. ASSUME NEW p \in Procs, JudgeAlive(p) PROVE GuardsHeld'
  BY <1>11, LocationsDiffer, ConstantsAssumption DEF JudgeAlive, Forget
<1>12. ASSUME NEW p \in Procs, JudgeDead(p) PROVE GuardsHeld'
  BY <1>12, LocationsDiffer, ConstantsAssumption DEF JudgeDead
<1>13. ASSUME NEW p \in Procs, Retire(p) PROVE GuardsHeld'
  <2>1. PICK t \in Dirs : at[t] = Canonical /\ at' = [at EXCEPT ![t] = Tombstone(p)]
    BY <1>13 DEF Retire
  <2>2. at'[t] = Tombstone(p) /\ pc[p] = "retire"
    BY <1>13, <2>1 DEF Retire
  <2>3. t \notin kept /\ \A q \in Procs : Holds(q) => tok[q] # t
    <3>1. CASE seen[p] = None
      <4>1. Tombstone(p) = Stamped(stat[p].dir, stat[p].owned) /\ stat[p].owned \in BOOLEAN
        BY <3>1, <2>2 DEF Tombstone, Stats
      <4>2. t \notin Tokens
        BY <4>1, <2>2
      <4> QED
        BY <4>2
    <3>2. CASE seen[p] # None
      <4>1. Tombstone(p) = Retired(seen[p]) /\ seen[p] \in Dirs
        BY <3>2 DEF Tombstone
      <4>2. t = seen[p]
        <5>1. at'[t] = Retired(seen[p])
          BY <4>1, <2>2
        <5>2. \A v \in Dirs : at'[t] = Retired(v) => v = t
          BY <2>1
        <5> QED
          BY <5>1, <5>2, <4>1
      <4>3. Dead(by[t])
        BY <4>2, <3>2, <2>2
      <4> QED
        BY <4>3, ConstantsAssumption
    <3> QED
      BY <3>1, <3>2
  <2>4. \A u \in Dirs : Tombstone(p) # Released(u)
    BY LocationsDiffer DEF Tombstone
  <2> QED
    BY <1>13, <2>1, <2>3, <2>4 DEF Retire, Forget
<1>14. ASSUME NEW p \in Procs, RetireRefused(p) PROVE GuardsHeld'
  BY <1>14, LocationsDiffer, ConstantsAssumption DEF RetireRefused, Forget
<1>15. ASSUME NEW p \in Procs, ReleaseNotOwner(p) PROVE GuardsHeld'
  BY <1>15, LocationsDiffer, ConstantsAssumption DEF ReleaseNotOwner, Done
<1>16. ASSUME NEW p \in Procs, ReleaseOwner(p) PROVE GuardsHeld'
  BY <1>16, LocationsDiffer, ConstantsAssumption DEF ReleaseOwner
<1>17. ASSUME NEW p \in Procs, ReleaseRename(p) PROVE GuardsHeld'
  BY <1>17, LocationsDiffer, ConstantsAssumption DEF ReleaseRename
<1>18. ASSUME NEW p \in Procs, ReleaseGone(p) PROVE GuardsHeld'
  BY <1>18, LocationsDiffer, ConstantsAssumption DEF ReleaseGone, Done
<1>19. ASSUME NEW p \in Procs, ReleaseFails(p) PROVE GuardsHeld'
  <2>1. UNCHANGED <<at, owned, stale, by, stat, seen, sweep, host>> /\ pc[p] \in {"hold", "rename"}
    BY <1>19 DEF ReleaseFails
  <2>2. CASE pc' = [pc EXCEPT ![p] = "hold"] /\ UNCHANGED <<tok, kept>>
    BY <2>1, <2>2
  <2>3. CASE pc' = [pc EXCEPT ![p] = "idle"] /\ tok' = [tok EXCEPT ![p] = None] /\ kept' = kept \cup {tok[p]}
    BY <2>1, <2>3, ConstantsAssumption
  <2> QED
    BY <1>19, <2>2, <2>3 DEF ReleaseFails, ReportFailure, Done
<1>20. ASSUME NEW p \in Procs, ReleaseVerified(p) PROVE GuardsHeld'
  BY <1>20, LocationsDiffer, ConstantsAssumption DEF ReleaseVerified, Done
<1>21. ASSUME NEW p \in Procs, ReleaseRaced(p) PROVE GuardsHeld'
  <2>1. UNCHANGED <<at, owned, stale, by, stat, seen, sweep, host, kept>> /\ pc[p] = "verify"
    BY <1>21 DEF ReleaseRaced
  <2>2. CASE pc' = [pc EXCEPT ![p] = "restore"] /\ tok' = tok
    BY <2>1, <2>2
  <2>3. CASE pc' = [pc EXCEPT ![p] = "idle"] /\ tok' = [tok EXCEPT ![p] = None]
    BY <2>1, <2>3, ConstantsAssumption
  <2> QED
    BY <1>21, <2>2, <2>3 DEF ReleaseRaced, Done
<1>22. ASSUME NEW p \in Procs, Restore(p) PROVE GuardsHeld'
  <2>1. /\ UNCHANGED <<owned, stale, by, stat, seen, sweep, host>> /\ pc[p] = "restore"
        /\ at' = [t \in Dirs |-> IF at[t] = Released(tok[p]) /\ Free THEN Canonical ELSE at[t]]
    BY <1>22 DEF Restore
  <2>2. CASE at'[tok[p]] = Canonical /\ pc' = [pc EXCEPT ![p] = "hold"] /\ UNCHANGED <<tok, kept>>
    BY <2>1, <2>2, LocationsDiffer, ConstantsAssumption DEF Free
  <2>3. CASE /\ pc' = [pc EXCEPT ![p] = "idle"] /\ tok' = [tok EXCEPT ![p] = None]
             /\ kept' = IF at'[tok[p]] = Canonical THEN kept \cup {tok[p]} ELSE kept
    BY <2>1, <2>3, LocationsDiffer, ConstantsAssumption DEF Free
  <2> QED
    BY <1>22, <2>2, <2>3 DEF Restore, ReportFailure, Done
<1>23. ASSUME NEW p \in Procs, GiveUp(p) PROVE GuardsHeld'
  BY <1>23, LocationsDiffer, ConstantsAssumption DEF GiveUp
<1>24. ASSUME NEW p \in Procs, Crash(p) PROVE GuardsHeld'
  BY <1>24, LocationsDiffer, ConstantsAssumption DEF Crash, Forget
<1>25. ASSUME NEW t \in Dirs, Age(t) PROVE GuardsHeld'
  BY <1>25, LocationsDiffer, ConstantsAssumption DEF Age
<1>26. CASE UNCHANGED vars
  BY <1>26 DEF vars
<1> QED
  BY <1>1, <1>2, <1>3, <1>4, <1>5, <1>6, <1>7, <1>8, <1>9, <1>10, <1>11, <1>12, <1>13, <1>14, <1>15, <1>16, <1>17, <1>18, <1>19, <1>20, <1>21, <1>22, <1>23, <1>24, <1>25, <1>26 DEF Next, Acquire, Recover, Release

(* The inductive invariant holds in every run of the lock's protocol. *)
THEOREM Safety == Spec => []Inv
<1>1. Init => Inv
  <2>1. Init => Basics
    BY LocationsKnown, ConstantsAssumption
       DEF Init, Basics, TypeOK, StatTaken, TokensOwned, KeptAlive, OwnersKnown, Dead, Dirs, Stats, Steps, NoStat
  <2>2. Init => OnePerPath /\ StagedApart /\ RetiresTheDead /\ GuardsInPlace
    BY LocationsDiffer, ConstantsAssumption
       DEF Init, OnePerPath, StagedApart, RetiresTheDead, GuardsInPlace, GuardsHeld, Holds, Dirs
  <2> QED
    BY <2>1, <2>2 DEF Inv
<1>2. Inv /\ [Next]_vars => Inv'
  <2> SUFFICES ASSUME Inv, [Next]_vars PROVE Inv'
    OBVIOUS
  <2>1. Basics' /\ OnePerPath' /\ StagedApart' /\ RetiresTheDead'
    BY BasicsStep, OnePerPathStep, StagedApartStep, RetiresTheDeadStep DEF Inv
  <2>2. ASSUME Clean' PROVE GuardsHeld'
    BY <2>2, TombstonesStay, GuardsStep DEF Inv, GuardsInPlace
  <2> QED
    BY <2>1, <2>2 DEF Inv, GuardsInPlace
<1> QED
  BY <1>1, <1>2, PTL DEF Spec

(* A process inside the lock (between Acquire and Release) loses it only   *)
(* to a misfiled directory.                                                *)
THEOREM GuardsKeepTheirLock == Spec => []LossLeavesEvidence
<1>1. Inv => LossLeavesEvidence
  BY DEF Inv, GuardsInPlace, GuardsHeld, LossLeavesEvidence
<1> QED
  BY <1>1, Safety, PTL

(* Hence no two processes are inside the lock of one path together, unless *)
(* recover or Release has misfiled a directory.                            *)
THEOREM Exclusion == Spec => []FencedExclusion
<1>1. Inv => FencedExclusion
  <2> SUFFICES ASSUME Inv, Clean, NEW p \in Procs, NEW q \in Procs, Holds(p), Holds(q)
               PROVE  p = q
    BY DEF FencedExclusion, MutualExclusion
  <2>1. tok[p] \in Tokens /\ by[tok[p]] = p /\ tok[q] \in Tokens /\ by[tok[q]] = q
    BY ConstantsAssumption DEF Inv, Basics, TokensOwned, Holds
  <2>2. at[tok[p]] = Canonical /\ at[tok[q]] = Canonical
    BY DEF Inv, GuardsInPlace, GuardsHeld
  <2> QED
    BY <2>1, <2>2 DEF Inv, OnePerPath, Dirs
<1> QED
  BY <1>1, Safety, PTL

(* Nothing removes a directory but the sweep of pending names, the         *)
(* publisher that finds the path taken, and whoever finds it released.     *)
LEMMA LiveStaysStep ==
  ASSUME Basics, OnePerPath, NoLiveDirectoryDestroyed, [Next]_vars
  PROVE  NoLiveDirectoryDestroyed'
<1> USE DEF Basics, TypeOK, StatTaken, TokensOwned, KeptAlive, OwnersKnown, OnePerPath,
           NoLiveDirectoryDestroyed, Holds, Dirs, Goto, fs, locals
<1>1. ASSUME NEW p \in Procs, Begin(p) PROVE NoLiveDirectoryDestroyed'
  BY <1>1, LocationsDiffer, ConstantsAssumption DEF Begin
<1>2. ASSUME NEW p \in Procs, Sweep(p) PROVE NoLiveDirectoryDestroyed'
  BY <1>2, LocationsDiffer, ConstantsAssumption DEF Sweep
<1>3. ASSUME NEW p \in Procs, Stage(p) PROVE NoLiveDirectoryDestroyed'
  BY <1>3, LocationsDiffer, ConstantsAssumption DEF Stage, Fresh
<1>4. ASSUME NEW p \in Procs, Publish(p) PROVE NoLiveDirectoryDestroyed'
  BY <1>4, LocationsDiffer, ConstantsAssumption DEF Publish, Free
<1>5. ASSUME NEW p \in Procs, PublishBusy(p) PROVE NoLiveDirectoryDestroyed'
  BY <1>5, LocationsDiffer, ConstantsAssumption DEF PublishBusy
<1>6. ASSUME NEW p \in Procs, PublishLost(p) PROVE NoLiveDirectoryDestroyed'
  BY <1>6, LocationsDiffer, ConstantsAssumption DEF PublishLost
<1>7. ASSUME NEW p \in Procs, StatRetry(p) PROVE NoLiveDirectoryDestroyed'
  BY <1>7, LocationsDiffer, ConstantsAssumption DEF StatRetry
<1>8. ASSUME NEW p \in Procs, StatStale(p) PROVE NoLiveDirectoryDestroyed'
  BY <1>8, LocationsDiffer, ConstantsAssumption DEF StatStale
<1>9. ASSUME NEW p \in Procs, ReadNoOwner(p) PROVE NoLiveDirectoryDestroyed'
  BY <1>9, LocationsDiffer, ConstantsAssumption DEF ReadNoOwner
<1>10. ASSUME NEW p \in Procs, ReadOwner(p) PROVE NoLiveDirectoryDestroyed'
  BY <1>10, LocationsDiffer, ConstantsAssumption DEF ReadOwner
<1>11. ASSUME NEW p \in Procs, JudgeAlive(p) PROVE NoLiveDirectoryDestroyed'
  BY <1>11, LocationsDiffer, ConstantsAssumption DEF JudgeAlive, Forget
<1>12. ASSUME NEW p \in Procs, JudgeDead(p) PROVE NoLiveDirectoryDestroyed'
  BY <1>12, LocationsDiffer, ConstantsAssumption DEF JudgeDead
<1>13. ASSUME NEW p \in Procs, Retire(p) PROVE NoLiveDirectoryDestroyed'
  BY <1>13, LocationsDiffer, ConstantsAssumption DEF Retire, Forget, Tombstone
<1>14. ASSUME NEW p \in Procs, RetireRefused(p) PROVE NoLiveDirectoryDestroyed'
  BY <1>14, LocationsDiffer, ConstantsAssumption DEF RetireRefused, Forget
<1>15. ASSUME NEW p \in Procs, ReleaseNotOwner(p) PROVE NoLiveDirectoryDestroyed'
  BY <1>15, LocationsDiffer, ConstantsAssumption DEF ReleaseNotOwner, Done
<1>16. ASSUME NEW p \in Procs, ReleaseOwner(p) PROVE NoLiveDirectoryDestroyed'
  BY <1>16, LocationsDiffer, ConstantsAssumption DEF ReleaseOwner
<1>17. ASSUME NEW p \in Procs, ReleaseRename(p) PROVE NoLiveDirectoryDestroyed'
  BY <1>17, LocationsDiffer, ConstantsAssumption DEF ReleaseRename
<1>18. ASSUME NEW p \in Procs, ReleaseGone(p) PROVE NoLiveDirectoryDestroyed'
  BY <1>18, LocationsDiffer, ConstantsAssumption DEF ReleaseGone, Done
<1>19. ASSUME NEW p \in Procs, ReleaseFails(p) PROVE NoLiveDirectoryDestroyed'
  <2>1. UNCHANGED <<at, owned, stale, by, stat, seen, sweep, host>> /\ pc[p] \in {"hold", "rename"}
    BY <1>19 DEF ReleaseFails
  <2>2. CASE pc' = [pc EXCEPT ![p] = "hold"] /\ UNCHANGED <<tok, kept>>
    BY <2>1, <2>2
  <2>3. CASE pc' = [pc EXCEPT ![p] = "idle"] /\ tok' = [tok EXCEPT ![p] = None] /\ kept' = kept \cup {tok[p]}
    BY <2>1, <2>3, ConstantsAssumption
  <2> QED
    BY <1>19, <2>2, <2>3 DEF ReleaseFails, ReportFailure, Done
<1>20. ASSUME NEW p \in Procs, ReleaseVerified(p) PROVE NoLiveDirectoryDestroyed'
  BY <1>20, LocationsDiffer, ConstantsAssumption DEF ReleaseVerified, Done
<1>21. ASSUME NEW p \in Procs, ReleaseRaced(p) PROVE NoLiveDirectoryDestroyed'
  <2>1. UNCHANGED <<at, owned, stale, by, stat, seen, sweep, host, kept>> /\ pc[p] = "verify"
    BY <1>21 DEF ReleaseRaced
  <2>2. CASE pc' = [pc EXCEPT ![p] = "restore"] /\ tok' = tok
    BY <2>1, <2>2
  <2>3. CASE pc' = [pc EXCEPT ![p] = "idle"] /\ tok' = [tok EXCEPT ![p] = None]
    BY <2>1, <2>3, ConstantsAssumption
  <2> QED
    BY <1>21, <2>2, <2>3 DEF ReleaseRaced, Done
<1>22. ASSUME NEW p \in Procs, Restore(p) PROVE NoLiveDirectoryDestroyed'
  <2>1. /\ UNCHANGED <<owned, stale, by, stat, seen, sweep, host>> /\ pc[p] = "restore"
        /\ at' = [t \in Dirs |-> IF at[t] = Released(tok[p]) /\ Free THEN Canonical ELSE at[t]]
    BY <1>22 DEF Restore
  <2>2. CASE at'[tok[p]] = Canonical /\ pc' = [pc EXCEPT ![p] = "hold"] /\ UNCHANGED <<tok, kept>>
    BY <2>1, <2>2, LocationsDiffer, ConstantsAssumption DEF Free
  <2>3. CASE /\ pc' = [pc EXCEPT ![p] = "idle"] /\ tok' = [tok EXCEPT ![p] = None]
             /\ kept' = IF at'[tok[p]] = Canonical THEN kept \cup {tok[p]} ELSE kept
    BY <2>1, <2>3, LocationsDiffer, ConstantsAssumption DEF Free
  <2> QED
    BY <1>22, <2>2, <2>3 DEF Restore, ReportFailure, Done
<1>23. ASSUME NEW p \in Procs, GiveUp(p) PROVE NoLiveDirectoryDestroyed'
  BY <1>23, LocationsDiffer, ConstantsAssumption DEF GiveUp
<1>24. ASSUME NEW p \in Procs, Crash(p) PROVE NoLiveDirectoryDestroyed'
  BY <1>24, LocationsDiffer, ConstantsAssumption DEF Crash, Forget
<1>25. ASSUME NEW t \in Dirs, Age(t) PROVE NoLiveDirectoryDestroyed'
  BY <1>25, LocationsDiffer, ConstantsAssumption DEF Age
<1>26. CASE UNCHANGED vars
  BY <1>26 DEF vars
<1> QED
  BY <1>1, <1>2, <1>3, <1>4, <1>5, <1>6, <1>7, <1>8, <1>9, <1>10, <1>11, <1>12, <1>13, <1>14, <1>15, <1>16, <1>17, <1>18, <1>19, <1>20, <1>21, <1>22, <1>23, <1>24, <1>25, <1>26 DEF Next, Acquire, Recover, Release

(* The directory of a live owner at the path is that of a process inside.  *)
LiveAtThePath ==
  \A t \in Tokens : at[t] = Canonical /\ owned[t] /\ ~Dead(by[t])
                        => (tok[by[t]] = t /\ Holds(by[t])) \/ t \in kept

(* Whoever leaves the lock has taken its directory off the path before. *)
LEMMA NoZombieStep ==
  ASSUME Basics, OnePerPath, GuardsHeld, LiveAtThePath, [Next]_vars
  PROVE  LiveAtThePath'
<1> USE DEF Basics, TypeOK, StatTaken, TokensOwned, KeptAlive, OwnersKnown, OnePerPath, GuardsHeld,
           LiveAtThePath, Holds, Dead, Free, Dirs, Goto, fs, locals
<1>1. ASSUME NEW p \in Procs, Begin(p) PROVE LiveAtThePath'
  BY <1>1, LocationsDiffer, ConstantsAssumption DEF Begin
<1>2. ASSUME NEW p \in Procs, Sweep(p) PROVE LiveAtThePath'
  BY <1>2, LocationsDiffer, ConstantsAssumption DEF Sweep
<1>3. ASSUME NEW p \in Procs, Stage(p) PROVE LiveAtThePath'
  BY <1>3, LocationsDiffer, ConstantsAssumption DEF Stage, Fresh
<1>4. ASSUME NEW p \in Procs, Publish(p) PROVE LiveAtThePath'
  BY <1>4, LocationsDiffer, ConstantsAssumption DEF Publish, Free
<1>5. ASSUME NEW p \in Procs, PublishBusy(p) PROVE LiveAtThePath'
  BY <1>5, LocationsDiffer, ConstantsAssumption DEF PublishBusy
<1>6. ASSUME NEW p \in Procs, PublishLost(p) PROVE LiveAtThePath'
  BY <1>6, LocationsDiffer, ConstantsAssumption DEF PublishLost
<1>7. ASSUME NEW p \in Procs, StatRetry(p) PROVE LiveAtThePath'
  BY <1>7, LocationsDiffer, ConstantsAssumption DEF StatRetry
<1>8. ASSUME NEW p \in Procs, StatStale(p) PROVE LiveAtThePath'
  BY <1>8, LocationsDiffer, ConstantsAssumption DEF StatStale
<1>9. ASSUME NEW p \in Procs, ReadNoOwner(p) PROVE LiveAtThePath'
  BY <1>9, LocationsDiffer, ConstantsAssumption DEF ReadNoOwner
<1>10. ASSUME NEW p \in Procs, ReadOwner(p) PROVE LiveAtThePath'
  BY <1>10, LocationsDiffer, ConstantsAssumption DEF ReadOwner
<1>11. ASSUME NEW p \in Procs, JudgeAlive(p) PROVE LiveAtThePath'
  BY <1>11, LocationsDiffer, ConstantsAssumption DEF JudgeAlive, Forget
<1>12. ASSUME NEW p \in Procs, JudgeDead(p) PROVE LiveAtThePath'
  BY <1>12, LocationsDiffer, ConstantsAssumption DEF JudgeDead
<1>13. ASSUME NEW p \in Procs, Retire(p) PROVE LiveAtThePath'
  BY <1>13, LocationsDiffer, ConstantsAssumption DEF Retire, Forget, Tombstone
<1>14. ASSUME NEW p \in Procs, RetireRefused(p) PROVE LiveAtThePath'
  BY <1>14, LocationsDiffer, ConstantsAssumption DEF RetireRefused, Forget
<1>15. ASSUME NEW p \in Procs, ReleaseNotOwner(p) PROVE LiveAtThePath'
  BY <1>15, LocationsDiffer, ConstantsAssumption DEF ReleaseNotOwner, Done
<1>16. ASSUME NEW p \in Procs, ReleaseOwner(p) PROVE LiveAtThePath'
  BY <1>16, LocationsDiffer, ConstantsAssumption DEF ReleaseOwner
<1>17. ASSUME NEW p \in Procs, ReleaseRename(p) PROVE LiveAtThePath'
  BY <1>17, LocationsDiffer, ConstantsAssumption DEF ReleaseRename
<1>18. ASSUME NEW p \in Procs, ReleaseGone(p) PROVE LiveAtThePath'
  BY <1>18, LocationsDiffer, ConstantsAssumption DEF ReleaseGone, Done
<1>19. ASSUME NEW p \in Procs, ReleaseFails(p) PROVE LiveAtThePath'
  <2>1. UNCHANGED <<at, owned, stale, by, stat, seen, sweep, host>> /\ pc[p] \in {"hold", "rename"}
    BY <1>19 DEF ReleaseFails
  <2>2. CASE pc' = [pc EXCEPT ![p] = "hold"] /\ UNCHANGED <<tok, kept>>
    BY <2>1, <2>2
  <2>3. CASE pc' = [pc EXCEPT ![p] = "idle"] /\ tok' = [tok EXCEPT ![p] = None] /\ kept' = kept \cup {tok[p]}
    BY <2>1, <2>3, ConstantsAssumption
  <2> QED
    BY <1>19, <2>2, <2>3 DEF ReleaseFails, ReportFailure, Done
<1>20. ASSUME NEW p \in Procs, ReleaseVerified(p) PROVE LiveAtThePath'
  BY <1>20, LocationsDiffer, ConstantsAssumption DEF ReleaseVerified, Done
<1>21. ASSUME NEW p \in Procs, ReleaseRaced(p) PROVE LiveAtThePath'
  <2>1. UNCHANGED <<at, owned, stale, by, stat, seen, sweep, host, kept>> /\ pc[p] = "verify"
    BY <1>21 DEF ReleaseRaced
  <2>2. CASE pc' = [pc EXCEPT ![p] = "restore"] /\ tok' = tok
    BY <2>1, <2>2
  <2>3. CASE pc' = [pc EXCEPT ![p] = "idle"] /\ tok' = [tok EXCEPT ![p] = None]
    BY <2>1, <2>3, ConstantsAssumption
  <2> QED
    BY <1>21, <2>2, <2>3 DEF ReleaseRaced, Done
<1>22. ASSUME NEW p \in Procs, Restore(p) PROVE LiveAtThePath'
  <2>1. /\ UNCHANGED <<owned, stale, by, stat, seen, sweep, host>> /\ pc[p] = "restore"
        /\ at' = [t \in Dirs |-> IF at[t] = Released(tok[p]) /\ Free THEN Canonical ELSE at[t]]
    BY <1>22 DEF Restore
  <2>2. CASE at'[tok[p]] = Canonical /\ pc' = [pc EXCEPT ![p] = "hold"] /\ UNCHANGED <<tok, kept>>
    BY <2>1, <2>2, LocationsDiffer, ConstantsAssumption DEF Free
  <2>3. CASE /\ pc' = [pc EXCEPT ![p] = "idle"] /\ tok' = [tok EXCEPT ![p] = None]
             /\ kept' = IF at'[tok[p]] = Canonical THEN kept \cup {tok[p]} ELSE kept
    BY <2>1, <2>3, LocationsDiffer, ConstantsAssumption DEF Free
  <2> QED
    BY <1>22, <2>2, <2>3 DEF Restore, ReportFailure, Done
<1>23. ASSUME NEW p \in Procs, GiveUp(p) PROVE LiveAtThePath'
  BY <1>23, LocationsDiffer, ConstantsAssumption DEF GiveUp
<1>24. ASSUME NEW p \in Procs, Crash(p) PROVE LiveAtThePath'
  BY <1>24, LocationsDiffer, ConstantsAssumption DEF Crash, Forget
<1>25. ASSUME NEW t \in Dirs, Age(t) PROVE LiveAtThePath'
  BY <1>25, LocationsDiffer, ConstantsAssumption DEF Age
<1>26. CASE UNCHANGED vars
  BY <1>26 DEF vars
<1> QED
  BY <1>1, <1>2, <1>3, <1>4, <1>5, <1>6, <1>7, <1>8, <1>9, <1>10, <1>11, <1>12, <1>13, <1>14, <1>15, <1>16, <1>17, <1>18, <1>19, <1>20, <1>21, <1>22, <1>23, <1>24, <1>25, <1>26 DEF Next, Acquire, Recover, Release

(* The directory of a process inside the lock is never removed, whatever   *)
(* was misfiled: Release removes only what it has moved itself and knows to *)
(* be its own, and cleanupReleasedTombstones only what is under the name of *)
(* its own token.                                                          *)
THEOREM LiveDirectoriesStay == Spec => []NoLiveDirectoryDestroyed
<1>1. Init => NoLiveDirectoryDestroyed
  BY DEF Init, NoLiveDirectoryDestroyed, Holds
<1>2. Inv /\ NoLiveDirectoryDestroyed /\ [Next]_vars => NoLiveDirectoryDestroyed'
  BY LiveStaysStep DEF Inv
<1> QED
  BY <1>1, <1>2, Safety, PTL DEF Spec

(* As long as nothing is misfiled, a directory with a live owner at the    *)
(* path is that of a process inside the lock or of one whose Release has   *)
(* said that the lock is still there, an I/O error of Lstat, of the        *)
(* reading of the owner or of the rename included.                         *)
THEOREM NoZombies == Spec => []NoZombieLock
<1>1. Init => NoZombieLock
  BY DEF Init, NoZombieLock, Dirs
<1>2. Inv /\ Inv' /\ NoZombieLock /\ [Next]_vars => NoZombieLock'
  <2> SUFFICES ASSUME Inv, Inv', NoZombieLock, [Next]_vars, Clean'
               PROVE  LiveAtThePath'
    BY DEF NoZombieLock, LiveAtThePath, Inv, GuardsInPlace, GuardsHeld
  <2>1. Clean
    BY TombstonesStay DEF Inv
  <2>2. GuardsHeld /\ LiveAtThePath
    BY <2>1 DEF Inv, GuardsInPlace, NoZombieLock, LiveAtThePath
  <2> QED
    BY <2>2, NoZombieStep DEF Inv
<1> QED
  BY <1>1, <1>2, Safety, PTL DEF Spec

(* Only a retirement misfiles: every other step leaves a directory where   *)
(* it is, or puts it in a place that no lost lock has.                     *)
LEMMA OthersFileRightly ==
  ASSUME Inv, Clean, Next, ~\E p \in Procs : Retire(p)
  PROVE  Clean'
<1> DEFINE Right(u) == \/ at'[u] = at[u] \/ at'[u] \in {Absent, Pending, Canonical}
                       \/ \E t \in Dirs : at'[u] = Released(t)
<1>1. ASSUME NEW p \in Procs, Acquire(p) PROVE \A u \in Dirs : Right(u)
  BY <1>1 DEF Acquire, Begin, Sweep, Stage, Publish, PublishBusy, PublishLost, Inv, Basics, TypeOK, fs
<1>2. ASSUME NEW p \in Procs, Recover(p) PROVE \A u \in Dirs : Right(u)
  BY <1>2 DEF Recover, StatRetry, StatStale, ReadNoOwner, ReadOwner, JudgeAlive, JudgeDead,
              RetireRefused, fs
<1>3. ASSUME NEW p \in Procs, Release(p) PROVE \A u \in Dirs : Right(u)
  <2>1. pc[p] = "rename" => tok[p] \in Dirs
    BY ConstantsAssumption DEF Inv, Basics, TokensOwned, Dirs
  <2>2. CASE ReleaseRename(p)
    BY <2>1, <2>2 DEF ReleaseRename, Inv, Basics, TypeOK
  <2>3. CASE ReleaseVerified(p) \/ Restore(p)
    BY <2>3 DEF ReleaseVerified, Restore, fs
  <2> QED
    BY <1>3, <2>2, <2>3 DEF Release, ReleaseNotOwner, ReleaseOwner, ReleaseGone, ReleaseFails, ReleaseRaced, fs
<1>4. ASSUME NEW p \in Procs, GiveUp(p) \/ Crash(p) PROVE \A u \in Dirs : Right(u)
  BY <1>4 DEF GiveUp, Crash, fs
<1>5. ASSUME NEW t \in Dirs, Age(t) PROVE \A u \in Dirs : Right(u)
  BY <1>5 DEF Age
<1>6. \A u \in Dirs : Right(u)
  BY <1>1, <1>2, <1>3, <1>4, <1>5 DEF Next
<1>7. host' = host
  BY DEF Next, Acquire, Begin, Sweep, Stage, Publish, PublishBusy, PublishLost,
         Recover, StatRetry, StatStale, ReadNoOwner, ReadOwner, JudgeAlive, JudgeDead, Retire, RetireRefused,
         Release, ReleaseNotOwner, ReleaseOwner, ReleaseRename, ReleaseGone, ReleaseFails, ReleaseVerified,
         ReleaseRaced, Restore, GiveUp, Crash, Age
<1> QED
  BY <1>6, <1>7, LocationsDiffer DEF Clean, Misfiled, SingleHost

(* The protocol of renames is a lock service (With's "exclusive" section). *)
THEOREM Refinement == Spec => ImplementsLockService
<1> USE DEF Service!Next, Service!vars, Service!Grant, Service!Leave, Service!Lose
<1>1. Init => Service!Init
  BY DEF Init, Service!Init, Holds
<1>2. Inv /\ Inv' /\ [Next]_vars => [Service!Next]_(Service!vars)
  <2> SUFFICES ASSUME Inv, Inv', [Next]_vars
               PROVE  [Service!Next]_(Service!vars)
    OBVIOUS
  <2> DEFINE Inside == {p \in Procs : Holds(p)}
  <2>1. Clean' => Clean
    BY TombstonesStay DEF Inv
  <2>2. CASE UNCHANGED vars
    BY <2>2 DEF vars, Holds, Clean, Misfiled, SingleHost
  <2>3. ASSUME NEW p \in Procs, Retire(p) PROVE [Service!Next]_(Service!vars)
    <3>1. Inside' = Inside
      BY <2>3 DEF Retire, Goto, Holds, Inv, Basics, TypeOK
    <3> QED
      BY <2>1, <3>1
  <2>4. ASSUME Next, ~\E p \in Procs : Retire(p) PROVE [Service!Next]_(Service!vars)
    <3>1. Clean' = Clean
      BY <2>1, <2>4, OthersFileRightly DEF Clean, Misfiled, SingleHost
    <3>2. ASSUME NEW p \in Procs, Publish(p) PROVE [Service!Next]_(Service!vars)
      <4>1. Inside' = Inside \cup {p} /\ p \notin Inside
        BY <3>2 DEF Publish, Goto, Holds, Inv, Basics, TypeOK
      <4>2. Clean => Inside = {}
        BY <3>2 DEF Publish, Free, Inv, GuardsInPlace, GuardsHeld, Basics, TokensOwned, Dirs, Holds
      <4> QED
        BY <3>1, <4>1, <4>2
    <3>3. ASSUME NEW p \in Procs, ReleaseNotOwner(p) \/ ReleaseRename(p) \/ ReleaseGone(p)
          PROVE  [Service!Next]_(Service!vars)
      <4>1. Inside' = Inside \ {p} /\ p \in Inside
        BY <3>3 DEF ReleaseNotOwner, ReleaseRename, ReleaseGone, Done, Goto, Holds, Inv, Basics, TypeOK
      <4> QED
        BY <3>1, <4>1
    <3>4. ASSUME NEW p \in Procs, ReleaseFails(p) PROVE [Service!Next]_(Service!vars)
      <4>1. Inside' = Inside \/ (Inside' = Inside \ {p} /\ p \in Inside)
        BY <3>4 DEF ReleaseFails, ReportFailure, Done, Goto, Holds, Inv, Basics, TypeOK
      <4> QED
        BY <3>1, <4>1
    <3>5. ASSUME NEW p \in Procs, Restore(p) PROVE [Service!Next]_(Service!vars)
      <4>1. CASE Inside' = Inside
        BY <3>1, <4>1
      <4>2. CASE at'[tok[p]] = Canonical /\ Inside' = Inside \cup {p} /\ p \notin Inside
        <5>1. ASSUME Clean, NEW q \in Procs, Holds(q) PROVE FALSE
          <6>1. at[tok[q]] = Canonical /\ tok[q] \in Tokens /\ by[tok[q]] = q
            BY <5>1, ConstantsAssumption DEF Inv, GuardsInPlace, GuardsHeld, Basics, TokensOwned, Holds
          <6>2. tok[p] \in Tokens /\ by[tok[p]] = p
            BY <3>5, ConstantsAssumption DEF Restore, Inv, Basics, TokensOwned
          <6>3. ~Free
            BY <6>1 DEF Free, Dirs
          <6>4. at[tok[p]] = Canonical
            BY <3>5, <4>2, <6>2, <6>3 DEF Restore, Dirs, Inv, Basics, TypeOK
          <6>5. q = p
            BY <6>1, <6>2, <6>4 DEF Inv, OnePerPath, Dirs
          <6> QED
            BY <6>5, <5>1, <4>2
        <5> QED
          BY <3>1, <4>2, <5>1
      <4> QED
        BY <3>5, <4>1, <4>2 DEF Restore, ReportFailure, Done, Goto, Holds, Inv, Basics, TypeOK
    <3>6. ASSUME NEW p \in Procs, Crash(p) PROVE [Service!Next]_(Service!vars)
      <4>1. Inside' = Inside \ {p}
        BY <3>6 DEF Crash, Goto, Holds, Inv, Basics, TypeOK
      <4> QED
        BY <3>1, <4>1
    <3>7. ASSUME NEW p \in Procs,
                 Begin(p) \/ Sweep(p) \/ Stage(p) \/ PublishBusy(p) \/ PublishLost(p) \/ GiveUp(p)
          PROVE  Inside' = Inside
      BY <3>7 DEF Begin, Sweep, Stage, PublishBusy, PublishLost, GiveUp, Goto, Holds, Inv, Basics, TypeOK
    <3>8. ASSUME NEW p \in Procs, Recover(p) PROVE Inside' = Inside
      BY <2>4, <3>8 DEF Recover, StatRetry, StatStale, ReadNoOwner, ReadOwner, JudgeAlive, JudgeDead,
                  RetireRefused, Goto, Holds, Inv, Basics, TypeOK
    <3>9. ASSUME NEW p \in Procs, ReleaseOwner(p) \/ ReleaseVerified(p) \/ ReleaseRaced(p)
          PROVE  Inside' = Inside
      BY <3>9 DEF ReleaseOwner, ReleaseVerified, ReleaseRaced, Done, Goto, Holds, Inv, Basics, TypeOK
    <3>10. ASSUME NEW t \in Dirs, Age(t) PROVE Inside' = Inside
      BY <3>10 DEF Age, locals, Holds
    <3>11. Inside' = Inside => [Service!Next]_(Service!vars)
      BY <3>1
    <3> QED
      BY <2>4, <3>2, <3>3, <3>4, <3>5, <3>6, <3>7, <3>8, <3>9, <3>10, <3>11 DEF Next, Acquire, Release
  <2> QED
    BY <2>2, <2>3, <2>4
<1> QED
  BY <1>1, <1>2, Safety, PTL DEF Spec, Service!Spec, ImplementsLockService

=============================================================================
