------------------------ MODULE WorkspacesLocksProofs -----------------------
(***************************************************************************)
(* What the locks of Workspaces keep, given that a held lock keeps others  *)
(* out (Locking): nobody ends an operation from outside, one command at a  *)
(* time writes to a worktree, no worktree is without a record, and none is *)
(* pulled away under a child.  If removals are not cut short and listings  *)
(* do not fail, what is in the pool is ready and what is assigned stays on *)
(* its branch.  For every set of processes, paths, IDs and commands.       *)
(***************************************************************************)
EXTENDS WorkspacesFencesProofs

(* The locks that a command has at each of its steps.  Of those that have  *)
(* a workspace, only ruk warm is without the workspace's own lock, unless  *)
(* it installs; it has the pool's.                                         *)
Guarded(p) ==
  /\ pc[p] = "reserve" => holder["pool"] = p
  /\ job[p] \in {"warm"} \cup Collections \cup Recoveries => holder["pool"] = p
  /\ job[p] \in {"fresh", "assigned"} /\ pc[p] \in Handoff => holder[ws[p]] = p
  /\ pc[p] \in {"register", "wait"} /\ (job[p] = "run" => pc[p] = "register")
       => holder[ws[p]] = p
  /\ pc[p] = "return" /\ job[p] # "release" => holder[ws[p]] = p
  /\ pc[p] \in {"clean", "reset", "finish", "cancelReturn", "drain", "fence"} \cup Removing
       => holder[ws[p]] = p

(* The handoff of an acquisition, a return, and what OperationsStayFenced  *)
(* says of one command.                                                    *)
Handing(p) == pc[p] \in Handoff /\ job[p] \in Acquisitions
Returning(p) == pc[p] \in {"clean", "reset", "finish", "cancelReturn"}

Fenced(p) ==
  /\ Handing(p) => Holds(p)
  /\ Returning(p) => My(p).life = "returning" /\ Mine(p)
  /\ pc[p] \in Removing => My(p).life \in {"available", "failed"} /\ My(p).op = id[p]

(* Where a worktree is not there yet, is there, or is gone.                *)
Sited(p) ==
  /\ pc[p] \in {"verify", "create"} /\ job[p] \in {"fresh", "warm"} => tree[ws[p]] = "none"
  /\ pc[p] \in {"register", "wait"} /\ (job[p] = "run" => pc[p] = "register")
       => tree[ws[p]] # "none"
  /\ pc[p] = "forget" => tree[ws[p]] = "none"

(* The children in the record are those that the command sees to.          *)
Attended(p) ==
  /\ pc[p] \in {"verify", "create"} /\ job[p] \in {"fresh", "warm"} => My(p).procs = {}
  /\ Handing(p) /\ job[p] # "warm" => My(p).procs \subseteq todo[p]
  /\ Handing(p) /\ job[p] # "warm" /\ pc[p] = "register" => My(p).procs = {}
  /\ Handing(p) /\ job[p] # "warm" /\ pc[p] \in {"register", "wait"} => Names(fence[p], ws[p])
  /\ pc[p] = "clean" => My(p).procs \subseteq todo[p]
  /\ pc[p] \in {"reset", "finish"} => My(p).procs = {}

Own(p) == Guarded(p) /\ Fenced(p) /\ Sited(p) /\ Attended(p)

(* No two acquisitions have drawn the same ID.                             *)
HandoffsDiffer == \A p, q \in Procs : p # q /\ Handing(p) /\ Handing(q) => id[p] # id[q]

LInv == (\A p \in Procs : Own(p)) /\ HandoffsDiffer /\ NoOrphanTree

(* What a command knows of its worktree when the files of a removal are    *)
(* all gone or all there, and a listing always succeeds;                   *)
Prepared(p) ==
  /\ pc[p] = "gitlock" => tree[ws[p]] = "detached"
  /\ pc[p] \in {"verify", "assign"} /\ job[p] = "assigned" => tree[ws[p]] = "detached"
  /\ pc[p] = "assign" => tree[ws[p]] = "detached" /\ ws[p] \in locked
  /\ Handing(p) /\ pc[p] \in {"prepare", "register", "wait", "prepared", "succeed"} =>
       /\ tree[ws[p]] = IF job[p] = "warm" THEN "detached" ELSE "attached"
       /\ ws[p] \in locked
  /\ pc[p] = "finish" => tree[ws[p]] = "detached"
  /\ pc[p] = "cancel" => tree[ws[p]] # "none" /\ ws[p] \in locked

(* and what a record then says of it.                                      *)
Ready(w) ==
  /\ tree[w] # "damaged"
  /\ rec[w].life \in {"assigned", "returning"} => w \in locked
  /\ rec[w].life = "available" => tree[w] \in {"none", "detached"}
  /\ Reusable(w) => tree[w] = "detached" /\ w \in locked
  /\ rec[w].life = "assigned" /\ rec[w].op = None /\ ~rec[w].failed => tree[w] = "attached"

TInv == (\A p \in Procs : Prepared(p)) /\ \A w \in Paths : Ready(w)

-----------------------------------------------------------------------------
(* The steps with which a workspace changes hands, each where its guards   *)
(* let it.                                                                 *)
Transits(p) ==
  \/ Handing(p) \/ Returning(p) \/ pc[p] \in {"fence"} \cup Removing
  \/ pc[p] = "reserve" /\ Reusable(ws[p])
  \/ pc[p] = "begin" /\ My(p).life = "absent"
  \/ pc[p] = "return" /\ My(p).life = "assigned" /\ ReturnFences(p)

(* Where a command may write a child's name into a record.                 *)
Naming(p) == \/ pc[p] = "retain" /\ Handing(p)
             \/ /\ pc[p] = "register" /\ Names(fence[p], ws[p]) /\ fence[p] # None
                /\ job[p] = "run" => Valid(p)

(* Another process's locals and locks are its own.                         *)
Alone(p) ==
  \A q \in Procs \ {p} :
    /\ pc'[q] = pc[q] /\ job'[q] = job[q] /\ ws'[q] = ws[q]
    /\ id'[q] = id[q] /\ fence'[q] = fence[q] /\ todo'[q] = todo[q]
    /\ \A l \in Locks : holder[l] = q => holder'[l] = q

(* What a step of one process may do to records and worktrees.             *)
Effects(p) ==
  \A w \in Paths :
    /\ Stays(w) \/ (w = ws[p] /\ Transits(p))
    /\ Stays(w) /\ ~rec'[w].failed => ~rec[w].failed
    /\ rec'[w].procs \subseteq rec[w].procs \/ (w = ws[p] /\ Naming(p))
    /\ rec'[w].life = "absent" => rec[w].life = "absent" \/ (w = ws[p] /\ pc[p] = "forget")
    /\ tree'[w] = tree[w]
         \/ (w = ws[p] /\ pc[p] \in {"create", "assign", "cleanup", "reset", "remove"})
    /\ (w \in locked' <=> w \in locked)
         \/ (w = ws[p] /\ pc[p] \in {"gitlock", "unlock", "relock", "reset"})

(* A command draws a new ID when it takes a workspace, or keeps its own.   *)
Draws(p) == Handing(p)' => \/ Handing(p) /\ id'[p] = id[p]
                           \/ \A q \in Procs : id'[p] # id[q]

(* The steps that rely on nothing that has been done to the worktree, and  *)
(* what any step leaves at its path.                                       *)
Careless == {"idle", "pool", "reserve", "begin", "create", "fail", "cleanup", "retain", "enter",
             "return", "clean", "reset", "cancelReturn", "collect", "drain", "fence", "unlock",
             "remove", "relock", "forget", "leave"}

Leaves(p) == Prepared(p)' /\ \A v \in Paths : v = ws[p] => Ready(v)'

-----------------------------------------------------------------------------
(* A command takes only locks that are free and changes only its own       *)
(* locals: in acquire and warm,                                            *)
LEMMA AcquireAlone ==
  ASSUME Locking, IInv, NEW p \in Procs, Acquire(p)
  PROVE  Alone(p)
<1> USE ConstantsAssumption DEF IInv, Typed, TypeOK, Placed, git, kids, own, At, Goto, Become,
        Choose, Carry, Stop, Alone, Locks, Take, Hold, Given
<1>1. ASSUME StartAcquire(p) PROVE Alone(p)
  BY <1>1, MyRecord DEF StartAcquire
<1>2. ASSUME SelectReusable(p) PROVE Alone(p)
  BY <1>2, MyRecord DEF SelectReusable
<1>3. ASSUME SelectFresh(p) PROVE Alone(p)
  BY <1>3, MyRecord DEF SelectFresh
<1>4. ASSUME Reserve(p) PROVE Alone(p)
  BY <1>4, MyRecord DEF Reserve, My
<1>5. ASSUME ReserveChanged(p) PROVE Alone(p)
  BY <1>5, MyRecord DEF ReserveChanged
<1>6. ASSUME StartWarm(p) PROVE Alone(p)
  BY <1>6, MyRecord DEF StartWarm
<1>7. ASSUME BeginPreparation(p) PROVE Alone(p)
  BY <1>7, MyRecord DEF BeginPreparation, LockToBegin, My
<1>8. ASSUME AlreadyManaged(p) PROVE Alone(p)
  BY <1>8, MyRecord DEF AlreadyManaged, My
<1>9. ASSUME Verify(p) PROVE Alone(p)
  BY <1>9, MyRecord DEF Verify, My
<1>10. ASSUME VerifyFails(p) PROVE Alone(p)
  BY <1>10, MyRecord DEF VerifyFails, My
<1>11. ASSUME AddWorktree(p) PROVE Alone(p)
  BY <1>11, MyRecord DEF AddWorktree
<1>12. ASSUME LockWorktree(p) PROVE Alone(p)
  BY <1>12, MyRecord DEF LockWorktree
<1>13. ASSUME AssignWorktree(p) PROVE Alone(p)
  BY <1>13, MyRecord DEF AssignWorktree
<1>14. ASSUME GitFails(p) PROVE Alone(p)
  BY <1>14, MyRecord DEF GitFails
<1>15. ASSUME MarkAvailable(p) PROVE Alone(p)
  BY <1>15, MyRecord DEF MarkAvailable, My
<1>16. ASSUME MarkAssigned(p) PROVE Alone(p)
  BY <1>16, MyRecord DEF MarkAssigned, My
<1>17. ASSUME VerifyPrepared(p) PROVE Alone(p)
  BY <1>17, MyRecord DEF VerifyPrepared, My
<1>18. ASSUME PreparedFails(p) PROVE Alone(p)
  BY <1>18, MyRecord DEF PreparedFails, My
<1>19. ASSUME RecordAcquisitionSuccess(p) PROVE Alone(p)
  BY <1>19, MyRecord DEF RecordAcquisitionSuccess, My
<1>20. ASSUME SuccessFails(p) PROVE Alone(p)
  BY <1>20, MyRecord DEF SuccessFails
<1>21. ASSUME Fail(p) PROVE Alone(p)
  BY <1>21, MyRecord DEF Fail, My
<1>22. ASSUME HandoffLost(p) PROVE Alone(p)
  BY <1>22, MyRecord DEF HandoffLost, My
<1>23. ASSUME Cleanup(p) PROVE Alone(p)
  BY <1>23, MyRecord DEF Cleanup
<1>24. ASSUME Retain(p) PROVE Alone(p)
  BY <1>24, MyRecord DEF Retain, My
<1>25. ASSUME RetainFails(p) PROVE Alone(p)
  BY <1>25, MyRecord DEF RetainFails, My
<1> QED
  BY <1>1, <1>2, <1>3, <1>4, <1>5, <1>6, <1>7, <1>8, <1>9, <1>10, <1>11, <1>12, <1>13, <1>14,
     <1>15, <1>16, <1>17, <1>18, <1>19, <1>20, <1>21, <1>22, <1>23, <1>24, <1>25 DEF Acquire

(* when it installs or runs a child,                                       *)
LEMMA ExecuteAlone ==
  ASSUME Locking, IInv, NEW p \in Procs, Execute(p)
  PROVE  Alone(p)
<1> USE ConstantsAssumption DEF IInv, Typed, TypeOK, Placed, git, kids, own, At, Goto, Become,
        Choose, Carry, Stop, Alone, Locks, Take, Hold, Given
<1>1. ASSUME EnsureDependencies(p) PROVE Alone(p)
  BY <1>1, MyRecord DEF EnsureDependencies, LockToPrepare, Spawn, Snapshot
<1>2. ASSUME AlreadyAttached(p) PROVE Alone(p)
  BY <1>2, MyRecord DEF AlreadyAttached
<1>3. ASSUME PrepareFails(p) PROVE Alone(p)
  BY <1>3, MyRecord DEF PrepareFails
<1>4. ASSUME StartRun(p) PROVE Alone(p)
  BY <1>4, MyRecord DEF StartRun
<1>5. ASSUME StartSync(p) PROVE Alone(p)
  BY <1>5, MyRecord DEF StartSync
<1>6. ASSUME Enter(p) PROVE Alone(p)
  BY <1>6, MyRecord DEF Enter, Spawn, Snapshot, My
<1>7. ASSUME EnterFails(p) PROVE Alone(p)
  BY <1>7, MyRecord DEF EnterFails, My
<1>8. ASSUME Register(p) PROVE Alone(p)
  BY <1>8, MyRecord DEF Register, My
<1>9. ASSUME Untracked(p) PROVE Alone(p)
  BY <1>9, MyRecord DEF Untracked
<1>10. ASSUME RegisterFails(p) PROVE Alone(p)
  BY <1>10, MyRecord DEF RegisterFails, Kill, Ended, Abort, Installed
<1>11. ASSUME Unregister(p) PROVE Alone(p)
  BY <1>11, MyRecord DEF Unregister, My, AfterInstall, Ended, Installed
<1>12. ASSUME UnregisterFails(p) PROVE Alone(p)
  BY <1>12, MyRecord DEF UnregisterFails, My, Abort, Ended, Installed
<1>13. ASSUME UntrackedExits(p) PROVE Alone(p)
  BY <1>13, MyRecord DEF UntrackedExits, AfterInstall, Ended, Installed
<1>14. ASSUME Unsafe(p) PROVE Alone(p)
  BY <1>14, MyRecord DEF Unsafe, Abort, Installed
<1> QED
  BY <1>1, <1>2, <1>3, <1>4, <1>5, <1>6, <1>7, <1>8, <1>9, <1>10, <1>11, <1>12, <1>13, <1>14 DEF
     Execute

(* when it returns a workspace,                                            *)
LEMMA ReleaseAlone ==
  ASSUME Locking, IInv, NEW p \in Procs, Release(p)
  PROVE  Alone(p)
<1> USE ConstantsAssumption DEF IInv, Typed, TypeOK, Placed, git, kids, own, At, Goto, Become,
        Choose, Carry, Stop, Alone, Locks, Take, Hold, Given
<1>1. ASSUME StartRelease(p) PROVE Alone(p)
  BY <1>1, MyRecord DEF StartRelease
<1>2. ASSUME BeginWorkspaceReturn(p) PROVE Alone(p)
  BY <1>2, MyRecord DEF BeginWorkspaceReturn, LockToReturn, My
<1>3. ASSUME ResumeReturn(p) PROVE Alone(p)
  BY <1>3, MyRecord DEF ResumeReturn, LockToReturn, My
<1>4. ASSUME ReturnRefused(p) PROVE Alone(p)
  BY <1>4, MyRecord DEF ReturnRefused, My
<1>5. ASSUME CleanProcess(p) PROVE Alone(p)
  BY <1>5, MyRecord DEF CleanProcess, Kill, My
<1>6. ASSUME CleanRaced(p) PROVE Alone(p)
  BY <1>6, MyRecord DEF CleanRaced, Kill, My
<1>7. ASSUME NotDrained(p) PROVE Alone(p)
  BY <1>7, MyRecord DEF NotDrained
<1>8. ASSUME CleanedUp(p) PROVE Alone(p)
  BY <1>8, MyRecord DEF CleanedUp
<1>9. ASSUME Reset(p) PROVE Alone(p)
  BY <1>9, MyRecord DEF Reset
<1>10. ASSUME ResetFails(p) PROVE Alone(p)
  BY <1>10, MyRecord DEF ResetFails
<1>11. ASSUME FinishWorkspaceReturn(p) PROVE Alone(p)
  BY <1>11, MyRecord DEF FinishWorkspaceReturn, My
<1>12. ASSUME FinishFails(p) PROVE Alone(p)
  BY <1>12, MyRecord DEF FinishFails, My
<1>13. ASSUME CancelWorkspaceReturn(p) PROVE Alone(p)
  BY <1>13, MyRecord DEF CancelWorkspaceReturn, My
<1>14. ASSUME CancelFails(p) PROVE Alone(p)
  BY <1>14, MyRecord DEF CancelFails, My
<1> QED
  BY <1>1, <1>2, <1>3, <1>4, <1>5, <1>6, <1>7, <1>8, <1>9, <1>10, <1>11, <1>12, <1>13, <1>14 DEF
     Release

(* and when it collects one.                                               *)
LEMMA GCAlone ==
  ASSUME Locking, IInv, NEW p \in Procs, GC(p)
  PROVE  Alone(p)
<1> USE ConstantsAssumption DEF IInv, Typed, TypeOK, Placed, git, kids, own, At, Goto, Become,
        Choose, Carry, Stop, Alone, Locks, Take, Hold, Given
<1>1. ASSUME Collect(p) PROVE Alone(p)
  BY <1>1, MyRecord DEF Collect, My
<1>2. ASSUME CollectStale(p) PROVE Alone(p)
  BY <1>2, MyRecord DEF CollectStale, My
<1>3. ASSUME DrainProcess(p) PROVE Alone(p)
  BY <1>3, MyRecord DEF DrainProcess, My, Kill
<1>4. ASSUME DrainFails(p) PROVE Alone(p)
  BY <1>4, MyRecord DEF DrainFails, My
<1>5. ASSUME Drained(p) PROVE Alone(p)
  BY <1>5, MyRecord DEF Drained, My
<1>6. ASSUME BeginWorkspaceCollection(p) PROVE Alone(p)
  BY <1>6, MyRecord DEF BeginWorkspaceCollection, My
<1>7. ASSUME ResumeCollection(p) PROVE Alone(p)
  BY <1>7, MyRecord DEF ResumeCollection, My
<1>8. ASSUME CollectionRefused(p) PROVE Alone(p)
  BY <1>8, MyRecord DEF CollectionRefused, My
<1>9. ASSUME UnlockWorktree(p) PROVE Alone(p)
  BY <1>9, MyRecord DEF UnlockWorktree
<1>10. ASSUME NoWorktree(p) PROVE Alone(p)
  BY <1>10, MyRecord DEF NoWorktree
<1>11. ASSUME RemoveWorktree(p) PROVE Alone(p)
  BY <1>11, MyRecord DEF RemoveWorktree
<1>12. ASSUME RemoveFails(p) PROVE Alone(p)
  BY <1>12, MyRecord DEF RemoveFails
<1>13. ASSUME Relock(p) PROVE Alone(p)
  BY <1>13, MyRecord DEF Relock
<1>14. ASSUME RelockFails(p) PROVE Alone(p)
  BY <1>14, MyRecord DEF RelockFails
<1>15. ASSUME CancelWorkspaceCollection(p) PROVE Alone(p)
  BY <1>15, MyRecord DEF CancelWorkspaceCollection, My
<1>16. ASSUME CancelStale(p) PROVE Alone(p)
  BY <1>16, MyRecord DEF CancelStale, My
<1>17. ASSUME DeleteWorkspaceRecord(p) PROVE Alone(p)
  BY <1>17, MyRecord DEF DeleteWorkspaceRecord, My
<1>18. ASSUME DeleteFails(p) PROVE Alone(p)
  BY <1>18, MyRecord DEF DeleteFails
<1>19. ASSUME NEW w \in Paths, NEW reason \in Collections \cup Recoveries, StartGC(p, w, reason)
      PROVE  Alone(p)
  BY <1>19, MyRecord DEF StartGC
<1> QED
  BY <1>1, <1>2, <1>3, <1>4, <1>5, <1>6, <1>7, <1>8, <1>9, <1>10, <1>11, <1>12, <1>13, <1>14,
     <1>15, <1>16, <1>17, <1>18, <1>19 DEF GC

-----------------------------------------------------------------------------
(* It changes the record and the worktree only where it works: in acquire  *)
(* and warm,                                                               *)
LEMMA AcquireEffects ==
  ASSUME IInv, IInv', FInv, NEW p \in Procs, Acquire(p)
  PROVE  Effects(p)
<1>1. ASSUME StartAcquire(p) \/ SelectReusable(p) \/ SelectFresh(p) \/ ReserveChanged(p) \/
            StartWarm(p) \/ AlreadyManaged(p) \/ Verify(p) \/ VerifyFails(p) \/ GitFails(p) \/
            VerifyPrepared(p) \/ PreparedFails(p) \/ SuccessFails(p) \/ Fail(p) \/
            HandoffLost(p) \/ RetainFails(p)
      PROVE  Effects(p)
  <2>1. rec' = rec /\ UNCHANGED <<tree, locked>>
    BY <1>1 DEF StartAcquire, SelectReusable, SelectFresh, ReserveChanged, StartWarm,
           AlreadyManaged, Verify, VerifyFails, GitFails, VerifyPrepared, PreparedFails,
           SuccessFails, Fail, HandoffLost, RetainFails, Stop, git
  <2> QED
    BY <2>1 DEF Effects, Stays
<1> USE ConstantsAssumption DEF IInv, Typed, TypeOK, Placed, git, kids, own, At, Goto, Become,
        Choose, Carry, Stop, Effects, Transits, Naming, Stays, Handing, Returning, Removing,
        FInv, Local, Fits, Handoff, Acquisitions, Collections, Recoveries, Records
<1>2. ASSUME Reserve(p) PROVE Effects(p)
  BY <1>2, MyRecord DEF Reserve, Reusable, Write, Assigned, My
<1>3. ASSUME BeginPreparation(p) PROVE Effects(p)
  BY <1>3, MyRecord DEF BeginPreparation, My, Write
<1>4. ASSUME AddWorktree(p) PROVE Effects(p)
  BY <1>4, MyRecord DEF AddWorktree
<1>5. ASSUME LockWorktree(p) PROVE Effects(p)
  BY <1>5, MyRecord DEF LockWorktree
<1>6. ASSUME AssignWorktree(p) PROVE Effects(p)
  BY <1>6, MyRecord DEF AssignWorktree
<1>7. ASSUME MarkAvailable(p) PROVE Effects(p)
  BY <1>7, MyRecord DEF MarkAvailable, Preparing, My, WriteLater
<1>8. ASSUME MarkAssigned(p) PROVE Effects(p)
  BY <1>8, MyRecord DEF MarkAssigned, Preparing, Write, Assigned, My
<1>9. ASSUME RecordAcquisitionSuccess(p) PROVE Effects(p)
  BY <1>9, MyRecord DEF RecordAcquisitionSuccess, Acquiring, Write, My
<1>10. ASSUME Cleanup(p) PROVE Effects(p)
  BY <1>10, MyRecord DEF Cleanup, ReturnWorktree
<1>11. ASSUME Retain(p) PROVE Effects(p)
  BY <1>11, MyRecord DEF Retain, Holds, WriteLater, My, Acquiring, Preparing
<1> QED
  BY <1>1, <1>2, <1>3, <1>4, <1>5, <1>6, <1>7, <1>8, <1>9, <1>10, <1>11 DEF Acquire

(* around a child,                                                         *)
LEMMA ExecuteEffects ==
  ASSUME IInv, IInv', FInv, NEW p \in Procs, Execute(p)
  PROVE  Effects(p)
<1>1. ASSUME EnsureDependencies(p) \/ AlreadyAttached(p) \/ PrepareFails(p) \/ StartRun(p) \/
            StartSync(p) \/ Enter(p) \/ EnterFails(p) \/ Untracked(p) \/ RegisterFails(p) \/
            UnregisterFails(p) \/ UntrackedExits(p) \/ Unsafe(p)
      PROVE  Effects(p)
  <2>1. rec' = rec /\ UNCHANGED <<tree, locked>>
    BY <1>1 DEF EnsureDependencies, AlreadyAttached, PrepareFails, StartRun, StartSync, Enter,
           EnterFails, Untracked, RegisterFails, UnregisterFails, UntrackedExits, Unsafe, Abort,
           Spawn, Stop, git
  <2> QED
    BY <2>1 DEF Effects, Stays
<1>2. ASSUME Register(p) PROVE Effects(p)
  <2>1. /\ ws[p] \in Paths /\ My(p) = rec[ws[p]] /\ \A v \in Paths \ {ws[p]} : rec'[v] = rec[v]
        /\ rec'[ws[p]].life = rec[ws[p]].life /\ rec'[ws[p]].op = rec[ws[p]].op
        /\ rec'[ws[p]].asg = rec[ws[p]].asg /\ rec'[ws[p]].failed = rec[ws[p]].failed
        /\ rec'[ws[p]].procs = rec[ws[p]].procs \cup {p}
    BY <1>2, RegisterWrites
  <2>2. Naming(p) /\ UNCHANGED <<tree, locked>>
    BY <1>2 DEF Register, At, Naming, git
  <2> QED
    BY <2>1, <2>2 DEF Effects, Stays
<1>3. ASSUME Unregister(p) PROVE Effects(p)
  <2>1. /\ ws[p] \in Paths /\ My(p) = rec[ws[p]] /\ \A v \in Paths \ {ws[p]} : rec'[v] = rec[v]
        /\ rec'[ws[p]].life = rec[ws[p]].life /\ rec'[ws[p]].op = rec[ws[p]].op
        /\ rec'[ws[p]].asg = rec[ws[p]].asg /\ rec'[ws[p]].failed = rec[ws[p]].failed
        /\ rec'[ws[p]].procs = rec[ws[p]].procs \ {p}
    BY <1>3, UnregisterWrites
  <2>2. UNCHANGED <<tree, locked>>
    BY <1>3 DEF Unregister, git
  <2> QED
    BY <2>1, <2>2 DEF Effects, Stays
<1> QED
  BY <1>1, <1>2, <1>3 DEF Execute

(* in a return,                                                            *)
LEMMA ReleaseEffects ==
  ASSUME IInv, IInv', FInv, NEW p \in Procs, Release(p)
  PROVE  Effects(p)
<1>1. ASSUME StartRelease(p) \/ ResumeReturn(p) \/ ReturnRefused(p) \/ CleanRaced(p) \/
            NotDrained(p) \/ CleanedUp(p) \/ FinishFails(p) \/ CancelFails(p)
      PROVE  Effects(p)
  <2>1. rec' = rec /\ UNCHANGED <<tree, locked>>
    BY <1>1 DEF StartRelease, ResumeReturn, ReturnRefused, CleanRaced, NotDrained, CleanedUp,
           FinishFails, CancelFails, Stop, git
  <2> QED
    BY <2>1 DEF Effects, Stays
<1>2. ASSUME BeginWorkspaceReturn(p) PROVE Effects(p)
  <2>1. ws[p] \in Paths /\ My(p) = rec[ws[p]] /\ My(p) \in Records /\ Typed
    BY <1>2, MyRecord DEF BeginWorkspaceReturn, At, IInv
  <2> DEFINE r == [My(p) EXCEPT !.life = "returning", !.failed = FALSE]
  <2>3. r \in Records /\ r.life = "returning" /\ r.procs = My(p).procs
    BY <2>1 DEF Records, Lives
  <2>4. Write(p, ws[p], r) \/ WriteLater(p, ws[p], r)
    BY <1>2 DEF BeginWorkspaceReturn
  <2> HIDE DEF r
  <2>5. /\ rec'[ws[p]].life = r.life /\ rec'[ws[p]].op = r.op /\ rec'[ws[p]].asg = r.asg
        /\ rec'[ws[p]].procs = r.procs /\ \A v \in Paths \ {ws[p]} : rec'[v] = rec[v]
    BY <2>1, <2>3, <2>4, Written
  <2>6. /\ Transits(p) /\ ~Stays(ws[p]) /\ UNCHANGED <<tree, locked>>
    BY <1>2, <2>1, <2>3, <2>5 DEF BeginWorkspaceReturn, At, Transits, Stays, git
  <2> QED
    BY <2>1, <2>3, <2>5, <2>6 DEF Effects, Stays
<1> USE ConstantsAssumption DEF IInv, Typed, TypeOK, Placed, git, kids, own, At, Goto, Become,
        Choose, Carry, Stop, Effects, Transits, Naming, Stays, Handing, Returning, Removing,
        FInv, Local, Fits, Handoff, Acquisitions, Collections, Recoveries, Records
<1>3. ASSUME CleanProcess(p) PROVE Effects(p)
  BY <1>3, MyRecord DEF CleanProcess, Kill, Write, My, Mine
<1>4. ASSUME Reset(p) PROVE Effects(p)
  BY <1>4, MyRecord DEF Reset
<1>5. ASSUME ResetFails(p) PROVE Effects(p)
  BY <1>5, MyRecord DEF ResetFails
<1>6. ASSUME FinishWorkspaceReturn(p) PROVE Effects(p)
  BY <1>6, MyRecord DEF FinishWorkspaceReturn, Mine, My, Write, NoRecord
<1>7. ASSUME CancelWorkspaceReturn(p) PROVE Effects(p)
  BY <1>7, MyRecord DEF CancelWorkspaceReturn, Mine, My, Write
<1> QED
  BY <1>1, <1>2, <1>3, <1>4, <1>5, <1>6, <1>7 DEF Release

(* and in a collection.                                                    *)
LEMMA GCEffects ==
  ASSUME IInv, IInv', FInv, NEW p \in Procs, GC(p)
  PROVE  Effects(p)
<1>1. ASSUME CollectStale(p) \/ DrainFails(p) \/ Drained(p) \/ ResumeCollection(p) \/
            CollectionRefused(p) \/ NoWorktree(p) \/ RelockFails(p) \/ CancelStale(p) \/
            DeleteFails(p)
      PROVE  Effects(p)
  <2>1. rec' = rec /\ UNCHANGED <<tree, locked>>
    BY <1>1 DEF CollectStale, DrainFails, Drained, ResumeCollection, CollectionRefused,
           NoWorktree, RelockFails, CancelStale, DeleteFails, Stop, git
  <2> QED
    BY <2>1 DEF Effects, Stays
<1> USE ConstantsAssumption DEF IInv, Typed, TypeOK, Placed, git, kids, own, At, Goto, Become,
        Choose, Carry, Stop, Effects, Transits, Naming, Stays, Handing, Returning, Removing,
        FInv, Local, Fits, Handoff, Acquisitions, Collections, Recoveries, Records
<1>2. ASSUME Collect(p) PROVE Effects(p)
  BY <1>2, MyRecord DEF Collect, StillCandidate, Observe, My, Candidate, Fencing
<1>3. ASSUME DrainProcess(p) PROVE Effects(p)
  BY <1>3, MyRecord DEF DrainProcess, Undrained, My, Kill, Write
<1>4. ASSUME BeginWorkspaceCollection(p) PROVE Effects(p)
  BY <1>4, MyRecord DEF BeginWorkspaceCollection, Collectable, Resumes, Write, My
<1>5. ASSUME UnlockWorktree(p) PROVE Effects(p)
  BY <1>5, MyRecord DEF UnlockWorktree
<1>6. ASSUME RemoveWorktree(p) PROVE Effects(p)
  BY <1>6, MyRecord DEF RemoveWorktree
<1>7. ASSUME RemoveFails(p) PROVE Effects(p)
  BY <1>7, MyRecord DEF RemoveFails
<1>8. ASSUME Relock(p) PROVE Effects(p)
  BY <1>8, MyRecord DEF Relock
<1>9. ASSUME CancelWorkspaceCollection(p) PROVE Effects(p)
  BY <1>9, MyRecord DEF CancelWorkspaceCollection, My, Write
<1>10. ASSUME DeleteWorkspaceRecord(p) PROVE Effects(p)
  BY <1>10, MyRecord DEF DeleteWorkspaceRecord, Deletable, NoRecord, My
<1>11. ASSUME NEW w \in Paths, NEW reason \in Collections \cup Recoveries, StartGC(p, w, reason)
      PROVE  Effects(p)
  BY <1>11, MyRecord DEF StartGC, Candidate, Observe, Fencing
<1> QED
  BY <1>1, <1>2, <1>3, <1>4, <1>5, <1>6, <1>7, <1>8, <1>9, <1>10, <1>11 DEF GC

-----------------------------------------------------------------------------
(* It keeps its own part of the invariant, and its IDs apart: in acquire   *)
(* and warm,                                                               *)
LEMMA AcquireOwn ==
  ASSUME Locking, IInv, IInv', FInv, FInv', LInv, NEW p \in Procs, Acquire(p)
  PROVE  Own(p)' /\ Draws(p)
<1>1. ASSUME Reserve(p) PROVE Own(p)' /\ Draws(p)
  <2>1. ws[p] \in Paths /\ My(p) = rec[ws[p]] /\ My(p) \in Records /\ Typed
    BY <1>1, MyRecord DEF Reserve, At, IInv
  <2>2. PICK n \in Ids : Fresh(n) /\ Write(p, ws[p], Assigned(My(p), n)) /\ Carry(p, n)
    BY <1>1 DEF Reserve
  <2> DEFINE r == Assigned(My(p), n)
  <2>3. r \in Records /\ r.life = "assigned" /\ r.op = n /\ r.asg = n /\ r.procs = My(p).procs
    BY <2>1, <2>2 DEF Assigned, Records, Lives
  <2>4. Write(p, ws[p], r) \/ WriteLater(p, ws[p], r)
    BY <2>2
  <2> HIDE DEF r
  <2>5. /\ rec'[ws[p]].life = r.life /\ rec'[ws[p]].op = r.op /\ rec'[ws[p]].asg = r.asg
        /\ rec'[ws[p]].procs = r.procs /\ \A v \in Paths \ {ws[p]} : rec'[v] = rec[v]
    BY <2>1, <2>3, <2>4, Written
  <2>6. /\ pc'[p] = "verify" /\ job'[p] = "assigned" /\ UNCHANGED <<ws, todo>> /\ id'[p] = n
        /\ holder'[ws[p]] = p
    BY <1>1, <2>1, <2>2
       DEF Reserve, Goto, Become, Carry, Hold, Given, Locks, IInv, Typed, TypeOK
  <2>7. My(p).procs = {}
    BY <1>1, <2>1 DEF Reserve, Reusable, IInv, PoolIsDrained
  <2> QED
    BY <2>1, <2>2, <2>3, <2>5, <2>6, <2>7, ConstantsAssumption
      
         DEF Own, Guarded, Fenced, Sited, Attended, Draws, Handing, Returning, Removing, Holds,
             Acquiring, My, Fresh, Collections, Recoveries
<1>2. ASSUME BeginPreparation(p) PROVE Own(p)' /\ Draws(p)
  <2>1. ws[p] \in Paths /\ My(p) = rec[ws[p]] /\ My(p) \in Records /\ Typed
    BY <1>2, MyRecord DEF BeginPreparation, At, IInv
  <2>2. PICK n \in Ids :
          /\ Fresh(n) /\ Carry(p, n)
          /\ Write(p, ws[p], [My(p) EXCEPT !.life = "preparing", !.op = n])
    BY <1>2 DEF BeginPreparation
  <2> DEFINE r == [My(p) EXCEPT !.life = "preparing", !.op = n]
  <2>3. r \in Records /\ r.life = "preparing" /\ r.op = n /\ r.procs = My(p).procs
    BY <2>1, <2>2 DEF Records, Lives
  <2>4. Write(p, ws[p], r) \/ WriteLater(p, ws[p], r)
    BY <2>2
  <2> HIDE DEF r
  <2>5. /\ rec'[ws[p]].life = r.life /\ rec'[ws[p]].op = r.op /\ rec'[ws[p]].asg = r.asg
        /\ rec'[ws[p]].procs = r.procs /\ \A v \in Paths \ {ws[p]} : rec'[v] = rec[v]
    BY <2>1, <2>3, <2>4, Written
  <2>6. /\ pc[p] = "begin" /\ pc'[p] \in {"verify", "create"} /\ UNCHANGED <<job, ws, todo, tree>>
        /\ id'[p] = n /\ job[p] \in {"fresh", "warm"} /\ (job[p] # "warm" => holder'[ws[p]] = p)
        /\ holder["pool"] = p => holder'["pool"] = p
    BY <1>2, <2>1, <2>2, ConstantsAssumption
      
         DEF BeginPreparation, At, Goto, Carry, LockToBegin, Take, Hold, git, Locks, IInv,
             Typed, TypeOK,
           FInv, Local, Fits
  <2>7. My(p).procs = {} /\ tree[ws[p]] = "none"
    BY <1>2, <2>1 DEF BeginPreparation, IInv, PoolIsDrained, LInv, Own, NoOrphanTree, IsWorktree
  <2>8. job[p] = "warm" => holder["pool"] = p
    BY DEF LInv, Own, Guarded
  <2> QED
    BY <2>1, <2>2, <2>3, <2>5, <2>6, <2>7, <2>8, ConstantsAssumption
      
         DEF Own, Guarded, Fenced, Sited, Attended, Draws, Handing, Returning, Removing, Holds,
             Preparing, My, Fresh, Collections, Recoveries
<1>3. ASSUME MarkAssigned(p) PROVE Own(p)' /\ Draws(p)
  <2>1. ws[p] \in Paths /\ My(p) = rec[ws[p]] /\ My(p) \in Records /\ Typed
    BY <1>3, MyRecord DEF MarkAssigned, At, IInv
  <2>2. PICK n \in Ids : Fresh(n) /\ Write(p, ws[p], Assigned(My(p), n)) /\ Carry(p, n)
    BY <1>3 DEF MarkAssigned
  <2> DEFINE r == Assigned(My(p), n)
  <2>3. r \in Records /\ r.life = "assigned" /\ r.op = n /\ r.asg = n /\ r.procs = My(p).procs
    BY <2>1, <2>2 DEF Assigned, Records, Lives
  <2>4. Write(p, ws[p], r) \/ WriteLater(p, ws[p], r)
    BY <2>2
  <2> HIDE DEF r
  <2>5. /\ rec'[ws[p]].life = r.life /\ rec'[ws[p]].op = r.op /\ rec'[ws[p]].asg = r.asg
        /\ rec'[ws[p]].procs = r.procs /\ \A v \in Paths \ {ws[p]} : rec'[v] = rec[v]
    BY <2>1, <2>3, <2>4, Written
  <2>6. /\ pc[p] = "prepared" /\ job[p] = "fresh" /\ pc'[p] = "succeed" /\ job'[p] = "assigned"
        /\ UNCHANGED <<ws, todo, holder>> /\ id'[p] = n
    BY <1>3, <2>2 DEF MarkAssigned, At, Goto, Become, Carry, IInv, Typed, TypeOK
  <2>7. Own(p)
    BY DEF LInv, Own
  <2>8. holder'[ws[p]] = p /\ My(p).procs \subseteq todo[p]
    BY <2>6, <2>7 DEF Own, Guarded, Attended, Handing, Handoff, Acquisitions
  <2> QED
    BY <2>1, <2>2, <2>3, <2>5, <2>6, <2>8, ConstantsAssumption
      
         DEF Own, Guarded, Fenced, Sited, Attended, Draws, Handing, Returning, Removing, Holds,
             Acquiring, My, Fresh, Collections, Recoveries
<1> USE ConstantsAssumption DEF IInv, Typed, TypeOK, Placed, git, kids, own, At, Goto, Become,
        Choose, Carry, Stop, LInv, Own, Guarded, Fenced, Sited, Attended, Draws, Handing,
        Returning, Removing, FInv, Local, Fits, Carries, Minds, Handoff, Acquisitions,
        Collections, Recoveries, Records, Take, Hold, Given, Locks
<1>4. ASSUME StartAcquire(p) PROVE Own(p)' /\ Draws(p)
  BY <1>4, MyRecord DEF StartAcquire, Holds, Acquiring, Preparing, Names, Mine, My
<1>5. ASSUME SelectReusable(p) PROVE Own(p)' /\ Draws(p)
  BY <1>5, MyRecord DEF SelectReusable, Reusable, Holds, Acquiring, Preparing, Names, Mine, My
<1>6. ASSUME SelectFresh(p) PROVE Own(p)' /\ Draws(p)
  BY <1>6, MyRecord DEF SelectFresh, Reusable, Holds, Acquiring, Preparing, Names, Mine, My
<1>7. ASSUME ReserveChanged(p) PROVE Own(p)' /\ Draws(p)
  BY <1>7, MyRecord DEF ReserveChanged, Reusable, Holds, Acquiring, Preparing, Names, Mine, My
<1>8. ASSUME StartWarm(p) PROVE Own(p)' /\ Draws(p)
  BY <1>8, MyRecord DEF StartWarm, Holds, Acquiring, Preparing, Names, Mine, My
<1>9. ASSUME AlreadyManaged(p) PROVE Own(p)' /\ Draws(p)
  BY <1>9, MyRecord DEF AlreadyManaged, My, Holds, Acquiring, Preparing, Names, Mine
<1>10. ASSUME Verify(p) PROVE Own(p)' /\ Draws(p)
  BY <1>10, MyRecord DEF Verify, Holds, Acquiring, Preparing, My, Names, Mine
<1>11. ASSUME VerifyFails(p) PROVE Own(p)' /\ Draws(p)
  BY <1>11, MyRecord DEF VerifyFails, Holds, Acquiring, Preparing, My, Names, Mine
<1>12. ASSUME AddWorktree(p) PROVE Own(p)' /\ Draws(p)
  BY <1>12, MyRecord DEF AddWorktree, Holds, Acquiring, Preparing, Names, Mine, My
<1>13. ASSUME LockWorktree(p) PROVE Own(p)' /\ Draws(p)
  BY <1>13, MyRecord DEF LockWorktree, Holds, Acquiring, Preparing, Names, Mine, My
<1>14. ASSUME AssignWorktree(p) PROVE Own(p)' /\ Draws(p)
  BY <1>14, MyRecord DEF AssignWorktree, Holds, Acquiring, Preparing, Names, Mine, My
<1>15. ASSUME GitFails(p) PROVE Own(p)' /\ Draws(p)
  BY <1>15, MyRecord DEF GitFails, Holds, Acquiring, Preparing, Names, Mine, My
<1>16. ASSUME MarkAvailable(p) PROVE Own(p)' /\ Draws(p)
  BY <1>16, MyRecord DEF MarkAvailable, Preparing, My, WriteLater, Holds, Acquiring, Names, Mine
<1>17. ASSUME VerifyPrepared(p) PROVE Own(p)' /\ Draws(p)
  BY <1>17, MyRecord DEF VerifyPrepared, Acquiring, My, Holds, Preparing, Names, Mine
<1>18. ASSUME PreparedFails(p) PROVE Own(p)' /\ Draws(p)
  BY <1>18, MyRecord DEF PreparedFails, Holds, My, Acquiring, Preparing, Names, Mine
<1>19. ASSUME RecordAcquisitionSuccess(p) PROVE Own(p)' /\ Draws(p)
  BY <1>19, MyRecord DEF RecordAcquisitionSuccess, Acquiring, Write, My, Holds, Preparing,
         Names, Mine
<1>20. ASSUME SuccessFails(p) PROVE Own(p)' /\ Draws(p)
  BY <1>20, MyRecord DEF SuccessFails, Holds, Acquiring, Preparing, Names, Mine, My
<1>21. ASSUME Fail(p) PROVE Own(p)' /\ Draws(p)
  BY <1>21, MyRecord DEF Fail, Acquiring, My, Holds, Preparing, Names, Mine
<1>22. ASSUME HandoffLost(p) PROVE Own(p)' /\ Draws(p)
  BY <1>22, MyRecord DEF HandoffLost, Acquiring, My, Holds, Preparing, Names, Mine
<1>23. ASSUME Cleanup(p) PROVE Own(p)' /\ Draws(p)
  BY <1>23, MyRecord DEF Cleanup, ReturnWorktree, Holds, Acquiring, Preparing, Names, Mine, My
<1>24. ASSUME Retain(p) PROVE Own(p)' /\ Draws(p)
  BY <1>24, MyRecord DEF Retain, Holds, WriteLater, My, Acquiring, Preparing, Names, Mine
<1>25. ASSUME RetainFails(p) PROVE Own(p)' /\ Draws(p)
  BY <1>25, MyRecord DEF RetainFails, Holds, Acquiring, Preparing, My, Names, Mine
<1> QED
  BY <1>1, <1>2, <1>3, <1>4, <1>5, <1>6, <1>7, <1>8, <1>9, <1>10, <1>11, <1>12, <1>13, <1>14,
     <1>15, <1>16, <1>17, <1>18, <1>19, <1>20, <1>21, <1>22, <1>23, <1>24, <1>25 DEF Acquire

(* around a child,                                                         *)
LEMMA ExecuteOwn ==
  ASSUME Locking, IInv, IInv', FInv, FInv', LInv, NEW p \in Procs, Execute(p)
  PROVE  Own(p)' /\ Draws(p)
<1>1. ASSUME EnsureDependencies(p) PROVE Own(p)' /\ Draws(p)
  <2>1. ws[p] \in Paths /\ Own(p) /\ Local(p) /\ Decodable(rec[ws[p]]) /\ pc[p] = "prepare"
    BY <1>1, MyRecord DEF EnsureDependencies, At, LInv, Own, FInv, My
  <2>2. /\ pc'[p] = "register" /\ UNCHANGED <<job, ws, id, rec, tree>> /\ tree[ws[p]] # "none"
        /\ fence'[p] = Snapshot(ws[p]) /\ (job[p] = "warm" => holder'[ws[p]] = p)
        /\ (job[p] # "warm" => holder' = holder) /\ (holder["pool"] = p => holder'["pool"] = p)
    BY <1>1, <2>1, ConstantsAssumption
      
         DEF EnsureDependencies, LockToPrepare, Take, Hold, Locks, Spawn, CanSpawn, IsWorktree,
             Goto,
           git, IInv, Typed, TypeOK
  <2>3. job[p] \in Acquisitions /\ todo[p] = {} /\ Handing(p)
    BY <2>1 DEF Local, Fits, Minds, Handing, Handoff
  <2>4. job[p] # "warm" => My(p).procs = {} /\ Names(Snapshot(ws[p]), ws[p])
    BY <2>1, <2>3
       DEF Own, Fenced, Attended, Holds, Acquiring, Preparing, Names, Snapshot, My, Acquisitions
  <2> QED
    BY <2>1, <2>2, <2>3, <2>4
      
         DEF Own, Guarded, Fenced, Sited, Attended, Draws, Handing, Returning, Removing, Holds,
             Acquiring, Preparing, My, Names, Handoff,
           Acquisitions, Collections, Recoveries
<1>2. ASSUME Enter(p) PROVE Own(p)' /\ Draws(p)
  <2>1. ws[p] \in Paths /\ job[p] \in {"run", "sync"}
    BY <1>2, MyRecord DEF Enter, At, FInv, Local, Fits
  <2>2. /\ pc'[p] = "register" /\ UNCHANGED <<job, ws, tree>> /\ tree[ws[p]] # "none"
        /\ holder'[ws[p]] = p
    BY <1>2, <2>1
       DEF Enter, Take, Hold, Locks, Spawn, CanSpawn, IsWorktree, Goto, git, IInv, Typed, TypeOK
  <2> QED
    BY <2>1, <2>2
      
         DEF Own, Guarded, Fenced, Sited, Attended, Draws, Handing, Returning, Removing,
             Acquisitions, Collections, Recoveries
<1>3. ASSUME Register(p) PROVE Own(p)' /\ Draws(p)
  <2>1. /\ ws[p] \in Paths /\ My(p) = rec[ws[p]] /\ \A v \in Paths \ {ws[p]} : rec'[v] = rec[v]
        /\ rec'[ws[p]].life = rec[ws[p]].life /\ rec'[ws[p]].op = rec[ws[p]].op
        /\ rec'[ws[p]].asg = rec[ws[p]].asg /\ rec'[ws[p]].failed = rec[ws[p]].failed
        /\ rec'[ws[p]].procs = rec[ws[p]].procs \cup {p}
    BY <1>3, RegisterWrites
  <2>2. /\ pc[p] = "register" /\ pc'[p] = "wait" /\ UNCHANGED <<job, ws, id, fence, todo, tree>>
        /\ job[p] # "run" => holder' = holder
    BY <1>3 DEF Register, At, Goto, git, own, IInv, Typed, TypeOK
  <2>3. Own(p) /\ Local(p) /\ todo[p] = {p} /\ job[p] \in Acquisitions \cup {"run", "sync"}
    BY <2>2 DEF LInv, Own, FInv, Local, Minds, Fits
  <2>4. job[p] = "run" => Own(p)' /\ Draws(p)
    BY <2>2
      
         DEF Own, Guarded, Fenced, Sited, Attended, Draws, Handing, Returning, Removing,
             Acquisitions, Collections, Recoveries
  <2>5. job[p] # "run" => Own(p)' /\ Draws(p)
    BY <2>1, <2>2, <2>3
      
         DEF Own, Guarded, Fenced, Sited, Attended, Draws, Handing, Returning, Removing, Holds,
             Acquiring, Preparing, My, Names,
           Handoff, Acquisitions, Collections, Recoveries
  <2> QED
    BY <2>4, <2>5
<1>4. ASSUME Unregister(p) PROVE Own(p)' /\ Draws(p)
  <2>1. /\ ws[p] \in Paths /\ My(p) = rec[ws[p]] /\ \A v \in Paths \ {ws[p]} : rec'[v] = rec[v]
        /\ rec'[ws[p]].life = rec[ws[p]].life /\ rec'[ws[p]].op = rec[ws[p]].op
        /\ rec'[ws[p]].asg = rec[ws[p]].asg /\ rec'[ws[p]].failed = rec[ws[p]].failed
        /\ rec'[ws[p]].procs = rec[ws[p]].procs \ {p}
    BY <1>4, UnregisterWrites
  <2>2. /\ pc[p] = "wait" /\ pc'[p] \in {"prepared", "fail", "leave"} /\ todo'[p] = {}
        /\ UNCHANGED <<job, ws, id, tree>> /\ (job[p] \in Acquisitions <=> pc'[p] # "leave")
    BY <1>4 DEF Unregister, AfterInstall, Ended, At, Goto, git, own, IInv, Typed, TypeOK
  <2>3. Own(p) /\ Local(p) /\ Decodable(rec[ws[p]])
    BY <1>4, MyRecord DEF Unregister, At, LInv, Own, FInv, My
  <2>4. job[p] \in Acquisitions \cup {"run", "sync"} /\ todo[p] = {p}
    BY <2>2, <2>3 DEF Local, Fits, Minds
  <2>5. /\ holder["pool"] = p => holder'["pool"] = p
        /\ job[p] # "warm" => holder' = holder
    BY <1>4, ConstantsAssumption
       DEF Unregister, AfterInstall, Installed, Given, Locks, IInv, Typed, TypeOK, Placed, At
  <2> QED
    BY <2>1, <2>2, <2>3, <2>4, <2>5
      
         DEF Own, Guarded, Fenced, Sited, Attended, Draws, Handing, Returning, Removing, Holds,
             Acquiring, Preparing, My,
           Handoff, Acquisitions, Collections, Recoveries
<1>5. ASSUME UntrackedExits(p) PROVE Own(p)' /\ Draws(p)
  <2>2. /\ pc[p] = "wait" /\ pc'[p] \in {"prepared", "fail", "leave"} /\ todo'[p] = {}
        /\ UNCHANGED <<job, ws, id, rec, tree>> /\ (job[p] \in Acquisitions <=> pc'[p] # "leave")
        /\ fence[p] = None
    BY <1>5 DEF UntrackedExits, AfterInstall, Ended, At, Goto, git, own, IInv, Typed, TypeOK
  <2>3. Own(p) /\ Local(p) /\ Decodable(rec[ws[p]])
    BY <1>5, MyRecord DEF UntrackedExits, At, LInv, Own, FInv, My
  <2>4. job[p] \in Acquisitions \cup {"run", "sync"} /\ todo[p] = {p}
    BY <2>2, <2>3 DEF Local, Fits, Minds
  <2>5. /\ holder["pool"] = p => holder'["pool"] = p
        /\ job[p] # "warm" => holder' = holder
    BY <1>5, ConstantsAssumption
       DEF UntrackedExits, AfterInstall, Installed, Given, Locks, IInv, Typed, TypeOK, Placed,
           At
  <2>6. job[p] \notin {"fresh", "assigned"}
    BY <2>2, <2>3, ConstantsAssumption
       DEF Own, Attended, Names, Handing, Handoff, Acquisitions, Decodable
  <2> QED
    BY <2>2, <2>3, <2>4, <2>5, <2>6
      
         DEF Own, Guarded, Fenced, Sited, Attended, Draws, Handing, Returning, Removing, Holds,
             Acquiring, Preparing, My,
           Handoff, Acquisitions, Collections, Recoveries
<1> USE ConstantsAssumption DEF IInv, Typed, TypeOK, Placed, git, kids, own, At, Goto, Become,
        Choose, Carry, Stop, LInv, Own, Guarded, Fenced, Sited, Attended, Draws, Handing,
        Returning, Removing, FInv, Local, Fits, Carries, Minds, Handoff, Acquisitions,
        Collections, Recoveries, Records, Take, Hold, Given, Locks
<1>6. ASSUME AlreadyAttached(p) PROVE Own(p)' /\ Draws(p)
  BY <1>6, MyRecord DEF AlreadyAttached, Holds, Acquiring, Preparing, Names, Mine, My
<1>7. ASSUME PrepareFails(p) PROVE Own(p)' /\ Draws(p)
  BY <1>7, MyRecord DEF PrepareFails, Holds, Acquiring, Preparing, Names, Mine, My
<1>8. ASSUME StartRun(p) PROVE Own(p)' /\ Draws(p)
  BY <1>8, MyRecord DEF StartRun, Holds, Acquiring, Preparing, Names, Mine, My
<1>9. ASSUME StartSync(p) PROVE Own(p)' /\ Draws(p)
  BY <1>9, MyRecord DEF StartSync, Holds, Acquiring, Preparing, Names, Mine, My
<1>10. ASSUME EnterFails(p) PROVE Own(p)' /\ Draws(p)
  BY <1>10, MyRecord DEF EnterFails, Valid, My, Holds, Acquiring, Preparing, Names, Mine
<1>11. ASSUME Untracked(p) PROVE Own(p)' /\ Draws(p)
  BY <1>11, MyRecord DEF Untracked, Holds, Acquiring, Preparing, Names, Mine, My
<1>12. ASSUME RegisterFails(p) PROVE Own(p)' /\ Draws(p)
  BY <1>12, MyRecord DEF RegisterFails, Kill, Ended, Abort, Installed, Holds, Acquiring,
         Preparing, Names, Mine, My
<1>13. ASSUME UnregisterFails(p) PROVE Own(p)' /\ Draws(p)
  BY <1>13, MyRecord DEF UnregisterFails, MayRemove, My, Abort, Ended, Names, Installed, Holds,
         Acquiring, Preparing, Mine
<1>14. ASSUME Unsafe(p) PROVE Own(p)' /\ Draws(p)
  BY <1>14, MyRecord DEF Unsafe, Abort, Installed, Holds, Acquiring, Preparing, Names, Mine, My
<1> QED
  BY <1>1, <1>2, <1>3, <1>4, <1>5, <1>6, <1>7, <1>8, <1>9, <1>10, <1>11, <1>12, <1>13, <1>14 DEF
     Execute

(* in a return,                                                            *)
LEMMA ReleaseOwn ==
  ASSUME Locking, IInv, IInv', FInv, FInv', LInv, NEW p \in Procs, Release(p)
  PROVE  Own(p)' /\ Draws(p)
<1> USE ConstantsAssumption DEF IInv, Typed, TypeOK, Placed, git, kids, own, At, Goto, Become,
        Choose, Carry, Stop, LInv, Own, Guarded, Fenced, Sited, Attended, Draws, Handing,
        Returning, Removing, FInv, Local, Fits, Carries, Minds, Handoff, Acquisitions,
        Collections, Recoveries, Records, Take, Hold, Given, Locks
<1>1. ASSUME StartRelease(p) PROVE Own(p)' /\ Draws(p)
  BY <1>1, MyRecord DEF StartRelease, Holds, Acquiring, Preparing, Names, Mine, My
<1>2. ASSUME BeginWorkspaceReturn(p) PROVE Own(p)' /\ Draws(p)
  BY <1>2, MyRecord DEF BeginWorkspaceReturn, LockToReturn, Mine, My, ReturnFences, Write,
         Holds, Acquiring, Preparing, Names
<1>3. ASSUME ResumeReturn(p) PROVE Own(p)' /\ Draws(p)
  BY <1>3, MyRecord DEF ResumeReturn, LockToReturn, Mine, My, Holds, Acquiring, Preparing, Names
<1>4. ASSUME ReturnRefused(p) PROVE Own(p)' /\ Draws(p)
  BY <1>4, MyRecord DEF ReturnRefused, Mine, My, ReturnFences, Holds, Acquiring, Preparing,
         Names
<1>5. ASSUME CleanProcess(p) PROVE Own(p)' /\ Draws(p)
  BY <1>5, MyRecord DEF CleanProcess, Drainable, Kill, Write, My, Mine, Holds, Acquiring,
         Preparing, Names
<1>6. ASSUME CleanRaced(p) PROVE Own(p)' /\ Draws(p)
  BY <1>6, MyRecord DEF CleanRaced, Drainable, Kill, My, Mine, Holds, Acquiring, Preparing,
         Names
<1>7. ASSUME NotDrained(p) PROVE Own(p)' /\ Draws(p)
  BY <1>7, MyRecord DEF NotDrained, Holds, Acquiring, Preparing, Names, Mine, My
<1>8. ASSUME CleanedUp(p) PROVE Own(p)' /\ Draws(p)
  BY <1>8, MyRecord DEF CleanedUp, Holds, Acquiring, Preparing, Names, Mine, My
<1>9. ASSUME Reset(p) PROVE Own(p)' /\ Draws(p)
  BY <1>9, MyRecord DEF Reset, Holds, Acquiring, Preparing, Names, Mine, My
<1>10. ASSUME ResetFails(p) PROVE Own(p)' /\ Draws(p)
  BY <1>10, MyRecord DEF ResetFails, Holds, Acquiring, Preparing, Names, Mine, My
<1>11. ASSUME FinishWorkspaceReturn(p) PROVE Own(p)' /\ Draws(p)
  BY <1>11, MyRecord DEF FinishWorkspaceReturn, Mine, My, Write, NoRecord, Holds, Acquiring,
         Preparing, Names
<1>12. ASSUME FinishFails(p) PROVE Own(p)' /\ Draws(p)
  BY <1>12, MyRecord DEF FinishFails, Mine, My, Holds, Acquiring, Preparing, Names
<1>13. ASSUME CancelWorkspaceReturn(p) PROVE Own(p)' /\ Draws(p)
  BY <1>13, MyRecord DEF CancelWorkspaceReturn, Mine, My, Write, Holds, Acquiring, Preparing,
         Names
<1>14. ASSUME CancelFails(p) PROVE Own(p)' /\ Draws(p)
  BY <1>14, MyRecord DEF CancelFails, Mine, My, Holds, Acquiring, Preparing, Names
<1> QED
  BY <1>1, <1>2, <1>3, <1>4, <1>5, <1>6, <1>7, <1>8, <1>9, <1>10, <1>11, <1>12, <1>13, <1>14 DEF
     Release

(* and in a collection.                                                    *)
LEMMA GCOwn ==
  ASSUME Locking, IInv, IInv', FInv, FInv', LInv, NEW p \in Procs, GC(p)
  PROVE  Own(p)' /\ Draws(p)
<1>1. ASSUME NoWorktree(p) PROVE Own(p)' /\ Draws(p)
  <2>1. ws[p] \in Paths /\ tree[ws[p]] = "none" /\ Own(p)
    BY <1>1, MyRecord DEF NoWorktree, At, IsWorktree, LInv, Own
  <2>2. /\ pc[p] = "unlock" /\ pc'[p] \in {"forget", "cancel"}
        /\ UNCHANGED <<job, ws, id, rec, tree, holder>>
    BY <1>1 DEF NoWorktree, At, Goto, git, own, IInv, Typed, TypeOK
  <2> QED
    BY <2>1, <2>2
       DEF Own, Guarded, Fenced, Sited, Attended, Draws, Handing, Returning, Removing, My,
           Handoff
<1>7. ASSUME BeginWorkspaceCollection(p) PROVE Own(p)' /\ Draws(p)
  <2>1. /\ ws[p] \in Paths /\ Own(p) /\ job[p] \in Collections \cup Recoveries
        /\ pc[p] = "fence" /\ pc'[p] = "unlock" /\ UNCHANGED <<job, ws, tree, holder>>
    BY <1>7, MyRecord
       DEF BeginWorkspaceCollection, At, Goto, git, LInv, FInv, Local, Fits, IInv, Typed, TypeOK
  <2>2. /\ rec'[ws[p]].life \in {"available", "failed"}
        /\ \E n \in Ids : Carry(p, n) /\ rec'[ws[p]].op = n
    BY <1>7, BeginWorkspaceCollectionWrites
  <2>3. rec'[ws[p]].op = id'[p]
    BY <2>2 DEF Carry, IInv, Typed, TypeOK
  <2> QED
    BY <2>1, <2>2, <2>3
       DEF Own, Guarded, Fenced, Sited, Attended, Draws, Handing, Returning, Removing, My,
           Handoff, Acquisitions, Collections, Recoveries
<1> USE ConstantsAssumption DEF IInv, Typed, TypeOK, Placed, git, kids, own, At, Goto, Become,
        Choose, Carry, Stop, LInv, Own, Guarded, Fenced, Sited, Attended, Draws, Handing,
        Returning, Removing, FInv, Local, Fits, Carries, Minds, Handoff, Acquisitions,
        Collections, Recoveries, Records, Take, Hold, Given, Locks
<1>2. ASSUME Collect(p) PROVE Own(p)' /\ Draws(p)
  BY <1>2, MyRecord DEF Collect, StillCandidate, Observe, My, Candidate, Fencing, Holds,
         Acquiring, Preparing, Names, Mine
<1>3. ASSUME CollectStale(p) PROVE Own(p)' /\ Draws(p)
  BY <1>3, MyRecord DEF CollectStale, StillCandidate, Candidate, My, Fencing, Holds, Acquiring,
         Preparing, Names, Mine
<1>4. ASSUME DrainProcess(p) PROVE Own(p)' /\ Draws(p)
  BY <1>4, MyRecord DEF DrainProcess, Undrained, My, Kill, Write, Holds, Acquiring, Preparing,
         Names, Mine
<1>5. ASSUME DrainFails(p) PROVE Own(p)' /\ Draws(p)
  BY <1>5, MyRecord DEF DrainFails, Undrained, My, Holds, Acquiring, Preparing, Names, Mine
<1>6. ASSUME Drained(p) PROVE Own(p)' /\ Draws(p)
  BY <1>6, MyRecord DEF Drained, Undrained, My, Holds, Acquiring, Preparing, Names, Mine
<1>8. ASSUME ResumeCollection(p) PROVE Own(p)' /\ Draws(p)
  BY <1>8, MyRecord DEF ResumeCollection, Collectable, Resumes, My, Holds, Acquiring, Preparing,
         Names, Mine
<1>9. ASSUME CollectionRefused(p) PROVE Own(p)' /\ Draws(p)
  BY <1>9, MyRecord DEF CollectionRefused, Collectable, My, Holds, Acquiring, Preparing, Names,
         Mine
<1>10. ASSUME UnlockWorktree(p) PROVE Own(p)' /\ Draws(p)
  BY <1>10, MyRecord DEF UnlockWorktree, Holds, Acquiring, Preparing, Names, Mine, My
<1>11. ASSUME RemoveWorktree(p) PROVE Own(p)' /\ Draws(p)
  BY <1>11, MyRecord DEF RemoveWorktree, Holds, Acquiring, Preparing, Names, Mine, My
<1>12. ASSUME RemoveFails(p) PROVE Own(p)' /\ Draws(p)
  BY <1>12, MyRecord DEF RemoveFails, Holds, Acquiring, Preparing, Names, Mine, My
<1>13. ASSUME Relock(p) PROVE Own(p)' /\ Draws(p)
  BY <1>13, MyRecord DEF Relock, Holds, Acquiring, Preparing, Names, Mine, My
<1>14. ASSUME RelockFails(p) PROVE Own(p)' /\ Draws(p)
  BY <1>14, MyRecord DEF RelockFails, Holds, Acquiring, Preparing, Names, Mine, My
<1>15. ASSUME CancelWorkspaceCollection(p) PROVE Own(p)' /\ Draws(p)
  BY <1>15, MyRecord DEF CancelWorkspaceCollection, My, Write, Holds, Acquiring, Preparing,
         Names, Mine
<1>16. ASSUME CancelStale(p) PROVE Own(p)' /\ Draws(p)
  BY <1>16, MyRecord DEF CancelStale, My, Holds, Acquiring, Preparing, Names, Mine
<1>17. ASSUME DeleteWorkspaceRecord(p) PROVE Own(p)' /\ Draws(p)
  BY <1>17, MyRecord DEF DeleteWorkspaceRecord, Deletable, NoRecord, My, Holds, Acquiring,
         Preparing, Names, Mine
<1>18. ASSUME DeleteFails(p) PROVE Own(p)' /\ Draws(p)
  BY <1>18, MyRecord DEF DeleteFails, Holds, Acquiring, Preparing, Names, Mine, My
<1>19. ASSUME NEW w \in Paths, NEW reason \in Collections \cup Recoveries, StartGC(p, w, reason)
      PROVE  Own(p)' /\ Draws(p)
  BY <1>19, MyRecord DEF StartGC, Candidate, Observe, Fencing, Holds, Acquiring, Preparing,
         Names, Mine, My
<1> QED
  BY <1>1, <1>2, <1>3, <1>4, <1>5, <1>6, <1>7, <1>8, <1>9, <1>10, <1>11, <1>12, <1>13, <1>14,
     <1>15, <1>16, <1>17, <1>18, <1>19 DEF GC

(* The end of a command takes no lock and no workspace from another.       *)
LEMMA EndLocks ==
  ASSUME IInv, NEW p \in Procs, End(p)
  PROVE  Alone(p) /\ Effects(p) /\ Own(p)' /\ Draws(p) /\ (TInv => Leaves(p))
<1>1. /\ pc' = [pc EXCEPT ![p] = "idle"] /\ job' = [job EXCEPT ![p] = "none"]
      /\ ws' = [ws EXCEPT ![p] = None] /\ id' = [id EXCEPT ![p] = None]
      /\ fence' = [fence EXCEPT ![p] = None] /\ todo' = [todo EXCEPT ![p] = {}]
      /\ holder' = Given(p, Locks) /\ UNCHANGED <<tree, locked>>
  BY DEF End, Goto, Become, Choose, Carry, git
<1>2. \A w \in Paths : Stays(w) /\ rec'[w].procs = rec[w].procs /\ rec'[w].failed = rec[w].failed
  <2> SUFFICES ASSUME NEW w \in Paths
               PROVE  Stays(w) /\ rec'[w].procs = rec[w].procs /\ rec'[w].failed = rec[w].failed
    OBVIOUS
  <2>1. rec'[w] = [rec[w] EXCEPT !.seen = @ \ {p}] /\ rec[w] \in Records
    BY DEF End, IInv, Typed, TypeOK
  <2> QED
    BY <2>1 DEF Records, Stays
<1>3. Alone(p)
  BY <1>1 DEF Alone, Given, IInv, Typed, TypeOK
<1>4. Effects(p)
  BY <1>1, <1>2 DEF Effects, Stays
<1>5. pc'[p] = "idle" /\ job'[p] = "none"
  BY <1>1 DEF IInv, Typed, TypeOK
<1>6. Own(p)' /\ Draws(p)
  BY <1>5 DEF Own, Guarded, Fenced, Sited, Attended, Draws, Handing, Returning, Removing, Handoff,
              Acquisitions, Collections, Recoveries
<1>7. TInv => Leaves(p)
  BY <1>1, <1>2, <1>5
     DEF TInv, Leaves, Ready, Reusable, Stays, Prepared, Handing, Handoff
<1> QED
  BY <1>3, <1>4, <1>6, <1>7

(* Every step of a command, put together.                                  *)
LEMMA StepLocks ==
  ASSUME Locking, IInv, IInv', FInv, FInv', LInv, NEW p \in Procs, Step(p) \/ Crash(p)
  PROVE  Alone(p) /\ Effects(p) /\ Own(p)' /\ Draws(p)
<1>1. CASE Acquire(p)
  BY <1>1, AcquireAlone, AcquireEffects, AcquireOwn
<1>2. CASE Execute(p)
  BY <1>2, ExecuteAlone, ExecuteEffects, ExecuteOwn
<1>3. CASE Release(p)
  BY <1>3, ReleaseAlone, ReleaseEffects, ReleaseOwn
<1>4. CASE GC(p)
  BY <1>4, GCAlone, GCEffects, GCOwn
<1>5. CASE Leave(p) \/ Crash(p)
  BY <1>5, EndLocks DEF Leave, Crash
<1> QED
  BY <1>1, <1>2, <1>3, <1>4, <1>5 DEF Step

-----------------------------------------------------------------------------
(* A command that has a workspace: what it has brought there is its own.   *)
AtWork(p) == Handing(p) \/ Returning(p) \/ pc[p] \in Removing

LEMMA WorkLocked ==
  ASSUME FInv, LInv, NEW p \in Procs, AtWork(p)
  PROVE  \/ holder[ws[p]] = p
         \/ job[p] = "warm" /\ Handing(p) /\ Preparing(p) /\ holder["pool"] = p
<1>1. Own(p) /\ Local(p)
  BY DEF LInv, FInv, Own
<1> QED
  BY <1>1 DEF Own, Guarded, Fenced, AtWork, Handing, Returning, Removing, Holds, Acquisitions,
              Local, Fits, Collections, Recoveries

(* Two commands never have the same workspace, although ruk warm does not  *)
(* lock the slot that it creates: it is under an ID of its own.            *)
LEMMA WorkAlone ==
  ASSUME FInv, LInv, NEW p \in Procs, NEW q \in Procs, p # q, AtWork(p), AtWork(q)
  PROVE  ws[p] # ws[q]
<1>1. Fenced(p) /\ Fenced(q)
  BY DEF LInv, Own
<1>2. ASSUME NEW a \in Procs, NEW b \in Procs, a # b, ws[a] = ws[b], Fenced(b), AtWork(b),
             job[a] = "warm", Handing(a), Preparing(a)
      PROVE  FALSE
  BY <1>2
     DEF LInv, Own, HandoffsDiffer, Fenced, AtWork, Returning, Holds, Preparing, Acquiring, My
<1>3. CASE holder[ws[p]] = p /\ holder[ws[q]] = q
  BY <1>3
<1> QED
  BY <1>1, <1>2, <1>3, WorkLocked

(* A workspace changes hands only by a command that has it, or that takes  *)
(* it when nobody else does.                                               *)
LEMMA Undisturbed ==
  ASSUME FInv, LInv, NEW p \in Procs, NEW q \in Procs, p # q, Transits(p), AtWork(q)
  PROVE  ws[p] # ws[q]
<1> SUFFICES ASSUME ws[p] = ws[q] PROVE FALSE
  OBVIOUS
<1>1. Own(p) /\ Own(q) /\ Local(p) /\ Local(q)
  BY DEF LInv, FInv, Own
<1>2. CASE AtWork(p)
  BY <1>2, WorkAlone
<1>3. CASE pc[p] = "fence"
  <2>1. holder[ws[p]] = p /\ holder["pool"] = p
    BY <1>1, <1>3 DEF Own, Guarded, Local, Fits
  <2> QED
    BY <2>1, WorkLocked
<1>4. CASE pc[p] = "reserve" /\ Reusable(ws[p])
  BY <1>1, <1>4
     DEF Own, Fenced, AtWork, Handing, Returning, Removing, Holds, Preparing, Acquiring,
                    My, Reusable, Local, Carries
<1>5. CASE pc[p] = "begin" /\ My(p).life = "absent"
  BY <1>1, <1>5 DEF Own, Fenced, AtWork, Returning, Removing, Holds, Preparing, Acquiring, My
<1>6. CASE pc[p] = "return" /\ My(p).life = "assigned" /\ ReturnFences(p)
  <2>1. Handing(q) /\ job[q] = "assigned" /\ My(p).op # None
    BY <1>1, <1>6 DEF Own, Fenced, AtWork, Handing, Returning, Removing, Holds, Preparing,
                      Acquiring, My, Local, Carries
  <2>2. job[p] = "abandoned"
    BY <1>1, <1>6, <2>1 DEF ReturnFences, Local, Fits, Recoveries
  <2>3. holder[ws[p]] = p
    BY <1>1, <1>6, <2>2 DEF Own, Guarded
  <2> QED
    BY <2>1, <2>3, WorkLocked
<1> QED
  BY <1>2, <1>3, <1>4, <1>5, <1>6 DEF Transits, AtWork

(* Who changes a worktree has the workspace, or is ruk sync with its lock. *)
LEMMA WritersWork ==
  ASSUME FInv, NEW p \in Procs
  PROVE  /\ pc[p] \in {"create", "assign", "cleanup", "reset", "remove"} => AtWork(p)
         /\ Changing(p) => AtWork(p) \/ (pc[p] \in {"register", "wait"} /\ job[p] = "sync")
<1>1. Fits(p)
  BY DEF FInv, Local
<1> QED
  BY <1>1 DEF Fits, Changing, AtWork, Handing, Returning, Removing, Handoff, Acquisitions

(* Nothing happens to a worktree where a child is being started or an      *)
(* installer runs.                                                         *)
LEMMA Sheltered ==
  ASSUME FInv, LInv, NEW p \in Procs, NEW q \in Procs, p # q, Changing(p), AtWork(p),
         pc[q] \in {"register", "wait"}, job[q] = "run" => pc[q] = "register"
  PROVE  ws[p] # ws[q]
<1> SUFFICES ASSUME ws[p] = ws[q] PROVE FALSE
  OBVIOUS
<1>1. Own(p) /\ Own(q) /\ Fits(p) /\ Fits(q)
  BY DEF LInv, FInv, Own, Local
<1>2. holder[ws[q]] = q /\ tree[ws[q]] # "none"
  BY <1>1 DEF Own, Guarded, Sited
<1>3. job[p] = "warm" /\ holder[ws[p]] # p /\ Handing(p)
  BY <1>2, WorkLocked
<1>4. pc[p] = "create"
  BY <1>1, <1>3 DEF Changing, Fits, Own, Guarded, Handing, Handoff
<1> QED
  BY <1>1, <1>2, <1>3, <1>4 DEF Own, Sited

(* Of two that may write to a worktree, one is elsewhere.                  *)
LEMMA OneWriter ==
  ASSUME FInv, LInv
  PROVE  OneWriterPerTree
<1>1. ASSUME NEW p \in Procs, NEW q \in Procs, p # q,
             pc[p] \in {"register", "wait"}, job[p] = "sync",
             pc[q] \in {"register", "wait"}, job[q] = "sync"
      PROVE  ws[p] # ws[q]
  BY <1>1 DEF LInv, Own, Guarded
<1> QED
  BY <1>1, WritersWork, WorkAlone, Sheltered DEF OneWriterPerTree

(* A child is named in the record of a workspace that no other command is  *)
(* emptying or has just found empty.                                       *)
LEMMA NamedApart ==
  ASSUME FInv, LInv, NEW p \in Procs, NEW q \in Procs, p # q, Naming(p), AtWork(q),
         job[q] = "warm" => pc[q] \in {"verify", "create"}
  PROVE  ws[p] # ws[q]
<1> SUFFICES ASSUME ws[p] = ws[q] PROVE FALSE
  OBVIOUS
<1>1. Own(p) /\ Own(q) /\ Fits(q)
  BY DEF LInv, FInv, Own, Local
<1>2. CASE pc[p] = "retain" /\ Handing(p)
  BY <1>2, WorkAlone DEF AtWork
<1>3. CASE pc[p] = "register" /\ (job[p] = "run" => Valid(p))
  <2>1. holder[ws[p]] = p
    BY <1>1, <1>3 DEF Own, Guarded
  <2>2. job[q] = "warm" /\ tree[ws[q]] = "none"
    BY <1>1, <2>1, WorkLocked DEF Own, Sited
  <2> QED
    BY <1>1, <1>3, <2>2 DEF Own, Sited
<1> QED
  BY <1>2, <1>3 DEF Naming

-----------------------------------------------------------------------------
(* A step of one command leaves the others where and with what they were.  *)
LEMMA OthersKeep ==
  ASSUME IInv, FInv, LInv, NEW p \in Procs, NEW q \in Procs, p # q, Alone(p), Effects(p)
  PROVE  Own(q)'
<1>1. /\ UNCHANGED <<pc[q], job[q], ws[q], id[q], fence[q], todo[q]>>
      /\ \A l \in Locks : holder[l] = q => holder'[l] = q
  BY DEF Alone
<1>2. Own(q) /\ Fits(q) /\ Local(p)
  BY DEF LInv, FInv, Own, Local
<1>3. pc[q] \notin {"idle", "pool", "leave"} => ws[q] \in Paths
  BY DEF IInv, Typed, Placed
<1>4. Guarded(q)'
  <2>1. "pool" \in Locks /\ (ws[q] \in Paths => ws[q] \in Locks)
    BY DEF Locks
  <2> QED
    BY <1>1, <1>2, <1>3, <2>1 DEF Own, Guarded, Handoff, Removing
<1>5. AtWork(q) => ws[q] \in Paths
  BY <1>3 DEF AtWork, Handing, Returning, Removing, Handoff
<1>6. AtWork(q) => Stays(ws[q])
  BY <1>5, Undisturbed DEF Effects
<1>7. Fenced(q)'
  BY <1>1, <1>2, <1>6
     DEF Own, Fenced, AtWork, Handing, Returning, Stays, Holds, Acquiring, Preparing, My, Mine
<1>8. Sited(q)'
  <2>1. AtWork(q) => tree'[ws[q]] = tree[ws[q]]
    BY <1>5, WritersWork, WorkAlone DEF Effects
  <2>2. pc[q] \in {"register", "wait"} /\ (job[q] = "run" => pc[q] = "register")
          => tree'[ws[q]] = tree[ws[q]]
    BY <1>3, WritersWork, Sheltered DEF Effects, Changing
  <2> QED
    BY <1>1, <1>2, <2>1, <2>2
       DEF Own, Sited, Fits, AtWork, Handing, Removing, Handoff, Acquisitions
<1>9. AtWork(q) /\ (job[q] = "warm" => pc[q] \in {"verify", "create"})
        => rec'[ws[q]].procs \subseteq rec[ws[q]].procs
  BY <1>5, NamedApart DEF Effects
<1>10. Attended(q)'
  <2>1. pc[q] \in {"verify", "create"} => AtWork(q)
    BY <1>2 DEF Fits, AtWork, Handing, Handoff, Acquisitions
  <2>2. Returning(q) => AtWork(q) /\ job[q] # "warm"
    BY <1>2 DEF Fits, AtWork, Returning, Recoveries
  <2>3. AtWork(q) => \A n : Names(n, ws[q])' <=> Names(n, ws[q])
    BY <1>1, <1>6 DEF Names, Stays
  <2>4. /\ pc[q] \in {"verify", "create"} \/ Returning(q) \/ (Handing(q) /\ job[q] # "warm")
             => (My(q).procs)' \subseteq My(q).procs
        /\ Handing(q)' <=> Handing(q)
    BY <1>1, <1>9, <2>1, <2>2 DEF My, AtWork, Handing
  <2>5. Handing(q) /\ job[q] # "warm" /\ pc[q] \in {"register", "wait"}
          => Names(fence[q], ws[q])'
    BY <1>1, <1>2, <2>3 DEF Own, Attended, AtWork
  <2> QED
    BY <1>1, <1>2, <2>4, <2>5 DEF Own, Attended, Returning
<1> QED
  BY <1>4, <1>7, <1>8, <1>10 DEF Own

(* So the invariant outlives every step of every command,                  *)
LEMMA LocksInductive ==
  ASSUME Locking, IInv, IInv', FInv, FInv', LInv, NEW p \in Procs, Step(p) \/ Crash(p)
  PROVE  LInv'
<1>1. Alone(p) /\ Effects(p) /\ Own(p)' /\ Draws(p)
  BY StepLocks
<1>2. \A q \in Procs : Own(q)'
  BY <1>1, OthersKeep
<1>3. HandoffsDiffer'
  <2>1. \A q \in Procs \ {p} : id'[q] = id[q] /\ (Handing(q)' <=> Handing(q))
    BY <1>1 DEF Alone, Handing
  <2>2. \A q \in Procs \ {p} : Handing(p)' /\ Handing(q)' => id'[p] # id'[q]
    BY <1>1, <2>1 DEF Draws, LInv, Own, HandoffsDiffer
  <2>3. HandoffsDiffer
    BY DEF LInv, Own
  <2> QED
    BY <2>1, <2>2, <2>3 DEF HandoffsDiffer
<1>4. NoOrphanTree'
  <2> SUFFICES ASSUME NEW w \in Paths, rec'[w].life = "absent" PROVE tree'[w] = "none"
    BY DEF NoOrphanTree, IsWorktree
  <2>1. Own(p) /\ (rec[w].life = "absent" => tree[w] = "none")
    BY DEF LInv, Own, NoOrphanTree, IsWorktree
  <2>2. CASE rec[w].life = "absent"
    <3>1. ws[p] = w => ~AtWork(p)
      BY <2>1, <2>2
         DEF Own, Fenced, AtWork, Returning, Removing, Holds, Acquiring, Preparing, My
    <3> QED
      BY <1>1, <2>1, <2>2, <3>1, WritersWork DEF Effects
  <2>3. CASE w = ws[p] /\ pc[p] = "forget"
    BY <1>1, <2>1, <2>3 DEF Effects, Own, Sited
  <2> QED
    BY <1>1, <2>2, <2>3 DEF Effects
<1> QED
  BY <1>2, <1>3, <1>4 DEF LInv, Own

(* as neither a child's exit nor a lease is of any account here.           *)
LEMMA OutsideLocks ==
  ASSUME IInv, LInv, \/ \E p \in Procs : ChildExit(p)
                     \/ \E w \in Paths : Expire(w) \/ Renew(w)
                     \/ UNCHANGED vars
  PROVE  /\ UNCHANGED <<pc, job, ws, id, fence, todo, holder, tree, locked>>
         /\ \A w \in Paths : /\ Stays(w) /\ rec'[w].procs = rec[w].procs
                             /\ rec'[w].failed = rec[w].failed
         /\ LInv'
<1>1. UNCHANGED <<pc, job, ws, id, fence, todo, holder, tree, locked>>
  BY DEF ChildExit, Expire, Renew, vars, own, git
<1>2. \A w \in Paths : Stays(w) /\ rec'[w].procs = rec[w].procs /\ rec'[w].failed = rec[w].failed
  <2>1. rec \in [Paths -> Records]
    BY DEF IInv, Typed, TypeOK
  <2>2. ASSUME NEW v \in Paths, Expire(v)
        PROVE  \A w \in Paths : /\ Stays(w) /\ rec'[w].procs = rec[w].procs
                                /\ rec'[w].failed = rec[w].failed
    BY <2>1, <2>2 DEF Expire, Records, Stays
  <2>3. ASSUME NEW v \in Paths, Renew(v)
        PROVE  \A w \in Paths : /\ Stays(w) /\ rec'[w].procs = rec[w].procs
                                /\ rec'[w].failed = rec[w].failed
    <3>1. PICK tie \in Ties :
            rec' = [rec EXCEPT ![v].expired = FALSE, ![v].seen = IF tie THEN @ ELSE {}]
      BY <2>3 DEF Renew
    <3> QED
      BY <2>1, <3>1 DEF Records, Stays
  <2>4. CASE UNCHANGED vars \/ \E p \in Procs : ChildExit(p)
    BY <2>4 DEF vars, ChildExit, Stays
  <2> QED
    BY <2>2, <2>3, <2>4
<1>3. \A p \in Procs : Own(p)'
  <2> SUFFICES ASSUME NEW p \in Procs PROVE Own(p)'
    OBVIOUS
  <2>1. Own(p)
    BY DEF LInv, Own
  <2>2. pc[p] \notin {"idle", "pool", "leave"} => ws[p] \in Paths
    BY DEF IInv, Typed, Placed
  <2>3. \A w \in Paths : \A n : Names(n, w)' <=> Names(n, w)
    BY <1>2 DEF Names, Stays
  <2> QED
    BY <1>1, <1>2, <2>1, <2>2, <2>3
       DEF Own, Guarded, Fenced, Sited, Attended, Handing, Returning, Removing, Handoff, Holds,
           Acquiring, Preparing, My, Mine, Stays
<1>4. HandoffsDiffer' /\ NoOrphanTree'
  BY <1>1, <1>2 DEF LInv, Own, HandoffsDiffer, Handing, NoOrphanTree, IsWorktree, Stays
<1> QED
  BY <1>1, <1>2, <1>3, <1>4 DEF LInv, Own

(* With locks that keep others out, the invariant holds in every run.      *)
THEOREM LocksKeep ==
  ASSUME Locking
  PROVE  Spec => []LInv
<1>1. Init => LInv
  <2> SUFFICES ASSUME Init PROVE LInv
    OBVIOUS
  <2>1. \A p \in Procs : pc[p] = "idle" /\ job[p] = "none"
    BY DEF Init
  <2>2. \A w \in Paths : tree[w] = "none"
    BY DEF Init
  <2> QED
    BY <2>1, <2>2
       DEF LInv, Own, Guarded, Fenced, Sited, Attended, Handing, Returning, Removing, Handoff,
           Collections, Recoveries, Acquisitions, HandoffsDiffer, NoOrphanTree, IsWorktree
<1>2. IInv /\ IInv' /\ FInv /\ FInv' /\ LInv /\ [Next]_vars => LInv'
  BY LocksInductive, OutsideLocks DEF Next
<1> QED
  BY <1>1, <1>2, Invariance, FencesHold, PTL DEF Spec

(* Nobody ends a handoff, a return or a collection from outside,           *)
THEOREM OperationsFenced ==
  ASSUME Locking
  PROVE  Spec => []OperationsStayFenced
<1>1. LInv => OperationsStayFenced
  BY DEF LInv, Own, Fenced, Handing, Returning, Removing, OperationsStayFenced
<1> QED
  BY <1>1, LocksKeep, PTL

(* one command at a time writes to the files of a worktree,                *)
THEOREM WritersApart ==
  ASSUME Locking
  PROVE  Spec => []OneWriterPerTree
<1>1. FInv /\ LInv => OneWriterPerTree
  BY OneWriter
<1> QED
  BY <1>1, FencesHold, LocksKeep, PTL

(* and every worktree has a record from which it can be collected.         *)
THEOREM TreesRecorded ==
  ASSUME Locking
  PROVE  Spec => []NoOrphanTree
<1>1. LInv => NoOrphanTree
  BY DEF LInv, Own
<1> QED
  BY <1>1, LocksKeep, PTL

-----------------------------------------------------------------------------
(* Whatever changes a worktree has emptied its record before.              *)
LEMMA EmptiedBefore ==
  ASSUME IInv, FInv, LInv, NEW p \in Procs,
         pc[p] \in {"create", "assign", "cleanup", "reset", "remove"}
  PROVE  ws[p] \in Paths /\ My(p).procs = {}
<1>1. Own(p) /\ Local(p) /\ Unused(My(p)) /\ ws[p] \in Paths
  BY MyRecord DEF LInv, FInv, Own
<1>2. CASE pc[p] = "create"
  BY <1>1, <1>2 DEF Own, Attended, Local, Fits
<1>3. CASE pc[p] \in {"assign", "cleanup"}
  BY <1>1, <1>3 DEF Own, Attended, Local, Fits, Minds, Handing, Handoff, Acquisitions
<1>4. CASE pc[p] = "reset"
  BY <1>1, <1>4 DEF Own, Attended
<1>5. CASE pc[p] = "remove"
  BY <1>1, <1>5 DEF Own, Fenced, Removing, Local, Carries, Unused
<1> QED
  BY <1>1, <1>2, <1>3, <1>4, <1>5

(* No step of a command pulls the worktree away under a child that is      *)
(* recorded, or one that its command is still starting or waiting for:     *)
(* neither a cleanup, a reset or a removal nor a preparation at its path.  *)
THEOREM TreesUnderChildrenKept ==
  ASSUME Locking
  PROVE  Spec => ChildrenKeepTheirTree
<1>1. IInv /\ IInv' /\ FInv /\ FInv' /\ LInv /\ [Next]_vars =>
        [\A w \in Paths, q \in Procs :
           tree'[w] # tree[w] /\ alive[q] = w => q \in loose /\ pc[q] \notin {"register", "wait"}]_vars
  <2> SUFFICES ASSUME IInv, IInv', FInv, FInv', LInv, [Next]_vars,
                      NEW w \in Paths, NEW q \in Procs, tree'[w] # tree[w], alive[q] = w
               PROVE  q \in loose /\ pc[q] \notin {"register", "wait"}
    OBVIOUS
  <2>1. PICK p \in Procs : Step(p) \/ Crash(p)
    BY OutsideLocks DEF Next
  <2>2. w = ws[p] /\ pc[p] \in {"create", "assign", "cleanup", "reset", "remove"}
    BY <2>1, StepLocks DEF Effects
  <2>3. q \in loose
    <3>1. rec[w].procs = {} /\ None \notin Paths
      BY <2>2, EmptiedBefore, ConstantsAssumption DEF My
    <3> QED
      BY <3>1 DEF FInv, NoChildForgotten
  <2>4. ASSUME pc[q] \in {"register", "wait"} PROVE FALSE
    <3>1. Local(q) /\ None \notin Paths
      BY ConstantsAssumption DEF FInv
    <3>2. ws[q] = w /\ (job[q] = "run" => pc[q] = "register")
      BY <2>3, <2>4, <3>1 DEF Local, Carries, Minds, Handoff
    <3> QED
      BY <2>2, <2>4, <3>2, WritersWork, Sheltered DEF Changing
  <2> QED
    BY <2>3, <2>4
<1> QED
  BY <1>1, Invariance, FencesHold, LocksKeep, PTL DEF Spec, ChildrenKeepTheirTree

-----------------------------------------------------------------------------
(* It finds and leaves the worktree as the record says: in acquire and     *)
(* warm,                                                                   *)
LEMMA AcquireTrees ==
  ASSUME Locking, ~CutShort, ~ListFails, IInv, IInv', FInv, LInv, TInv, NEW p \in Procs,
         Acquire(p)
  PROVE  Leaves(p)
<1>1. ASSUME StartAcquire(p) \/ SelectReusable(p) \/ SelectFresh(p) \/ ReserveChanged(p) \/
            StartWarm(p) \/ AlreadyManaged(p) \/ VerifyFails(p) \/ GitFails(p) \/
            PreparedFails(p) \/ SuccessFails(p) \/ Fail(p) \/ HandoffLost(p) \/ RetainFails(p)
      PROVE  Leaves(p)
  <2>1. rec' = rec /\ UNCHANGED <<tree, locked>> /\ pc'[p] \in Careless
    BY <1>1 DEF StartAcquire, SelectReusable, SelectFresh, ReserveChanged, StartWarm,
           AlreadyManaged, VerifyFails, GitFails, PreparedFails, SuccessFails, Fail,
           HandoffLost, RetainFails, Stop, Careless, git, own, At, Goto, Become, Choose, Carry,
           IInv, Typed, TypeOK
  <2>2. Prepared(p)'
    BY <2>1 DEF Careless, Prepared, Handing, Handoff, Acquisitions
  <2>3. ASSUME NEW v \in Paths PROVE Ready(v)'
    BY <2>1 DEF TInv, Ready, Reusable
  <2> QED
    BY <2>2, <2>3 DEF Leaves
<1>2. ASSUME Reserve(p) PROVE Leaves(p)
  <2>1. ws[p] \in Paths /\ My(p) = rec[ws[p]] /\ My(p) \in Records /\ Typed
    BY <1>2, MyRecord DEF Reserve, At, IInv
  <2>2. PICK n \in Ids : Write(p, ws[p], Assigned(My(p), n))
    BY <1>2 DEF Reserve
  <2> DEFINE r == Assigned(My(p), n)
  <2>3. r \in Records /\ r.life = "assigned" /\ r.op = n
    BY <2>1, <2>2 DEF Assigned, Records, Lives
  <2>4. Write(p, ws[p], r) \/ WriteLater(p, ws[p], r)
    BY <2>2
  <2> HIDE DEF r
  <2>5. /\ rec'[ws[p]].life = r.life /\ rec'[ws[p]].op = r.op /\ rec'[ws[p]].asg = r.asg
        /\ rec'[ws[p]].failed = r.failed /\ \A v \in Paths \ {ws[p]} : rec'[v] = rec[v]
    BY <2>1, <2>3, <2>4, Written
  <2>6. /\ ws[p] \in Paths /\ Own(p) /\ Local(p) /\ Prepared(p) /\ Ready(ws[p])
    BY <1>2, MyRecord DEF Reserve, At, LInv, Own, FInv, TInv
  <2>7. /\ pc'[p] = "verify" /\ UNCHANGED <<tree, locked, ws>> /\ Reusable(ws[p])
    BY <1>2, <2>6 DEF Reserve, At, Goto, Become, Carry, git, own, IInv, Typed, TypeOK
  <2>8. n # None /\ tree[ws[p]] = "detached" /\ ws[p] \in locked
    BY <2>1, <2>3, <2>5, <2>6, <2>7, ConstantsAssumption DEF Own, Fenced, Handing, Returning,
           Removing, Holds, Acquiring, Preparing, My, Mine, Local, Fits, Carries, Handoff,
           Acquisitions, Prepared, Ready, Reusable, Recoveries, Collections
  <2>9. Prepared(p)'
    BY <2>1, <2>3, <2>5, <2>6, <2>7, <2>8 DEF Prepared, Handing, Handoff, Acquisitions
  <2>10. ASSUME NEW v \in Paths, v = ws[p] PROVE Ready(v)'
    BY <2>1, <2>3, <2>5, <2>6, <2>7, <2>8, <2>10 DEF Ready, Reusable, IsWorktree
  <2> QED
    BY <2>9, <2>10 DEF Leaves
<1>3. ASSUME BeginPreparation(p) PROVE Leaves(p)
  <2>1. ws[p] \in Paths /\ My(p) = rec[ws[p]] /\ My(p) \in Records /\ Typed
    BY <1>3, MyRecord DEF BeginPreparation, At, IInv
  <2>2. PICK n \in Ids : Write(p, ws[p], [My(p) EXCEPT !.life = "preparing", !.op = n])
    BY <1>3 DEF BeginPreparation
  <2> DEFINE r == [My(p) EXCEPT !.life = "preparing", !.op = n]
  <2>3. r \in Records /\ r.life = "preparing"
    BY <2>1, <2>2 DEF Records, Lives
  <2>4. Write(p, ws[p], r) \/ WriteLater(p, ws[p], r)
    BY <2>2
  <2> HIDE DEF r
  <2>5. /\ rec'[ws[p]].life = r.life /\ rec'[ws[p]].op = r.op /\ rec'[ws[p]].asg = r.asg
        /\ rec'[ws[p]].failed = r.failed /\ \A v \in Paths \ {ws[p]} : rec'[v] = rec[v]
    BY <2>1, <2>3, <2>4, Written
  <2>6. /\ ws[p] \in Paths /\ Own(p) /\ Local(p) /\ Prepared(p) /\ Ready(ws[p])
    BY <1>3, MyRecord DEF BeginPreparation, At, LInv, Own, FInv, TInv
  <2>7. /\ pc'[p] \in {"verify", "create"} /\ UNCHANGED <<tree, locked, ws, job>>
        /\ pc[p] = "begin"
    BY <1>3, <2>6 DEF BeginPreparation, At, Goto, Become, Carry, git, own, IInv, Typed, TypeOK
  <2>8. job[p] \in {"fresh", "warm"}
    BY <2>1, <2>3, <2>5, <2>6, <2>7, ConstantsAssumption DEF Own, Fenced, Handing, Returning,
           Removing, Holds, Acquiring, Preparing, My, Mine, Local, Fits, Carries, Handoff,
           Acquisitions, Prepared, Ready, Reusable, Recoveries, Collections
  <2>9. Prepared(p)'
    BY <2>1, <2>3, <2>5, <2>6, <2>7, <2>8 DEF Prepared, Handing, Handoff, Acquisitions
  <2>10. ASSUME NEW v \in Paths, v = ws[p] PROVE Ready(v)'
    BY <2>1, <2>3, <2>5, <2>6, <2>7, <2>8, <2>10 DEF Ready, Reusable, IsWorktree
  <2> QED
    BY <2>9, <2>10 DEF Leaves
<1>4. ASSUME Verify(p) PROVE Leaves(p)
  <2>1. /\ ws[p] \in Paths /\ Own(p) /\ Local(p) /\ Prepared(p) /\ Ready(ws[p])
    BY <1>4, MyRecord DEF Verify, At, LInv, Own, FInv, TInv
  <2>2. /\ pc[p] = "verify" /\ pc'[p] \in {"assign", "create"}
        /\ UNCHANGED <<rec, tree, locked, job, ws>>
        /\ pc'[p] = "assign" => job[p] = "assigned"
    BY <1>4, <2>1 DEF Verify, At, Goto, Become, Carry, git, own, IInv, Typed, TypeOK
  <2>3. pc'[p] = "assign" => tree[ws[p]] = "detached" /\ ws[p] \in locked
    BY <2>1, <2>2, ConstantsAssumption DEF Own, Fenced, Handing, Returning, Removing, Holds,
           Acquiring, Preparing, My, Mine, Local, Fits, Carries, Handoff, Acquisitions,
           Prepared, Ready, Reusable, Recoveries, Collections
  <2>4. Prepared(p)'
    BY <2>1, <2>2, <2>3 DEF Prepared, Handing, Handoff, Acquisitions
  <2>5. ASSUME NEW v \in Paths, v = ws[p] PROVE Ready(v)'
    BY <2>1, <2>2, <2>3, <2>5 DEF Ready, Reusable, IsWorktree
  <2> QED
    BY <2>4, <2>5 DEF Leaves
<1>5. ASSUME AddWorktree(p) PROVE Leaves(p)
  <2>1. /\ ws[p] \in Paths /\ Own(p) /\ Local(p) /\ Prepared(p) /\ Ready(ws[p])
    BY <1>5, MyRecord DEF AddWorktree, At, LInv, Own, FInv, TInv
  <2>2. /\ pc[p] = "create" /\ pc'[p] \in {"gitlock", "fail"}
        /\ UNCHANGED <<rec, locked, job, ws>>
        /\ tree'[ws[p]] = "detached"
    BY <1>5, <2>1 DEF AddWorktree, At, Goto, Become, Carry, git, own, IInv, Typed, TypeOK
  <2>3. rec[ws[p]].life = "preparing"
    BY <2>1, <2>2, ConstantsAssumption DEF Own, Fenced, Handing, Returning, Removing, Holds,
           Acquiring, Preparing, My, Mine, Local, Fits, Carries, Handoff, Acquisitions,
           Prepared, Ready, Reusable, Recoveries, Collections
  <2>4. Prepared(p)'
    BY <2>1, <2>2, <2>3 DEF Prepared, Handing, Handoff, Acquisitions
  <2>5. ASSUME NEW v \in Paths, v = ws[p] PROVE Ready(v)'
    BY <2>1, <2>2, <2>3, <2>5 DEF Ready, Reusable, IsWorktree
  <2> QED
    BY <2>4, <2>5 DEF Leaves
<1>6. ASSUME LockWorktree(p) PROVE Leaves(p)
  <2>1. /\ ws[p] \in Paths /\ Own(p) /\ Local(p) /\ Prepared(p) /\ Ready(ws[p])
    BY <1>6, MyRecord DEF LockWorktree, At, LInv, Own, FInv, TInv
  <2>2. /\ pc[p] = "gitlock" /\ pc'[p] \in {"prepare", "assign"}
        /\ UNCHANGED <<rec, tree, job, ws>>
        /\ (job[p] = "warm" <=> pc'[p] = "prepare") /\ ws[p] \in locked'
    BY <1>6, <2>1 DEF LockWorktree, At, Goto, Become, Carry, git, own, IInv, Typed, TypeOK
  <2>3. rec[ws[p]].life = "preparing"
    BY <2>1, <2>2, ConstantsAssumption DEF Own, Fenced, Handing, Returning, Removing, Holds,
           Acquiring, Preparing, My, Mine, Local, Fits, Carries, Handoff, Acquisitions,
           Prepared, Ready, Reusable, Recoveries, Collections
  <2>4. Prepared(p)'
    BY <2>1, <2>2, <2>3 DEF Prepared, Handing, Handoff, Acquisitions
  <2>5. ASSUME NEW v \in Paths, v = ws[p] PROVE Ready(v)'
    BY <2>1, <2>2, <2>3, <2>5 DEF Ready, Reusable, IsWorktree
  <2> QED
    BY <2>4, <2>5 DEF Leaves
<1>7. ASSUME AssignWorktree(p) PROVE Leaves(p)
  <2>1. /\ ws[p] \in Paths /\ Own(p) /\ Local(p) /\ Prepared(p) /\ Ready(ws[p])
    BY <1>7, MyRecord DEF AssignWorktree, At, LInv, Own, FInv, TInv
  <2>2. /\ pc[p] = "assign" /\ pc'[p] = "prepare" /\ UNCHANGED <<rec, locked, job, ws>>
        /\ tree[ws[p]] # "damaged" => tree'[ws[p]] = "attached"
    BY <1>7, <2>1 DEF AssignWorktree, At, Goto, Become, Carry, git, own, IInv, Typed, TypeOK
  <2>3. /\ job[p] # "warm" /\ tree[ws[p]] # "damaged" /\ ws[p] \in locked
        /\ rec[ws[p]].life \in {"preparing", "assigned"}
    BY <2>1, <2>2, ConstantsAssumption DEF Own, Fenced, Handing, Returning, Removing, Holds,
           Acquiring, Preparing, My, Mine, Local, Fits, Carries, Handoff, Acquisitions,
           Prepared, Ready, Reusable, Recoveries, Collections
  <2>4. Prepared(p)'
    BY <2>1, <2>2, <2>3 DEF Prepared, Handing, Handoff, Acquisitions
  <2>5. ASSUME NEW v \in Paths, v = ws[p] PROVE Ready(v)'
    BY <2>1, <2>2, <2>3, <2>5 DEF Ready, Reusable, IsWorktree
  <2> QED
    BY <2>4, <2>5 DEF Leaves
<1>8. ASSUME MarkAvailable(p) PROVE Leaves(p)
  <2>1. ws[p] \in Paths /\ My(p) = rec[ws[p]] /\ My(p) \in Records /\ Typed
    BY <1>8, MyRecord DEF MarkAvailable, At, IInv
  <2> DEFINE r == [My(p) EXCEPT !.life = "available", !.op = None]
  <2>3. r \in Records /\ r.life = "available"
    BY <2>1 DEF Records, Lives
  <2>4. Write(p, ws[p], r) \/ WriteLater(p, ws[p], r)
    BY <1>8 DEF MarkAvailable
  <2> HIDE DEF r
  <2>5. /\ rec'[ws[p]].life = r.life /\ rec'[ws[p]].op = r.op /\ rec'[ws[p]].asg = r.asg
        /\ rec'[ws[p]].failed = r.failed /\ \A v \in Paths \ {ws[p]} : rec'[v] = rec[v]
    BY <2>1, <2>3, <2>4, Written
  <2>6. /\ ws[p] \in Paths /\ Own(p) /\ Local(p) /\ Prepared(p) /\ Ready(ws[p])
    BY <1>8, MyRecord DEF MarkAvailable, At, LInv, Own, FInv, TInv
  <2>7. /\ pc'[p] = "leave" /\ UNCHANGED <<tree, locked, ws>> /\ pc[p] = "prepared"
        /\ job[p] = "warm"
    BY <1>8, <2>6 DEF MarkAvailable, At, Goto, Become, Carry, git, own, IInv, Typed, TypeOK
  <2>8. tree[ws[p]] = "detached" /\ ws[p] \in locked
    BY <2>1, <2>3, <2>5, <2>6, <2>7, ConstantsAssumption DEF Own, Fenced, Handing, Returning,
           Removing, Holds, Acquiring, Preparing, My, Mine, Local, Fits, Carries, Handoff,
           Acquisitions, Prepared, Ready, Reusable, Recoveries, Collections
  <2>9. Prepared(p)'
    BY <2>1, <2>3, <2>5, <2>6, <2>7, <2>8 DEF Prepared, Handing, Handoff, Acquisitions
  <2>10. ASSUME NEW v \in Paths, v = ws[p] PROVE Ready(v)'
    BY <2>1, <2>3, <2>5, <2>6, <2>7, <2>8, <2>10 DEF Ready, Reusable, IsWorktree
  <2> QED
    BY <2>9, <2>10 DEF Leaves
<1>9. ASSUME MarkAssigned(p) PROVE Leaves(p)
  <2>1. ws[p] \in Paths /\ My(p) = rec[ws[p]] /\ My(p) \in Records /\ Typed
    BY <1>9, MyRecord DEF MarkAssigned, At, IInv
  <2>2. PICK n \in Ids : Write(p, ws[p], Assigned(My(p), n))
    BY <1>9 DEF MarkAssigned
  <2> DEFINE r == Assigned(My(p), n)
  <2>3. r \in Records /\ r.life = "assigned" /\ r.op = n
    BY <2>1, <2>2 DEF Assigned, Records, Lives
  <2>4. Write(p, ws[p], r) \/ WriteLater(p, ws[p], r)
    BY <2>2
  <2> HIDE DEF r
  <2>5. /\ rec'[ws[p]].life = r.life /\ rec'[ws[p]].op = r.op /\ rec'[ws[p]].asg = r.asg
        /\ rec'[ws[p]].failed = r.failed /\ \A v \in Paths \ {ws[p]} : rec'[v] = rec[v]
    BY <2>1, <2>3, <2>4, Written
  <2>6. /\ ws[p] \in Paths /\ Own(p) /\ Local(p) /\ Prepared(p) /\ Ready(ws[p])
    BY <1>9, MyRecord DEF MarkAssigned, At, LInv, Own, FInv, TInv
  <2>7. /\ pc'[p] = "succeed" /\ UNCHANGED <<tree, locked, ws>> /\ job'[p] = "assigned"
        /\ pc[p] = "prepared" /\ job[p] = "fresh"
    BY <1>9, <2>6 DEF MarkAssigned, At, Goto, Become, Carry, git, own, IInv, Typed, TypeOK
  <2>8. n # None /\ tree[ws[p]] = "attached" /\ ws[p] \in locked
    BY <2>1, <2>3, <2>5, <2>6, <2>7, ConstantsAssumption DEF Own, Fenced, Handing, Returning,
           Removing, Holds, Acquiring, Preparing, My, Mine, Local, Fits, Carries, Handoff,
           Acquisitions, Prepared, Ready, Reusable, Recoveries, Collections
  <2>9. Prepared(p)'
    BY <2>1, <2>3, <2>5, <2>6, <2>7, <2>8 DEF Prepared, Handing, Handoff, Acquisitions
  <2>10. ASSUME NEW v \in Paths, v = ws[p] PROVE Ready(v)'
    BY <2>1, <2>3, <2>5, <2>6, <2>7, <2>8, <2>10 DEF Ready, Reusable, IsWorktree
  <2> QED
    BY <2>9, <2>10 DEF Leaves
<1>10. ASSUME VerifyPrepared(p) PROVE Leaves(p)
  <2>1. /\ ws[p] \in Paths /\ Own(p) /\ Local(p) /\ Prepared(p) /\ Ready(ws[p])
    BY <1>10, MyRecord DEF VerifyPrepared, At, LInv, Own, FInv, TInv
  <2>2. /\ pc[p] = "prepared" /\ pc'[p] = "succeed" /\ UNCHANGED <<rec, tree, locked, job, ws>>
    BY <1>10, <2>1 DEF VerifyPrepared, At, Goto, Become, Carry, git, own, IInv, Typed, TypeOK
  <2>3. Prepared(p)'
    BY <2>1, <2>2 DEF Prepared, Handing, Handoff, Acquisitions
  <2>4. ASSUME NEW v \in Paths, v = ws[p] PROVE Ready(v)'
    BY <2>1, <2>2, <2>4 DEF Ready, Reusable, IsWorktree
  <2> QED
    BY <2>3, <2>4 DEF Leaves
<1>11. ASSUME RecordAcquisitionSuccess(p) PROVE Leaves(p)
  <2>1. ws[p] \in Paths /\ My(p) = rec[ws[p]] /\ My(p) \in Records /\ Typed
    BY <1>11, MyRecord DEF RecordAcquisitionSuccess, At, IInv
  <2> DEFINE r == [My(p) EXCEPT !.op = None, !.expired = FALSE]
  <2>3. r \in Records /\ r.life = "assigned"
    BY <1>11, <2>1 DEF Records, Lives, Acquiring, RecordAcquisitionSuccess
  <2>4. Write(p, ws[p], r) \/ WriteLater(p, ws[p], r)
    BY <1>11 DEF RecordAcquisitionSuccess
  <2> HIDE DEF r
  <2>5. /\ rec'[ws[p]].life = r.life /\ rec'[ws[p]].op = r.op /\ rec'[ws[p]].asg = r.asg
        /\ rec'[ws[p]].failed = r.failed /\ \A v \in Paths \ {ws[p]} : rec'[v] = rec[v]
    BY <2>1, <2>3, <2>4, Written
  <2>6. /\ ws[p] \in Paths /\ Own(p) /\ Local(p) /\ Prepared(p) /\ Ready(ws[p])
    BY <1>11, MyRecord DEF RecordAcquisitionSuccess, At, LInv, Own, FInv, TInv
  <2>7. /\ pc'[p] = "leave" /\ UNCHANGED <<tree, locked, ws>> /\ pc[p] = "succeed"
    BY <1>11, <2>6 DEF RecordAcquisitionSuccess, At, Goto, Become, Carry, git, own, IInv, Typed,
           TypeOK
  <2>8. tree[ws[p]] = "attached" /\ ws[p] \in locked
    BY <2>1, <2>3, <2>5, <2>6, <2>7, ConstantsAssumption DEF Own, Fenced, Handing, Returning,
           Removing, Holds, Acquiring, Preparing, My, Mine, Local, Fits, Carries, Handoff,
           Acquisitions, Prepared, Ready, Reusable, Recoveries, Collections
  <2>9. Prepared(p)'
    BY <2>1, <2>3, <2>5, <2>6, <2>7, <2>8 DEF Prepared, Handing, Handoff, Acquisitions
  <2>10. ASSUME NEW v \in Paths, v = ws[p] PROVE Ready(v)'
    BY <2>1, <2>3, <2>5, <2>6, <2>7, <2>8, <2>10 DEF Ready, Reusable, IsWorktree
  <2> QED
    BY <2>9, <2>10 DEF Leaves
<1>12. ASSUME Cleanup(p) PROVE Leaves(p)
  <2>1. /\ ws[p] \in Paths /\ Own(p) /\ Local(p) /\ Prepared(p) /\ Ready(ws[p])
    BY <1>12, MyRecord DEF Cleanup, At, LInv, Own, FInv, TInv
  <2>2. /\ pc[p] = "cleanup" /\ pc'[p] = "retain" /\ UNCHANGED <<rec, locked, job, ws>>
        /\ tree'[ws[p]] \in {tree[ws[p]], "detached"}
    BY <1>12, <2>1 DEF Cleanup, At, Goto, Become, Carry, git, own, IInv, Typed, TypeOK,
           ReturnWorktree
  <2>3. /\ rec[ws[p]].life \in {"preparing", "assigned"}
        /\ rec[ws[p]].life = "assigned" => rec[ws[p]].op # None
    BY <2>1, <2>2, ConstantsAssumption DEF Own, Fenced, Handing, Returning, Removing, Holds,
           Acquiring, Preparing, My, Mine, Local, Fits, Carries, Handoff, Acquisitions,
           Prepared, Ready, Reusable, Recoveries, Collections
  <2>4. Prepared(p)'
    BY <2>1, <2>2, <2>3 DEF Prepared, Handing, Handoff, Acquisitions
  <2>5. ASSUME NEW v \in Paths, v = ws[p] PROVE Ready(v)'
    BY <2>1, <2>2, <2>3, <2>5 DEF Ready, Reusable, IsWorktree
  <2> QED
    BY <2>4, <2>5 DEF Leaves
<1>13. ASSUME Retain(p) PROVE Leaves(p)
  <2>1. ws[p] \in Paths /\ My(p) = rec[ws[p]]
    BY <1>13, MyRecord DEF Retain, At
  <2>2. rec'[ws[p]].life \in {"failed", rec[ws[p]].life} /\ rec'[ws[p]].failed
    BY <1>13, RetainWrites
  <2>3. /\ Own(p) /\ Local(p) /\ Prepared(p) /\ Ready(ws[p])
    BY <1>13, <2>1 DEF LInv, FInv, TInv
  <2>4. /\ pc'[p] = "leave" /\ UNCHANGED <<tree, locked, ws>> /\ pc[p] = "retain"
    BY <1>13, <2>1 DEF Retain, At, Goto, git, own, IInv, Typed, TypeOK
  <2>5. rec[ws[p]].life \in {"preparing", "assigned"}
    BY <2>1, <2>3, <2>4 DEF Own, Fenced, Handing, Holds, Acquiring, Preparing, Local, Fits,
           Handoff
  <2>6. Prepared(p)'
    BY <2>4 DEF Prepared, Handing, Handoff
  <2>7. ASSUME NEW v \in Paths, v = ws[p] PROVE Ready(v)'
    BY <2>2, <2>3, <2>4, <2>5, <2>7 DEF Ready, Reusable
  <2> QED
    BY <2>4, <2>6, <2>7 DEF Leaves
<1> QED
  BY <1>1, <1>2, <1>3, <1>4, <1>5, <1>6, <1>7, <1>8, <1>9, <1>10, <1>11, <1>12, <1>13 DEF
     Acquire

(* around a child,                                                         *)
LEMMA ExecuteTrees ==
  ASSUME Locking, ~CutShort, ~ListFails, IInv, IInv', FInv, LInv, TInv, NEW p \in Procs,
         Execute(p)
  PROVE  Leaves(p)
<1>1. ASSUME PrepareFails(p) \/ StartRun(p) \/ StartSync(p) \/ EnterFails(p) \/ RegisterFails(p)
            \/ UnregisterFails(p) \/ Unsafe(p)
      PROVE  Leaves(p)
  <2>1. rec' = rec /\ UNCHANGED <<tree, locked>> /\ pc'[p] \in Careless
    BY <1>1 DEF PrepareFails, StartRun, StartSync, EnterFails, RegisterFails, UnregisterFails,
           Unsafe, Abort, Stop, Careless, git, own, At, Goto, Become, Choose, Carry, IInv,
           Typed, TypeOK
  <2>2. Prepared(p)'
    BY <2>1 DEF Careless, Prepared, Handing, Handoff, Acquisitions
  <2>3. ASSUME NEW v \in Paths PROVE Ready(v)'
    BY <2>1 DEF TInv, Ready, Reusable
  <2> QED
    BY <2>2, <2>3 DEF Leaves
<1>2. ASSUME EnsureDependencies(p) PROVE Leaves(p)
  <2>1. /\ ws[p] \in Paths /\ Own(p) /\ Local(p) /\ Prepared(p) /\ Ready(ws[p])
    BY <1>2, MyRecord DEF EnsureDependencies, At, LInv, Own, FInv, TInv
  <2>2. /\ pc[p] = "prepare" /\ pc'[p] = "register" /\ UNCHANGED <<rec, tree, locked, job, ws>>
    BY <1>2, <2>1 DEF EnsureDependencies, At, Goto, Become, Carry, git, own, IInv, Typed, TypeOK,
           Spawn
  <2>3. Prepared(p)'
    BY <2>1, <2>2 DEF Prepared, Handing, Handoff, Acquisitions
  <2>4. ASSUME NEW v \in Paths, v = ws[p] PROVE Ready(v)'
    BY <2>1, <2>2, <2>4 DEF Ready, Reusable, IsWorktree
  <2> QED
    BY <2>3, <2>4 DEF Leaves
<1>3. ASSUME AlreadyAttached(p) PROVE Leaves(p)
  <2>1. /\ ws[p] \in Paths /\ Own(p) /\ Local(p) /\ Prepared(p) /\ Ready(ws[p])
    BY <1>3, MyRecord DEF AlreadyAttached, At, LInv, Own, FInv, TInv
  <2>2. /\ pc[p] = "prepare" /\ pc'[p] = "prepared" /\ UNCHANGED <<rec, tree, locked, job, ws>>
    BY <1>3, <2>1 DEF AlreadyAttached, At, Goto, Become, Carry, git, own, IInv, Typed, TypeOK
  <2>3. Prepared(p)'
    BY <2>1, <2>2 DEF Prepared, Handing, Handoff, Acquisitions
  <2>4. ASSUME NEW v \in Paths, v = ws[p] PROVE Ready(v)'
    BY <2>1, <2>2, <2>4 DEF Ready, Reusable, IsWorktree
  <2> QED
    BY <2>3, <2>4 DEF Leaves
<1>4. ASSUME Enter(p) PROVE Leaves(p)
  <2>1. /\ ws[p] \in Paths /\ Own(p) /\ Local(p) /\ Prepared(p) /\ Ready(ws[p])
    BY <1>4, MyRecord DEF Enter, At, LInv, Own, FInv, TInv
  <2>2. /\ pc'[p] = "register" /\ UNCHANGED <<rec, tree, locked, job, ws>> /\ pc[p] = "enter"
    BY <1>4, <2>1 DEF Enter, At, Goto, Become, Carry, git, own, IInv, Typed, TypeOK, Spawn
  <2>3. job[p] \notin Acquisitions
    BY <2>1, <2>2, ConstantsAssumption DEF Own, Fenced, Handing, Returning, Removing, Holds,
           Acquiring, Preparing, My, Mine, Local, Fits, Carries, Handoff, Acquisitions,
           Prepared, Ready, Reusable, Recoveries, Collections
  <2>4. Prepared(p)'
    BY <2>1, <2>2, <2>3 DEF Prepared, Handing, Handoff, Acquisitions
  <2>5. ASSUME NEW v \in Paths, v = ws[p] PROVE Ready(v)'
    BY <2>1, <2>2, <2>3, <2>5 DEF Ready, Reusable, IsWorktree
  <2> QED
    BY <2>4, <2>5 DEF Leaves
<1>5. ASSUME Register(p) PROVE Leaves(p)
  <2>1. /\ ws[p] \in Paths /\ My(p) = rec[ws[p]] /\ \A v \in Paths \ {ws[p]} : rec'[v] = rec[v]
        /\ rec'[ws[p]].life = rec[ws[p]].life /\ rec'[ws[p]].op = rec[ws[p]].op
        /\ rec'[ws[p]].asg = rec[ws[p]].asg /\ rec'[ws[p]].failed = rec[ws[p]].failed
        /\ rec'[ws[p]].procs = rec[ws[p]].procs \cup {p}
    BY <1>5, RegisterWrites
  <2>2. /\ pc[p] = "register" /\ pc'[p] = "wait" /\ UNCHANGED <<tree, locked, job, ws>>
    BY <1>5 DEF Register, At, Goto, Become, Carry, git, own, IInv, Typed, TypeOK
  <2>3. Prepared(p)'
    BY <2>2 DEF TInv, Prepared, Handing, Handoff, Acquisitions
  <2>4. ASSUME NEW v \in Paths, v = ws[p] PROVE Ready(v)'
    BY <2>1, <2>2, <2>4 DEF TInv, Ready, Reusable
  <2> QED
    BY <2>3, <2>4 DEF Leaves
<1>6. ASSUME Untracked(p) PROVE Leaves(p)
  <2>1. /\ ws[p] \in Paths /\ Own(p) /\ Local(p) /\ Prepared(p) /\ Ready(ws[p])
    BY <1>6, MyRecord DEF Untracked, At, LInv, Own, FInv, TInv
  <2>2. /\ pc[p] = "register" /\ pc'[p] = "wait" /\ UNCHANGED <<rec, tree, locked, job, ws>>
    BY <1>6, <2>1 DEF Untracked, At, Goto, Become, Carry, git, own, IInv, Typed, TypeOK
  <2>3. Prepared(p)'
    BY <2>1, <2>2 DEF Prepared, Handing, Handoff, Acquisitions
  <2>4. ASSUME NEW v \in Paths, v = ws[p] PROVE Ready(v)'
    BY <2>1, <2>2, <2>4 DEF Ready, Reusable, IsWorktree
  <2> QED
    BY <2>3, <2>4 DEF Leaves
<1>7. ASSUME Unregister(p) PROVE Leaves(p)
  <2>1. /\ ws[p] \in Paths /\ My(p) = rec[ws[p]] /\ \A v \in Paths \ {ws[p]} : rec'[v] = rec[v]
        /\ rec'[ws[p]].life = rec[ws[p]].life /\ rec'[ws[p]].op = rec[ws[p]].op
        /\ rec'[ws[p]].asg = rec[ws[p]].asg /\ rec'[ws[p]].failed = rec[ws[p]].failed
        /\ rec'[ws[p]].procs = rec[ws[p]].procs \ {p}
    BY <1>7, UnregisterWrites
  <2>2. /\ pc[p] = "wait" /\ pc'[p] \in {"prepared", "fail", "leave"}
        /\ UNCHANGED <<tree, locked, job, ws>>
    BY <1>7 DEF Unregister, At, Goto, Become, Carry, git, own, IInv, Typed, TypeOK, AfterInstall
  <2>3. Prepared(p)'
    BY <2>2 DEF TInv, Prepared, Handing, Handoff, Acquisitions
  <2>4. ASSUME NEW v \in Paths, v = ws[p] PROVE Ready(v)'
    BY <2>1, <2>2, <2>4 DEF TInv, Ready, Reusable
  <2> QED
    BY <2>3, <2>4 DEF Leaves
<1>8. ASSUME UntrackedExits(p) PROVE Leaves(p)
  <2>1. /\ ws[p] \in Paths /\ Own(p) /\ Local(p) /\ Prepared(p) /\ Ready(ws[p])
    BY <1>8, MyRecord DEF UntrackedExits, At, LInv, Own, FInv, TInv
  <2>2. /\ pc[p] = "wait" /\ pc'[p] \in {"prepared", "fail", "leave"}
        /\ UNCHANGED <<rec, tree, locked, job, ws>>
    BY <1>8, <2>1 DEF UntrackedExits, At, Goto, Become, Carry, git, own, IInv, Typed, TypeOK,
           AfterInstall
  <2>3. Prepared(p)'
    BY <2>1, <2>2 DEF Prepared, Handing, Handoff, Acquisitions
  <2>4. ASSUME NEW v \in Paths, v = ws[p] PROVE Ready(v)'
    BY <2>1, <2>2, <2>4 DEF Ready, Reusable, IsWorktree
  <2> QED
    BY <2>3, <2>4 DEF Leaves
<1> QED
  BY <1>1, <1>2, <1>3, <1>4, <1>5, <1>6, <1>7, <1>8 DEF Execute

(* in a return,                                                            *)
LEMMA ReleaseTrees ==
  ASSUME Locking, ~CutShort, ~ListFails, IInv, IInv', FInv, LInv, TInv, NEW p \in Procs,
         Release(p)
  PROVE  Leaves(p)
<1>1. ASSUME StartRelease(p) \/ ResumeReturn(p) \/ ReturnRefused(p) \/ CleanRaced(p) \/
            NotDrained(p) \/ CleanedUp(p) \/ FinishFails(p) \/ CancelFails(p)
      PROVE  Leaves(p)
  <2>1. rec' = rec /\ UNCHANGED <<tree, locked>> /\ pc'[p] \in Careless
    BY <1>1 DEF StartRelease, ResumeReturn, ReturnRefused, CleanRaced, NotDrained, CleanedUp,
           FinishFails, CancelFails, Stop, Careless, git, own, At, Goto, Become, Choose, Carry,
           IInv, Typed, TypeOK
  <2>2. Prepared(p)'
    BY <2>1 DEF Careless, Prepared, Handing, Handoff, Acquisitions
  <2>3. ASSUME NEW v \in Paths PROVE Ready(v)'
    BY <2>1 DEF TInv, Ready, Reusable
  <2> QED
    BY <2>2, <2>3 DEF Leaves
<1>2. ASSUME BeginWorkspaceReturn(p) PROVE Leaves(p)
  <2>1. ws[p] \in Paths /\ My(p) = rec[ws[p]] /\ My(p) \in Records /\ Typed
    BY <1>2, MyRecord DEF BeginWorkspaceReturn, At, IInv
  <2> DEFINE r == [My(p) EXCEPT !.life = "returning", !.failed = FALSE]
  <2>3. r \in Records /\ r.life = "returning" /\ My(p).life = "assigned"
    BY <1>2, <2>1 DEF BeginWorkspaceReturn, Records, Lives
  <2>4. Write(p, ws[p], r) \/ WriteLater(p, ws[p], r)
    BY <1>2 DEF BeginWorkspaceReturn
  <2> HIDE DEF r
  <2>5. /\ rec'[ws[p]].life = r.life /\ rec'[ws[p]].op = r.op /\ rec'[ws[p]].asg = r.asg
        /\ rec'[ws[p]].failed = r.failed /\ \A v \in Paths \ {ws[p]} : rec'[v] = rec[v]
    BY <2>1, <2>3, <2>4, Written
  <2>6. /\ ws[p] \in Paths /\ Own(p) /\ Local(p) /\ Prepared(p) /\ Ready(ws[p])
    BY <1>2, MyRecord DEF BeginWorkspaceReturn, At, LInv, Own, FInv, TInv
  <2>7. /\ pc'[p] = "clean" /\ UNCHANGED <<tree, locked, ws>>
    BY <1>2, <2>6 DEF BeginWorkspaceReturn, At, Goto, Become, Carry, git, own, IInv, Typed, TypeOK
  <2>8. Prepared(p)'
    BY <2>1, <2>3, <2>5, <2>6, <2>7 DEF Prepared, Handing, Handoff, Acquisitions
  <2>9. ASSUME NEW v \in Paths, v = ws[p] PROVE Ready(v)'
    BY <2>1, <2>3, <2>5, <2>6, <2>7, <2>9 DEF Ready, Reusable, IsWorktree
  <2> QED
    BY <2>8, <2>9 DEF Leaves
<1>3. ASSUME CleanProcess(p) PROVE Leaves(p)
  <2>1. ws[p] \in Paths /\ My(p) = rec[ws[p]] /\ My(p) \in Records /\ Typed
    BY <1>3, MyRecord DEF CleanProcess, At, IInv
  <2>2. PICK q \in todo[p] : Write(p, ws[p], [My(p) EXCEPT !.procs = @ \ {q}])
    BY <1>3 DEF CleanProcess
  <2> DEFINE r == [My(p) EXCEPT !.procs = @ \ {q}]
  <2>3. r \in Records /\ r.life = My(p).life /\ r.op = My(p).op /\ r.failed = My(p).failed
    BY <2>1, <2>2 DEF Records
  <2>4. Write(p, ws[p], r) \/ WriteLater(p, ws[p], r)
    BY <2>2
  <2> HIDE DEF r
  <2>5. /\ rec'[ws[p]].life = r.life /\ rec'[ws[p]].op = r.op /\ rec'[ws[p]].asg = r.asg
        /\ rec'[ws[p]].failed = r.failed /\ \A v \in Paths \ {ws[p]} : rec'[v] = rec[v]
    BY <2>1, <2>3, <2>4, Written
  <2>6. /\ pc'[p] = "clean" /\ UNCHANGED <<tree, locked>>
    BY <1>3 DEF CleanProcess, At, Goto, Become, Carry, git, own, IInv, Typed, TypeOK
  <2>7. Prepared(p)'
    BY <2>6 DEF Prepared, Handing, Handoff, Acquisitions
  <2>8. ASSUME NEW v \in Paths, v = ws[p] PROVE Ready(v)'
    BY <2>1, <2>3, <2>5, <2>6, <2>8 DEF TInv, Ready, Reusable
  <2> QED
    BY <2>7, <2>8 DEF Leaves
<1>4. ASSUME Reset(p) PROVE Leaves(p)
  <2>1. /\ ws[p] \in Paths /\ Own(p) /\ Local(p) /\ Prepared(p) /\ Ready(ws[p])
    BY <1>4, MyRecord DEF Reset, At, LInv, Own, FInv, TInv
  <2>2. /\ pc[p] = "reset" /\ pc'[p] = "finish" /\ UNCHANGED <<rec, locked, job, ws>>
        /\ tree'[ws[p]] = "detached"
    BY <1>4, <2>1 DEF Reset, At, Goto, Become, Carry, git, own, IInv, Typed, TypeOK
  <2>3. rec[ws[p]].life = "returning"
    BY <2>1, <2>2, ConstantsAssumption DEF Own, Fenced, Handing, Returning, Removing, Holds,
           Acquiring, Preparing, My, Mine, Local, Fits, Carries, Handoff, Acquisitions,
           Prepared, Ready, Reusable, Recoveries, Collections
  <2>4. Prepared(p)'
    BY <2>1, <2>2, <2>3 DEF Prepared, Handing, Handoff, Acquisitions
  <2>5. ASSUME NEW v \in Paths, v = ws[p] PROVE Ready(v)'
    BY <2>1, <2>2, <2>3, <2>5 DEF Ready, Reusable, IsWorktree
  <2> QED
    BY <2>4, <2>5 DEF Leaves
<1>5. ASSUME ResetFails(p) PROVE Leaves(p)
  <2>1. /\ ws[p] \in Paths /\ Own(p) /\ Local(p) /\ Prepared(p) /\ Ready(ws[p])
    BY <1>5, MyRecord DEF ResetFails, At, LInv, Own, FInv, TInv
  <2>2. /\ pc[p] = "reset" /\ pc'[p] = "cancelReturn" /\ UNCHANGED <<rec, tree, job, ws>>
        /\ locked \subseteq locked'
    BY <1>5, <2>1 DEF ResetFails, At, Goto, Become, Carry, git, own, IInv, Typed, TypeOK
  <2>3. rec[ws[p]].life = "returning"
    BY <2>1, <2>2, ConstantsAssumption DEF Own, Fenced, Handing, Returning, Removing, Holds,
           Acquiring, Preparing, My, Mine, Local, Fits, Carries, Handoff, Acquisitions,
           Prepared, Ready, Reusable, Recoveries, Collections
  <2>4. Prepared(p)'
    BY <2>1, <2>2, <2>3 DEF Prepared, Handing, Handoff, Acquisitions
  <2>5. ASSUME NEW v \in Paths, v = ws[p] PROVE Ready(v)'
    BY <2>1, <2>2, <2>3, <2>5 DEF Ready, Reusable, IsWorktree
  <2> QED
    BY <2>4, <2>5 DEF Leaves
<1>6. ASSUME FinishWorkspaceReturn(p) PROVE Leaves(p)
  <2>1. ws[p] \in Paths /\ My(p) = rec[ws[p]] /\ My(p) \in Records /\ Typed
    BY <1>6, MyRecord DEF FinishWorkspaceReturn, At, IInv
  <2> DEFINE r == [NoRecord EXCEPT !.life = "available",
                                   !.seen = IF job[p] = "release" THEN {} ELSE {p}]
  <2>3. r \in Records /\ r.life = "available"
    BY <2>1 DEF NoRecord, Records, Lives
  <2>4. Write(p, ws[p], r) \/ WriteLater(p, ws[p], r)
    BY <1>6 DEF FinishWorkspaceReturn
  <2> HIDE DEF r
  <2>5. /\ rec'[ws[p]].life = r.life /\ rec'[ws[p]].op = r.op /\ rec'[ws[p]].asg = r.asg
        /\ rec'[ws[p]].failed = r.failed /\ \A v \in Paths \ {ws[p]} : rec'[v] = rec[v]
    BY <2>1, <2>3, <2>4, Written
  <2>6. /\ ws[p] \in Paths /\ Own(p) /\ Local(p) /\ Prepared(p) /\ Ready(ws[p])
    BY <1>6, MyRecord DEF FinishWorkspaceReturn, At, LInv, Own, FInv, TInv
  <2>7. /\ pc'[p] \in {"leave", "fence"} /\ UNCHANGED <<tree, locked, ws>> /\ pc[p] = "finish"
    BY <1>6, <2>6 DEF FinishWorkspaceReturn, At, Goto, Become, Carry, git, own, IInv, Typed,
           TypeOK
  <2>8. My(p).life = "returning" /\ tree[ws[p]] = "detached" /\ ws[p] \in locked
    BY <2>1, <2>3, <2>5, <2>6, <2>7, ConstantsAssumption DEF Own, Fenced, Handing, Returning,
           Removing, Holds, Acquiring, Preparing, My, Mine, Local, Fits, Carries, Handoff,
           Acquisitions, Prepared, Ready, Reusable, Recoveries, Collections
  <2>9. Prepared(p)'
    BY <2>1, <2>3, <2>5, <2>6, <2>7, <2>8 DEF Prepared, Handing, Handoff, Acquisitions
  <2>10. ASSUME NEW v \in Paths, v = ws[p] PROVE Ready(v)'
    BY <2>1, <2>3, <2>5, <2>6, <2>7, <2>8, <2>10 DEF Ready, Reusable, IsWorktree
  <2> QED
    BY <2>9, <2>10 DEF Leaves
<1>7. ASSUME CancelWorkspaceReturn(p) PROVE Leaves(p)
  <2>1. ws[p] \in Paths /\ My(p) = rec[ws[p]] /\ My(p) \in Records /\ Typed
    BY <1>7, MyRecord DEF CancelWorkspaceReturn, At, IInv
  <2> DEFINE r == [My(p) EXCEPT !.life = "assigned", !.failed = TRUE]
  <2>3. r \in Records /\ r.life = "assigned" /\ r.failed
    BY <2>1 DEF Records, Lives
  <2>4. Write(p, ws[p], r) \/ WriteLater(p, ws[p], r)
    BY <1>7 DEF CancelWorkspaceReturn
  <2> HIDE DEF r
  <2>5. /\ rec'[ws[p]].life = r.life /\ rec'[ws[p]].op = r.op /\ rec'[ws[p]].asg = r.asg
        /\ rec'[ws[p]].failed = r.failed /\ \A v \in Paths \ {ws[p]} : rec'[v] = rec[v]
    BY <2>1, <2>3, <2>4, Written
  <2>6. /\ ws[p] \in Paths /\ Own(p) /\ Local(p) /\ Prepared(p) /\ Ready(ws[p])
    BY <1>7, MyRecord DEF CancelWorkspaceReturn, At, LInv, Own, FInv, TInv
  <2>7. /\ pc'[p] = "leave" /\ UNCHANGED <<tree, locked, ws>> /\ pc[p] = "cancelReturn"
    BY <1>7, <2>6 DEF CancelWorkspaceReturn, At, Goto, Become, Carry, git, own, IInv, Typed,
           TypeOK
  <2>8. My(p).life = "returning"
    BY <2>1, <2>3, <2>5, <2>6, <2>7, ConstantsAssumption DEF Own, Fenced, Handing, Returning,
           Removing, Holds, Acquiring, Preparing, My, Mine, Local, Fits, Carries, Handoff,
           Acquisitions, Prepared, Ready, Reusable, Recoveries, Collections
  <2>9. Prepared(p)'
    BY <2>1, <2>3, <2>5, <2>6, <2>7, <2>8 DEF Prepared, Handing, Handoff, Acquisitions
  <2>10. ASSUME NEW v \in Paths, v = ws[p] PROVE Ready(v)'
    BY <2>1, <2>3, <2>5, <2>6, <2>7, <2>8, <2>10 DEF Ready, Reusable, IsWorktree
  <2> QED
    BY <2>9, <2>10 DEF Leaves
<1> QED
  BY <1>1, <1>2, <1>3, <1>4, <1>5, <1>6, <1>7 DEF Release

(* and in a collection.                                                    *)
LEMMA GCTrees ==
  ASSUME Locking, ~CutShort, ~ListFails, IInv, IInv', FInv, LInv, TInv, NEW p \in Procs, GC(p)
  PROVE  Leaves(p)
<1>1. ASSUME CollectStale(p) \/ DrainFails(p) \/ Drained(p) \/ ResumeCollection(p) \/
            CollectionRefused(p) \/ NoWorktree(p) \/ RemoveFails(p) \/ RelockFails(p) \/
            CancelStale(p) \/ DeleteFails(p)
      PROVE  Leaves(p)
  <2>1. rec' = rec /\ UNCHANGED <<tree, locked>> /\ pc'[p] \in Careless
    BY <1>1 DEF CollectStale, DrainFails, Drained, ResumeCollection, CollectionRefused,
           NoWorktree, RemoveFails, RelockFails, CancelStale, DeleteFails, Stop, Careless, git,
           own, At, Goto, Become, Choose, Carry, IInv, Typed, TypeOK
  <2>2. Prepared(p)'
    BY <2>1 DEF Careless, Prepared, Handing, Handoff, Acquisitions
  <2>3. ASSUME NEW v \in Paths PROVE Ready(v)'
    BY <2>1 DEF TInv, Ready, Reusable
  <2> QED
    BY <2>2, <2>3 DEF Leaves
<1>2. ASSUME Collect(p) PROVE Leaves(p)
  <2>1. /\ ws[p] \in Paths /\ rec[ws[p]] \in Records
        /\ rec' = [rec EXCEPT ![ws[p]] = [rec[ws[p]] EXCEPT !.seen = @ \cup {p}]]
    BY <1>2, MyRecord DEF Collect, At, Observe, IInv, Typed, TypeOK
  <2>2. /\ rec'[ws[p]].life = rec[ws[p]].life /\ rec'[ws[p]].op = rec[ws[p]].op
        /\ rec'[ws[p]].failed = rec[ws[p]].failed
    BY <2>1 DEF IInv, Typed, TypeOK, Records
  <2>3. pc'[p] \in {"return", "fence", "drain"} /\ UNCHANGED <<tree, locked>>
    BY <1>2 DEF Collect, At, Goto, Become, Carry, git, own, IInv, Typed, TypeOK
  <2>4. Prepared(p)'
    BY <2>3 DEF Prepared, Handing, Handoff, Acquisitions
  <2>5. ASSUME NEW v \in Paths, v = ws[p] PROVE Ready(v)'
    BY <2>2, <2>3, <2>5 DEF TInv, Ready, Reusable
  <2> QED
    BY <2>4, <2>5 DEF Leaves
<1>3. ASSUME DrainProcess(p) PROVE Leaves(p)
  <2>1. ws[p] \in Paths /\ My(p) = rec[ws[p]] /\ My(p) \in Records /\ Typed
    BY <1>3, MyRecord DEF DrainProcess, At, IInv
  <2>2. PICK q \in todo[p] \cap My(p).procs : Write(p, ws[p], [My(p) EXCEPT !.procs = @ \ {q}])
    BY <1>3 DEF DrainProcess
  <2> DEFINE r == [My(p) EXCEPT !.procs = @ \ {q}]
  <2>3. r \in Records /\ r.life = My(p).life /\ r.op = My(p).op /\ r.failed = My(p).failed
    BY <2>1, <2>2 DEF Records
  <2>4. Write(p, ws[p], r) \/ WriteLater(p, ws[p], r)
    BY <2>2
  <2> HIDE DEF r
  <2>5. /\ rec'[ws[p]].life = r.life /\ rec'[ws[p]].op = r.op /\ rec'[ws[p]].asg = r.asg
        /\ rec'[ws[p]].failed = r.failed /\ \A v \in Paths \ {ws[p]} : rec'[v] = rec[v]
    BY <2>1, <2>3, <2>4, Written
  <2>6. /\ pc'[p] = "drain" /\ UNCHANGED <<tree, locked>>
    BY <1>3 DEF DrainProcess, At, Goto, Become, Carry, git, own, IInv, Typed, TypeOK
  <2>7. Prepared(p)'
    BY <2>6 DEF Prepared, Handing, Handoff, Acquisitions
  <2>8. ASSUME NEW v \in Paths, v = ws[p] PROVE Ready(v)'
    BY <2>1, <2>3, <2>5, <2>6, <2>8 DEF TInv, Ready, Reusable
  <2> QED
    BY <2>7, <2>8 DEF Leaves
<1>4. ASSUME BeginWorkspaceCollection(p) PROVE Leaves(p)
  <2>1. ws[p] \in Paths /\ My(p) = rec[ws[p]] /\ My(p) \in Records /\ Typed
    BY <1>4, MyRecord DEF BeginWorkspaceCollection, At, IInv
  <2>2. PICK n \in Ids : Write(p, ws[p], [My(p) EXCEPT !.op = n,
                                                       !.life = IF @ = "preparing" THEN "failed" ELSE @,
                                                       !.failed = @ \/ My(p).life = "preparing"])
    BY <1>4 DEF BeginWorkspaceCollection
  <2> DEFINE r == [My(p) EXCEPT !.op = n,
                                !.life = IF @ = "preparing" THEN "failed" ELSE @,
                                !.failed = @ \/ My(p).life = "preparing"]
  <2>3. /\ r \in Records /\ r.op = n /\ r.life \in {"available", "failed"}
        /\ r.life = "available" => My(p).life = "available"
    BY <1>4, <2>1, <2>2 DEF BeginWorkspaceCollection, Collectable, Records, Lives
  <2>4. Write(p, ws[p], r) \/ WriteLater(p, ws[p], r)
    BY <2>2
  <2> HIDE DEF r
  <2>5. /\ rec'[ws[p]].life = r.life /\ rec'[ws[p]].op = r.op /\ rec'[ws[p]].asg = r.asg
        /\ rec'[ws[p]].failed = r.failed /\ \A v \in Paths \ {ws[p]} : rec'[v] = rec[v]
    BY <2>1, <2>3, <2>4, Written
  <2>6. /\ ws[p] \in Paths /\ Own(p) /\ Local(p) /\ Prepared(p) /\ Ready(ws[p])
    BY <1>4, MyRecord DEF BeginWorkspaceCollection, At, LInv, Own, FInv, TInv
  <2>7. /\ pc'[p] = "unlock" /\ UNCHANGED <<tree, locked, ws>>
    BY <1>4, <2>6 DEF BeginWorkspaceCollection, At, Goto, Become, Carry, git, own, IInv, Typed,
           TypeOK
  <2>8. n # None
    BY <2>1, <2>3, <2>5, <2>6, <2>7, ConstantsAssumption DEF Own, Fenced, Handing, Returning,
           Removing, Holds, Acquiring, Preparing, My, Mine, Local, Fits, Carries, Handoff,
           Acquisitions, Prepared, Ready, Reusable, Recoveries, Collections
  <2>9. Prepared(p)'
    BY <2>1, <2>3, <2>5, <2>6, <2>7, <2>8 DEF Prepared, Handing, Handoff, Acquisitions
  <2>10. ASSUME NEW v \in Paths, v = ws[p] PROVE Ready(v)'
    BY <2>1, <2>3, <2>5, <2>6, <2>7, <2>8, <2>10 DEF Ready, Reusable, IsWorktree
  <2> QED
    BY <2>9, <2>10 DEF Leaves
<1>5. ASSUME UnlockWorktree(p) PROVE Leaves(p)
  <2>1. /\ ws[p] \in Paths /\ Own(p) /\ Local(p) /\ Prepared(p) /\ Ready(ws[p])
    BY <1>5, MyRecord DEF UnlockWorktree, At, LInv, Own, FInv, TInv
  <2>2. /\ pc[p] = "unlock" /\ pc'[p] \in {"remove", "relock"} /\ UNCHANGED <<rec, tree, job, ws>>
    BY <1>5, <2>1 DEF UnlockWorktree, At, Goto, Become, Carry, git, own, IInv, Typed, TypeOK
  <2>3. /\ rec[ws[p]].life \in {"available", "failed"}
        /\ rec[ws[p]].op # None
    BY <2>1, <2>2, ConstantsAssumption DEF Own, Fenced, Handing, Returning, Removing, Holds,
           Acquiring, Preparing, My, Mine, Local, Fits, Carries, Handoff, Acquisitions,
           Prepared, Ready, Reusable, Recoveries, Collections
  <2>4. Prepared(p)'
    BY <2>1, <2>2, <2>3 DEF Prepared, Handing, Handoff, Acquisitions
  <2>5. ASSUME NEW v \in Paths, v = ws[p] PROVE Ready(v)'
    BY <2>1, <2>2, <2>3, <2>5 DEF Ready, Reusable, IsWorktree
  <2> QED
    BY <2>4, <2>5 DEF Leaves
<1>6. ASSUME RemoveWorktree(p) PROVE Leaves(p)
  <2>1. /\ ws[p] \in Paths /\ Own(p) /\ Local(p) /\ Prepared(p) /\ Ready(ws[p])
    BY <1>6, MyRecord DEF RemoveWorktree, At, LInv, Own, FInv, TInv
  <2>2. /\ pc[p] = "remove" /\ pc'[p] \in {"forget", "relock"}
        /\ UNCHANGED <<rec, locked, job, ws>>
        /\ tree'[ws[p]] = "none"
    BY <1>6, <2>1 DEF RemoveWorktree, At, Goto, Become, Carry, git, own, IInv, Typed, TypeOK
  <2>3. /\ rec[ws[p]].life \in {"available", "failed"}
        /\ rec[ws[p]].op # None
    BY <2>1, <2>2, ConstantsAssumption DEF Own, Fenced, Handing, Returning, Removing, Holds,
           Acquiring, Preparing, My, Mine, Local, Fits, Carries, Handoff, Acquisitions,
           Prepared, Ready, Reusable, Recoveries, Collections
  <2>4. Prepared(p)'
    BY <2>1, <2>2, <2>3 DEF Prepared, Handing, Handoff, Acquisitions
  <2>5. ASSUME NEW v \in Paths, v = ws[p] PROVE Ready(v)'
    BY <2>1, <2>2, <2>3, <2>5 DEF Ready, Reusable, IsWorktree
  <2> QED
    BY <2>4, <2>5 DEF Leaves
<1>7. ASSUME Relock(p) PROVE Leaves(p)
  <2>1. /\ ws[p] \in Paths /\ Own(p) /\ Local(p) /\ Prepared(p) /\ Ready(ws[p])
    BY <1>7, MyRecord DEF Relock, At, LInv, Own, FInv, TInv
  <2>2. /\ pc[p] = "relock" /\ pc'[p] = "cancel" /\ UNCHANGED <<rec, tree, job, ws>>
        /\ tree[ws[p]] # "none" /\ ws[p] \in locked'
    BY <1>7, <2>1 DEF Relock, At, Goto, Become, Carry, git, own, IInv, Typed, TypeOK, IsWorktree
  <2>3. /\ rec[ws[p]].life \in {"available", "failed"}
        /\ rec[ws[p]].op # None
    BY <2>1, <2>2, ConstantsAssumption DEF Own, Fenced, Handing, Returning, Removing, Holds,
           Acquiring, Preparing, My, Mine, Local, Fits, Carries, Handoff, Acquisitions,
           Prepared, Ready, Reusable, Recoveries, Collections
  <2>4. Prepared(p)'
    BY <2>1, <2>2, <2>3 DEF Prepared, Handing, Handoff, Acquisitions
  <2>5. ASSUME NEW v \in Paths, v = ws[p] PROVE Ready(v)'
    BY <2>1, <2>2, <2>3, <2>5 DEF Ready, Reusable, IsWorktree
  <2> QED
    BY <2>4, <2>5 DEF Leaves
<1>8. ASSUME CancelWorkspaceCollection(p) PROVE Leaves(p)
  <2>1. ws[p] \in Paths /\ My(p) = rec[ws[p]] /\ My(p) \in Records /\ Typed
    BY <1>8, MyRecord DEF CancelWorkspaceCollection, At, IInv
  <2> DEFINE r == [My(p) EXCEPT !.op = None]
  <2>3. r \in Records /\ r.life = My(p).life
    BY <2>1 DEF Records, Lives
  <2>4. Write(p, ws[p], r) \/ WriteLater(p, ws[p], r)
    BY <1>8 DEF CancelWorkspaceCollection
  <2> HIDE DEF r
  <2>5. /\ rec'[ws[p]].life = r.life /\ rec'[ws[p]].op = r.op /\ rec'[ws[p]].asg = r.asg
        /\ rec'[ws[p]].failed = r.failed /\ \A v \in Paths \ {ws[p]} : rec'[v] = rec[v]
    BY <2>1, <2>3, <2>4, Written
  <2>6. /\ ws[p] \in Paths /\ Own(p) /\ Local(p) /\ Prepared(p) /\ Ready(ws[p])
    BY <1>8, MyRecord DEF CancelWorkspaceCollection, At, LInv, Own, FInv, TInv
  <2>7. /\ pc'[p] = "leave" /\ UNCHANGED <<tree, locked, ws>> /\ pc[p] = "cancel"
    BY <1>8, <2>6 DEF CancelWorkspaceCollection, At, Goto, Become, Carry, git, own, IInv, Typed,
           TypeOK
  <2>8. /\ My(p).life \in {"available", "failed"}
        /\ tree[ws[p]] # "none" /\ ws[p] \in locked
    BY <2>1, <2>3, <2>5, <2>6, <2>7, ConstantsAssumption DEF Own, Fenced, Handing, Returning,
           Removing, Holds, Acquiring, Preparing, My, Mine, Local, Fits, Carries, Handoff,
           Acquisitions, Prepared, Ready, Reusable, Recoveries, Collections
  <2>9. Prepared(p)'
    BY <2>1, <2>3, <2>5, <2>6, <2>7, <2>8 DEF Prepared, Handing, Handoff, Acquisitions
  <2>10. ASSUME NEW v \in Paths, v = ws[p] PROVE Ready(v)'
    BY <2>1, <2>3, <2>5, <2>6, <2>7, <2>8, <2>10 DEF Ready, Reusable, IsWorktree
  <2> QED
    BY <2>9, <2>10 DEF Leaves
<1>9. ASSUME DeleteWorkspaceRecord(p) PROVE Leaves(p)
  <2>1. /\ ws[p] \in Paths /\ Own(p) /\ Local(p) /\ Prepared(p) /\ Ready(ws[p])
    BY <1>9, MyRecord DEF DeleteWorkspaceRecord, At, LInv, Own, FInv, TInv
  <2>2. /\ pc'[p] = "leave" /\ UNCHANGED <<tree, locked, ws>> /\ rec'[ws[p]].life = "absent"
    BY <1>9, <2>1
       DEF DeleteWorkspaceRecord, NoRecord, At, Goto, Become, Carry, git, own, IInv, Typed,
           TypeOK
  <2>3. Prepared(p)'
    BY <2>1, <2>2 DEF Prepared, Handing, Handoff, Acquisitions
  <2>4. ASSUME NEW v \in Paths, v = ws[p] PROVE Ready(v)'
    BY <2>1, <2>2, <2>4 DEF Ready, Reusable, IsWorktree
  <2> QED
    BY <2>3, <2>4 DEF Leaves
<1>10. ASSUME NEW w \in Paths, NEW reason \in Collections \cup Recoveries, StartGC(p, w, reason)
      PROVE  Leaves(p)
  <2>1. rec[w] \in Records /\ rec' = [rec EXCEPT ![w] = [rec[w] EXCEPT !.seen = @ \cup {p}]]
    BY <1>10 DEF StartGC, Observe, IInv, Typed, TypeOK
  <2>2. \A v \in Paths : /\ rec'[v].life = rec[v].life /\ rec'[v].op = rec[v].op
                        /\ rec'[v].failed = rec[v].failed
    BY <2>1 DEF IInv, Typed, TypeOK, Records
  <2>3. pc'[p] = "collect" /\ UNCHANGED <<tree, locked>>
    BY <1>10 DEF StartGC, At, Goto, Become, Carry, git, own, IInv, Typed, TypeOK
  <2>4. Prepared(p)'
    BY <2>3 DEF Prepared, Handing, Handoff, Acquisitions
  <2>5. ASSUME NEW v \in Paths PROVE Ready(v)'
    BY <2>2, <2>3 DEF TInv, Ready, Reusable
  <2> QED
    BY <2>4, <2>5 DEF Leaves
<1> QED
  BY <1>1, <1>2, <1>3, <1>4, <1>5, <1>6, <1>7, <1>8, <1>9, <1>10 DEF GC

(* With removals that are not cut short and listings that do not fail, the *)
(* worktrees are as their records say.                                     *)
LEMMA StepTrees ==
  ASSUME Locking, ~CutShort, ~ListFails, IInv, IInv', FInv, LInv, TInv, NEW p \in Procs,
         Step(p) \/ Crash(p)
  PROVE  Leaves(p)
<1>1. CASE Acquire(p)
  BY <1>1, AcquireTrees
<1>2. CASE Execute(p)
  BY <1>2, ExecuteTrees
<1>3. CASE Release(p)
  BY <1>3, ReleaseTrees
<1>4. CASE GC(p)
  BY <1>4, GCTrees
<1>5. CASE Leave(p) \/ Crash(p)
  BY <1>5, EndLocks DEF Leave, Crash
<1> QED
  BY <1>1, <1>2, <1>3, <1>4, <1>5 DEF Step

(* and so are those of the other commands.                                 *)
LEMMA TreesInductive ==
  ASSUME Locking, ~CutShort, ~ListFails, IInv, IInv', FInv, FInv', LInv, TInv, NEW p \in Procs,
         Step(p) \/ Crash(p)
  PROVE  TInv'
<1>1. Alone(p) /\ Effects(p) /\ Leaves(p)
  BY StepLocks, StepTrees
<1>2. ASSUME NEW q \in Procs, q # p PROVE Prepared(q)'
  <2>1. UNCHANGED <<pc[q], job[q], ws[q]>> /\ Prepared(q) /\ Fits(q) /\ Fits(p)
    BY <1>1, <1>2 DEF Alone, TInv, FInv, Local
  <2>2. AtWork(q) => ws[q] \in Paths
    BY DEF AtWork, Handing, Returning, Removing, Handoff, IInv, Typed, Placed
  <2>3. pc[p] \in {"gitlock", "unlock", "relock", "reset"} => AtWork(p)
    BY <2>1 DEF Fits, AtWork, Handing, Returning, Removing, Handoff, Acquisitions
  <2>4. AtWork(q) => tree'[ws[q]] = tree[ws[q]] /\ (ws[q] \in locked' <=> ws[q] \in locked)
    BY <1>1, <1>2, <2>2, <2>3, WritersWork, WorkAlone DEF Effects
  <2> QED
    BY <2>1, <2>4
       DEF Prepared, Fits, AtWork, Handing, Returning, Removing, Handoff, Acquisitions
<1>3. ASSUME NEW w \in Paths PROVE Ready(w)'
  BY <1>1, <1>3 DEF TInv, Leaves, Effects, Stays, Ready, Reusable
<1> QED
  BY <1>1, <1>2, <1>3 DEF TInv, Leaves

(* In every run worktrees and records agree.                               *)
THEOREM TreesKeep ==
  ASSUME Locking, ~CutShort, ~ListFails
  PROVE  Spec => []TInv
<1>1. Init => TInv
  <2> SUFFICES ASSUME Init PROVE TInv
    OBVIOUS
  <2>1. \A p \in Procs : pc[p] = "idle"
    BY DEF Init
  <2>2. \A w \in Paths : tree[w] = "none" /\ rec[w].life = "absent"
    BY DEF Init, NoRecord
  <2> QED
    BY <2>1, <2>2 DEF TInv, Prepared, Handing, Handoff, Ready, Reusable
<1>2. IInv /\ IInv' /\ FInv /\ FInv' /\ LInv /\ TInv /\ [Next]_vars => TInv'
  <2> SUFFICES ASSUME IInv, IInv', FInv, FInv', LInv, TInv, [Next]_vars PROVE TInv'
    OBVIOUS
  <2>1. CASE \/ \E p \in Procs : ChildExit(p)
             \/ \E w \in Paths : Expire(w) \/ Renew(w)
             \/ UNCHANGED vars
    BY <2>1, OutsideLocks DEF TInv, Prepared, Handing, Ready, Reusable, Stays
  <2> QED
    BY <2>1, TreesInductive DEF Next
<1> QED
  BY <1>1, <1>2, Invariance, FencesHold, LocksKeep, PTL DEF Spec

(* What ruk acquire may take from the pool is a clean slot: a detached     *)
(* worktree, locked in Git, in which no recorded child lives,              *)
THEOREM PoolIsReady ==
  ASSUME Locking, ~CutShort, ~ListFails
  PROVE  Spec => []PooledTreesAreReady
<1>1. IInv /\ FInv /\ TInv => PooledTreesAreReady
  <2> SUFFICES ASSUME IInv, FInv, TInv, NEW w \in Paths, Reusable(w)
               PROVE  /\ tree[w] = "detached" /\ w \in locked
                      /\ \A q \in Procs : alive[q] = w => q \in loose
    BY DEF PooledTreesAreReady
  <2>1. rec[w].procs = {} /\ None \notin Paths
    BY ConstantsAssumption DEF IInv, PoolIsDrained, Reusable
  <2> QED
    BY <2>1 DEF TInv, Ready, FInv, NoChildForgotten
<1> QED
  BY <1>1, Invariance, FencesHold, TreesKeep, PTL

(* and what it has handed over stays on its branch until its release,      *)
(* whatever the other commands do meanwhile.                               *)
THEOREM AssignedTreesStay ==
  ASSUME Locking, ~CutShort, ~ListFails
  PROVE  Spec => []AssignmentsKeepTheirTree
<1>1. TInv => AssignmentsKeepTheirTree
  BY DEF TInv, Ready, AssignmentsKeepTheirTree
<1> QED
  BY <1>1, TreesKeep, PTL
=============================================================================
