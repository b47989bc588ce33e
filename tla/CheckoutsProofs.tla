--------------------------- MODULE CheckoutsProofs ---------------------------
(***************************************************************************)
(* Proofs about Checkouts for every set of processes, assignments and      *)
(* versions: its types, that a sync is fenced by its assignment, that a    *)
(* creation which fails removes its own worktree, that guarded work has no *)
(* assignment beside it, that a preparation succeeds with a whole          *)
(* projection of its inputs only, that a release lets in no change but one *)
(* made after its validation, and that the worktrees of ruk are tracked.   *)
(***************************************************************************)
EXTENDS Checkouts, TLAPS

(* The steps which a command takes while it holds the lock of the folder. *)
UnderLock ==
  {"reserve", "add", "record", "undo", "switch", "verify", "ready", "assign", "succeed",
   "cleanup", "unrecord", "gitremove", "deltree", "forget", "validate", "begin", "drain",
   "reset", "finish"} \cup Preparing

Steps == {"idle", "primary", "guarded", "lock"} \cup UnderLock

(* TypeOK, by what a step may disturb. *)
FolderTyped ==
  /\ kind \in Kinds /\ tree \in Procs \cup {None}
  /\ inputs \in Versions /\ node_modules \in Projections \cup {None}
  /\ registered \in BOOLEAN /\ meddled \in BOOLEAN /\ tainted \in BOOLEAN
  /\ late \in BOOLEAN /\ excused \in BOOLEAN

RecordTyped ==
  /\ record \in Records \cup {None}
  /\ ws \in [life : {"none", "preparing", "failed", "available", "assigned", "returning"},
             id : Ids \cup {None}, acquiring : BOOLEAN]
  /\ (ws.id # None) = (ws.life \in {"assigned", "returning"})
  /\ child \in BOOLEAN /\ (child => ws.id # None)

ProcsTyped ==
  /\ lock \in Procs \cup {None} /\ primary \in Procs \cup {None}
  /\ pc \in [Procs -> Steps]
  /\ job \in [Procs -> {"none", "create", "remove", "sync", "acquire", "release", "guarded"}]
  /\ id \in [Procs -> Ids \cup {None}] /\ seen \in [Procs -> Versions \cup {None}]
  /\ found \in [Procs -> Projections \cup {None}] /\ keep \in [Procs -> BOOLEAN]

(* Which command takes which step.                                         *)
Fits(p) ==
  /\ pc[p] = "primary" => job[p] \in {"acquire", "guarded"}
  /\ pc[p] = "guarded" => job[p] = "guarded"
  /\ pc[p] = "lock" => job[p] \in {"create", "remove", "sync", "acquire", "release"}
  /\ pc[p] \in {"add", "record"} => job[p] \in {"create", "acquire"}
  /\ pc[p] \in {"reserve", "switch", "assign", "succeed"} => job[p] = "acquire"
  /\ pc[p] \in {"undo", "cleanup", "unrecord"} => job[p] = "create"
  /\ pc[p] \in {"gitremove", "deltree", "forget"} => job[p] = "remove"
  /\ pc[p] = "verify" => job[p] = "sync"
  /\ pc[p] \in Preparing \cup {"ready"} => job[p] \in {"create", "sync", "acquire"}
  /\ pc[p] \in {"validate", "begin", "drain", "reset", "finish"} => job[p] = "release"
  /\ job[p] = "release" => id[p] # None

(* The locks which a command holds at its step.                            *)
Holds(p) ==
  /\ pc[p] \in UnderLock => lock = p
  /\ pc[p] = "guarded" => primary = p
  /\ job[p] = "acquire" /\ pc[p] # "primary" => primary = p

(* What a command has seen to under the lock, and relies on.               *)
Relies(p) ==
  /\ job[p] = "create" /\ pc[p] \in UnderLock \ {"add", "unrecord"} => tree = p
  /\ job[p] = "acquire" /\ pc[p] \in UnderLock \ {"reserve"}
       => ~child /\ ws.life \in {"preparing", "assigned"}
  /\ pc[p] = "succeed" => ws.life = "assigned"
  /\ pc[p] \in {"begin", "drain", "reset", "finish"} => ws.id # None
  /\ pc[p] \in {"reset", "finish"} => ~child
  /\ pc[p] \in {"measure", "publish"} => seen[p] # None
  /\ pc[p] = "publish" => found[p] # None
  /\ job[p] = "sync" /\ pc[p] \in Preparing /\ id[p] # None => Owns(id[p])

JobsFit == \A p \in Procs : Fits(p)
LocksHeld == \A p \in Procs : Holds(p)
FindingsHold == \A p \in Procs : Relies(p)

Typed == FolderTyped /\ RecordTyped /\ ProcsTyped

IInv == Typed /\ JobsFit /\ LocksHeld /\ FindingsHold /\ GuardedWorkIsAlone

-----------------------------------------------------------------------------
(* The three parts of Typed are TypeOK in the order the proofs use it.     *)
LEMMA TypesTogether == TypeOK <=> Typed
BY DEF TypeOK, Typed, FolderTyped, RecordTyped, ProcsTyped, Steps, UnderLock, Preparing, Installing

(* The lock of the folder has one holder.                                  *)
LEMMA Alone ==
  ASSUME LocksHeld, NEW p \in Procs, pc[p] \in UnderLock
  PROVE  \A q \in Procs : pc[q] \in UnderLock => q = p
BY DEF LocksHeld, Holds

(* A command that is over relies on nothing, and takes nothing from others. *)
LEMMA Left ==
  ASSUME CheckoutsAssumption, IInv, NEW p \in Procs, Leave(p)
  PROVE  /\ ProcsTyped' /\ JobsFit' /\ LocksHeld'
         /\ pc[p] \in UnderLock \/ UNCHANGED <<tree, ws, child>> => FindingsHold'
         /\ ws'.id \in {ws.id, None} => GuardedWorkIsAlone'
<1> USE DEF IInv, Typed, Leave
<1>1. ProcsTyped'
  BY DEF ProcsTyped, Steps, CheckoutsAssumption
<1>2. /\ pc'[p] = "idle" /\ job'[p] = "none"
      /\ \A q \in Procs \ {p} : pc'[q] = pc[q] /\ job'[q] = job[q]
                                  /\ id'[q] = id[q] /\ seen'[q] = seen[q] /\ found'[q] = found[q]
  BY DEF ProcsTyped
<1>3. JobsFit'
  <2>1. Fits(p)'
    BY <1>2 DEF Fits, Preparing, Installing
  <2>2. ASSUME NEW q \in Procs \ {p}
        PROVE  Fits(q)'
    BY <1>2 DEF JobsFit, Fits
  <2> QED
    BY <2>1, <2>2 DEF JobsFit
<1>4. LocksHeld'
  <2>1. Holds(p)'
    BY <1>2 DEF Holds, UnderLock, Preparing, Installing
  <2>2. ASSUME NEW q \in Procs \ {p}
        PROVE  Holds(q)'
    BY <1>2 DEF LocksHeld, Holds
  <2> QED
    BY <2>1, <2>2 DEF LocksHeld
<1>5. ASSUME pc[p] \in UnderLock \/ UNCHANGED <<tree, ws, child>>
      PROVE  FindingsHold'
  <2>1. Relies(p)'
    BY <1>2 DEF Relies, UnderLock, Preparing, Installing
  <2>2. ASSUME NEW q \in Procs \ {p}
        PROVE  Relies(q)'
    <3>1. CASE pc[p] \in UnderLock
      BY <1>2, <3>1, Alone DEF Relies, UnderLock, Preparing, Installing
    <3>2. CASE UNCHANGED <<tree, ws, child>>
      BY <1>2, <3>2 DEF FindingsHold, Relies, Owns
    <3> QED
      BY <1>5, <3>1, <3>2
  <2> QED
    BY <2>1, <2>2 DEF FindingsHold
<1>6. ws'.id \in {ws.id, None} => GuardedWorkIsAlone'
  BY <1>2 DEF GuardedWorkIsAlone
<1> QED
  BY <1>1, <1>3, <1>4, <1>5, <1>6

(* A command that goes on under the lock has to see to what it relies on.  *)
LEMMA GoesOn ==
  ASSUME CheckoutsAssumption, IInv, NEW p \in Procs, NEW step \in UnderLock, Goto(p, step),
         pc[p] \in UnderLock, Fits(p)', Relies(p)',
         \A q \in Procs \ {p} : id'[q] = id[q],
         ws'.id \in {ws.id, None} \/ job[p] = "acquire"
  PROVE  /\ pc' \in [Procs -> Steps] /\ JobsFit' /\ LocksHeld' /\ FindingsHold'
         /\ GuardedWorkIsAlone'
<1> USE DEF IInv, Typed, Goto, locks
<1>1. pc' \in [Procs -> Steps]
  BY DEF ProcsTyped, Steps
<1>2. /\ pc'[p] = step /\ job' = job /\ lock' = lock /\ primary' = primary
      /\ \A q \in Procs \ {p} : pc'[q] = pc[q]
  BY DEF ProcsTyped
<1>3. JobsFit'
  BY <1>2 DEF JobsFit, Fits
<1>4. LocksHeld'
  BY <1>2 DEF LocksHeld, Holds, UnderLock, Preparing, Installing
<1>5. FindingsHold'
  <2>1. ASSUME NEW q \in Procs \ {p}
        PROVE  Relies(q)'
    BY <1>2, Alone DEF Relies, UnderLock, Preparing, Installing
  <2> QED
    BY <2>1 DEF FindingsHold
<1>6. GuardedWorkIsAlone'
  BY <1>2 DEF GuardedWorkIsAlone, LocksHeld, Holds, UnderLock, Preparing, Installing
<1> QED
  BY <1>1, <1>3, <1>4, <1>5, <1>6

(* What is left to show of a step with which a command ends.               *)
LEMMA Ends ==
  ASSUME CheckoutsAssumption, IInv, NEW p \in Procs, Leave(p), FolderTyped', RecordTyped',
         pc[p] \in UnderLock \/ UNCHANGED <<tree, ws, child>>, ws'.id \in {ws.id, None}
  PROVE  IInv'
BY Left DEF IInv, Typed

(* What is left to show of a step with which a command goes on.            *)
LEMMA Proceeds ==
  ASSUME CheckoutsAssumption, IInv, NEW p \in Procs, NEW step \in UnderLock, Goto(p, step),
         UNCHANGED locals, FolderTyped', RecordTyped', pc[p] \in UnderLock, Fits(p)', Relies(p)',
         ws'.id \in {ws.id, None} \/ job[p] = "acquire"
  PROVE  IInv'
<1>1. \A q \in Procs \ {p} : id'[q] = id[q]
  BY DEF locals
<1>2. pc' \in [Procs -> Steps] /\ JobsFit' /\ LocksHeld' /\ FindingsHold' /\ GuardedWorkIsAlone'
  BY <1>1, GoesOn
<1>3. ProcsTyped'
  BY <1>2 DEF IInv, Typed, ProcsTyped, Goto, locals, locks
<1> QED
  BY <1>2, <1>3 DEF IInv, Typed

(* A hand-off that fails ends its acquisition, and leaves no child.        *)
LEMMA HandoffFailsKeeps ==
  ASSUME CheckoutsAssumption, IInv, NEW p \in Procs, HandoffFails(p), job[p] = "acquire",
         pc[p] \in UnderLock \ {"reserve"}, registered' \in BOOLEAN
  PROVE  IInv'
<1>1. ~child /\ Leave(p)
  BY DEF IInv, FindingsHold, Relies, HandoffFails
<1>2. FolderTyped'
  BY <1>1 DEF IInv, Typed, FolderTyped, HandoffFails, Leave, files, history
<1>3. RecordTyped' /\ ws'.id \in {ws.id, None}
  <2> USE DEF IInv, Typed, RecordTyped, HandoffFails, Become
  <2>1. CASE ws' = [life |-> "failed", id |-> None, acquiring |-> FALSE]
    BY <1>1, <2>1
  <2>2. CASE ws' = [life |-> "available", id |-> None, acquiring |-> FALSE]
    BY <1>1, <2>2
  <2>3. CASE ws.life = "assigned" /\ ws' = [life |-> "assigned", id |-> ws.id, acquiring |-> FALSE]
    BY <1>1, <2>3
  <2> QED
    BY <2>1, <2>2, <2>3
<1> QED
  BY <1>1, <1>2, <1>3, Ends

-----------------------------------------------------------------------------
(* The beginnings of the commands, and the waits for their locks.          *)
LEMMA CommandsKeep ==
  ASSUME CheckoutsAssumption, IInv, NEW p \in Procs,
         CreateCommand(p) \/ RemoveCommand(p) \/ SyncCommand(p) \/ AcquireCommand(p) \/
         ReleaseCommand(p) \/ GuardedCommand(p) \/ PrimaryFence(p) \/ GuardedWorkEnds(p) \/
         WorkspaceLock(p)
  PROVE  IInv'
<1>1. ASSUME CreateCommand(p) \/ RemoveCommand(p) \/ SyncCommand(p) \/ AcquireCommand(p) \/
             ReleaseCommand(p) \/ GuardedCommand(p) \/ GuardedWorkEnds(p) \/
             WorkspaceLock(p)
      PROVE  IInv'
  <2> USE CheckoutsAssumption
         DEF IInv, Typed, FolderTyped, RecordTyped, ProcsTyped, JobsFit, LocksHeld,
             FindingsHold, GuardedWorkIsAlone, Fits, Holds, Relies, UnderLock, Steps,
             Preparing, Installing, Start, Owns, files, state, locks, locals, history
  <2>1. CASE CreateCommand(p)
    BY <2>1 DEF CreateCommand
  <2>2. CASE RemoveCommand(p)
    BY <2>2 DEF RemoveCommand
  <2>3. CASE SyncCommand(p)
    BY <2>3 DEF SyncCommand
  <2>4. CASE AcquireCommand(p)
    BY <2>4 DEF AcquireCommand
  <2>5. CASE ReleaseCommand(p)
    BY <2>5 DEF ReleaseCommand
  <2>6. CASE GuardedCommand(p)
    BY <2>6 DEF GuardedCommand
  <2>7. CASE GuardedWorkEnds(p)
    BY <2>7 DEF GuardedWorkEnds, Leave
  <2>8. CASE WorkspaceLock(p)
    BY <2>8 DEF WorkspaceLock, FirstStep
  <2> QED
    BY <1>1, <2>1, <2>2, <2>3, <2>4, <2>5, <2>6, <2>7, <2>8
<1>2. CASE PrimaryFence(p)
  <2> USE <1>2 DEF PrimaryFence
  <2>1. FolderTyped' /\ RecordTyped' /\ UNCHANGED <<tree, ws, child>>
    BY DEF IInv, Typed, FolderTyped, RecordTyped, Leave, files, state, history
  <2>2. CASE Leave(p)
    BY <2>1, <2>2, Ends
  <2>3. CASE ~Leave(p)
    <3>1. ProcsTyped'
      BY <2>3 DEF IInv, Typed, ProcsTyped, Steps, locals
    <3>2. /\ pc'[p] = IF job[p] = "guarded" THEN "guarded" ELSE "lock"
          /\ \A q \in Procs \ {p} : pc'[q] = pc[q]
          /\ job[p] = "guarded" => ws.id = None
          /\ UNCHANGED <<id, seen, found, job, lock>> /\ primary = None /\ primary' = p
      BY <2>3 DEF IInv, Typed, ProcsTyped, locals
    <3>3. JobsFit'
      BY <3>2 DEF IInv, JobsFit, Fits, Preparing, Installing
    <3>4. LocksHeld'
      BY <3>2, CheckoutsAssumption DEF IInv, LocksHeld, Holds, UnderLock, Preparing, Installing
    <3>5. FindingsHold'
      BY <2>1, <3>2 DEF IInv, FindingsHold, Relies, Owns, UnderLock, Preparing, Installing
    <3>6. GuardedWorkIsAlone'
      BY <2>1, <3>2 DEF IInv, GuardedWorkIsAlone
    <3> QED
      BY <2>1, <3>1, <3>3, <3>4, <3>5, <3>6 DEF IInv, Typed
  <2> QED
    BY <2>2, <2>3
<1> QED
  BY <1>1, <1>2

(* The steps on the worktree and on its entry in the registry.             *)
LEMMA WorktreesKeep ==
  ASSUME CheckoutsAssumption, IInv, NEW p \in Procs,
         AddWorktree(p) \/ AddWorktreeFails(p) \/ RecordNew(p) \/ AssignWorktree(p) \/
         RecordWorktreeFails(p) \/ CleanUp(p) \/ CleanUpFails(p) \/ RemoveWorktree(p) \/
         RemoveWorktreeFails(p) \/ DeleteTree(p) \/ ForgetWorktree(p) \/
         ForgettingFails(p)
  PROVE  IInv'
<1>1. ASSUME AddWorktree(p) \/ RecordNew(p) \/ AssignWorktree(p) \/ CleanUpFails(p) \/
             RemoveWorktreeFails(p) \/ DeleteTree(p) \/ ForgettingFails(p)
      PROVE  IInv'
  <2> USE CheckoutsAssumption
         DEF IInv, Typed, FolderTyped, RecordTyped, ProcsTyped, JobsFit, LocksHeld,
             FindingsHold, GuardedWorkIsAlone, Fits, Holds, Relies, UnderLock, Steps,
             Preparing, Installing, Goto, Leave, files, state, locks, locals, history
  <2>1. CASE AddWorktree(p)
    BY <2>1 DEF AddWorktree
  <2>2. CASE RecordNew(p)
    BY <2>2 DEF RecordNew, RecordWorktree
  <2>3. CASE AssignWorktree(p)
    BY <2>3 DEF AssignWorktree, RecordWorktree
  <2>4. CASE CleanUpFails(p)
    BY <2>4 DEF CleanUpFails
  <2>5. CASE RemoveWorktreeFails(p)
    BY <2>5 DEF RemoveWorktreeFails
  <2>6. CASE DeleteTree(p)
    BY <2>6 DEF DeleteTree
  <2>7. CASE ForgettingFails(p)
    BY <2>7 DEF ForgettingFails
  <2> QED
    BY <1>1, <2>1, <2>2, <2>3, <2>4, <2>5, <2>6, <2>7
<1>2. CASE AddWorktreeFails(p)
  <2> USE <1>2 DEF AddWorktreeFails
  <2>1. CASE job[p] = "create"
    <3>1. FolderTyped' /\ RecordTyped' /\ Leave(p) /\ UNCHANGED <<tree, ws, child>>
      BY <2>1 DEF IInv, Typed, FolderTyped, RecordTyped, Leave, files, state, history
    <3> QED
      BY <3>1, Ends
  <2>2. CASE job[p] = "acquire"
    BY <2>2, HandoffFailsKeeps DEF IInv, Typed, FolderTyped, UnderLock
  <2> QED
    BY <2>1, <2>2
<1>3. CASE RecordWorktreeFails(p)
  <2> USE <1>3 DEF RecordWorktreeFails
  <2>1. registered' \in BOOLEAN /\ pc[p] \in UnderLock \ {"reserve"}
    BY DEF IInv, Typed, FolderTyped, MaybeRegistered, UnderLock
  <2>2. CASE job[p] = "create"
    <3>1. /\ FolderTyped' /\ RecordTyped' /\ UNCHANGED <<tree, ws, child, locals>>
          /\ Goto(p, "undo") /\ "undo" \in UnderLock
      BY <2>1, <2>2 DEF IInv, Typed, FolderTyped, RecordTyped, Goto, files, state, history,
                              UnderLock
    <3>2. pc'[p] = "undo" /\ job'[p] = "create" /\ tree' = p
      BY <2>1, <2>2, <3>1 DEF IInv, Typed, ProcsTyped, FindingsHold, Relies, Goto, UnderLock
    <3>3. Fits(p)' /\ Relies(p)'
      BY <3>2 DEF Fits, Relies, Preparing, Installing
    <3> QED
      BY <2>1, <3>1, <3>3, Proceeds
  <2>3. CASE job[p] = "acquire"
    BY <2>1, <2>3, HandoffFailsKeeps
  <2> QED
    BY <2>2, <2>3
<1>4. CASE CleanUp(p)
  <2> USE <1>4 DEF CleanUp
  <2>1. /\ FolderTyped' /\ RecordTyped' /\ UNCHANGED <<ws, child>>
        /\ pc[p] \in UnderLock /\ job[p] = "create"
    <3>1. kind' = kind
      BY DEF Goto, Leave
    <3>2. FolderTyped'
      BY <3>1 DEF IInv, Typed, FolderTyped
    <3>3. RecordTyped' /\ UNCHANGED <<ws, child>>
      BY DEF IInv, Typed, RecordTyped, state
    <3>4. pc[p] \in UnderLock /\ job[p] = "create"
      BY DEF IInv, UnderLock, JobsFit, Fits
    <3> QED
      BY <3>2, <3>3, <3>4
  <2>2. CASE Leave(p)
    BY <2>1, <2>2, Ends
  <2>3. CASE Goto(p, "unrecord") /\ UNCHANGED locals
    <3>1. pc'[p] = "unrecord" /\ job'[p] = "create" /\ "unrecord" \in UnderLock
      BY <2>1, <2>3 DEF IInv, Typed, ProcsTyped, Goto, UnderLock
    <3>2. Fits(p)' /\ Relies(p)'
      BY <3>1 DEF Fits, Relies, Preparing, Installing
    <3> QED
      BY <2>1, <2>3, <3>1, <3>2, Proceeds
  <2> QED
    BY <2>2, <2>3
<1>5. CASE ForgetWorktree(p)
  <2> USE <1>5 DEF ForgetWorktree
  <2>1. Leave(p) /\ UNCHANGED <<tree, ws, child, record>>
    BY DEF state
  <2>2. FolderTyped'
    BY DEF IInv, Typed, FolderTyped, Leave, files, history
  <2>3. RecordTyped'
    BY <2>1 DEF IInv, Typed, RecordTyped
  <2> QED
    BY <2>1, <2>2, <2>3, Ends
<1>6. CASE RemoveWorktree(p)
  <2> USE <1>6 DEF RemoveWorktree
  <2>1. Goto(p, "deltree") /\ "deltree" \in UnderLock /\ UNCHANGED locals /\ kind' = kind
    BY DEF Goto, UnderLock
  <2>2. FolderTyped'
    BY <2>1 DEF IInv, Typed, FolderTyped
  <2>3. RecordTyped' /\ ws' = ws
    BY DEF IInv, Typed, RecordTyped, state
  <2>4. pc[p] \in UnderLock /\ pc'[p] = "deltree" /\ job'[p] = "remove"
    BY DEF IInv, Typed, ProcsTyped, JobsFit, Fits, Goto, UnderLock
  <2>5. Fits(p)' /\ Relies(p)'
    BY <2>4 DEF Fits, Relies, Preparing, Installing
  <2> QED
    BY <2>1, <2>2, <2>3, <2>4, <2>5, Proceeds
<1> QED
  BY <1>1, <1>2, <1>3, <1>4, <1>5, <1>6

(* The steps of EnsureDependencies.                                        *)
LEMMA EnsuringKeep ==
  ASSUME CheckoutsAssumption, IInv, NEW p \in Procs,
         VerifyAssignedSync(p) \/ DependencyFingerprint(p) \/ Check(p) \/
         RemoveProjections(p) \/ Prepare(p) \/ InstallerEnds(p) \/ Rescan(p) \/
         ProjectionFingerprint(p) \/ Publish(p) \/ EnsureFails(p) \/ Prepared(p)
  PROVE  IInv'
<1>1. ASSUME DependencyFingerprint(p) \/ Check(p) \/ RemoveProjections(p) \/
             InstallerEnds(p) \/ Rescan(p) \/ ProjectionFingerprint(p)
      PROVE  IInv'
  <2> USE CheckoutsAssumption
         DEF IInv, Typed, FolderTyped, RecordTyped, ProcsTyped, JobsFit, LocksHeld,
             FindingsHold, GuardedWorkIsAlone, Fits, Holds, Relies, UnderLock, Steps,
             Preparing, Installing, Goto, Owns, Projections, files, state, locks, locals,
             history
  <2>1. CASE DependencyFingerprint(p)
    BY <2>1 DEF DependencyFingerprint
  <2>2. CASE Check(p)
    BY <2>2 DEF Check, Reuse
  <2>3. CASE RemoveProjections(p)
    BY <2>3 DEF RemoveProjections
  <2>4. CASE InstallerEnds(p)
    BY <2>4 DEF InstallerEnds
  <2>5. CASE Rescan(p)
    BY <2>5 DEF Rescan
  <2>6. CASE ProjectionFingerprint(p)
    BY <2>6 DEF ProjectionFingerprint, ProjectionPaths
  <2> QED
    BY <1>1, <2>1, <2>2, <2>3, <2>4, <2>5, <2>6
<1>2. CASE VerifyAssignedSync(p)
  <2> USE <1>2 DEF VerifyAssignedSync
  <2>1. /\ FolderTyped' /\ RecordTyped' /\ UNCHANGED <<tree, ws, child>>
        /\ pc[p] \in UnderLock /\ job[p] = "sync"
    BY DEF IInv, Typed, FolderTyped, RecordTyped, Goto, Leave, files, state, history, UnderLock,
           JobsFit, Fits
  <2>2. CASE Leave(p)
    BY <2>1, <2>2, Ends
  <2>3. CASE ~Leave(p)
    <3>1. /\ pc'[p] = "fingerprint" /\ job'[p] = "sync" /\ id' = id
          /\ (id[p] # None => Owns(id[p])) /\ "fingerprint" \in UnderLock
          /\ Goto(p, "fingerprint") /\ UNCHANGED locals
      BY <2>1, <2>3 DEF IInv, Typed, ProcsTyped, Goto, locals, UnderLock, Preparing
    <3>2. Fits(p)' /\ Relies(p)'
      BY <2>1, <3>1 DEF Fits, Relies, Owns, Preparing, Installing
    <3> QED
      BY <2>1, <3>1, <3>2, Proceeds
  <2> QED
    BY <2>2, <2>3
<1>3. CASE Prepare(p)
  <2> USE <1>3 DEF Prepare
  <2>1. /\ pc[p] \in UnderLock /\ Goto(p, "installing") /\ "installing" \in UnderLock
        /\ RecordTyped' /\ UNCHANGED <<tree, ws, child, id, found, keep>>
    BY DEF IInv, Typed, RecordTyped, UnderLock, Preparing, Installing, state
  <2>2. FolderTyped' /\ seen' \in [Procs -> Versions \cup {None}]
    BY DEF IInv, Typed, FolderTyped, ProcsTyped, Projections, Goto
  <2>3. pc'[p] = "installing" /\ job' = job /\ job[p] \in {"create", "sync", "acquire"}
    BY <2>1 DEF IInv, Typed, ProcsTyped, JobsFit, Fits, Goto, Preparing
  <2>4. Fits(p)' /\ Relies(p)'
    BY <2>1, <2>3 DEF IInv, FindingsHold, Relies, Owns, Fits, UnderLock, Preparing, Installing
  <2>5. pc' \in [Procs -> Steps] /\ JobsFit' /\ LocksHeld' /\ FindingsHold' /\ GuardedWorkIsAlone'
    BY <2>1, <2>4, GoesOn
  <2>6. ProcsTyped'
    BY <2>1, <2>2, <2>5 DEF IInv, Typed, ProcsTyped, Goto, locks
  <2> QED
    BY <2>1, <2>2, <2>5, <2>6 DEF IInv, Typed
<1>4. CASE Publish(p)
  <2> USE <1>4 DEF Publish
  <2>1. seen[p] \in Versions /\ found[p] \in Projections /\ pc[p] \in UnderLock
    BY DEF IInv, Typed, ProcsTyped, FindingsHold, Relies, UnderLock, Preparing, Installing
  <2>2. FolderTyped' /\ RecordTyped'
    BY <2>1 DEF IInv, Typed, FolderTyped, RecordTyped, Goto, files, Records
  <2>3. /\ pc'[p] = "ready" /\ "ready" \in UnderLock /\ job' = job
        /\ job[p] \in {"create", "sync", "acquire"} /\ UNCHANGED locals /\ Goto(p, "ready")
    BY DEF IInv, Typed, ProcsTyped, JobsFit, Fits, Goto, UnderLock, Preparing, Installing
  <2>4. Fits(p)' /\ Relies(p)'
    BY <2>3 DEF IInv, FindingsHold, Relies, Fits, UnderLock, Preparing, Installing
  <2> QED
    BY <2>1, <2>2, <2>3, <2>4, Proceeds
<1>5. CASE EnsureFails(p)
  <2> USE <1>5 DEF EnsureFails, Fail
  <2>1. pc[p] \in UnderLock \ {"reserve"}
    BY DEF UnderLock, Preparing, Installing
  <2>2. CASE job[p] = "sync"
    <3>1. Leave(p) /\ UNCHANGED <<tree, files, record, ws, registered, child, history>>
      BY <2>2 DEF state
    <3>2. FolderTyped' /\ RecordTyped'
      BY <3>1 DEF IInv, Typed, FolderTyped, RecordTyped, Leave, files, history
    <3> QED
      BY <3>1, <3>2, Ends
  <2>3. CASE job[p] = "create"
    <3>1. /\ FolderTyped' /\ RecordTyped' /\ UNCHANGED <<tree, ws, child, locals>>
          /\ Goto(p, "cleanup") /\ "cleanup" \in UnderLock
      BY <2>1, <2>3 DEF IInv, Typed, FolderTyped, RecordTyped, Goto, files, state, history,
                              UnderLock
    <3>2. pc'[p] = "cleanup" /\ job'[p] = "create" /\ tree' = p
      BY <2>1, <2>3, <3>1 DEF IInv, Typed, ProcsTyped, FindingsHold, Relies, Goto, UnderLock,
                              Preparing, Installing
    <3>3. Fits(p)' /\ Relies(p)'
      BY <3>2 DEF Fits, Relies, Preparing, Installing
    <3> QED
      BY <2>1, <3>1, <3>3, Proceeds
  <2>4. CASE job[p] = "acquire"
    BY <2>1, <2>4, HandoffFailsKeeps DEF IInv, Typed, FolderTyped
  <2> QED
    BY <2>2, <2>3, <2>4
<1>6. CASE Prepared(p)
  <2> USE <1>6 DEF Prepared
  <2>1. /\ FolderTyped' /\ RecordTyped' /\ UNCHANGED <<tree, ws, child>> /\ pc[p] \in UnderLock
    BY DEF IInv, Typed, FolderTyped, RecordTyped, Goto, Leave, files, state, history, UnderLock
  <2>2. CASE job[p] # "acquire"
    BY <2>1, <2>2, Ends
  <2>3. CASE job[p] = "acquire"
    <3>1. PICK step \in {"succeed", "assign"} :
            /\ Goto(p, step) /\ UNCHANGED locals /\ (step = "succeed" => ws.life = "assigned")
      BY <2>3
    <3>2. /\ pc'[p] = step /\ job'[p] = "acquire" /\ step \in UnderLock
          /\ ~child /\ ws.life \in {"preparing", "assigned"}
      BY <2>1, <2>3, <3>1 DEF IInv, Typed, ProcsTyped, FindingsHold, Relies, Goto, UnderLock
    <3>3. Fits(p)' /\ Relies(p)'
      BY <2>1, <3>1, <3>2 DEF Fits, Relies, Preparing, Installing
    <3> QED
      BY <2>1, <3>1, <3>2, <3>3, Proceeds
  <2> QED
    BY <2>2, <2>3
<1> QED
  BY <1>1, <1>2, <1>3, <1>4, <1>5, <1>6

(* The steps of acquisition and release, and the death of a process.       *)
LEMMA AssignmentsKeep ==
  ASSUME CheckoutsAssumption, IInv, NEW p \in Procs,
         Reserve(p) \/ MarkAssigned(p) \/ RecordAcquisitionSuccess(p) \/
         AssignmentProjections(p) \/ BeginWorkspaceReturn(p) \/ CleanProcesses(p) \/
         Return(p) \/ FinishWorkspaceReturn(p) \/ CancelWorkspaceReturn(p) \/ Crash(p)
  PROVE  IInv'
<1>1. ASSUME MarkAssigned(p) \/ RecordAcquisitionSuccess(p) \/ BeginWorkspaceReturn(p) \/
             Return(p) \/ FinishWorkspaceReturn(p) \/ CancelWorkspaceReturn(p) \/
             Crash(p)
      PROVE  IInv'
  <2> USE CheckoutsAssumption
         DEF IInv, Typed, FolderTyped, RecordTyped, ProcsTyped, JobsFit, LocksHeld,
             FindingsHold, GuardedWorkIsAlone, Fits, Holds, Relies, UnderLock, Steps,
             Preparing, Installing, Goto, Leave, Become, Owns, files, state, locks, locals,
             history
  <2>1. CASE MarkAssigned(p)
    BY <2>1 DEF MarkAssigned
  <2>2. CASE RecordAcquisitionSuccess(p)
    BY <2>2 DEF RecordAcquisitionSuccess
  <2>3. CASE BeginWorkspaceReturn(p)
    BY <2>3 DEF BeginWorkspaceReturn
  <2>4. CASE Return(p)
    BY <2>4 DEF Return
  <2>5. CASE FinishWorkspaceReturn(p)
    BY <2>5 DEF FinishWorkspaceReturn
  <2>6. CASE CancelWorkspaceReturn(p)
    BY <2>6 DEF CancelWorkspaceReturn
  <2>7. CASE Crash(p)
    BY <2>7 DEF Crash
  <2> QED
    BY <1>1, <2>1, <2>2, <2>3, <2>4, <2>5, <2>6, <2>7
<1>2. CASE Reserve(p)
  <2> USE <1>2 DEF Reserve
  <2>1. pc[p] \in UnderLock /\ job[p] = "acquire"
    BY DEF IInv, JobsFit, Fits, UnderLock
  <2>2. CASE ws.life \notin {"none", "available"}
    <3>1. Leave(p) /\ UNCHANGED <<tree, files, record, ws, registered, child, history>>
      BY <2>2
    <3>2. FolderTyped' /\ RecordTyped'
      BY <3>1 DEF IInv, Typed, FolderTyped, RecordTyped, Leave, files, history
    <3> QED
      BY <2>1, <3>1, <3>2, Ends
  <2>3. CASE ws.life \in {"none", "available"}
    <3>1. PICK i \in Ids \cup {None}, life \in {"assigned", "preparing"},
                 step \in {"switch", "add"} :
            /\ ws' = [life |-> life, id |-> i, acquiring |-> (life = "assigned")]
            /\ (i # None) = (life = "assigned") /\ ws.life \in {"none", "available"}
            /\ Goto(p, step) /\ UNCHANGED locals
      BY <2>3, CheckoutsAssumption DEF Become
    <3>2. ~child /\ child' = child /\ job' = job
      BY <3>1 DEF IInv, Typed, RecordTyped, Goto
    <3>3. RecordTyped' /\ ws'.life \in {"assigned", "preparing"}
      BY <3>1, <3>2 DEF IInv, Typed, RecordTyped
    <3>4. FolderTyped'
      BY <3>1 DEF IInv, Typed, FolderTyped, Goto, files, history
    <3>5. pc'[p] = step /\ step \in UnderLock
      BY <3>1 DEF IInv, Typed, ProcsTyped, Goto, UnderLock
    <3>6. Fits(p)' /\ Relies(p)'
      BY <2>1, <3>2, <3>3, <3>5 DEF Fits, Relies, Preparing, Installing
    <3> QED
      BY <2>1, <3>1, <3>3, <3>4, <3>5, <3>6, Proceeds
  <2> QED
    BY <2>2, <2>3
<1>3. CASE AssignmentProjections(p)
  <2> USE <1>3 DEF AssignmentProjections, ValidateAs
  <2>1. /\ pc[p] \in UnderLock /\ job[p] = "release" /\ id[p] # None
        /\ RecordTyped' /\ UNCHANGED <<tree, ws, child>>
    BY DEF IInv, Typed, RecordTyped, JobsFit, Fits, UnderLock, state
  <2>2. FolderTyped'
    BY DEF IInv, Typed, FolderTyped, Goto, Leave, files
  <2>3. CASE Leave(p)
    BY <2>1, <2>2, <2>3, Ends
  <2>4. CASE ~Leave(p)
    <3>1. /\ Goto(p, "begin") /\ "begin" \in UnderLock /\ ws.id # None
          /\ UNCHANGED <<id, seen, found>> /\ keep' \in [Procs -> BOOLEAN]
      BY <2>1, <2>4 DEF IInv, Typed, ProcsTyped, ProjectionIntegrityValid, UnderLock
    <3>2. pc'[p] = "begin" /\ job' = job
      BY <3>1 DEF IInv, Typed, ProcsTyped, Goto
    <3>3. Fits(p)' /\ Relies(p)'
      BY <2>1, <3>1, <3>2 DEF Fits, Relies, Preparing, Installing
    <3>4. pc' \in [Procs -> Steps] /\ JobsFit' /\ LocksHeld' /\ FindingsHold' /\ GuardedWorkIsAlone'
      BY <2>1, <3>1, <3>3, GoesOn
    <3>5. ProcsTyped'
      BY <3>1, <3>4 DEF IInv, Typed, ProcsTyped, Goto, locks
    <3> QED
      BY <2>1, <2>2, <3>4, <3>5 DEF IInv, Typed
  <2> QED
    BY <2>3, <2>4
<1>4. CASE CleanProcesses(p)
  <2> USE <1>4 DEF CleanProcesses
  <2>1. /\ pc[p] \in UnderLock /\ Goto(p, "reset") /\ "reset" \in UnderLock
        /\ UNCHANGED <<ws, locals>> /\ ws.id # None
    BY DEF IInv, FindingsHold, Relies, UnderLock, state
  <2>2. FolderTyped' /\ RecordTyped'
    <3>1. FolderTyped'
      BY DEF IInv, Typed, FolderTyped, Goto, files, history
    <3>2. RecordTyped'
      BY DEF IInv, Typed, RecordTyped, state
    <3> QED
      BY <3>1, <3>2
  <2>3. pc'[p] = "reset" /\ job' = job /\ job[p] = "release" /\ id' = id /\ id[p] # None
    BY <2>1 DEF IInv, Typed, ProcsTyped, JobsFit, Fits, Goto, locals
  <2>4. Fits(p)' /\ Relies(p)'
    BY <2>1, <2>3 DEF Fits, Relies, Preparing, Installing
  <2> QED
    BY <2>1, <2>2, <2>4, Proceeds
<1> QED
  BY <1>1, <1>2, <1>3, <1>4

(* A fresh folder, with no command in it yet, has nothing to be relied on. *)
LEMMA Initially ==
  ASSUME CheckoutsAssumption, Init
  PROVE  IInv
<1>1. FolderTyped
  BY DEF Init, FolderTyped
<1>2. RecordTyped
  <2>1. /\ ws.id = None /\ ws.life = "none" /\ record = None /\ child = FALSE
        /\ ws \in [life : {"none", "preparing", "failed", "available", "assigned", "returning"},
                   id : Ids \cup {None}, acquiring : BOOLEAN]
    BY DEF Init
  <2>2. (ws.id # None) = (ws.life \in {"assigned", "returning"})
    BY <2>1
  <2> QED
    BY <2>1, <2>2 DEF RecordTyped
<1>3. ProcsTyped
  BY DEF Init, ProcsTyped, Steps
<1>4. JobsFit /\ LocksHeld /\ FindingsHold /\ GuardedWorkIsAlone
  BY DEF Init, JobsFit, LocksHeld, FindingsHold, GuardedWorkIsAlone, Fits, Holds, Relies,
         UnderLock, Preparing, Installing
<1> QED
  BY <1>1, <1>2, <1>3, <1>4 DEF IInv, Typed

(* Steps of no command: a child, and whoever edits files. *)
LEMMA OthersKeep ==
  ASSUME CheckoutsAssumption, IInv, Child \/ EditInputs \/ EditProjection \/ UNCHANGED vars
  PROVE  IInv'
<1>1. CASE Child
  <2>1. /\ UNCHANGED <<kind, tree, files, state, registered, locks, pc, job, locals, history>>
        /\ ws.id # None /\ child' \in BOOLEAN
        /\ ~child' \/ (lock = None /\ ws.life = "assigned")
    BY <1>1 DEF Child
  <2>2. FolderTyped'
    BY <2>1 DEF IInv, Typed, FolderTyped, files, history
  <2>3. RecordTyped'
    BY <2>1 DEF IInv, Typed, RecordTyped, state
  <2>4. ProcsTyped' /\ JobsFit' /\ LocksHeld'
    BY <2>1 DEF IInv, Typed, ProcsTyped, JobsFit, LocksHeld, Fits, Holds, locks, locals
  <2>5. FindingsHold' /\ GuardedWorkIsAlone'
    BY <2>1, CheckoutsAssumption
       DEF IInv, FindingsHold, Relies, Owns, LocksHeld, Holds, GuardedWorkIsAlone, UnderLock,
           Preparing, Installing, state, locals
  <2> QED
    BY <2>2, <2>3, <2>4, <2>5 DEF IInv, Typed
<1>2. CASE EditInputs \/ EditProjection \/ UNCHANGED vars
  <2>1. UNCHANGED <<tree, kind, state, registered, locks, child, pc, job, locals>>
    BY <1>2 DEF EditInputs, EditProjection, vars
  <2>2. FolderTyped'
    BY <1>2 DEF IInv, Typed, FolderTyped, Projections, EditInputs, EditProjection, vars,
                files, history
  <2>3. RecordTyped' /\ ProcsTyped'
    BY <2>1 DEF IInv, Typed, RecordTyped, ProcsTyped, state, locks, locals
  <2>4. JobsFit' /\ LocksHeld' /\ FindingsHold' /\ GuardedWorkIsAlone'
    BY <2>1 DEF IInv, JobsFit, LocksHeld, FindingsHold, GuardedWorkIsAlone, Fits, Holds, Relies,
                Owns, state, locks, locals
  <2> QED
    BY <2>2, <2>3, <2>4 DEF IInv, Typed
<1> QED
  BY <1>1, <1>2

-----------------------------------------------------------------------------
(* Every step preserves the invariant: each sees to its own process, and   *)
(* the locks to the others.                                                *)
LEMMA Step ==
  ASSUME CheckoutsAssumption, IInv, [Next]_vars
  PROVE  IInv'
<1>1. ASSUME NEW p \in Procs,
             \/ SyncCommand(p) \/ GuardedCommand(p) \/ PrimaryFence(p) \/ GuardedWorkEnds(p)
             \/ WorkspaceLock(p) \/ AddWorktree(p) \/ AddWorktreeFails(p)
             \/ RecordNew(p) \/ AssignWorktree(p) \/ RecordWorktreeFails(p)
             \/ Create(p) \/ Remove(p) \/ Acquire(p) \/ Release(p) \/ Ensure(p) \/ Crash(p)
      PROVE  IInv'
  <2>1. CASE Create(p) \/ Remove(p)
    BY <2>1, CommandsKeep, WorktreesKeep DEF Create, Remove
  <2>2. CASE Acquire(p) \/ Release(p) \/ Crash(p)
    BY <2>2, CommandsKeep, AssignmentsKeep DEF Acquire, Release
  <2>3. CASE Ensure(p)
    BY <2>3, EnsuringKeep DEF Ensure
  <2>4. CASE \/ SyncCommand(p) \/ GuardedCommand(p) \/ PrimaryFence(p) \/ GuardedWorkEnds(p)
             \/ WorkspaceLock(p)
    BY <2>4, CommandsKeep
  <2>5. CASE \/ AddWorktree(p) \/ AddWorktreeFails(p) \/ RecordNew(p) \/ AssignWorktree(p)
             \/ RecordWorktreeFails(p)
    BY <2>5, WorktreesKeep
  <2> QED
    BY <1>1, <2>1, <2>2, <2>3, <2>4, <2>5
<1>2. CASE Child \/ EditInputs \/ EditProjection \/ UNCHANGED vars
  BY <1>2, OthersKeep
<1> QED
  BY <1>1, <1>2 DEF Next

(* The inductive invariant: each command is at a step of its own, holds    *)
(* the locks that go with it, and what it has seen to under them is true.  *)
THEOREM CheckoutsInvariance == Spec => []IInv
<1>1. Init => IInv
  BY Initially, CheckoutsAssumption
<1>2. IInv /\ [Next]_vars => IInv'
  BY Step, CheckoutsAssumption
<1> QED
  BY <1>1, <1>2, PTL DEF Spec

(* Every variable has its type; in particular a record has an assignment   *)
(* exactly when its lifecycle says so, and only then a tracked child.      *)
THEOREM CheckoutsTypeCorrect == Spec => []TypeOK
<1>1. IInv => TypeOK
  BY TypesTogether DEF IInv
<1> QED
  BY <1>1, CheckoutsInvariance, PTL

(* sync_command.go verifies the assignment once, under the lock of the     *)
(* folder: it stays true for as long as the sync prepares dependencies,    *)
(* since whoever changes the assignment needs that lock.                   *)
THEOREM SyncsAreFenced == Spec => []SyncStaysFenced
<1>1. IInv => SyncStaysFenced
  BY DEF IInv, FindingsHold, Relies, SyncStaysFenced
<1> QED
  BY <1>1, CheckoutsInvariance, PTL

(* When create_command.go comes to remove a worktree by force, the folder  *)
(* has the worktree that this very creation has added.                     *)
THEOREM CleanupIsOwn == Spec => []CleanupRemovesItsOwn
<1>1. IInv => CleanupRemovesItsOwn
  BY DEF IInv, FindingsHold, JobsFit, Fits, Relies, UnderLock, CleanupRemovesItsOwn
<1> QED
  BY <1>1, CheckoutsInvariance, PTL

(* mutation_locks.go looks for assignments under the fence that every      *)
(* acquisition holds: none comes to be while guarded work goes on.         *)
THEOREM GuardedAlone == Spec => []GuardedWorkIsAlone
<1>1. IInv => GuardedWorkIsAlone
  BY DEF IInv
<1> QED
  BY <1>1, CheckoutsInvariance, PTL

-----------------------------------------------------------------------------
(* What the registry, the record and the projection owe to each other.     *)

(* A plain folder has no record of the pool, and no command of the pool.   *)
PlainStaysPlain ==
  kind = "plain" => ws.life = "none" /\ \A p \in Procs : job[p] \notin {"acquire", "guarded"}

(* Steps between a new worktree and its entry, and between the removal of  *)
(* one and the end of its entry.                                           *)
Unrecorded == {"record", "undo"}
Gone == {"unrecord", "deltree", "forget"}

(* A plain worktree has its entry when the step after it is over.          *)
FolderFollows ==
  kind = "plain" =>
    /\ \A p \in Procs : pc[p] \in Gone => tree = None
    /\ tree # None /\ (\A p \in Procs : pc[p] \notin Unrecorded) => registered \/ excused

(* A slot has its entry from the first acquisition that has prepared it.   *)
Assignable == {"available", "assigned", "returning"}
Recorded == Preparing \cup {"ready", "assign", "succeed"}

SlotFollows ==
  kind = "pooled" =>
    /\ \A p \in Procs : job[p] \notin {"create", "remove"}
    /\ ws.life \in Assignable => registered
    /\ \A p \in Procs : job[p] = "acquire" /\ pc[p] \in Recorded => registered

(* The projection that a completed installation of version v leaves.       *)
Whole(v) == [of |-> v, as |-> "whole"]

(* A record that is not tainted describes a whole installation.            *)
RecordIsWhole == record # None /\ ~tainted => record.projection = Whole(record.fingerprint)

(* What an installation nobody has meddled with has brought about by now.  *)
Installs(p) ==
  /\ pc[p] = "installing" /\ ~meddled => inputs = seen[p]
  /\ pc[p] = "rescan" /\ ~meddled => node_modules = Whole(inputs)
  /\ pc[p] \in {"measure", "publish"} /\ ~meddled => node_modules = Whole(seen[p])
  /\ pc[p] = "publish" /\ ~meddled => found[p] = node_modules

(* What a release that has found the projection intact finds at its end.   *)
Returns(p) ==
  /\ pc[p] \in {"begin", "drain", "reset"} /\ keep[p] /\ ~late => ProjectionIntegrityValid
  /\ pc[p] = "finish" /\ ~late => node_modules = None \/ ProjectionIntegrityValid

(* What PreparedIsReady and OnlyLateChangesEnter rest on.                  *)
ProjectionsFollow ==
  /\ PlainStaysPlain /\ RecordIsWhole
  /\ \A p \in Procs : Installs(p)
  /\ \A p \in Procs : Returns(p)

(* What a step of p sees to, for p and for the record.                     *)
Keeps(p) ==
  /\ \A q \in Procs \ {p} : /\ pc'[q] = pc[q] /\ seen'[q] = seen[q]
                             /\ found'[q] = found[q] /\ keep'[q] = keep[q]
  /\ pc[p] \in UnderLock \/ UNCHANGED <<inputs, node_modules, record, meddled, late>>
  /\ RecordIsWhole' /\ Installs(p)' /\ Returns(p)'

(* What a command does while it holds the lock bears on no other command.  *)
LEMMA NobodyElse ==
  ASSUME IInv, ProjectionsFollow, NEW p \in Procs,
         \A q \in Procs \ {p} : /\ pc'[q] = pc[q] /\ seen'[q] = seen[q]
                                 /\ found'[q] = found[q] /\ keep'[q] = keep[q],
         pc[p] \in UnderLock \/ UNCHANGED <<inputs, node_modules, record, meddled, late>>
  PROVE  \A q \in Procs \ {p} : Installs(q)' /\ Returns(q)'
<1> TAKE q \in Procs \ {p}
<1>1. CASE pc[p] \in UnderLock
  <2>1. pc'[q] \notin UnderLock
    BY <1>1, Alone DEF IInv
  <2> QED
    BY <2>1 DEF Installs, Returns, UnderLock, Preparing, Installing
<1>2. CASE UNCHANGED <<inputs, node_modules, record, meddled, late>>
  BY <1>2 DEF ProjectionsFollow, Installs, Returns, ProjectionIntegrityValid
<1> QED
  BY <1>1, <1>2

(* A command that is over leaves the record as it is.                      *)
LEMMA LeavingFollows ==
  ASSUME IInv, ProjectionsFollow, NEW p \in Procs, Leave(p), pc[p] \in UnderLock,
         UNCHANGED <<record, tainted>>
  PROVE  Keeps(p)
BY DEF IInv, Typed, ProcsTyped, ProjectionsFollow, Leave, Keeps, RecordIsWhole, Whole, Installs,
       Returns

(* The beginnings of the commands disturb no projection.                   *)
LEMMA CommandsFollow ==
  ASSUME CheckoutsAssumption, IInv, ProjectionsFollow, NEW p \in Procs,
         CreateCommand(p) \/ RemoveCommand(p) \/ SyncCommand(p) \/ AcquireCommand(p) \/
         ReleaseCommand(p) \/ GuardedCommand(p) \/ PrimaryFence(p) \/ GuardedWorkEnds(p) \/
         WorkspaceLock(p)
  PROVE  Keeps(p)
<1> USE DEF IInv, Typed, FolderTyped, RecordTyped, ProcsTyped, JobsFit, Fits, FindingsHold, Relies,
            ProjectionsFollow, Keeps, Installs, Returns, RecordIsWhole, ProjectionIntegrityValid,
            Whole, UnderLock, Steps, Preparing, Installing, Projections, Records, Owns,
            files, state, locks, locals, history
<1>1. CASE CreateCommand(p)
  BY <1>1 DEF CreateCommand, Start
<1>2. CASE RemoveCommand(p)
  BY <1>2 DEF RemoveCommand, Start
<1>3. CASE SyncCommand(p)
  BY <1>3 DEF SyncCommand, Start
<1>4. CASE AcquireCommand(p)
  BY <1>4 DEF AcquireCommand, Start
<1>5. CASE ReleaseCommand(p)
  BY <1>5 DEF ReleaseCommand, Start
<1>6. CASE GuardedCommand(p)
  BY <1>6 DEF GuardedCommand, Start
<1>7. CASE PrimaryFence(p)
  BY <1>7 DEF PrimaryFence, Goto, Leave
<1>8. CASE GuardedWorkEnds(p)
  BY <1>8 DEF GuardedWorkEnds, Leave
<1>9. CASE WorkspaceLock(p)
  BY <1>9 DEF WorkspaceLock, FirstStep
<1> QED
  BY <1>1, <1>2, <1>3, <1>4, <1>5, <1>6, <1>7, <1>8, <1>9

(* Nor does a step on the worktree, except to remove it as a whole.        *)
LEMMA WorktreesFollow ==
  ASSUME CheckoutsAssumption, IInv, ProjectionsFollow, NEW p \in Procs,
         AddWorktree(p) \/ AddWorktreeFails(p) \/ RecordNew(p) \/ AssignWorktree(p) \/
         RecordWorktreeFails(p) \/ CleanUp(p) \/ CleanUpFails(p) \/ RemoveWorktree(p) \/
         RemoveWorktreeFails(p) \/ DeleteTree(p) \/ ForgetWorktree(p) \/ ForgettingFails(p)
  PROVE  Keeps(p)
<1> USE DEF IInv, Typed, FolderTyped, RecordTyped, ProcsTyped, JobsFit, Fits, FindingsHold, Relies,
            ProjectionsFollow, Keeps, Installs, Returns, RecordIsWhole, ProjectionIntegrityValid,
            Whole, UnderLock, Steps, Preparing, Installing, Projections, Records, Owns,
            files, state, locks, locals, history
<1>1. CASE AddWorktree(p)
  BY <1>1 DEF AddWorktree, Goto
<1>2. CASE AddWorktreeFails(p)
  <2>1. Leave(p) /\ pc[p] \in UnderLock /\ UNCHANGED <<record, tainted>>
    BY <1>2 DEF AddWorktreeFails, HandoffFails
  <2> QED
    BY <2>1, LeavingFollows
<1>3. CASE RecordNew(p)
  BY <1>3 DEF RecordNew, Goto
<1>4. CASE AssignWorktree(p)
  BY <1>4 DEF AssignWorktree, Goto
<1>5. CASE RecordWorktreeFails(p)
  <2>1. pc[p] \in UnderLock /\ UNCHANGED <<record, tainted>>
    BY <1>5 DEF RecordWorktreeFails, HandoffFails
  <2>2. CASE job[p] = "create" /\ Goto(p, "undo")
    BY <1>5, <2>2 DEF RecordWorktreeFails, Goto
  <2>3. CASE Leave(p)
    BY <2>1, <2>3, LeavingFollows
  <2> QED
    BY <1>5, <2>2, <2>3 DEF RecordWorktreeFails, HandoffFails
<1>6. CASE CleanUp(p)
  BY <1>6 DEF CleanUp, Goto, Leave
<1>7. CASE CleanUpFails(p)
  BY <1>7 DEF CleanUpFails, Leave
<1>8. CASE RemoveWorktree(p)
  BY <1>8 DEF RemoveWorktree, Goto
<1>9. CASE RemoveWorktreeFails(p)
  BY <1>9 DEF RemoveWorktreeFails, Leave
<1>10. CASE DeleteTree(p)
  BY <1>10 DEF DeleteTree, Goto
<1>11. CASE ForgetWorktree(p)
  BY <1>11 DEF ForgetWorktree, Leave
<1>12. CASE ForgettingFails(p)
  BY <1>12 DEF ForgettingFails, Leave
<1> QED
  BY <1>1, <1>2, <1>3, <1>4, <1>5, <1>6, <1>7, <1>8, <1>9, <1>10, <1>11, <1>12

(* EnsureDependencies publishes what it has installed and measured.        *)
LEMMA EnsuringFollow ==
  ASSUME CheckoutsAssumption, IInv, ProjectionsFollow, NEW p \in Procs,
         VerifyAssignedSync(p) \/ DependencyFingerprint(p) \/ Check(p) \/ RemoveProjections(p)
         \/ Prepare(p) \/ InstallerEnds(p) \/ Rescan(p) \/ ProjectionFingerprint(p) \/
         Publish(p) \/ EnsureFails(p) \/ Prepared(p)
  PROVE  Keeps(p)
<1> USE DEF IInv, Typed, FolderTyped, RecordTyped, ProcsTyped, JobsFit, Fits, FindingsHold, Relies,
            ProjectionsFollow, Keeps, Installs, Returns, RecordIsWhole, ProjectionIntegrityValid,
            Whole, UnderLock, Steps, Preparing, Installing, Projections, Records, Owns,
            files, state, locks, locals, history
<1>1. CASE VerifyAssignedSync(p)
  BY <1>1 DEF VerifyAssignedSync, Goto, Leave
<1>2. CASE DependencyFingerprint(p)
  BY <1>2 DEF DependencyFingerprint, Goto
<1>3. CASE Check(p)
  BY <1>3 DEF Check, Reuse, Goto
<1>4. CASE RemoveProjections(p)
  BY <1>4 DEF RemoveProjections, Goto
<1>5. CASE Prepare(p)
  BY <1>5 DEF Prepare, Goto
<1>6. CASE InstallerEnds(p)
  BY <1>6 DEF InstallerEnds, Goto
<1>7. CASE Rescan(p)
  BY <1>7 DEF Rescan, Goto
<1>8. CASE ProjectionFingerprint(p)
  BY <1>8 DEF ProjectionFingerprint, ProjectionPaths, Goto
<1>9. CASE Publish(p)
  BY <1>9 DEF Publish, Goto
<1>10. CASE EnsureFails(p)
  <2>1. pc[p] \in UnderLock /\ UNCHANGED <<record, tainted>>
    BY <1>10 DEF EnsureFails, Fail, HandoffFails
  <2>2. CASE job[p] = "create" /\ Goto(p, "cleanup")
    BY <1>10, <2>2 DEF EnsureFails, Fail, Goto
  <2>3. CASE Leave(p)
    BY <2>1, <2>3, LeavingFollows
  <2> QED
    BY <1>10, <2>2, <2>3 DEF EnsureFails, Fail, HandoffFails
<1>11. CASE Prepared(p)
  BY <1>11 DEF Prepared, Goto, Leave
<1> QED
  BY <1>1, <1>2, <1>3, <1>4, <1>5, <1>6, <1>7, <1>8, <1>9, <1>10, <1>11

(* A release validates a projection, and keeps it or removes it.           *)
LEMMA AssignmentsFollow ==
  ASSUME CheckoutsAssumption, IInv, ProjectionsFollow, NEW p \in Procs,
         Reserve(p) \/ MarkAssigned(p) \/ RecordAcquisitionSuccess(p) \/
         AssignmentProjections(p) \/ BeginWorkspaceReturn(p) \/ CleanProcesses(p) \/ Return(p)
         \/ FinishWorkspaceReturn(p) \/ CancelWorkspaceReturn(p) \/ Crash(p)
  PROVE  Keeps(p)
<1> USE DEF IInv, Typed, FolderTyped, RecordTyped, ProcsTyped, JobsFit, Fits, FindingsHold, Relies,
            ProjectionsFollow, Keeps, Installs, Returns, RecordIsWhole, ProjectionIntegrityValid,
            Whole, UnderLock, Steps, Preparing, Installing, Projections, Records, Owns,
            files, state, locks, locals, history
<1>1. CASE Reserve(p)
  BY <1>1 DEF Reserve, Become, Goto, Leave
<1>2. CASE MarkAssigned(p)
  BY <1>2 DEF MarkAssigned, Become, Goto
<1>3. CASE RecordAcquisitionSuccess(p)
  BY <1>3 DEF RecordAcquisitionSuccess, Become, Leave
<1>4. CASE AssignmentProjections(p)
  BY <1>4 DEF AssignmentProjections, ValidateAs, Goto, Leave
<1>5. CASE BeginWorkspaceReturn(p)
  BY <1>5 DEF BeginWorkspaceReturn, Become, Goto
<1>6. CASE CleanProcesses(p)
  BY <1>6 DEF CleanProcesses, Goto
<1>7. CASE Return(p)
  BY <1>7 DEF Return, Goto
<1>8. CASE FinishWorkspaceReturn(p)
  BY <1>8 DEF FinishWorkspaceReturn, Become, Leave
<1>9. CASE CancelWorkspaceReturn(p)
  BY <1>9 DEF CancelWorkspaceReturn, Become, Leave
<1>10. CASE Crash(p)
  BY <1>10 DEF Crash, Leave
<1> QED
  BY <1>1, <1>2, <1>3, <1>4, <1>5, <1>6, <1>7, <1>8, <1>9, <1>10

(* No command of the pool starts in a plain folder.                        *)
LEMMA CommandsStayPlain ==
  ASSUME CheckoutsAssumption, IInv, PlainStaysPlain, NEW p \in Procs,
         CreateCommand(p) \/ RemoveCommand(p) \/ SyncCommand(p) \/ AcquireCommand(p) \/
         ReleaseCommand(p) \/ GuardedCommand(p) \/ PrimaryFence(p) \/ GuardedWorkEnds(p) \/
         WorkspaceLock(p)
  PROVE  kind' = kind /\ PlainStaysPlain'
<1> USE DEF IInv, Typed, RecordTyped, ProcsTyped, JobsFit, Fits, FindingsHold, Relies, UnderLock,
            Preparing, Installing, PlainStaysPlain, state, locals
<1>1. CASE CreateCommand(p)
  BY <1>1 DEF CreateCommand, Start
<1>2. CASE RemoveCommand(p)
  BY <1>2 DEF RemoveCommand, Start
<1>3. CASE SyncCommand(p)
  BY <1>3 DEF SyncCommand, Start
<1>4. CASE AcquireCommand(p)
  BY <1>4 DEF AcquireCommand, Start
<1>5. CASE ReleaseCommand(p)
  BY <1>5 DEF ReleaseCommand, Start
<1>6. CASE GuardedCommand(p)
  BY <1>6 DEF GuardedCommand, Start
<1>7. CASE PrimaryFence(p)
  BY <1>7 DEF PrimaryFence, Goto, Leave
<1>8. CASE GuardedWorkEnds(p)
  BY <1>8 DEF GuardedWorkEnds, Leave
<1>9. CASE WorkspaceLock(p)
  BY <1>9 DEF WorkspaceLock, FirstStep
<1> QED
  BY <1>1, <1>2, <1>3, <1>4, <1>5, <1>6, <1>7, <1>8, <1>9

(* A worktree made or removed for a creation has no record of the pool.    *)
LEMMA WorktreesStayPlain ==
  ASSUME CheckoutsAssumption, IInv, PlainStaysPlain, NEW p \in Procs,
         AddWorktree(p) \/ AddWorktreeFails(p) \/ RecordNew(p) \/ AssignWorktree(p) \/
         RecordWorktreeFails(p) \/ CleanUp(p) \/ CleanUpFails(p) \/ RemoveWorktree(p) \/
         RemoveWorktreeFails(p) \/ DeleteTree(p) \/ ForgetWorktree(p) \/ ForgettingFails(p)
  PROVE  kind' = kind /\ PlainStaysPlain'
<1> USE DEF IInv, Typed, RecordTyped, ProcsTyped, JobsFit, Fits, FindingsHold, Relies, UnderLock,
            Preparing, Installing, PlainStaysPlain, state, locals
<1>1. CASE AddWorktree(p)
  BY <1>1 DEF AddWorktree, Goto
<1>2. CASE AddWorktreeFails(p)
  BY <1>2 DEF AddWorktreeFails, HandoffFails, Leave
<1>3. CASE RecordNew(p)
  BY <1>3 DEF RecordNew, Goto
<1>4. CASE AssignWorktree(p)
  BY <1>4 DEF AssignWorktree, Goto
<1>5. CASE RecordWorktreeFails(p)
  BY <1>5 DEF RecordWorktreeFails, HandoffFails, Goto, Leave
<1>6. CASE CleanUp(p)
  BY <1>6 DEF CleanUp, Goto, Leave
<1>7. CASE CleanUpFails(p)
  BY <1>7 DEF CleanUpFails, Leave
<1>8. CASE RemoveWorktree(p)
  BY <1>8 DEF RemoveWorktree, Goto
<1>9. CASE RemoveWorktreeFails(p)
  BY <1>9 DEF RemoveWorktreeFails, Leave
<1>10. CASE DeleteTree(p)
  BY <1>10 DEF DeleteTree, Goto
<1>11. CASE ForgetWorktree(p)
  BY <1>11 DEF ForgetWorktree, Leave
<1>12. CASE ForgettingFails(p)
  BY <1>12 DEF ForgettingFails, Leave
<1> QED
  BY <1>1, <1>2, <1>3, <1>4, <1>5, <1>6, <1>7, <1>8, <1>9, <1>10, <1>11, <1>12

(* Preparing a folder makes no pool workspace of it.                       *)
LEMMA EnsuringStayPlain ==
  ASSUME CheckoutsAssumption, IInv, PlainStaysPlain, NEW p \in Procs,
         VerifyAssignedSync(p) \/ DependencyFingerprint(p) \/ Check(p) \/ RemoveProjections(p)
         \/ Prepare(p) \/ InstallerEnds(p) \/ Rescan(p) \/ ProjectionFingerprint(p) \/
         Publish(p) \/ EnsureFails(p) \/ Prepared(p)
  PROVE  kind' = kind /\ PlainStaysPlain'
<1> USE DEF IInv, Typed, RecordTyped, ProcsTyped, JobsFit, Fits, FindingsHold, Relies, UnderLock,
            Preparing, Installing, PlainStaysPlain, state, locals
<1>1. CASE VerifyAssignedSync(p)
  BY <1>1 DEF VerifyAssignedSync, Goto, Leave
<1>2. CASE DependencyFingerprint(p)
  BY <1>2 DEF DependencyFingerprint, Goto
<1>3. CASE Check(p)
  BY <1>3 DEF Check, Reuse, Goto
<1>4. CASE RemoveProjections(p)
  BY <1>4 DEF RemoveProjections, Goto
<1>5. CASE Prepare(p)
  BY <1>5 DEF Prepare, Goto
<1>6. CASE InstallerEnds(p)
  BY <1>6 DEF InstallerEnds, Goto
<1>7. CASE Rescan(p)
  BY <1>7 DEF Rescan, Goto
<1>8. CASE ProjectionFingerprint(p)
  BY <1>8 DEF ProjectionFingerprint, ProjectionPaths, Goto
<1>9. CASE Publish(p)
  BY <1>9 DEF Publish, Goto
<1>10. CASE EnsureFails(p)
  BY <1>10 DEF EnsureFails, Fail, HandoffFails, Goto, Leave
<1>11. CASE Prepared(p)
  BY <1>11 DEF Prepared, Goto, Leave
<1> QED
  BY <1>1, <1>2, <1>3, <1>4, <1>5, <1>6, <1>7, <1>8, <1>9, <1>10, <1>11

(* Only a pool workspace's record moves on.                                *)
LEMMA AssignmentsStayPlain ==
  ASSUME CheckoutsAssumption, IInv, PlainStaysPlain, NEW p \in Procs,
         Reserve(p) \/ MarkAssigned(p) \/ RecordAcquisitionSuccess(p) \/
         AssignmentProjections(p) \/ BeginWorkspaceReturn(p) \/ CleanProcesses(p) \/ Return(p)
         \/ FinishWorkspaceReturn(p) \/ CancelWorkspaceReturn(p) \/ Crash(p)
  PROVE  kind' = kind /\ PlainStaysPlain'
<1> USE DEF IInv, Typed, RecordTyped, ProcsTyped, JobsFit, Fits, FindingsHold, Relies, UnderLock,
            Preparing, Installing, PlainStaysPlain, state, locals
<1>1. CASE Reserve(p)
  BY <1>1 DEF Reserve, Become, Goto, Leave
<1>2. CASE MarkAssigned(p)
  BY <1>2 DEF MarkAssigned, Become, Goto
<1>3. CASE RecordAcquisitionSuccess(p)
  BY <1>3 DEF RecordAcquisitionSuccess, Become, Leave
<1>4. CASE AssignmentProjections(p)
  BY <1>4 DEF AssignmentProjections, ValidateAs, Goto, Leave
<1>5. CASE BeginWorkspaceReturn(p)
  BY <1>5 DEF BeginWorkspaceReturn, Become, Goto
<1>6. CASE CleanProcesses(p)
  BY <1>6 DEF CleanProcesses, Goto
<1>7. CASE Return(p)
  BY <1>7 DEF Return, Goto
<1>8. CASE FinishWorkspaceReturn(p)
  BY <1>8 DEF FinishWorkspaceReturn, Become, Leave
<1>9. CASE CancelWorkspaceReturn(p)
  BY <1>9 DEF CancelWorkspaceReturn, Become, Leave
<1>10. CASE Crash(p)
  BY <1>10 DEF Crash, Leave
<1> QED
  BY <1>1, <1>2, <1>3, <1>4, <1>5, <1>6, <1>7, <1>8, <1>9, <1>10

(* Children work in an assigned folder only, and people in a plain one.    *)
LEMMA OthersFollow ==
  ASSUME CheckoutsAssumption, IInv, ProjectionsFollow,
         Child \/ EditInputs \/ EditProjection \/ UNCHANGED vars
  PROVE  ProjectionsFollow'
<1> USE DEF ProjectionsFollow
<1>1. PlainStaysPlain' /\ RecordIsWhole'
  BY DEF PlainStaysPlain, RecordIsWhole, Whole, Child, EditInputs, EditProjection, vars, state,
         history
<1>2. ASSUME NEW p \in Procs
      PROVE  Installs(p)' /\ Returns(p)'
  <2>1. CASE Child \/ UNCHANGED vars
    BY <2>1 DEF Installs, Returns, ProjectionIntegrityValid, Whole, Child, vars, files, state,
                locals, history
  <2>2. CASE EditInputs
    <3>1. /\ UNCHANGED <<node_modules, record, pc, seen, found, keep, late>>
          /\ meddled' = (meddled \/ \E q \in Procs : pc[q] \in {"installing", "rescan"})
      BY <2>2 DEF EditInputs, state, locals
    <3> QED
      BY <3>1 DEF Installs, Returns, ProjectionIntegrityValid, Whole
  <2>3. CASE EditProjection
    <3>1. /\ UNCHANGED <<inputs, record, pc, seen, found, keep, ws, child, kind>>
          /\ meddled' = (meddled \/ \E q \in Procs : pc[q] \in Installing)
          /\ late' = (late \/ \E q \in Procs : pc[q] \in {"begin", "drain"})
          /\ kind = "plain" \/ child \/ ws.life \in {"preparing", "failed"}
      BY <2>3 DEF EditProjection, AtWork, state, locals
    <3>2. Installs(p)'
      BY <3>1 DEF Installs, Installing
    <3>3. pc[p] \notin {"reset", "finish"}
      BY <3>1 DEF PlainStaysPlain, IInv, Typed, RecordTyped, FindingsHold, Relies
    <3>4. Returns(p)'
      BY <3>1, <3>3 DEF Returns
    <3> QED
      BY <3>2, <3>4
  <2> QED
    BY <2>1, <2>2, <2>3
<1> QED
  BY <1>1, <1>2

(* So every step keeps records, projections and commands together.         *)
LEMMA StepFollows ==
  ASSUME CheckoutsAssumption, IInv, ProjectionsFollow, [Next]_vars
  PROVE  ProjectionsFollow'
<1>1. ASSUME NEW p \in Procs,
             \/ SyncCommand(p) \/ GuardedCommand(p) \/ PrimaryFence(p) \/ GuardedWorkEnds(p)
             \/ WorkspaceLock(p) \/ AddWorktree(p) \/ AddWorktreeFails(p)
             \/ RecordNew(p) \/ AssignWorktree(p) \/ RecordWorktreeFails(p)
             \/ Create(p) \/ Remove(p) \/ Acquire(p) \/ Release(p) \/ Ensure(p) \/ Crash(p)
      PROVE  ProjectionsFollow'
  <2>1. Keeps(p)
    BY <1>1, CommandsFollow, WorktreesFollow, EnsuringFollow, AssignmentsFollow
       DEF Create, Remove, Acquire, Release, Ensure
  <2>2. PlainStaysPlain'
    BY <1>1, CommandsStayPlain, WorktreesStayPlain, EnsuringStayPlain, AssignmentsStayPlain
       DEF ProjectionsFollow, Create, Remove, Acquire, Release, Ensure
  <2>3. \A q \in Procs \ {p} : Installs(q)' /\ Returns(q)'
    BY <2>1, NobodyElse DEF Keeps
  <2> QED
    BY <2>1, <2>2, <2>3 DEF Keeps, ProjectionsFollow
<1>2. CASE Child \/ EditInputs \/ EditProjection \/ UNCHANGED vars
  BY <1>2, OthersFollow
<1> QED
  BY <1>1, <1>2 DEF Next

-----------------------------------------------------------------------------
(* Whoever holds the lock of a plain folder finds its entry in the state   *)
(* that goes with the step.                                                *)
EntryAt(p) ==
  /\ pc[p] \in Gone => tree = None
  /\ pc[p] \notin Unrecorded /\ tree # None => registered \/ excused

(* What a step of p sees to, in a plain folder and in a slot.              *)
Moves(p) ==
  /\ kind' = kind
  /\ \A q \in Procs \ {p} : pc'[q] = pc[q] /\ job'[q] = job[q]
  /\ kind = "plain" =>
       /\ pc[p] \in UnderLock => EntryAt(p)'
       /\ pc[p] \notin UnderLock => /\ UNCHANGED <<tree, registered, excused>>
                                    /\ pc'[p] \notin Unrecorded \cup Gone
  /\ kind = "pooled" =>
       /\ registered => registered'
       /\ job'[p] \notin {"create", "remove"}
       /\ ws'.life \in Assignable => registered'
       /\ job'[p] = "acquire" /\ pc'[p] \in Recorded => registered'

(* Before a command holds the lock it does not touch the entry.            *)
LEMMA CommandsMove ==
  ASSUME CheckoutsAssumption, IInv, PlainStaysPlain, SlotFollows, NEW p \in Procs,
         kind = "plain" /\ pc[p] \in UnderLock => EntryAt(p),
         CreateCommand(p) \/ RemoveCommand(p) \/ SyncCommand(p) \/ AcquireCommand(p) \/
         ReleaseCommand(p) \/ GuardedCommand(p) \/ PrimaryFence(p) \/ GuardedWorkEnds(p) \/
         WorkspaceLock(p)
  PROVE  Moves(p)
<1> USE DEF IInv, Typed, RecordTyped, FolderTyped, ProcsTyped, JobsFit, Fits, FindingsHold, Relies,
            UnderLock, Preparing, Installing, PlainStaysPlain, SlotFollows, Unrecorded, Gone,
            Assignable, Recorded, Moves, EntryAt, state, files, locals, history
<1>1. CASE CreateCommand(p)
  BY <1>1 DEF CreateCommand, Start
<1>2. CASE RemoveCommand(p)
  BY <1>2 DEF RemoveCommand, Start
<1>3. CASE SyncCommand(p)
  BY <1>3 DEF SyncCommand, Start
<1>4. CASE AcquireCommand(p)
  BY <1>4 DEF AcquireCommand, Start
<1>5. CASE ReleaseCommand(p)
  BY <1>5 DEF ReleaseCommand, Start
<1>6. CASE GuardedCommand(p)
  BY <1>6 DEF GuardedCommand, Start
<1>7. CASE PrimaryFence(p)
  BY <1>7 DEF PrimaryFence, Goto, Leave
<1>8. CASE GuardedWorkEnds(p)
  BY <1>8 DEF GuardedWorkEnds, Leave
<1>9. CASE WorkspaceLock(p)
  BY <1>9 DEF WorkspaceLock, FirstStep
<1> QED
  BY <1>1, <1>2, <1>3, <1>4, <1>5, <1>6, <1>7, <1>8, <1>9

(* A worktree and its entry are added, and removed, one after the other.   *)
LEMMA WorktreesMove ==
  ASSUME CheckoutsAssumption, IInv, PlainStaysPlain, SlotFollows, NEW p \in Procs,
         kind = "plain" /\ pc[p] \in UnderLock => EntryAt(p),
         AddWorktree(p) \/ AddWorktreeFails(p) \/ RecordNew(p) \/ AssignWorktree(p) \/
         RecordWorktreeFails(p) \/ CleanUp(p) \/ CleanUpFails(p) \/ RemoveWorktree(p) \/
         RemoveWorktreeFails(p) \/ DeleteTree(p) \/ ForgetWorktree(p) \/ ForgettingFails(p)
  PROVE  Moves(p)
<1> USE DEF IInv, Typed, RecordTyped, FolderTyped, ProcsTyped, JobsFit, Fits, FindingsHold, Relies,
            UnderLock, Preparing, Installing, PlainStaysPlain, SlotFollows, Unrecorded, Gone,
            Assignable, Recorded, Moves, EntryAt, state, files, locals, history
<1>1. CASE AddWorktree(p)
  BY <1>1 DEF AddWorktree, Goto
<1>2. CASE AddWorktreeFails(p)
  BY <1>2 DEF AddWorktreeFails, HandoffFails, Become, Leave
<1>3. CASE RecordNew(p)
  BY <1>3 DEF RecordNew, RecordWorktree, Goto
<1>4. CASE AssignWorktree(p)
  BY <1>4 DEF AssignWorktree, RecordWorktree, Goto
<1>5. CASE RecordWorktreeFails(p)
  <2>1. /\ registered => registered'
        /\ kind' = kind /\ pc[p] \in {"record", "switch"}
        /\ \A q \in Procs \ {p} : pc'[q] = pc[q] /\ job'[q] = job[q]
    <3>1. registered => registered'
      BY <1>5 DEF RecordWorktreeFails, MaybeRegistered
    <3>2. pc[p] \in {"record", "switch"} /\ (Goto(p, "undo") \/ HandoffFails(p))
      BY <1>5 DEF RecordWorktreeFails
    <3>3. Goto(p, "undo") \/ Leave(p)
      BY <3>2 DEF HandoffFails
    <3> QED
      BY <3>1, <3>2, <3>3 DEF Goto, Leave
  <2>2. CASE job[p] = "create"
    BY <1>5, <2>1, <2>2 DEF RecordWorktreeFails, Goto
  <2>3. CASE job[p] = "acquire"
    <3>1. kind # "plain" /\ pc'[p] = "idle" /\ job'[p] = "none"
      BY <1>5, <2>3 DEF RecordWorktreeFails, HandoffFails, Leave
    <3>2. ws'.life \in Assignable => ws.life \in Assignable
      BY <1>5, <2>3 DEF RecordWorktreeFails, HandoffFails, Become
    <3> QED
      BY <2>1, <3>1, <3>2
  <2> QED
    BY <1>5, <2>2, <2>3 DEF RecordWorktreeFails
<1>6. CASE CleanUp(p)
  BY <1>6 DEF CleanUp, Goto, Leave
<1>7. CASE CleanUpFails(p)
  BY <1>7 DEF CleanUpFails, Leave
<1>8. CASE RemoveWorktree(p)
  BY <1>8 DEF RemoveWorktree, Goto
<1>9. CASE RemoveWorktreeFails(p)
  BY <1>9 DEF RemoveWorktreeFails, Leave
<1>10. CASE DeleteTree(p)
  BY <1>10 DEF DeleteTree, Goto
<1>11. CASE ForgetWorktree(p)
  BY <1>11 DEF ForgetWorktree, Leave
<1>12. CASE ForgettingFails(p)
  BY <1>12 DEF ForgettingFails, Leave
<1> QED
  BY <1>1, <1>2, <1>3, <1>4, <1>5, <1>6, <1>7, <1>8, <1>9, <1>10, <1>11, <1>12

(* A preparation leaves both alone, whether it fails or not.               *)
LEMMA EnsuringMove ==
  ASSUME CheckoutsAssumption, IInv, PlainStaysPlain, SlotFollows, NEW p \in Procs,
         kind = "plain" /\ pc[p] \in UnderLock => EntryAt(p),
         VerifyAssignedSync(p) \/ DependencyFingerprint(p) \/ Check(p) \/ RemoveProjections(p)
         \/ Prepare(p) \/ InstallerEnds(p) \/ Rescan(p) \/ ProjectionFingerprint(p) \/
         Publish(p) \/ EnsureFails(p) \/ Prepared(p)
  PROVE  Moves(p)
<1> USE DEF IInv, Typed, RecordTyped, FolderTyped, ProcsTyped, JobsFit, Fits, FindingsHold, Relies,
            UnderLock, Preparing, Installing, PlainStaysPlain, SlotFollows, Unrecorded, Gone,
            Assignable, Recorded, Moves, EntryAt, state, files, locals, history
<1>1. CASE VerifyAssignedSync(p)
  BY <1>1 DEF VerifyAssignedSync, Goto, Leave
<1>2. CASE DependencyFingerprint(p)
  BY <1>2 DEF DependencyFingerprint, Goto
<1>3. CASE Check(p)
  BY <1>3 DEF Check, Reuse, Goto
<1>4. CASE RemoveProjections(p)
  BY <1>4 DEF RemoveProjections, Goto
<1>5. CASE Prepare(p)
  BY <1>5 DEF Prepare, Goto
<1>6. CASE InstallerEnds(p)
  BY <1>6 DEF InstallerEnds, Goto
<1>7. CASE Rescan(p)
  BY <1>7 DEF Rescan, Goto
<1>8. CASE ProjectionFingerprint(p)
  BY <1>8 DEF ProjectionFingerprint, ProjectionPaths, Goto
<1>9. CASE Publish(p)
  BY <1>9 DEF Publish, Goto
<1>10. CASE EnsureFails(p)
  BY <1>10 DEF EnsureFails, Fail, HandoffFails, Become, Goto, Leave
<1>11. CASE Prepared(p)
  BY <1>11 DEF Prepared, Goto, Leave
<1> QED
  BY <1>1, <1>2, <1>3, <1>4, <1>5, <1>6, <1>7, <1>8, <1>9, <1>10, <1>11

(* A return does so too, and a process that dies on the way is an excuse.  *)
LEMMA AssignmentsMove ==
  ASSUME CheckoutsAssumption, IInv, PlainStaysPlain, SlotFollows, NEW p \in Procs,
         kind = "plain" /\ pc[p] \in UnderLock => EntryAt(p),
         Reserve(p) \/ MarkAssigned(p) \/ RecordAcquisitionSuccess(p) \/
         AssignmentProjections(p) \/ BeginWorkspaceReturn(p) \/ CleanProcesses(p) \/ Return(p)
         \/ FinishWorkspaceReturn(p) \/ CancelWorkspaceReturn(p) \/ Crash(p)
  PROVE  Moves(p)
<1> USE DEF IInv, Typed, RecordTyped, FolderTyped, ProcsTyped, JobsFit, Fits, FindingsHold, Relies,
            UnderLock, Preparing, Installing, PlainStaysPlain, SlotFollows, Unrecorded, Gone,
            Assignable, Recorded, Moves, EntryAt, state, files, locals, history
<1>1. CASE Reserve(p)
  BY <1>1 DEF Reserve, Become, Goto, Leave
<1>2. CASE MarkAssigned(p)
  BY <1>2 DEF MarkAssigned, Become, Goto
<1>3. CASE RecordAcquisitionSuccess(p)
  BY <1>3 DEF RecordAcquisitionSuccess, Become, Leave
<1>4. CASE AssignmentProjections(p)
  BY <1>4 DEF AssignmentProjections, ValidateAs, Goto, Leave
<1>5. CASE BeginWorkspaceReturn(p)
  BY <1>5 DEF BeginWorkspaceReturn, Become, Goto
<1>6. CASE CleanProcesses(p)
  BY <1>6 DEF CleanProcesses, Goto
<1>7. CASE Return(p)
  BY <1>7 DEF Return, Goto
<1>8. CASE FinishWorkspaceReturn(p)
  BY <1>8 DEF FinishWorkspaceReturn, Become, Leave
<1>9. CASE CancelWorkspaceReturn(p)
  BY <1>9 DEF CancelWorkspaceReturn, Become, Leave
<1>10. CASE Crash(p)
  <2>1. /\ kind' = kind /\ UNCHANGED <<tree, registered, ws>>
        /\ pc'[p] = "idle" /\ job'[p] = "none"
        /\ \A q \in Procs \ {p} : pc'[q] = pc[q] /\ job'[q] = job[q]
    BY <1>10 DEF Crash, Leave
  <2>2. excused' = (excused \/ pc[p] \in {"record", "undo"})
    BY <1>10 DEF Crash
  <2> QED
    BY <2>1, <2>2
<1> QED
  BY <1>1, <1>2, <1>3, <1>4, <1>5, <1>6, <1>7, <1>8, <1>9, <1>10

(* So every step keeps a worktree in the registry, or a step before it.    *)
LEMMA StepEntry ==
  ASSUME CheckoutsAssumption, IInv, PlainStaysPlain, FolderFollows, SlotFollows, [Next]_vars
  PROVE  FolderFollows' /\ SlotFollows'
<1>1. ASSUME NEW p \in Procs,
             \/ SyncCommand(p) \/ GuardedCommand(p) \/ PrimaryFence(p) \/ GuardedWorkEnds(p)
             \/ WorkspaceLock(p) \/ AddWorktree(p) \/ AddWorktreeFails(p)
             \/ RecordNew(p) \/ AssignWorktree(p) \/ RecordWorktreeFails(p)
             \/ Create(p) \/ Remove(p) \/ Acquire(p) \/ Release(p) \/ Ensure(p) \/ Crash(p)
      PROVE  FolderFollows' /\ SlotFollows'
  <2>1. kind = "plain" /\ pc[p] \in UnderLock => EntryAt(p)
    <3> SUFFICES ASSUME kind = "plain", pc[p] \in UnderLock
                 PROVE  EntryAt(p)
      OBVIOUS
    <3>1. (\E q \in Procs : pc[q] \in Unrecorded) => pc[p] \in Unrecorded
      BY Alone DEF IInv, Unrecorded, UnderLock
    <3> QED
      BY <3>1 DEF FolderFollows, EntryAt
  <2>2. Moves(p)
    BY <1>1, <2>1, CommandsMove, WorktreesMove, EnsuringMove, AssignmentsMove
       DEF Create, Remove, Acquire, Release, Ensure
  <2>3. FolderFollows'
    <3> SUFFICES ASSUME kind = "plain"
                 PROVE  FolderFollows'
      BY <2>2 DEF Moves, FolderFollows
    <3>1. CASE pc[p] \in UnderLock
      <4>1. EntryAt(p)'
        BY <2>2, <3>1 DEF Moves
      <4>2. \A q \in Procs \ {p} : pc'[q] \notin Unrecorded \cup Gone
        BY <2>2, <3>1, Alone DEF Moves, IInv, Unrecorded, Gone, UnderLock
      <4> QED
        BY <4>1, <4>2 DEF FolderFollows, EntryAt
    <3>2. CASE pc[p] \notin UnderLock
      <4>1. /\ UNCHANGED <<tree, registered, excused>> /\ pc'[p] \notin Unrecorded \cup Gone
            /\ \A q \in Procs \ {p} : pc'[q] = pc[q]
        BY <2>2, <3>2 DEF Moves
      <4>2. pc[p] \notin Unrecorded
        BY <3>2 DEF Unrecorded, UnderLock
      <4> QED
        BY <4>1, <4>2 DEF FolderFollows
    <3> QED
      BY <3>1, <3>2
  <2>4. SlotFollows'
    BY <2>2 DEF Moves, SlotFollows
  <2> QED
    BY <2>3, <2>4
<1>2. CASE Child \/ EditInputs \/ EditProjection \/ UNCHANGED vars
  BY <1>2 DEF FolderFollows, SlotFollows, Child, EditInputs, EditProjection, vars, state, history
<1> QED
  BY <1>1, <1>2 DEF Next

-----------------------------------------------------------------------------
(* Which steps report success, and which ones end a return: no command     *)
(* that is yet to begin;                                                   *)
LEMMA CommandsEndNothing ==
  ASSUME CheckoutsAssumption, IInv, NEW p \in Procs,
         CreateCommand(p) \/ RemoveCommand(p) \/ SyncCommand(p) \/ AcquireCommand(p) \/
         ReleaseCommand(p) \/ GuardedCommand(p) \/ PrimaryFence(p) \/ GuardedWorkEnds(p) \/
         WorkspaceLock(p)
  PROVE  /\ \A q \in Procs : ~(pc[q] # "ready" /\ pc'[q] = "ready")
         /\ ~(ws.life = "returning" /\ ws'.life = "available")
<1> USE DEF IInv, Typed, ProcsTyped, RecordTyped, JobsFit, Fits, FindingsHold, Relies, UnderLock,
            Preparing, Installing, state
<1>1. CASE CreateCommand(p)
  BY <1>1 DEF CreateCommand, Start
<1>2. CASE RemoveCommand(p)
  BY <1>2 DEF RemoveCommand, Start
<1>3. CASE SyncCommand(p)
  BY <1>3 DEF SyncCommand, Start
<1>4. CASE AcquireCommand(p)
  BY <1>4 DEF AcquireCommand, Start
<1>5. CASE ReleaseCommand(p)
  BY <1>5 DEF ReleaseCommand, Start
<1>6. CASE GuardedCommand(p)
  BY <1>6 DEF GuardedCommand, Start
<1>7. CASE PrimaryFence(p)
  BY <1>7 DEF PrimaryFence, Goto, Leave
<1>8. CASE GuardedWorkEnds(p)
  BY <1>8 DEF GuardedWorkEnds, Leave
<1>9. CASE WorkspaceLock(p)
  BY <1>9 DEF WorkspaceLock, FirstStep
<1> QED
  BY <1>1, <1>2, <1>3, <1>4, <1>5, <1>6, <1>7, <1>8, <1>9

(* none on a worktree;                                                     *)
LEMMA WorktreesEndNothing ==
  ASSUME CheckoutsAssumption, IInv, NEW p \in Procs,
         AddWorktree(p) \/ AddWorktreeFails(p) \/ RecordNew(p) \/ AssignWorktree(p) \/
         RecordWorktreeFails(p) \/ CleanUp(p) \/ CleanUpFails(p) \/ RemoveWorktree(p) \/
         RemoveWorktreeFails(p) \/ DeleteTree(p) \/ ForgetWorktree(p) \/ ForgettingFails(p)
  PROVE  /\ \A q \in Procs : ~(pc[q] # "ready" /\ pc'[q] = "ready")
         /\ ~(ws.life = "returning" /\ ws'.life = "available")
<1> USE DEF IInv, Typed, ProcsTyped, RecordTyped, JobsFit, Fits, FindingsHold, Relies, UnderLock,
            Preparing, Installing, state
<1>1. CASE AddWorktree(p)
  BY <1>1 DEF AddWorktree, Goto
<1>2. CASE AddWorktreeFails(p)
  BY <1>2 DEF AddWorktreeFails, HandoffFails, Leave
<1>3. CASE RecordNew(p)
  BY <1>3 DEF RecordNew, Goto
<1>4. CASE AssignWorktree(p)
  BY <1>4 DEF AssignWorktree, Goto
<1>5. CASE RecordWorktreeFails(p)
  BY <1>5 DEF RecordWorktreeFails, HandoffFails, Goto, Leave
<1>6. CASE CleanUp(p)
  BY <1>6 DEF CleanUp, Goto, Leave
<1>7. CASE CleanUpFails(p)
  BY <1>7 DEF CleanUpFails, Leave
<1>8. CASE RemoveWorktree(p)
  BY <1>8 DEF RemoveWorktree, Goto
<1>9. CASE RemoveWorktreeFails(p)
  BY <1>9 DEF RemoveWorktreeFails, Leave
<1>10. CASE DeleteTree(p)
  BY <1>10 DEF DeleteTree, Goto
<1>11. CASE ForgetWorktree(p)
  BY <1>11 DEF ForgetWorktree, Leave
<1>12. CASE ForgettingFails(p)
  BY <1>12 DEF ForgettingFails, Leave
<1> QED
  BY <1>1, <1>2, <1>3, <1>4, <1>5, <1>6, <1>7, <1>8, <1>9, <1>10, <1>11, <1>12

(* no preparation, but the one that reuses or publishes;                   *)
LEMMA EnsuringEndNothing ==
  ASSUME CheckoutsAssumption, IInv, NEW p \in Procs,
         VerifyAssignedSync(p) \/ DependencyFingerprint(p) \/ RemoveProjections(p) \/ Prepare(p)
         \/ InstallerEnds(p) \/ Rescan(p) \/ ProjectionFingerprint(p) \/ EnsureFails(p) \/
         Prepared(p)
  PROVE  /\ \A q \in Procs : ~(pc[q] # "ready" /\ pc'[q] = "ready")
         /\ ~(ws.life = "returning" /\ ws'.life = "available")
<1> USE DEF IInv, Typed, ProcsTyped, RecordTyped, JobsFit, Fits, FindingsHold, Relies, UnderLock,
            Preparing, Installing, state
<1>1. CASE VerifyAssignedSync(p)
  BY <1>1 DEF VerifyAssignedSync, Goto, Leave
<1>2. CASE DependencyFingerprint(p)
  BY <1>2 DEF DependencyFingerprint, Goto
<1>3. CASE RemoveProjections(p)
  BY <1>3 DEF RemoveProjections, Goto
<1>4. CASE Prepare(p)
  BY <1>4 DEF Prepare, Goto
<1>5. CASE InstallerEnds(p)
  BY <1>5 DEF InstallerEnds, Goto
<1>6. CASE Rescan(p)
  BY <1>6 DEF Rescan, Goto
<1>7. CASE ProjectionFingerprint(p)
  BY <1>7 DEF ProjectionFingerprint, ProjectionPaths, Goto
<1>8. CASE EnsureFails(p)
  BY <1>8 DEF EnsureFails, Fail, HandoffFails, Goto, Leave
<1>9. CASE Prepared(p)
  BY <1>9 DEF Prepared, Goto, Leave
<1> QED
  BY <1>1, <1>2, <1>3, <1>4, <1>5, <1>6, <1>7, <1>8, <1>9

(* and of a return, its end only.                                          *)
LEMMA AssignmentsEndNothing ==
  ASSUME CheckoutsAssumption, IInv, NEW p \in Procs,
         Reserve(p) \/ MarkAssigned(p) \/ RecordAcquisitionSuccess(p) \/
         AssignmentProjections(p) \/ BeginWorkspaceReturn(p) \/ CleanProcesses(p) \/ Return(p)
         \/ CancelWorkspaceReturn(p) \/ Crash(p)
  PROVE  /\ \A q \in Procs : ~(pc[q] # "ready" /\ pc'[q] = "ready")
         /\ ~(ws.life = "returning" /\ ws'.life = "available")
<1> USE DEF IInv, Typed, ProcsTyped, RecordTyped, JobsFit, Fits, FindingsHold, Relies, UnderLock,
            Preparing, Installing, state
<1>1. CASE Reserve(p)
  BY <1>1 DEF Reserve, Become, Goto, Leave
<1>2. CASE MarkAssigned(p)
  BY <1>2 DEF MarkAssigned, Become, Goto
<1>3. CASE RecordAcquisitionSuccess(p)
  BY <1>3 DEF RecordAcquisitionSuccess, Become, Leave
<1>4. CASE AssignmentProjections(p)
  BY <1>4 DEF AssignmentProjections, ValidateAs, Goto, Leave
<1>5. CASE BeginWorkspaceReturn(p)
  BY <1>5 DEF BeginWorkspaceReturn, Become, Goto
<1>6. CASE CleanProcesses(p)
  BY <1>6 DEF CleanProcesses, Goto
<1>7. CASE Return(p)
  BY <1>7 DEF Return, Goto
<1>8. CASE CancelWorkspaceReturn(p)
  BY <1>8 DEF CancelWorkspaceReturn, Become, Leave
<1>9. CASE Crash(p)
  BY <1>9 DEF Crash, Leave
<1> QED
  BY <1>1, <1>2, <1>3, <1>4, <1>5, <1>6, <1>7, <1>8, <1>9

(* Every step is one of these four, or one that has been left out there.   *)
LEMMA OnlyTheseEnd ==
  ASSUME CheckoutsAssumption, IInv, [Next]_vars
  PROVE  /\ \A p \in Procs : pc[p] # "ready" /\ pc'[p] = "ready" => Check(p) \/ Publish(p)
         /\ ws.life = "returning" /\ ws'.life = "available"
              => \E p \in Procs : FinishWorkspaceReturn(p)
<1>1. ASSUME NEW p \in Procs,
             \/ SyncCommand(p) \/ GuardedCommand(p) \/ PrimaryFence(p) \/ GuardedWorkEnds(p)
             \/ WorkspaceLock(p) \/ AddWorktree(p) \/ AddWorktreeFails(p)
             \/ RecordNew(p) \/ AssignWorktree(p) \/ RecordWorktreeFails(p)
             \/ Create(p) \/ Remove(p) \/ Acquire(p) \/ Release(p) \/ Ensure(p) \/ Crash(p)
      PROVE  \/ Check(p) \/ Publish(p) \/ FinishWorkspaceReturn(p)
             \/ /\ \A q \in Procs : ~(pc[q] # "ready" /\ pc'[q] = "ready")
                /\ ~(ws.life = "returning" /\ ws'.life = "available")
  BY <1>1, CommandsEndNothing, WorktreesEndNothing, EnsuringEndNothing, AssignmentsEndNothing
     DEF Create, Remove, Acquire, Release, Ensure
<1>2. ASSUME NEW p \in Procs, Check(p) \/ Publish(p)
      PROVE  /\ \A q \in Procs \ {p} : pc'[q] = pc[q]
             /\ ws' = ws
  BY <1>2 DEF Check, Reuse, Publish, Goto, IInv, Typed, ProcsTyped, state
<1>3. ASSUME NEW p \in Procs, FinishWorkspaceReturn(p)
      PROVE  \A q \in Procs : ~(pc[q] # "ready" /\ pc'[q] = "ready")
  BY <1>3 DEF FinishWorkspaceReturn, Leave, IInv, Typed, ProcsTyped
<1>4. CASE Child \/ EditInputs \/ EditProjection \/ UNCHANGED vars
  BY <1>4 DEF Child, EditInputs, EditProjection, vars, state
<1> QED
  BY <1>1, <1>2, <1>3, <1>4 DEF Next

-----------------------------------------------------------------------------
(* The records, the projections and what commands have found out about     *)
(* them stay together, under IInv.                                         *)
THEOREM ProjectionsHold == Spec => []ProjectionsFollow
<1>1. Init => ProjectionsFollow
  BY DEF Init, ProjectionsFollow, PlainStaysPlain, RecordIsWhole, Installs, Returns
<1>2. IInv /\ ProjectionsFollow /\ [Next]_vars => ProjectionsFollow'
  BY StepFollows, CheckoutsAssumption
<1> QED
  BY <1>1, <1>2, CheckoutsInvariance, PTL DEF Spec

(* A fingerprint that matches, and a projection that is the recorded one,  *)
(* or an installation that has been measured and recorded: dependencies/   *)
(* ensure.go reports success for nothing less.                             *)
THEOREM PreparationsAreReady == Spec => PreparedIsReady
<1> DEFINE Ready(p) ==
      pc[p] # "ready" /\ pc'[p] = "ready" /\ ~tainted' =>
        node_modules' = [of |-> seen[p], as |-> "whole"]
<1>1. ASSUME IInv, ProjectionsFollow, [Next]_vars, NEW p \in Procs
      PROVE  Ready(p)
  <2> SUFFICES ASSUME pc[p] # "ready", pc'[p] = "ready", ~tainted'
               PROVE  node_modules' = [of |-> seen[p], as |-> "whole"]
    OBVIOUS
  <2>1. Check(p) \/ Publish(p)
    BY <1>1, OnlyTheseEnd, CheckoutsAssumption
  <2>2. CASE Check(p)
    BY <1>1, <2>2 DEF Check, Reuse, Goto, IInv, Typed, ProcsTyped, ProjectionIntegrityValid,
                      ProjectionsFollow, RecordIsWhole, Whole, files, history
  <2>3. CASE Publish(p)
    BY <1>1, <2>3 DEF Publish, ProjectionsFollow, Installs, Whole, files
  <2> QED
    BY <2>1, <2>2, <2>3
<1>2. IInv /\ ProjectionsFollow /\ [Next]_vars => [\A p \in Procs : Ready(p)]_vars
  BY <1>1
<1> QED
  BY <1>2, CheckoutsInvariance, ProjectionsHold, PTL DEF Spec, PreparedIsReady

(* A release discards whatever had changed a projection before it was      *)
(* validated: only what a child changes between the validation and the end *)
(* of the drain (lifecycle/release_service.go) goes into the pool, as the  *)
(* exemption of the property says and DirtyReturn shows.                   *)
THEOREM LateChangesOnly == Spec => OnlyLateChangesEnter
<1> DEFINE Intact ==
      ws.life = "returning" /\ ws'.life = "available" /\ node_modules' # None /\ ~late =>
        record # None /\ node_modules' = record.projection
<1>1. ASSUME IInv, ProjectionsFollow, [Next]_vars
      PROVE  Intact
  <2> SUFFICES ASSUME ws.life = "returning", ws'.life = "available", node_modules' # None, ~late
               PROVE  record # None /\ node_modules' = record.projection
    OBVIOUS
  <2>1. PICK p \in Procs : FinishWorkspaceReturn(p)
    BY <1>1, OnlyTheseEnd, CheckoutsAssumption
  <2> QED
    BY <1>1, <2>1
       DEF FinishWorkspaceReturn, ProjectionsFollow, Returns, ProjectionIntegrityValid, files
<1>2. IInv /\ ProjectionsFollow /\ [Next]_vars => [Intact]_vars
  BY <1>1
<1> QED
  BY <1>2, CheckoutsInvariance, ProjectionsHold, PTL DEF Spec, OnlyLateChangesEnter

(* create_command.go removes a worktree that it cannot record, and what    *)
(* acquires a slot records it before it can be assigned; whether it is the *)
(* registry or the index of the host that fails makes no difference.       *)
THEOREM EveryWorktreeTracked == Spec => []WorktreesAreTracked
<1>1. Init => FolderFollows /\ SlotFollows
  BY DEF Init, FolderFollows, SlotFollows, Gone, Unrecorded, Assignable, Recorded, Preparing,
         Installing
<1>2. IInv /\ ProjectionsFollow /\ FolderFollows /\ SlotFollows /\ [Next]_vars
        => FolderFollows' /\ SlotFollows'
  BY StepEntry, CheckoutsAssumption DEF ProjectionsFollow
<1>3. IInv /\ FolderFollows /\ SlotFollows => WorktreesAreTracked
  <2> SUFFICES ASSUME IInv, FolderFollows, SlotFollows
               PROVE  WorktreesAreTracked
    OBVIOUS
  <2>1. lock = None => \A p \in Procs : pc[p] \notin Unrecorded
    BY CheckoutsAssumption DEF IInv, LocksHeld, Holds, UnderLock, Unrecorded
  <2> QED
    BY <2>1 DEF FolderFollows, SlotFollows, WorktreesAreTracked, Assignable
<1> QED
  BY <1>1, <1>2, <1>3, CheckoutsInvariance, ProjectionsHold, PTL DEF Spec
=============================================================================
