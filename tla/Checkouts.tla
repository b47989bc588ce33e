----------------------------- MODULE Checkouts -----------------------------
(***************************************************************************)
(* A folder and its dependencies: ruk create, remove and sync on a plain   *)
(* worktree, acquire, sync and release on a slot of the pool, and guarded  *)
(* work in the primary checkout (cli/create_command.go, remove_command.go, *)
(* sync_command.go, mutation_locks.go, dependencies/ensure.go).  All of    *)
(* them hold the lock of the folder; the files in it can change whenever   *)
(* a person or a child works there.  What a slot goes through while its    *)
(* record changes hands is the module Workspaces.                          *)
(***************************************************************************)
EXTENDS FiniteSets

CONSTANTS
  Procs,      \* invocations of ruk, one after the other
  Ids,        \* assignments
  Versions,   \* contents of the dependency inputs (manifests, lock files)
  Kinds,      \* of folders: "plain" (ruk create) or "pooled" (ruk acquire)
  None

ASSUME CheckoutsAssumption ==
  /\ Kinds \subseteq {"plain", "pooled"} /\ Kinds # {} /\ Versions # {}
  /\ None \notin Procs \cup Ids \cup Versions

VARIABLES
  kind,         \* which names the folder has is settled by who makes them
  tree,         \* the worktree: None, or the process that has added it
  inputs,       \* the dependency inputs that are in it
  node_modules, \* its projection: None, or what of and in what condition
  record,       \* the tree record in state.json, or None
  ws,           \* the workspace record: lifecycle, assignment, operation
  registered,   \* whether worktrees.json has the folder
  lock,         \* who holds the lock of the folder
  primary,      \* who holds primary-checkout.lock
  child,        \* whether a tracked child works in the assigned folder
  pc, job,      \* of a process: its step and command
  id,           \*   the assignment that it has read
  seen,         \*   the inputs it has fingerprinted, or installs
  found,        \*   the projection it has fingerprinted
  keep,         \*   whether its release preserves the projection
  meddled,      \* history: files have changed under the installation in progress
  tainted,      \* history: and it has been recorded
  late,         \* history: a projection has changed after its validation
  excused       \* history: a crash came between this worktree and its record, or
                \* the removal after a failed record has itself failed

files == <<inputs, node_modules>>
state == <<record, ws>>
locks == <<lock, primary>>
locals == <<id, seen, found, keep>>
history == <<meddled, tainted, late, excused>>
vars == <<kind, tree, files, state, registered, locks, child, pc, job, locals, history>>

Projections == [of : Versions, as : {"whole", "partial", "edited"}]
Records == [fingerprint : Versions, projection : Projections]

(* Steps between the start of an installer and the record of its work.     *)
Installing == {"installing", "rescan", "measure", "publish"}
Preparing == {"fingerprint", "check", "clear", "install"} \cup Installing

(* A record has an assignment exactly when its lifecycle says so, and only *)
(* then can a child be tracked.                                            *)
TypeOK ==
  /\ kind \in Kinds /\ tree \in Procs \cup {None}
  /\ inputs \in Versions /\ node_modules \in Projections \cup {None}
  /\ record \in Records \cup {None}
  /\ ws \in [life : {"none", "preparing", "failed", "available", "assigned", "returning"},
             id : Ids \cup {None}, acquiring : BOOLEAN]
  /\ lock \in Procs \cup {None} /\ primary \in Procs \cup {None}
  /\ pc \in [Procs -> {"idle", "primary", "guarded", "lock", "reserve", "add", "record", "undo",
                       "switch", "verify", "ready", "assign", "succeed", "cleanup", "unrecord",
                       "gitremove", "deltree", "forget", "validate", "begin", "drain", "reset",
                       "finish"} \cup Preparing]
  /\ job \in [Procs -> {"none", "create", "remove", "sync", "acquire", "release", "guarded"}]
  /\ id \in [Procs -> Ids \cup {None}] /\ seen \in [Procs -> Versions \cup {None}]
  /\ found \in [Procs -> Projections \cup {None}] /\ keep \in [Procs -> BOOLEAN]
  /\ registered \in BOOLEAN /\ child \in BOOLEAN
  /\ meddled \in BOOLEAN /\ tainted \in BOOLEAN /\ late \in BOOLEAN /\ excused \in BOOLEAN
  /\ (ws.id # None) = (ws.life \in {"assigned", "returning"})
  /\ child => ws.id # None

Init ==
  /\ kind \in Kinds /\ tree = None /\ inputs \in Versions /\ node_modules = None
  /\ record = None /\ ws = [life |-> "none", id |-> None, acquiring |-> FALSE]
  /\ registered = FALSE /\ lock = None /\ primary = None /\ child = FALSE
  /\ pc = [p \in Procs |-> "idle"] /\ job = [p \in Procs |-> "none"]
  /\ id = [p \in Procs |-> None] /\ seen = [p \in Procs |-> None]
  /\ found = [p \in Procs |-> None] /\ keep = [p \in Procs |-> FALSE]
  /\ meddled = FALSE /\ tainted = FALSE /\ late = FALSE /\ excused = FALSE

-----------------------------------------------------------------------------
Goto(p, step) ==
  /\ pc' = [pc EXCEPT ![p] = step]
  /\ UNCHANGED <<kind, locks, job>>

(* The command is over, and its deferred releases have run.                *)
Leave(p) ==
  /\ pc' = [pc EXCEPT ![p] = "idle"] /\ job' = [job EXCEPT ![p] = "none"]
  /\ id' = [id EXCEPT ![p] = None] /\ seen' = [seen EXCEPT ![p] = None]
  /\ found' = [found EXCEPT ![p] = None] /\ keep' = [keep EXCEPT ![p] = FALSE]
  /\ lock' = IF lock = p THEN None ELSE lock
  /\ primary' = IF primary = p THEN None ELSE primary
  /\ kind' = kind

Become(life, i, acquiring) == ws' = [life |-> life, id |-> i, acquiring |-> acquiring]

Owns(i) == ws.life = "assigned" /\ ws.id = i /\ ~ws.acquiring

-----------------------------------------------------------------------------
(* Commands.  What they read before they have a lock may be old when they  *)
(* have it.                                                                *)

Start(p, command, step, i) ==
  /\ pc[p] = "idle"
  /\ pc' = [pc EXCEPT ![p] = step] /\ job' = [job EXCEPT ![p] = command]
  /\ id' = [id EXCEPT ![p] = i]
  /\ UNCHANGED <<kind, tree, files, state, registered, locks, child, seen, found, keep, history>>

CreateCommand(p) == kind = "plain" /\ Start(p, "create", "lock", None)

RemoveCommand(p) == kind = "plain" /\ tree # None /\ Start(p, "remove", "lock", None)

(* A sync of a folder without assignment goes on without a fence.          *)
SyncCommand(p) ==
  /\ tree # None
  /\ \/ ws.life = "assigned" /\ ~ws.acquiring /\ Start(p, "sync", "lock", ws.id)
     \/ ws.life # "assigned" /\ Start(p, "sync", "lock", None)

AcquireCommand(p) == kind = "pooled" /\ Start(p, "acquire", "primary", None)

ReleaseCommand(p) == ws.id # None /\ Start(p, "release", "lock", ws.id)

GuardedCommand(p) == kind = "pooled" /\ Start(p, "guarded", "primary", None)

(* Variant: the guard looks before it waits for the fence. *)
PrimaryUnfenced(p) ==
  /\ pc[p] = "primary"
  /\ IF job[p] = "guarded"
       THEN IF ws.id # None THEN Leave(p) ELSE Goto(p, "guarded") /\ UNCHANGED locals
       ELSE /\ primary = None /\ primary' = p
            /\ pc' = [pc EXCEPT ![p] = "lock"]
            /\ UNCHANGED <<kind, lock, job, locals>>
  /\ UNCHANGED <<tree, files, state, registered, child, history>>

(* The guard of deny mode looks for assignments under the fence that every *)
(* acquisition holds until it is over.                                     *)
PrimaryFence(p) ==
  /\ pc[p] = "primary" /\ primary = None
  /\ IF job[p] = "guarded" /\ ws.id # None
       THEN Leave(p)
       ELSE /\ primary' = p
            /\ pc' = [pc EXCEPT ![p] = IF job[p] = "guarded" THEN "guarded" ELSE "lock"]
            /\ UNCHANGED <<kind, lock, job, locals>>
  /\ UNCHANGED <<tree, files, state, registered, child, history>>

GuardedWorkEnds(p) ==
  /\ pc[p] = "guarded" /\ Leave(p)
  /\ UNCHANGED <<tree, files, state, registered, child, history>>

FirstStep ==
  [create |-> "add", remove |-> "gitremove", sync |-> "verify", acquire |-> "reserve", release |-> "validate"]

(* Variant: create does not hold the lock. *)
WorkspaceLockNotForCreate(p) ==
  /\ pc[p] = "lock"
  /\ IF job[p] = "create" THEN lock' = lock ELSE lock = None /\ lock' = p
  /\ pc' = [pc EXCEPT ![p] = FirstStep[job[p]]]
  /\ UNCHANGED <<kind, tree, files, state, registered, primary, child, job, locals, history>>

WorkspaceLock(p) ==
  /\ pc[p] = "lock" /\ lock = None
  /\ lock' = p
  /\ pc' = [pc EXCEPT ![p] = FirstStep[job[p]]]
  /\ UNCHANGED <<kind, tree, files, state, registered, primary, child, job, locals, history>>

-----------------------------------------------------------------------------
(* The registry of worktrees and the failures of a command.                *)

Reserve(p) ==
  /\ pc[p] = "reserve"
  /\ \/ /\ ws.life = "available"
        /\ \E i \in Ids \ {id[q] : q \in Procs} : Become("assigned", i, TRUE)
        /\ Goto(p, "switch") /\ UNCHANGED locals
     \/ ws.life = "none" /\ Become("preparing", None, FALSE) /\ Goto(p, "add") /\ UNCHANGED locals
     \/ ws.life \notin {"none", "available"} /\ ws' = ws /\ Leave(p)
  /\ UNCHANGED <<tree, files, record, registered, child, history>>

(* A fresh preparation is left to collection; a reused slot is reset, its  *)
(* projection included, or retained when that cannot be done.              *)
HandoffFails(p) ==
  /\ Leave(p)
  /\ \/ /\ ws.life # "assigned" /\ Become("failed", None, FALSE)
        /\ UNCHANGED files
     \/ /\ ws.life = "assigned" /\ Become("available", None, FALSE)
        /\ node_modules' = None /\ inputs' \in Versions
     \/ /\ ws.life = "assigned" /\ Become("assigned", ws.id, FALSE)
        /\ inputs' = inputs /\ node_modules' \in {node_modules, None}
  /\ UNCHANGED <<tree, record, child, history>>

(* A preparation fails.                                                    *)
Fail(p) ==
  \/ /\ job[p] = "sync" /\ Leave(p)
     /\ UNCHANGED <<tree, files, state, registered, child, history>>
  \/ /\ job[p] = "create" /\ Goto(p, "cleanup")
     /\ UNCHANGED <<tree, files, state, registered, child, locals, history>>
  \/ job[p] = "acquire" /\ HandoffFails(p) /\ UNCHANGED registered

AddWorktree(p) ==
  /\ pc[p] = "add" /\ tree = None
  /\ tree' = p /\ inputs' \in Versions /\ node_modules' = None
  /\ Goto(p, "record")
  /\ UNCHANGED <<state, registered, child, locals, history>>

AddWorktreeFails(p) ==
  /\ pc[p] = "add"
  /\ \/ /\ job[p] = "create" /\ Leave(p)
        /\ UNCHANGED <<tree, files, state, registered, child, history>>
     \/ job[p] = "acquire" /\ HandoffFails(p) /\ UNCHANGED registered

RecordWorktree == registered' = TRUE

RecordNew(p) ==
  /\ pc[p] = "record" /\ RecordWorktree
  /\ Goto(p, IF job[p] = "acquire" THEN "switch" ELSE "fingerprint")
  /\ UNCHANGED <<tree, files, state, child, locals, history>>

(* A slot, be it new or reused, is switched to the branch of its           *)
(* assignment, and its entry refreshed.                                    *)
AssignWorktree(p) ==
  /\ pc[p] = "switch" /\ RecordWorktree
  /\ inputs' \in Versions /\ Goto(p, "fingerprint")
  /\ UNCHANGED <<tree, node_modules, state, child, locals, history>>

(* The registry is written before the index of the host: either may fail.  *)
MaybeRegistered == registered' \in {registered, TRUE}

(* Variant: the worktree stays. *)
RecordWorktreeIgnored(p) ==
  /\ pc[p] \in {"record", "switch"} /\ MaybeRegistered
  /\ Leave(p)
  /\ UNCHANGED <<tree, files, state, child, history>>

RecordWorktreeFails(p) ==
  /\ pc[p] \in {"record", "switch"} /\ MaybeRegistered
  /\ \/ /\ job[p] = "create" /\ Goto(p, "undo")
        /\ UNCHANGED <<tree, files, state, child, locals, history>>
     \/ job[p] = "acquire" /\ HandoffFails(p)

(* git worktree remove --force of a creation that has failed, before its   *)
(* record (undo) or after; it may fail, and leave the folder as it is.     *)
CleanUp(p) ==
  /\ pc[p] \in {"undo", "cleanup"}
  /\ tree' = None /\ node_modules' = None /\ excused' = FALSE
  /\ IF pc[p] = "undo" THEN Leave(p) ELSE Goto(p, "unrecord") /\ UNCHANGED locals
  /\ UNCHANGED <<inputs, state, registered, child, meddled, tainted, late>>

CleanUpFails(p) ==
  /\ pc[p] \in {"undo", "cleanup"}
  /\ excused' = (excused \/ pc[p] = "undo") /\ Leave(p)
  /\ UNCHANGED <<tree, files, state, registered, child, meddled, tainted, late>>

RemoveWorktree(p) ==
  /\ pc[p] = "gitremove" /\ tree # None
  /\ tree' = None /\ node_modules' = None /\ excused' = FALSE /\ Goto(p, "deltree")
  /\ UNCHANGED <<inputs, state, registered, child, locals, meddled, tainted, late>>

RemoveWorktreeFails(p) ==
  /\ pc[p] = "gitremove" /\ Leave(p)
  /\ UNCHANGED <<tree, files, state, registered, child, history>>

DeleteTree(p) ==
  /\ pc[p] = "deltree" /\ record' = None /\ Goto(p, "forget")
  /\ UNCHANGED <<tree, files, ws, registered, child, locals, history>>

ForgetWorktree(p) ==
  /\ pc[p] \in {"forget", "unrecord"} /\ registered' = FALSE /\ Leave(p)
  /\ UNCHANGED <<tree, files, state, child, history>>

ForgettingFails(p) ==
  /\ pc[p] \in {"deltree", "forget", "unrecord"} /\ Leave(p)
  /\ UNCHANGED <<tree, files, state, registered, child, history>>

-----------------------------------------------------------------------------
(* EnsureDependencies, under the lock of the folder.                       *)

(* Variant: the assignment is not looked at again. *)
SyncUnverified(p) ==
  /\ pc[p] = "verify" /\ Goto(p, "fingerprint")
  /\ UNCHANGED <<tree, files, state, registered, child, locals, history>>

VerifyAssignedSync(p) ==
  /\ pc[p] = "verify"
  /\ IF id[p] # None /\ ~Owns(id[p])
       THEN Leave(p)
       ELSE Goto(p, "fingerprint") /\ UNCHANGED locals
  /\ UNCHANGED <<tree, files, state, registered, child, history>>

DependencyFingerprint(p) ==
  /\ pc[p] = "fingerprint" /\ tree # None
  /\ seen' = [seen EXCEPT ![p] = inputs] /\ Goto(p, "check")
  /\ UNCHANGED <<tree, files, state, registered, child, id, found, keep, history>>

Reuse(p, intact) ==
  /\ pc[p] = "check"
  /\ Goto(p, IF record # None /\ record.fingerprint = seen[p] /\ intact THEN "ready"
             ELSE IF record # None THEN "clear" ELSE "install")
  /\ UNCHANGED <<tree, files, state, registered, child, locals, history>>

ProjectionIntegrityValid == record # None /\ node_modules = record.projection

(* Variant: a projection that is there is taken for the recorded one. *)
CheckFingerprintOnly(p) == Reuse(p, node_modules # None)

Check(p) == Reuse(p, ProjectionIntegrityValid)

RemoveProjections(p) ==
  /\ pc[p] = "clear" /\ node_modules' = None /\ Goto(p, "install")
  /\ UNCHANGED <<tree, inputs, state, registered, child, locals, history>>

(* The installer works on what it finds, and writes as it goes.            *)
Prepare(p) ==
  /\ pc[p] = "install" /\ tree # None
  /\ seen' = [seen EXCEPT ![p] = inputs]
  /\ node_modules' = [of |-> inputs, as |-> "partial"]
  /\ meddled' = FALSE /\ Goto(p, "installing")
  /\ UNCHANGED <<tree, inputs, state, registered, child, id, found, keep, tainted, late, excused>>

(* It may bring a lock file up to date, which is an input itself.          *)
InstallerEnds(p) ==
  /\ pc[p] = "installing" /\ tree # None
  /\ \E v \in Versions :
       /\ v = seen[p] \/ inputs = seen[p]
       /\ node_modules' = [of |-> v, as |-> "whole"]
       /\ inputs' = IF v = seen[p] THEN inputs ELSE v
  /\ Goto(p, "rescan")
  /\ UNCHANGED <<tree, state, registered, child, locals, history>>

Rescan(p) ==
  /\ pc[p] = "rescan" /\ tree # None
  /\ seen' = [seen EXCEPT ![p] = inputs] /\ Goto(p, "measure")
  /\ UNCHANGED <<tree, files, state, registered, child, id, found, keep, history>>

(* What is there is measured, and without any projection an installation   *)
(* has failed.                                                             *)
ProjectionPaths == {node_modules} \ {None}

ProjectionFingerprint(p) ==
  /\ pc[p] = "measure"
  /\ \E projection \in ProjectionPaths : found' = [found EXCEPT ![p] = projection]
  /\ Goto(p, "publish")
  /\ UNCHANGED <<tree, files, state, registered, child, id, seen, keep, history>>

Publish(p) ==
  /\ pc[p] = "publish"
  /\ record' = [fingerprint |-> seen[p], projection |-> found[p]]
  /\ tainted' = meddled /\ Goto(p, "ready")
  /\ UNCHANGED <<tree, files, ws, registered, child, locals, meddled, late, excused>>

EnsureFails(p) == pc[p] \in Preparing /\ Fail(p)

(* sync and create are done; an acquisition publishes its assignment.      *)
Prepared(p) ==
  /\ pc[p] = "ready"
  /\ IF job[p] = "acquire"
       THEN Goto(p, IF ws.life = "assigned" THEN "succeed" ELSE "assign") /\ UNCHANGED locals
       ELSE Leave(p)
  /\ UNCHANGED <<tree, files, state, registered, child, history>>

MarkAssigned(p) ==
  /\ pc[p] = "assign"
  /\ \E i \in Ids \ {id[q] : q \in Procs} : Become("assigned", i, TRUE)
  /\ Goto(p, "succeed")
  /\ UNCHANGED <<tree, files, record, registered, child, locals, history>>

RecordAcquisitionSuccess(p) ==
  /\ pc[p] = "succeed" /\ Become("assigned", ws.id, FALSE) /\ Leave(p)
  /\ UNCHANGED <<tree, files, record, registered, child, history>>

-----------------------------------------------------------------------------
(* Release: the projection is validated under the lock, and kept by the    *)
(* git clean that follows the end of the children.                         *)

ValidateAs(p, intact) ==
  /\ pc[p] = "validate"
  /\ IF ws.id = id[p] /\ ~ws.acquiring
       THEN /\ keep' = [keep EXCEPT ![p] = intact]
            /\ late' = FALSE /\ Goto(p, "begin")
            /\ UNCHANGED <<id, seen, found>>
       ELSE Leave(p) /\ UNCHANGED late
  /\ UNCHANGED <<tree, files, state, registered, child, meddled, tainted, excused>>

(* Variant: any recorded projection is preserved. *)
ValidateNothing(p) == ValidateAs(p, record # None)

AssignmentProjections(p) == ValidateAs(p, ProjectionIntegrityValid)

BeginWorkspaceReturn(p) ==
  /\ pc[p] = "begin" /\ Become("returning", ws.id, FALSE) /\ Goto(p, "drain")
  /\ UNCHANGED <<tree, files, record, registered, child, locals, history>>

CleanProcesses(p) ==
  /\ pc[p] = "drain" /\ child' = FALSE /\ Goto(p, "reset")
  /\ UNCHANGED <<tree, files, state, registered, locals, history>>

Return(p) ==
  /\ pc[p] = "reset" /\ tree # None
  /\ node_modules' = IF keep[p] THEN node_modules ELSE None
  /\ inputs' \in Versions /\ Goto(p, "finish")
  /\ UNCHANGED <<tree, state, registered, child, locals, history>>

(* Variant: the assignment stays in the record. *)
FinishAssigned(p) ==
  /\ pc[p] = "finish" /\ Become("available", ws.id, FALSE) /\ Leave(p)
  /\ UNCHANGED <<tree, files, record, registered, child, history>>

FinishWorkspaceReturn(p) ==
  /\ pc[p] = "finish" /\ Become("available", None, FALSE) /\ Leave(p)
  /\ UNCHANGED <<tree, files, record, registered, child, history>>

(* The drain, the reset or the update fails: back to the assignment.       *)
CancelWorkspaceReturn(p) ==
  /\ pc[p] \in {"drain", "reset", "finish"}
  /\ Become("assigned", ws.id, FALSE) /\ Leave(p)
  /\ node_modules' \in IF pc[p] = "reset" /\ ~keep[p] THEN {node_modules, None} ELSE {node_modules}
  /\ UNCHANGED <<tree, inputs, record, registered, child, history>>

-----------------------------------------------------------------------------
(* A command starts in the assigned folder, under its lock, or ends.       *)
Child ==
  /\ ws.id # None
  /\ \/ child /\ child' = FALSE
     \/ ws.life = "assigned" /\ ~ws.acquiring /\ ~child /\ lock = None /\ child' = TRUE
  /\ UNCHANGED <<kind, tree, files, state, registered, locks, pc, job, locals, history>>

(* People work in a plain folder, children in an assigned one, and what is *)
(* left of an installer in a preparation that has failed.                  *)
AtWork == tree # None /\ (kind = "plain" \/ child \/ ws.life \in {"preparing", "failed"})

EditInputs ==
  /\ AtWork /\ inputs' \in Versions \ {inputs}
  /\ meddled' = (meddled \/ \E p \in Procs : pc[p] \in {"installing", "rescan"})
  /\ UNCHANGED <<kind, tree, node_modules, state, registered, locks, child, pc, job, locals,
                 tainted, late, excused>>

EditProjection ==
  /\ AtWork /\ node_modules # None
  /\ node_modules' \in {None, [node_modules EXCEPT !.as = "edited"]}
  /\ meddled' = (meddled \/ \E p \in Procs : pc[p] \in Installing)
  /\ late' = (late \/ \E p \in Procs : pc[p] \in {"begin", "drain"})
  /\ UNCHANGED <<kind, tree, inputs, state, registered, locks, child, pc, job, locals, tainted, excused>>

(* The process dies: its locks are recovered, an installer of a sync goes  *)
(* on as a tracked child.                                                  *)
Crash(p) ==
  /\ pc[p] # "idle" /\ Leave(p)
  /\ excused' = (excused \/ pc[p] \in {"record", "undo"})
  /\ child' = (child \/ (pc[p] = "installing" /\ ws.id # None))
  /\ UNCHANGED <<tree, files, state, registered, meddled, tainted, late>>

Create(p) == CreateCommand(p) \/ CleanUp(p) \/ CleanUpFails(p)
Remove(p) ==
  \/ RemoveCommand(p) \/ RemoveWorktree(p) \/ RemoveWorktreeFails(p)
  \/ DeleteTree(p) \/ ForgetWorktree(p) \/ ForgettingFails(p)
Acquire(p) ==
  \/ AcquireCommand(p) \/ Reserve(p) \/ MarkAssigned(p) \/ RecordAcquisitionSuccess(p)
Release(p) ==
  \/ ReleaseCommand(p) \/ AssignmentProjections(p) \/ BeginWorkspaceReturn(p) \/ CleanProcesses(p)
  \/ Return(p) \/ FinishWorkspaceReturn(p) \/ CancelWorkspaceReturn(p)
Ensure(p) ==
  \/ VerifyAssignedSync(p) \/ DependencyFingerprint(p) \/ Check(p) \/ RemoveProjections(p)
  \/ Prepare(p) \/ InstallerEnds(p) \/ Rescan(p) \/ ProjectionFingerprint(p) \/ Publish(p)
  \/ EnsureFails(p) \/ Prepared(p)

Next ==
  \/ \E p \in Procs :
       \/ SyncCommand(p) \/ GuardedCommand(p) \/ PrimaryFence(p) \/ GuardedWorkEnds(p)
       \/ WorkspaceLock(p) \/ AddWorktree(p) \/ AddWorktreeFails(p)
       \/ RecordNew(p) \/ AssignWorktree(p)
       \/ RecordWorktreeFails(p) \/ Create(p) \/ Remove(p) \/ Acquire(p) \/ Release(p) \/ Ensure(p) \/ Crash(p)
  \/ Child \/ EditInputs \/ EditProjection

Spec == Init /\ [][Next]_vars

-----------------------------------------------------------------------------
(* EnsureDependencies succeeds only with a whole projection of the inputs  *)
(* that it reports, whether it has reused one or installed it, and         *)
(* whatever earlier commands, crashes, people and children have left of    *)
(* it; unless files have changed under the installation itself.            *)
PreparedIsReady ==
  [][\A p \in Procs :
       pc[p] # "ready" /\ pc'[p] = "ready" /\ ~tainted' =>
         node_modules' = [of |-> seen[p], as |-> "whole"]]_vars

(* A release lets nothing into the pool but what the record of the slot    *)
(* describes, except for what a child has changed between the validation   *)
(* and its own end: whatever earlier commands, failures and crashes have   *)
(* left of the projection, the release sees and discards.                  *)
OnlyLateChangesEnter ==
  [][ws.life = "returning" /\ ws'.life = "available" /\ node_modules' # None /\ ~late =>
       record # None /\ node_modules' = record.projection]_vars

(* A sync that has read an assignment touches the folder only while it     *)
(* still belongs to that assignment.                                       *)
SyncStaysFenced ==
  \A p \in Procs : job[p] = "sync" /\ pc[p] \in Preparing /\ id[p] # None => Owns(id[p])

(* A creation that fails removes by force nothing but the worktree that it *)
(* has added itself.                                                       *)
CleanupRemovesItsOwn ==
  \A p \in Procs : pc[p] \in {"undo", "cleanup"} => tree = p

(* A worktree that ruk has made is in the registry, whatever failed while  *)
(* it was made: a plain one when nobody works on it, a slot as soon as it  *)
(* can be assigned ("recording failures fail visibly instead of leaving a  *)
(* silently untracked worktree", cli/worktree_tracking.go).  Excused is a  *)
(* plain worktree whose creation died before the registry was written, or  *)
(* could neither record nor remove it.  The registry may have more: what   *)
(* is gone stays in it when the index has failed after it, or a removal    *)
(* has died before its last step.                                          *)
WorktreesAreTracked ==
  /\ kind = "plain" /\ lock = None /\ tree # None => registered \/ excused
  /\ kind = "pooled" /\ ws.life \in {"available", "assigned", "returning"} => registered

(* Guarded work in the primary checkout, and an assignment, exclude each   *)
(* other ("so acquisition cannot publish between them").                   *)
GuardedWorkIsAlone == \A p \in Procs : pc[p] = "guarded" => ws.id = None

-----------------------------------------------------------------------------
(* What the documents say, and a child that goes on refutes.               *)

(* "Recorded dependency projections are integrity-validated before reuse;  *)
(* modified projections are discarded instead of entering the pool"        *)
(* (docs/architecture.md): a release validates before it ends the children.*)
ReturnsIntactProjections ==
  [][ws.life = "returning" /\ ws'.life = "available" /\ node_modules' # None =>
       record # None /\ node_modules' = record.projection]_vars
=============================================================================
