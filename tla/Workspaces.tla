----------------------------- MODULE Workspaces -----------------------------
(***************************************************************************)
(* The workspace pool of internal/lifecycle: ruk processes acquire, warm,  *)
(* run in, release and collect Git worktrees.  They share the state file   *)
(* (one record per path, every Update one atomic step), the repository     *)
(* locks, the worktrees themselves and the children they spawn.  A command *)
(* is a sequence of steps; between two of them any other process may move, *)
(* and the process may die, leaving record, worktree and children as they  *)
(* are.  A dead process's locks are free again (DirectoryLock); the next   *)
(* invocation takes its place in Procs.                                    *)
(***************************************************************************)
EXTENDS FiniteSets

CONSTANTS
  Procs,      \* concurrent ruk invocations, each with at most one child
  Paths,      \* workspace paths
  Ids,        \* assignment and operation IDs in use at one time
  None,
  Commands,   \* the ruk commands in use
  Locking,    \* whether a lock that is held keeps others out (see DirectoryLock)
  Ties,       \* {FALSE}, or BOOLEAN: updates may share a timestamp
  CutShort,   \* whether a removal may be killed when half of the files are gone
  ListFails   \* whether a collection may fail to list the worktrees

ASSUME ConstantsAssumption ==
  /\ None \notin Procs \cup Paths \cup Ids
  /\ {"primary", "pool"} \cap Paths = {}
  /\ Commands \subseteq {"acquire", "warm", "run", "sync", "release", "gc"}
  /\ Ties \subseteq BOOLEAN /\ {Locking, CutShort, ListFails} \subseteq BOOLEAN


VARIABLES
  rec,     \* the state file's workspace records
  tree,    \* the worktree at each path
  locked,  \* paths of worktrees locked in Git
  alive,   \* path in which the child of each process runs, if it does
  loose,   \* children alive that no record has named
  holder,  \* owner of each directory lock
  pc,      \* next step of each process
  job,     \* what its command has come to
  ws,      \* workspace it works on
  id,      \* assignment or operation ID that it carries as its fence
  fence,   \* ID under which its child is to be registered
  todo     \* children it has still to see the end of: its own, or, in a
           \* return or a collection, the recorded ones

git == <<tree, locked>>
kids == <<alive, loose>>
own == <<job, ws, id, fence, todo>>
vars == <<rec, tree, locked, alive, loose, holder, pc, job, ws, id, fence, todo>>

Lives == {"absent", "preparing", "assigned", "returning", "available", "failed"}

(* A record names the children registered in it (procs).  An assignment    *)
(* and its acquisition operation share one number.  UpdatedAt is the set   *)
(* of the collecting processes that have read its present value (seen): an *)
(* update fence holds for exactly those.                                   *)
Records == [life : Lives, op : Ids \cup {None}, asg : Ids \cup {None}, procs : SUBSET Procs,
            expired : BOOLEAN, failed : BOOLEAN, seen : SUBSET Procs]

NoRecord == [life |-> "absent", op |-> None, asg |-> None, procs |-> {},
             expired |-> FALSE, failed |-> FALSE, seen |-> {}]

(* A worktree is on a detached commit or on an assignment's branch; a      *)
(* removal cut short leaves some of its files.                             *)
Trees == {"none", "detached", "attached", "damaged"}

(* A process takes its locks in this order; the warm lock is only ever     *)
(* taken inside the pool lock and is one with it here.                     *)
Locks == {"primary", "pool"} \cup Paths

Collections == {"available", "failed", "preparing", "interrupted"}
Recoveries == {"abandoned", "expired"}
Acquisitions == {"fresh", "warm", "assigned"}
Jobs == {"none", "acquire", "run", "sync", "release"} \cup Acquisitions \cup Collections \cup Recoveries

Steps == {"idle", "pool", "reserve", "begin", "verify", "create", "gitlock", "assign", "prepare",
          "register", "wait", "prepared", "succeed", "fail", "cleanup", "retain", "enter",
          "return", "clean", "reset", "finish", "cancelReturn", "collect", "drain", "fence",
          "unlock", "remove", "relock", "cancel", "forget", "leave"}

(* The state file, the worktrees, the children and the processes all have  *)
(* the shape that the code gives them.                                     *)
TypeOK ==
  /\ rec \in [Paths -> Records]
  /\ tree \in [Paths -> Trees] /\ locked \subseteq Paths
  /\ alive \in [Procs -> Paths \cup {None}] /\ loose \subseteq Procs
  /\ holder \in [Locks -> Procs \cup {None}]
  /\ pc \in [Procs -> Steps] /\ job \in [Procs -> Jobs]
  /\ ws \in [Procs -> Paths \cup {None}]
  /\ id \in [Procs -> Ids \cup {None}] /\ fence \in [Procs -> Ids \cup {None}]
  /\ todo \in [Procs -> SUBSET Procs]

Init ==
  /\ rec = [w \in Paths |-> NoRecord]
  /\ tree = [w \in Paths |-> "none"] /\ locked = {}
  /\ alive = [p \in Procs |-> None] /\ loose = {}
  /\ holder = [l \in Locks |-> None]
  /\ pc = [p \in Procs |-> "idle"] /\ job = [p \in Procs |-> "none"]
  /\ ws = [p \in Procs |-> None]
  /\ id = [p \in Procs |-> None] /\ fence = [p \in Procs |-> None]
  /\ todo = [p \in Procs |-> {}]

-----------------------------------------------------------------------------
(* Variant: an ID may be drawn that another workspace has already. *)
FreshToProcesses(n) == \A p \in Procs : n \notin {id[p], fence[p]}

(* A random ID is new to every record and to every process. *)
Fresh(n) == /\ \A w \in Paths : n \notin {rec[w].op, rec[w].asg}
            /\ \A p \in Procs : n \notin {id[p], fence[p]}

My(p) == rec[ws[p]]
IsWorktree(w) == tree[w] # "none"

At(p, step) == pc[p] = step
Goto(p, step) == pc' = [pc EXCEPT ![p] = step]
Become(p, j) == job' = [job EXCEPT ![p] = j]
Choose(p, w) == ws' = [ws EXCEPT ![p] = w]
Carry(p, n) == id' = [id EXCEPT ![p] = n]

(* store.Update with the time of the present millisecond, which may be the *)
(* one the record has already; or with one later than the record's.        *)
Write(p, w, r) ==
  \E tie \in Ties :
    rec' = [rec EXCEPT ![w] = [r EXCEPT !.seen = IF tie THEN @ ELSE @ \cap {p}]]
WriteLater(p, w, r) == rec' = [rec EXCEPT ![w] = [r EXCEPT !.seen = @ \cap {p}]]

(* Directory locks.  Without Locking, as if each lock were lost as soon as *)
(* it is taken: only the fences are left.                                  *)
Hold(p, l, locks) == IF Locking THEN [locks EXCEPT ![l] = p] ELSE locks
Take(p, l) == holder[l] = None /\ holder' = Hold(p, l, holder)
Given(p, ls) == [l \in Locks |-> IF l \in ls /\ holder[l] = p THEN None ELSE holder[l]]

(* verifyAssignment and verifyPreparation: whether an acquisition still    *)
(* has its workspace; and whether a child may be named in a record under   *)
(* the ID that its process read from it.                                   *)
Acquiring(p) == My(p).life = "assigned" /\ My(p).op = id[p] /\ My(p).asg # None
Preparing(p) == My(p).life = "preparing" /\ My(p).op = id[p]
Holds(p) == IF job[p] = "assigned" THEN Acquiring(p) ELSE Preparing(p)
Names(n, w) == \/ rec[w].life = "assigned" /\ rec[w].asg = n
               \/ rec[w].life = "preparing" /\ rec[w].op = n

(* The ID that EnsureDependencies finds in the record, if it has one.      *)
Snapshot(w) == CASE rec[w].life = "assigned" -> rec[w].asg
                 [] rec[w].life = "preparing" -> rec[w].op
                 [] OTHER -> None

Reusable(w) == rec[w].life = "available" /\ rec[w].op = None

-----------------------------------------------------------------------------
(* The end of a command: its locks are released, after its last update.  A *)
(* crash ends it at any step.                                              *)
End(p) ==
  /\ Goto(p, "idle") /\ Become(p, "none") /\ Choose(p, None) /\ Carry(p, None)
  /\ fence' = [fence EXCEPT ![p] = None] /\ todo' = [todo EXCEPT ![p] = {}]
  /\ holder' = Given(p, Locks)
  /\ rec' = [w \in Paths |-> [rec[w] EXCEPT !.seen = @ \ {p}]]
  /\ UNCHANGED <<git, kids>>

Leave(p) == At(p, "leave") /\ End(p)

Crash(p) == ~At(p, "idle") /\ End(p)

Stop(p) == Goto(p, "leave") /\ UNCHANGED <<rec, git, kids, holder, own>>

-----------------------------------------------------------------------------
(* ruk acquire holds the primary checkout's lock from beginning to end.  A *)
(* requested path that is not available is prepared afresh, as is a new    *)
(* one when nothing is available.                                          *)
StartAcquire(p) ==
  /\ "acquire" \in Commands /\ At(p, "idle") /\ Take(p, "primary")
  /\ Goto(p, "pool") /\ Become(p, "acquire")
  /\ UNCHANGED <<rec, git, kids, ws, id, fence, todo>>

SelectReusable(p) ==
  /\ At(p, "pool") /\ Take(p, "pool")
  /\ \E w \in Paths : Reusable(w) /\ Choose(p, w)
  /\ Goto(p, "reserve")
  /\ UNCHANGED <<rec, git, kids, job, id, fence, todo>>

SelectFresh(p) ==
  /\ At(p, "pool") /\ holder["pool"] = None
  /\ \E w \in Paths : ~Reusable(w) /\ Choose(p, w)
  /\ Goto(p, "begin") /\ Become(p, "fresh")
  /\ UNCHANGED <<rec, git, kids, holder, id, fence, todo>>

Assigned(r, n) == [r EXCEPT !.life = "assigned", !.op = n, !.asg = n, !.expired = FALSE,
                            !.failed = FALSE]

(* The selected workspace is reserved under its own lock, and only then is *)
(* the pool lock given back.                                               *)
Reserve(p) ==
  /\ At(p, "reserve") /\ holder[ws[p]] = None /\ Reusable(ws[p])
  /\ \E n \in Ids : Fresh(n) /\ Write(p, ws[p], Assigned(My(p), n)) /\ Carry(p, n)
  /\ holder' = Hold(p, ws[p], Given(p, {"pool"}))
  /\ Goto(p, "verify") /\ Become(p, "assigned")
  /\ UNCHANGED <<git, kids, ws, fence, todo>>

ReserveChanged(p) ==
  /\ At(p, "reserve") /\ holder[ws[p]] = None /\ ~Reusable(ws[p])
  /\ holder' = Given(p, {"pool"})
  /\ Goto(p, "pool") /\ Choose(p, None)
  /\ UNCHANGED <<rec, git, kids, job, id, fence, todo>>

(* ruk warm holds the pool lock throughout, and takes the lock of the      *)
(* workspace only to install dependencies.                                 *)
StartWarm(p) ==
  /\ "warm" \in Commands /\ At(p, "idle") /\ Take(p, "pool")
  /\ \E w \in Paths : Choose(p, w)
  /\ Goto(p, "begin") /\ Become(p, "warm")
  /\ UNCHANGED <<rec, git, kids, id, fence, todo>>

LockToBegin(p) == IF job[p] = "warm" THEN UNCHANGED holder ELSE Take(p, ws[p])

BeginPreparation(p) ==
  /\ At(p, "begin") /\ LockToBegin(p) /\ My(p).life = "absent"
  /\ \E n \in Ids : /\ Fresh(n) /\ Carry(p, n)
                    /\ Write(p, ws[p], [My(p) EXCEPT !.life = "preparing", !.op = n])
  /\ Goto(p, IF job[p] = "warm" THEN "create" ELSE "verify")
  /\ UNCHANGED <<git, kids, job, ws, fence, todo>>

AlreadyManaged(p) == At(p, "begin") /\ My(p).life # "absent" /\ Stop(p)

(* A lost fence at this point ends the command without any cleanup.        *)
Verify(p) ==
  /\ At(p, "verify") /\ Holds(p)
  /\ Goto(p, IF job[p] = "assigned" THEN "assign" ELSE "create")
  /\ UNCHANGED <<rec, git, kids, holder, own>>

VerifyFails(p) == At(p, "verify") /\ ~Holds(p) /\ Stop(p)

(* The Git commands of an acquisition.  Each may fail without effect; a    *)
(* checkout may also fail after the worktree has been added.               *)
AddWorktree(p) ==
  /\ At(p, "create") /\ tree[ws[p]] = "none"
  /\ tree' = [tree EXCEPT ![ws[p]] = "detached"]
  /\ Goto(p, "gitlock") \/ Goto(p, "fail")
  /\ UNCHANGED <<rec, locked, kids, holder, own>>

LockWorktree(p) ==
  /\ At(p, "gitlock") /\ IsWorktree(ws[p]) /\ ws[p] \notin locked
  /\ locked' = locked \cup {ws[p]}
  /\ Goto(p, IF job[p] = "warm" THEN "prepare" ELSE "assign")
  /\ UNCHANGED <<rec, tree, kids, holder, own>>

AssignWorktree(p) ==
  /\ At(p, "assign") /\ IsWorktree(ws[p])
  /\ tree' = [tree EXCEPT ![ws[p]] = IF @ = "damaged" THEN @ ELSE "attached"]
  /\ Goto(p, "prepare")
  /\ UNCHANGED <<rec, locked, kids, holder, own>>

(* Variant: a failed switch to the assignment's branch is not noticed. *)
GitFailsIgnored(p) ==
  /\ pc[p] \in {"create", "gitlock", "assign"}
  /\ Goto(p, IF pc[p] = "assign" THEN "prepare" ELSE "fail")
  /\ UNCHANGED <<rec, git, kids, holder, own>>

GitFails(p) ==
  /\ pc[p] \in {"create", "gitlock", "assign"}
  /\ Goto(p, "fail")
  /\ UNCHANGED <<rec, git, kids, holder, own>>

-----------------------------------------------------------------------------
(* Children.  Each process has at most one that any record or drain may    *)
(* still name.  An acquisition's installer runs under the locks that the   *)
(* acquisition holds; ruk warm takes the workspace lock for it.            *)
CanSpawn(p) == /\ IsWorktree(ws[p]) /\ alive[p] = None
               /\ \A w \in Paths : p \notin rec[w].procs
               /\ \A q \in Procs : p \notin todo[q]

Spawn(p, n) ==
  /\ CanSpawn(p)
  /\ alive' = [alive EXCEPT ![p] = ws[p]] /\ loose' = loose \cup {p}
  /\ fence' = [fence EXCEPT ![p] = n] /\ todo' = [todo EXCEPT ![p] = {p}]
  /\ Goto(p, "register")

LockToPrepare(p) == IF job[p] = "warm" THEN Take(p, ws[p]) ELSE UNCHANGED holder

EnsureDependencies(p) ==
  /\ At(p, "prepare") /\ LockToPrepare(p)
  /\ Spawn(p, Snapshot(ws[p]))
  /\ UNCHANGED <<rec, git, job, ws, id>>

AlreadyAttached(p) ==
  /\ At(p, "prepare") /\ (job[p] = "warm" => holder[ws[p]] = None)
  /\ Goto(p, "prepared")
  /\ UNCHANGED <<rec, git, kids, holder, own>>

PrepareFails(p) ==
  /\ At(p, "prepare") /\ (job[p] = "warm" => holder[ws[p]] = None)
  /\ Goto(p, "fail")
  /\ UNCHANGED <<rec, git, kids, holder, own>>

(* Variant: path and assignment ID, both strings, are taken for each other. *)
StartRunSwapped(p) ==
  /\ "run" \in Commands /\ At(p, "idle")
  /\ \E w \in Paths : /\ rec[w].life = "assigned" /\ rec[w].op = None
                      /\ Choose(p, rec[w].asg) /\ Carry(p, w)
  /\ Goto(p, "enter") /\ Become(p, "run")
  /\ UNCHANGED <<rec, git, kids, holder, fence, todo>>

(* ruk run and ruk sync read the assignment before they lock the workspace *)
(* and validate it again afterwards.  ruk sync in a worktree that nobody   *)
(* is assigned to installs too.                                            *)
StartRun(p) ==
  /\ "run" \in Commands /\ At(p, "idle")
  /\ \E w \in Paths : /\ rec[w].life = "assigned" /\ rec[w].op = None
                      /\ Choose(p, w) /\ Carry(p, rec[w].asg)
  /\ Goto(p, "enter") /\ Become(p, "run")
  /\ UNCHANGED <<rec, git, kids, holder, fence, todo>>

StartSync(p) ==
  /\ "sync" \in Commands /\ At(p, "idle")
  /\ \E w \in Paths : /\ IsWorktree(w)
                      /\ rec[w].life = "assigned" => rec[w].op = None
                      /\ Choose(p, w)
                      /\ Carry(p, IF rec[w].life = "assigned" THEN rec[w].asg ELSE None)
  /\ Goto(p, "enter") /\ Become(p, "sync")
  /\ UNCHANGED <<rec, git, kids, holder, fence, todo>>

Valid(p) == My(p).life = "assigned" /\ My(p).asg = id[p] /\ My(p).op = None

Enter(p) ==
  /\ At(p, "enter") /\ Take(p, ws[p])
  /\ id[p] # None => Valid(p)
  /\ Spawn(p, IF job[p] = "run" THEN id[p] ELSE Snapshot(ws[p]))
  /\ UNCHANGED <<rec, git, job, ws, id>>

EnterFails(p) ==
  /\ At(p, "enter") /\ holder[ws[p]] = None
  /\ (id[p] # None => Valid(p)) => ~IsWorktree(ws[p])
  /\ Stop(p)

(* The child is named in the record before anything else happens to it.    *)
(* ruk run gives the workspace lock back at this moment.                   *)
Register(p) ==
  /\ At(p, "register") /\ fence[p] # None /\ Names(fence[p], ws[p])
  /\ IF job[p] = "run"
     THEN /\ Valid(p) /\ holder' = Given(p, {ws[p]})
          /\ Write(p, ws[p], [My(p) EXCEPT !.procs = @ \cup {p}])
     ELSE UNCHANGED holder /\ WriteLater(p, ws[p], [My(p) EXCEPT !.procs = @ \cup {p}])
  /\ loose' = loose \ {p}
  /\ Goto(p, "wait")
  /\ UNCHANGED <<git, alive, own>>

(* An installer in a workspace without an owner is not tracked.            *)
Untracked(p) ==
  /\ At(p, "register") /\ fence[p] = None
  /\ Goto(p, "wait")
  /\ UNCHANGED <<rec, git, kids, holder, own>>

(* ruk warm's lock on the workspace ends with the installation.  A command *)
(* that cannot go on leaves, but an acquisition has a state to restore.    *)
Installed(p) == holder' = IF job[p] = "warm" THEN Given(p, {ws[p]}) ELSE holder

Abort(p) == Goto(p, IF job[p] \in Acquisitions THEN "fail" ELSE "leave") /\ Installed(p)

Kill(q) == alive' = [alive EXCEPT ![q] = None] /\ loose' = loose \ {q}
Ended(p) == todo' = [todo EXCEPT ![p] = {}]

(* The child's identity cannot be read, or its record cannot be written:   *)
(* it is terminated, or left alone when that is not known to be safe.      *)
RegisterFails(p) ==
  /\ At(p, "register")
  /\ \/ Kill(p) /\ Ended(p)
     \/ UNCHANGED kids /\ UNCHANGED todo
  /\ Abort(p)
  /\ UNCHANGED <<rec, git, job, ws, id, fence>>

(* The child has exited and its name is removed from the record.           *)
MayRemove(p) == IF job[p] = "run"
                THEN My(p).life \in {"assigned", "returning"} /\ My(p).asg = fence[p]
                ELSE Names(fence[p], ws[p])

AfterInstall(p) ==
  /\ IF job[p] \in Acquisitions THEN Goto(p, "prepared") \/ Goto(p, "fail") ELSE Goto(p, "leave")
  /\ Installed(p)

Unregister(p) ==
  /\ At(p, "wait") /\ alive[p] = None /\ fence[p] # None
  /\ MayRemove(p) /\ p \in My(p).procs
  /\ LET r == [My(p) EXCEPT !.procs = @ \ {p}]
     IN IF job[p] = "run" THEN Write(p, ws[p], r) ELSE WriteLater(p, ws[p], r)
  /\ AfterInstall(p)
  /\ Ended(p)
  /\ UNCHANGED <<git, kids, job, ws, id, fence>>

UnregisterFails(p) ==
  /\ At(p, "wait") /\ alive[p] = None /\ fence[p] # None
  /\ ~(MayRemove(p) /\ p \in My(p).procs)
  /\ Abort(p)
  /\ Ended(p)
  /\ UNCHANGED <<rec, git, kids, job, ws, id, fence>>

UntrackedExits(p) ==
  /\ At(p, "wait") /\ alive[p] = None /\ fence[p] = None
  /\ AfterInstall(p)
  /\ Ended(p)
  /\ UNCHANGED <<rec, git, kids, job, ws, id, fence>>

(* A child that cannot be proved dead, be it an aborted installer or a     *)
(* detached tree whose leader has exited: the command ends before it.      *)
Unsafe(p) ==
  /\ At(p, "wait") /\ alive[p] # None
  /\ Abort(p)
  /\ UNCHANGED <<rec, git, kids, own>>

-----------------------------------------------------------------------------
(* The end of an acquisition.  A warm slot must not have a child; a fresh  *)
(* workspace becomes an assignment with a number of its own.               *)
MarkAvailable(p) ==
  /\ At(p, "prepared") /\ job[p] = "warm" /\ Preparing(p) /\ My(p).procs = {}
  /\ WriteLater(p, ws[p], [My(p) EXCEPT !.life = "available", !.op = None])
  /\ Goto(p, "leave")
  /\ UNCHANGED <<git, kids, holder, own>>

MarkAssigned(p) ==
  /\ At(p, "prepared") /\ job[p] = "fresh" /\ Preparing(p)
  /\ \E n \in Ids : Fresh(n) /\ Write(p, ws[p], Assigned(My(p), n)) /\ Carry(p, n)
  /\ Goto(p, "succeed") /\ Become(p, "assigned")
  /\ UNCHANGED <<git, kids, holder, ws, fence, todo>>

VerifyPrepared(p) ==
  /\ At(p, "prepared") /\ job[p] = "assigned" /\ Acquiring(p)
  /\ Goto(p, "succeed")
  /\ UNCHANGED <<rec, git, kids, holder, own>>

PreparedFails(p) ==
  /\ At(p, "prepared") /\ (Holds(p) => job[p] = "warm" /\ My(p).procs # {})
  /\ Goto(p, "fail")
  /\ UNCHANGED <<rec, git, kids, holder, own>>

(* Port allocation, RefreshAcquisitionLease and RecordAcquisitionSuccess,  *)
(* which all stand under the same fence.  Ports may be unavailable.        *)
RecordAcquisitionSuccess(p) ==
  /\ At(p, "succeed") /\ Acquiring(p)
  /\ Write(p, ws[p], [My(p) EXCEPT !.op = None, !.expired = FALSE])
  /\ Goto(p, "leave")
  /\ UNCHANGED <<git, kids, holder, own>>

SuccessFails(p) ==
  /\ At(p, "succeed")
  /\ Goto(p, "fail")
  /\ UNCHANGED <<rec, git, kids, holder, own>>

(* Variant: the cleanup does not ask whether the installer may be alive. *)
FailUnsafely(p) ==
  /\ At(p, "fail") /\ (job[p] = "assigned" => Acquiring(p))
  /\ Goto(p, IF job[p] = "warm" THEN "retain" ELSE "cleanup")
  /\ UNCHANGED <<rec, git, kids, holder, own>>

(* failAssigned verifies the fence before it touches the worktree;         *)
(* failPreparation and markWarmFailed do not.  Nothing is cleaned up under *)
(* a child that may be alive, or for ruk warm.                             *)
Fail(p) ==
  /\ At(p, "fail") /\ (job[p] = "assigned" => Acquiring(p))
  /\ Goto(p, IF job[p] = "warm" \/ todo[p] # {} THEN "retain" ELSE "cleanup")
  /\ UNCHANGED <<rec, git, kids, holder, own>>

HandoffLost(p) == At(p, "fail") /\ job[p] = "assigned" /\ ~Acquiring(p) /\ Stop(p)

(* git reset, clean and switch --detach: all of it, or it failed.          *)
ReturnWorktree(w) == \/ IsWorktree(w) /\ tree' = [tree EXCEPT ![w] = "detached"]
                     \/ UNCHANGED tree

Cleanup(p) ==
  /\ At(p, "cleanup") /\ ReturnWorktree(ws[p])
  /\ Goto(p, "retain")
  /\ UNCHANGED <<rec, locked, kids, holder, own>>

(* The record keeps the name of a child that may be alive (todo), if its   *)
(* identity could be read.                                                 *)
Retain(p) ==
  /\ At(p, "retain") /\ Holds(p)
  /\ \E named \in SUBSET todo[p] :
       /\ loose' = loose \ named
       /\ WriteLater(p, ws[p],
            [My(p) EXCEPT !.op = None, !.failed = TRUE, !.procs = @ \cup named,
                          !.life = IF job[p] = "assigned" THEN @ ELSE "failed"])
  /\ Goto(p, "leave")
  /\ UNCHANGED <<git, alive, holder, own>>

RetainFails(p) == At(p, "retain") /\ ~Holds(p) /\ Stop(p)

-----------------------------------------------------------------------------
(* ruk release, also within a forced or recovering collection, which holds *)
(* the workspace lock already and adds its own fences.                     *)
StartRelease(p) ==
  /\ "release" \in Commands /\ At(p, "idle")
  /\ \E w \in Paths : rec[w].asg # None /\ Choose(p, w) /\ Carry(p, rec[w].asg)
  /\ Goto(p, "return") /\ Become(p, "release")
  /\ UNCHANGED <<rec, git, kids, holder, fence, todo>>

(* Variant: ruk release does not take the workspace lock. *)
LockToReturnOmitted(p) == UNCHANGED holder

LockToReturn(p) == IF job[p] = "release" THEN Take(p, ws[p]) ELSE UNCHANGED holder

(* Variant: a forced collection does not look at the lease again. *)
ReturnFencesUnexpired(p) ==
  CASE job[p] = "release" -> My(p).op = None
    [] job[p] = "abandoned" -> My(p).op = id[p] /\ p \in My(p).seen
    [] job[p] = "expired" -> My(p).op = None

ReturnFences(p) ==
  CASE job[p] = "release" -> My(p).op = None
    [] job[p] = "abandoned" -> My(p).op = id[p] /\ p \in My(p).seen
    [] job[p] = "expired" -> My(p).op = None /\ My(p).expired /\ p \in My(p).seen

Mine(p) == My(p).asg = id[p]

(* Variant: the failure of an earlier attempt is not cleared. *)
ReturnKeepsFailure(p) ==
  /\ At(p, "return") /\ LockToReturn(p)
  /\ Mine(p) /\ My(p).life = "assigned" /\ ReturnFences(p)
  /\ Write(p, ws[p], [My(p) EXCEPT !.life = "returning"])
  /\ todo' = [todo EXCEPT ![p] = My(p).procs]
  /\ Goto(p, "clean")
  /\ UNCHANGED <<git, kids, job, ws, id, fence>>

BeginWorkspaceReturn(p) ==
  /\ At(p, "return") /\ LockToReturn(p)
  /\ Mine(p) /\ My(p).life = "assigned" /\ ReturnFences(p)
  /\ Write(p, ws[p], [My(p) EXCEPT !.life = "returning", !.failed = FALSE])
  /\ todo' = [todo EXCEPT ![p] = My(p).procs]
  /\ Goto(p, "clean")
  /\ UNCHANGED <<git, kids, job, ws, id, fence>>

ResumeReturn(p) ==
  /\ At(p, "return") /\ LockToReturn(p)
  /\ Mine(p) /\ My(p).life = "returning"
  /\ todo' = [todo EXCEPT ![p] = My(p).procs]
  /\ Goto(p, "clean")
  /\ UNCHANGED <<rec, git, kids, job, ws, id, fence>>

ReturnRefused(p) ==
  /\ At(p, "return") /\ (job[p] = "release" => holder[ws[p]] = None)
  /\ ~Mine(p) \/ (My(p).life = "assigned" /\ ~ReturnFences(p))
  /\ Stop(p)

(* A recorded child is terminated and then forgotten, one after another.   *)
Drainable(p, q) == /\ q \in todo[p] /\ q \in My(p).procs
                   /\ Mine(p) /\ My(p).life \in {"assigned", "returning"}

(* Variant: the name is removed without waiting for the end of the child. *)
CleanProcessUnseen(p) ==
  /\ At(p, "clean")
  /\ \E q \in todo[p] :
       /\ Drainable(p, q)
       /\ Write(p, ws[p], [My(p) EXCEPT !.procs = @ \ {q}])
       /\ todo' = [todo EXCEPT ![p] = @ \ {q}]
  /\ UNCHANGED <<git, kids, holder, pc, job, ws, id, fence>>

CleanProcess(p) ==
  /\ At(p, "clean")
  /\ \E q \in todo[p] :
       /\ Drainable(p, q) /\ Kill(q)
       /\ Write(p, ws[p], [My(p) EXCEPT !.procs = @ \ {q}])
       /\ todo' = [todo EXCEPT ![p] = @ \ {q}]
  /\ UNCHANGED <<git, holder, pc, job, ws, id, fence>>

(* The name is gone already: the command whose child it was removed it.    *)
CleanRaced(p) ==
  /\ At(p, "clean")
  /\ \E q \in todo[p] : ~Drainable(p, q) /\ Kill(q)
  /\ Goto(p, "cancelReturn")
  /\ UNCHANGED <<rec, git, holder, own>>

NotDrained(p) ==
  /\ At(p, "clean") /\ \E q \in todo[p] : alive[q] # None
  /\ Goto(p, "cancelReturn")
  /\ UNCHANGED <<rec, git, kids, holder, own>>

CleanedUp(p) ==
  /\ At(p, "clean") /\ todo[p] = {}
  /\ Goto(p, "reset")
  /\ UNCHANGED <<rec, git, kids, holder, own>>

Reset(p) ==
  /\ At(p, "reset") /\ IsWorktree(ws[p])
  /\ tree' = [tree EXCEPT ![ws[p]] = "detached"]
  /\ Goto(p, "finish")
  /\ UNCHANGED <<rec, locked, kids, holder, own>>

(* A failed reset locks the worktree again, if it was not locked.          *)
ResetFails(p) ==
  /\ At(p, "reset")
  /\ locked' = locked \cup {w \in {ws[p]} : IsWorktree(w)}
  /\ Goto(p, "cancelReturn")
  /\ UNCHANGED <<rec, tree, kids, holder, own>>

(* Variant: the return does not ask whether a child has been registered *)
(* since the drain.                                                     *)
FinishUndrained(p) ==
  /\ At(p, "finish") /\ Mine(p) /\ My(p).life = "returning"
  /\ Write(p, ws[p], [NoRecord EXCEPT !.life = "available", !.procs = My(p).procs,
                                      !.seen = IF job[p] = "release" THEN {} ELSE {p}])
  /\ Goto(p, IF job[p] = "release" THEN "leave" ELSE "fence")
  /\ UNCHANGED <<git, kids, holder, own>>

(* A collection goes on with the time stamp that this update returns.      *)
FinishWorkspaceReturn(p) ==
  /\ At(p, "finish") /\ Mine(p) /\ My(p).life = "returning" /\ My(p).procs = {}
  /\ Write(p, ws[p], [NoRecord EXCEPT !.life = "available",
                                      !.seen = IF job[p] = "release" THEN {} ELSE {p}])
  /\ Goto(p, IF job[p] = "release" THEN "leave" ELSE "fence")
  /\ UNCHANGED <<git, kids, holder, own>>

FinishFails(p) ==
  /\ At(p, "finish") /\ ~(Mine(p) /\ My(p).life = "returning" /\ My(p).procs = {})
  /\ Goto(p, "cancelReturn")
  /\ UNCHANGED <<rec, git, kids, holder, own>>

(* Ownership is restored, and an acquisition's mark is left as it was.     *)
CancelWorkspaceReturn(p) ==
  /\ At(p, "cancelReturn") /\ Mine(p) /\ My(p).life = "returning"
  /\ Write(p, ws[p], [My(p) EXCEPT !.life = "assigned", !.failed = TRUE])
  /\ Goto(p, "leave")
  /\ UNCHANGED <<git, kids, holder, own>>

CancelFails(p) ==
  /\ At(p, "cancelReturn") /\ ~(Mine(p) /\ My(p).life = "returning")
  /\ Stop(p)

-----------------------------------------------------------------------------
(* Variant: only failed workspaces are resumed by a later collection. *)
CandidateFailedOnly(r, reason) ==
  CASE reason = "preparing" -> r.life = "preparing" /\ r.op # None
    [] reason = "abandoned" -> r.life = "assigned" /\ r.op # None
    [] reason = "interrupted" -> r.life = "failed" /\ r.op # None
    [] reason = "available" -> r.life = "available" /\ r.op = None
    [] reason = "failed" -> r.life = "failed" /\ r.op = None
    [] reason = "expired" -> r.asg # None /\ r.expired

(* ruk gc --apply holds the pool lock throughout.  It works through a list *)
(* of candidates read at its start; here, through one of them.             *)
Candidate(r, reason) ==
  CASE reason = "preparing" -> r.life = "preparing" /\ r.op # None
    [] reason = "abandoned" -> r.life = "assigned" /\ r.op # None
    [] reason = "interrupted" -> r.life \in {"available", "failed"} /\ r.op # None
    [] reason = "available" -> r.life = "available" /\ r.op = None
    [] reason = "failed" -> r.life = "failed" /\ r.op = None
    [] reason = "expired" -> r.asg # None /\ r.expired

Fencing(r, reason) == IF reason = "expired" THEN r.asg ELSE r.op

Observe(p, w) == rec' = [rec EXCEPT ![w].seen = @ \cup {p}]

StartGC(p, w, reason) ==
  /\ "gc" \in Commands /\ At(p, "idle") /\ Take(p, "pool")
  /\ Candidate(rec[w], reason) /\ Observe(p, w)
  /\ Choose(p, w) /\ Become(p, reason) /\ Carry(p, Fencing(rec[w], reason))
  /\ Goto(p, "collect")
  /\ UNCHANGED <<git, kids, fence, todo>>

(* currentCandidate: an expired assignment may have changed since, if it   *)
(* is the same one and still expired.                                      *)
StillCandidate(p) == /\ Candidate(My(p), job[p]) /\ Fencing(My(p), job[p]) = id[p]
                     /\ job[p] # "expired" => p \in My(p).seen

(* Variant: the collection takes no lock on the workspace. *)
CollectUnlocked(p) ==
  /\ At(p, "collect") /\ StillCandidate(p)
  /\ Observe(p, ws[p])
  /\ todo' = [todo EXCEPT ![p] = IF My(p).asg = None THEN My(p).procs ELSE {}]
  /\ Goto(p, CASE job[p] \in Recoveries -> "return"
               [] job[p] \notin Recoveries /\ My(p).life = "available" -> "fence"
               [] OTHER -> "drain")
  /\ UNCHANGED <<git, kids, holder, job, ws, id, fence>>

Collect(p) ==
  /\ At(p, "collect") /\ Take(p, ws[p]) /\ StillCandidate(p)
  /\ Observe(p, ws[p])
  /\ todo' = [todo EXCEPT ![p] = IF My(p).asg = None THEN My(p).procs ELSE {}]
  /\ Goto(p, CASE job[p] \in Recoveries -> "return"
               [] job[p] \notin Recoveries /\ My(p).life = "available" -> "fence"
               [] OTHER -> "drain")
  /\ UNCHANGED <<git, kids, job, ws, id, fence>>

CollectStale(p) ==
  /\ At(p, "collect") /\ holder[ws[p]] = None /\ ~StillCandidate(p)
  /\ Stop(p)

(* Each name is removed under the life, operation and time stamp that the  *)
(* last update returned; any error ends the collection.                    *)
Undrained(p) == /\ My(p).life \in {"preparing", "failed"} /\ My(p).asg = None
                /\ My(p).op = id[p] /\ p \in My(p).seen

DrainProcess(p) ==
  /\ At(p, "drain") /\ Undrained(p)
  /\ \E q \in todo[p] \cap My(p).procs :
       /\ Kill(q)
       /\ Write(p, ws[p], [My(p) EXCEPT !.procs = @ \ {q}])
       /\ todo' = [todo EXCEPT ![p] = @ \ {q}]
  /\ UNCHANGED <<git, holder, pc, job, ws, id, fence>>

DrainFails(p) ==
  /\ At(p, "drain")
  /\ \/ \E q \in todo[p] : alive[q] # None
     \/ todo[p] # {} /\ ~Undrained(p)
  /\ Stop(p)

Drained(p) ==
  /\ At(p, "drain") /\ todo[p] = {} /\ Undrained(p)
  /\ Goto(p, "fence")
  /\ UNCHANGED <<rec, git, kids, holder, own>>

(* An interrupted collection is resumed under its own operation.           *)
Collectable(p) == /\ My(p).life \in {"preparing", "available", "failed"}
                  /\ p \in My(p).seen /\ My(p).procs = {}

Resumes(p) == My(p).life # "preparing" /\ My(p).op # None

BeginWorkspaceCollection(p) ==
  /\ At(p, "fence") /\ Collectable(p) /\ ~Resumes(p)
  /\ \E n \in Ids :
       /\ Fresh(n) /\ Carry(p, n)
       /\ Write(p, ws[p], [My(p) EXCEPT !.op = n,
                             !.life = IF @ = "preparing" THEN "failed" ELSE @,
                             !.failed = @ \/ My(p).life = "preparing"])
  /\ Goto(p, "unlock")
  /\ UNCHANGED <<git, kids, holder, job, ws, fence, todo>>

ResumeCollection(p) ==
  /\ At(p, "fence") /\ Collectable(p) /\ Resumes(p)
  /\ Carry(p, My(p).op) /\ Goto(p, "unlock")
  /\ UNCHANGED <<rec, git, kids, holder, job, ws, fence, todo>>

CollectionRefused(p) == At(p, "fence") /\ ~Collectable(p) /\ Stop(p)

(* git worktree list may fail, and so may unlock, with or without effect.  *)
UnlockWorktree(p) ==
  /\ At(p, "unlock") /\ IsWorktree(ws[p])
  /\ \/ locked' = locked \ {ws[p]} /\ (Goto(p, "remove") \/ Goto(p, "relock"))
     \/ UNCHANGED locked /\ (Goto(p, "relock") \/ (ListFails /\ Goto(p, "cancel")))
  /\ UNCHANGED <<rec, tree, kids, holder, own>>

NoWorktree(p) ==
  /\ At(p, "unlock") /\ ~IsWorktree(ws[p])
  /\ Goto(p, "forget") \/ (ListFails /\ Goto(p, "cancel"))
  /\ UNCHANGED <<rec, git, kids, holder, own>>

(* git worktree remove --force refuses a locked worktree.  It may report   *)
(* an error when it has removed the worktree, or be killed half-way.       *)
RemoveWorktree(p) ==
  /\ At(p, "remove") /\ IsWorktree(ws[p]) /\ ws[p] \notin locked
  /\ tree' = [tree EXCEPT ![ws[p]] = "none"]
  /\ Goto(p, "forget") \/ Goto(p, "relock")
  /\ UNCHANGED <<rec, locked, kids, holder, own>>

(* Variant: the record is deleted although the removal has failed. *)
RemoveFailsIgnored(p) ==
  /\ At(p, "remove")
  /\ Goto(p, "forget")
  /\ UNCHANGED <<rec, git, kids, holder, own>>

RemoveFails(p) ==
  /\ At(p, "remove")
  /\ \/ UNCHANGED tree
     \/ CutShort /\ IsWorktree(ws[p]) /\ tree' = [tree EXCEPT ![ws[p]] = "damaged"]
  /\ Goto(p, "relock")
  /\ UNCHANGED <<rec, locked, kids, holder, own>>

(* A worktree that is locked already, or is gone, cannot be locked again:  *)
(* the operation stays in the record, as an interrupted collection.        *)
Relock(p) ==
  /\ At(p, "relock") /\ IsWorktree(ws[p]) /\ ws[p] \notin locked
  /\ locked' = locked \cup {ws[p]}
  /\ Goto(p, "cancel")
  /\ UNCHANGED <<rec, tree, kids, holder, own>>

(* Variant: the collection is cancelled although the relock has failed. *)
RelockIgnored(p) ==
  /\ At(p, "relock") /\ Goto(p, "cancel")
  /\ UNCHANGED <<rec, git, kids, holder, own>>

RelockFails(p) == At(p, "relock") /\ Stop(p)

(* Variant: the cancellation does not compare the operation. *)
CancelAnyCollection(p) ==
  /\ At(p, "cancel")
  /\ Write(p, ws[p], [My(p) EXCEPT !.op = None])
  /\ Goto(p, "leave")
  /\ UNCHANGED <<git, kids, holder, own>>

CancelWorkspaceCollection(p) ==
  /\ At(p, "cancel") /\ My(p).op = id[p]
  /\ Write(p, ws[p], [My(p) EXCEPT !.op = None])
  /\ Goto(p, "leave")
  /\ UNCHANGED <<git, kids, holder, own>>

CancelStale(p) == At(p, "cancel") /\ My(p).op # id[p] /\ Stop(p)

(* The dependency record goes first; if that fails, or the workspace has   *)
(* another operation by now, the workspace record stays as it is.          *)
Deletable(p) == /\ My(p).life \in {"available", "failed"} /\ My(p).op = id[p]
                /\ My(p).asg = None /\ My(p).procs = {}

DeleteWorkspaceRecord(p) ==
  /\ At(p, "forget") /\ Deletable(p)
  /\ rec' = [rec EXCEPT ![ws[p]] = NoRecord]
  /\ Goto(p, "leave")
  /\ UNCHANGED <<git, kids, holder, own>>

DeleteFails(p) == At(p, "forget") /\ Stop(p)

-----------------------------------------------------------------------------
(* What happens on its own.  A lease runs out, or is renewed by its owner  *)
(* or by the keeper of a command; a child exits.                           *)
Expire(w) ==
  /\ rec[w].asg # None /\ ~rec[w].expired
  /\ rec' = [rec EXCEPT ![w].expired = TRUE]
  /\ UNCHANGED <<git, kids, holder, pc, own>>

Renew(w) ==
  /\ rec[w].life = "assigned"
  /\ \E tie \in Ties : rec' = [rec EXCEPT ![w].expired = FALSE,
                                          ![w].seen = IF tie THEN @ ELSE {}]
  /\ UNCHANGED <<git, kids, holder, pc, own>>

ChildExit(q) == alive[q] # None /\ Kill(q) /\ UNCHANGED <<rec, git, holder, pc, own>>

Acquire(p) ==
  \/ StartAcquire(p) \/ SelectReusable(p) \/ SelectFresh(p) \/ Reserve(p) \/ ReserveChanged(p)
  \/ StartWarm(p) \/ BeginPreparation(p) \/ AlreadyManaged(p) \/ Verify(p) \/ VerifyFails(p)
  \/ AddWorktree(p) \/ LockWorktree(p) \/ AssignWorktree(p) \/ GitFails(p)
  \/ MarkAvailable(p) \/ MarkAssigned(p) \/ VerifyPrepared(p) \/ PreparedFails(p)
  \/ RecordAcquisitionSuccess(p) \/ SuccessFails(p)
  \/ Fail(p) \/ HandoffLost(p) \/ Cleanup(p) \/ Retain(p) \/ RetainFails(p)

Execute(p) ==
  \/ EnsureDependencies(p) \/ AlreadyAttached(p) \/ PrepareFails(p)
  \/ StartRun(p) \/ StartSync(p) \/ Enter(p) \/ EnterFails(p)
  \/ Register(p) \/ Untracked(p) \/ RegisterFails(p)
  \/ Unregister(p) \/ UnregisterFails(p) \/ UntrackedExits(p) \/ Unsafe(p)

Release(p) ==
  \/ StartRelease(p) \/ BeginWorkspaceReturn(p) \/ ResumeReturn(p) \/ ReturnRefused(p)
  \/ CleanProcess(p) \/ CleanRaced(p) \/ NotDrained(p) \/ CleanedUp(p)
  \/ Reset(p) \/ ResetFails(p) \/ FinishWorkspaceReturn(p) \/ FinishFails(p)
  \/ CancelWorkspaceReturn(p) \/ CancelFails(p)

GC(p) ==
  \/ \E w \in Paths, reason \in Collections \cup Recoveries : StartGC(p, w, reason)
  \/ Collect(p) \/ CollectStale(p) \/ DrainProcess(p) \/ DrainFails(p) \/ Drained(p)
  \/ BeginWorkspaceCollection(p) \/ ResumeCollection(p) \/ CollectionRefused(p)
  \/ UnlockWorktree(p) \/ NoWorktree(p) \/ RemoveWorktree(p) \/ RemoveFails(p)
  \/ Relock(p) \/ RelockFails(p) \/ CancelWorkspaceCollection(p) \/ CancelStale(p)
  \/ DeleteWorkspaceRecord(p) \/ DeleteFails(p)

Step(p) == Acquire(p) \/ Execute(p) \/ Release(p) \/ GC(p) \/ Leave(p)

Next ==
  \/ \E p \in Procs : Step(p) \/ Crash(p) \/ ChildExit(p)
  \/ \E w \in Paths : Expire(w) \/ Renew(w)

Spec == Init /\ [][Next]_vars

(* Fairness.  A command that has been started goes on as long as its       *)
(* process lives, children exit, leases run out, and ruk gc is run again   *)
(* and again, with and without force.  A recovery that a renewal keeps     *)
(* outdating finds the record as it has read it some time.  And one day    *)
(* Git, the operating system and the disk do what a collection asks, and   *)
(* no process dies before the end of its command.                          *)
Works(p) == ~At(p, "idle") /\ Step(p)

Trouble ==
  \E p \in Procs :
    \/ Crash(p) /\ ~At(p, "leave")
    \/ NotDrained(p)
    \/ ResetFails(p) /\ IsWorktree(ws[p])
    \/ DrainFails(p) /\ Undrained(p)
    \/ DeleteFails(p) /\ Deletable(p)
    \/ At(p, "unlock") /\ pc'[p] \in {"relock", "cancel"}
    \/ At(p, "remove") /\ pc'[p] = "relock" /\ IsWorktree(ws[p]) /\ ws[p] \notin locked

Collecting(w, reasons) == \E p \in Procs, reason \in reasons : StartGC(p, w, reason)

Fairness ==
  /\ \A p \in Procs : WF_vars(Works(p)) /\ WF_vars(ChildExit(p))
  /\ \A w \in Paths : /\ WF_vars(Expire(w))
                       /\ SF_vars(Collecting(w, {"preparing", "abandoned", "interrupted"}))
                       /\ SF_vars(Collecting(w, {"expired"}))
  /\ SF_vars(\E p \in Procs : job[p] = "abandoned" /\ Collect(p))
  /\ SF_vars(\E p \in Procs : job[p] = "abandoned" /\ BeginWorkspaceReturn(p))
  /\ <>[][~Trouble]_vars

FairSpec == Spec /\ Fairness

-----------------------------------------------------------------------------
(* Properties that need the locks.                                         *)

Handoff == {"verify", "create", "gitlock", "assign", "prepare", "register", "wait", "prepared",
            "succeed", "fail", "cleanup", "retain"}

(* The record under an operation is the one that the operation has left:   *)
(* while its process lives, nobody ends a handoff, a return or a           *)
(* collection from outside (verifyAssignment, the handoff locks of release *)
(* and gc, the pool lock of warm).                                         *)
OperationsStayFenced ==
  \A p \in Procs :
    /\ pc[p] \in Handoff /\ job[p] \in Acquisitions => Holds(p)
    /\ pc[p] \in {"clean", "reset", "finish", "cancelReturn"}
         => My(p).life = "returning" /\ Mine(p)
    /\ pc[p] \in {"unlock", "remove", "relock", "cancel", "forget"}
         => My(p).life \in {"available", "failed"} /\ My(p).op = id[p]

Changing(p) == \/ pc[p] \in {"create", "assign", "cleanup", "reset", "remove"}
               \/ pc[p] \in {"register", "wait"} /\ job[p] # "run"

(* Of all the commands that write to a worktree's files, installers        *)
(* included, one at a time does, although warm creates slots without the   *)
(* workspace lock.                                                         *)
OneWriterPerTree ==
  \A p, q \in Procs : p # q /\ Changing(p) /\ Changing(q) => ws[p] # ws[q]

(* Available capacity is a detached worktree, locked in Git, without any   *)
(* child that a record has named (FinishWorkspaceReturn, MarkAvailable,    *)
(* CancelWorkspaceCollection after a relock).                              *)
PooledTreesAreReady ==
  \A w \in Paths : Reusable(w) =>
    /\ tree[w] = "detached" /\ w \in locked
    /\ \A q \in Procs : alive[q] = w => q \in loose

(* An assignment that has been handed over without a failure has its       *)
(* branch checked out in a locked worktree until it is released.           *)
AssignmentsKeepTheirTree ==
  \A w \in Paths : rec[w].life = "assigned" /\ rec[w].op = None /\ ~rec[w].failed =>
    tree[w] = "attached" /\ w \in locked

(* No worktree is left behind without a record from which it can be        *)
(* collected (BeginPreparation before Create, Remove before the record).   *)
NoOrphanTree == \A w \in Paths : IsWorktree(w) => rec[w].life # "absent"

(* Git never changes a worktree under a child that a record names, or one  *)
(* whose command is still there to wait for it.                            *)
ChildrenKeepTheirTree ==
  [][\A w \in Paths, q \in Procs :
       tree'[w] # tree[w] /\ alive[q] = w => q \in loose /\ pc[q] \notin {"register", "wait"}]_vars

-----------------------------------------------------------------------------
(* Properties that the fences alone keep.                                  *)

(* A child that a record has named stays in the record of its workspace as *)
(* long as it lives, whoever cleans up (RemoveAssignmentProcess,           *)
(* RemoveUnassignedProcess, the installer's own removal, retention).       *)
NoChildForgotten ==
  \A q \in Procs : alive[q] # None /\ q \notin loose => q \in rec[alive[q]].procs

(* Nothing that may be reserved, is being collected or is gone names a     *)
(* child: registration cannot slip in after the drain.                     *)
PoolIsDrained ==
  \A w \in Paths :
    rec[w].life \in {"absent", "available"} \/ (rec[w].life = "failed" /\ rec[w].op # None)
      => rec[w].procs = {}

(* The state file stays one that Decode accepts (validWorkspace and        *)
(* validGlobalFences): Update refuses to write any other, so a transition  *)
(* that leads to one would fail on every retry.                            *)
Decodable(r) ==
  /\ r.life = "preparing" => r.op # None
  /\ r.asg # None <=> r.life \in {"assigned", "returning"}
  /\ r.life = "failed" => r.failed
  /\ r.failed => r.life \in {"failed", "assigned"}
  /\ r.procs # {} => r.life \notin {"absent", "available"}

Fences(r) == {r.op, r.asg} \ {None}

StateStaysDecodable ==
  /\ \A w \in Paths : Decodable(rec[w])
  /\ \A v, w \in Paths : v # w => Fences(rec[v]) \cap Fences(rec[w]) = {}

(* A stale ID does nothing: a record under an assignment or operation      *)
(* changes hands only by a step of a process that carries its ID.          *)
FencedTransitions ==
  [][\A w \in Paths :
       LET r == rec[w]
           s == rec'[w]
       IN r.op # None \/ r.asg # None =>
            \/ s.life = r.life /\ s.op = r.op /\ s.asg = r.asg
            \/ \E p \in Procs : ws[p] = w /\ pc[p] # pc'[p] /\ id[p] \in {r.op, r.asg} \ {None}]_vars

(* A lease that has not run out ends only by its own release, or after its *)
(* acquisition was abandoned: renewal wins over a forced collection that   *)
(* has seen the lease expired.                                             *)
RenewalWins ==
  [][\A w \in Paths :
       rec[w].life = "assigned" /\ rec'[w].life = "returning" /\ rec[w].op = None /\ ~rec[w].expired
         => \E p \in Procs : ws[p] = w /\ job[p] = "release" /\ pc[p] = "return"]_vars

-----------------------------------------------------------------------------
(* What the documents say, and a listing that fails refutes.               *)

(* "Post-removal state remains retryable and is excluded from              *)
(* available-capacity statistics" (docs/architecture.md): collectWorkspace *)
(* cancels when it cannot list the worktrees, also after the removal.      *)
RemovedTreesAreNotCapacity == \A w \in Paths : Reusable(w) => IsWorktree(w)

-----------------------------------------------------------------------------
(* No operation is in progress for ever: what a command has left behind,   *)
(* be it a preparation, a handoff, a return or a collection, is recovered. *)
Unsettled(w) == rec[w].op # None \/ rec[w].life = "returning"

AbandonedWorkIsRecovered == \A w \in Paths : Unsettled(w) ~> ~Unsettled(w)
=============================================================================
