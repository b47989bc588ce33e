---------------------------- MODULE PortRegistry ----------------------------
(***************************************************************************)
(* Host ports of internal/ports.  Repositories on one host share a         *)
(* registry of reserved ports; each repository's state file says which     *)
(* ports its assignments have.  An acquisition reserves in the registry    *)
(* first and publishes in the state second; a release clears the state     *)
(* first and the registry second.  Every registry transaction begins by    *)
(* pruning the reservations that no state backs, which it reads one by     *)
(* one, without the lock of the repository they belong to.                 *)
(***************************************************************************)
EXTENDS FiniteSets

CONSTANTS
  Procs,    \* concurrent acquisitions and releases
  Repos,    \* repositories on the host
  Asgs,     \* assignment IDs in use at one time
  RepoOf,   \* repository of each assignment
  Ports,    \* ports that a probe may find
  Names,    \* number of named ports of an acquisition
  None,
  LockFails \* whether the registry's directory lock may be lost

ASSUME PortAssumption ==
  /\ None \notin Procs \cup Asgs
  /\ RepoOf \in [Asgs -> Repos]
  /\ LockFails \in BOOLEAN

VARIABLES
  life,       \* the assignments in the state files
  assigned,   \* their ports there
  registry,   \* the assignment that has reserved each port
  stateLock,  \* holder of each repository's state lock
  inside,     \* processes in a registry transaction
  lost,       \* whether the registry's lock has ever failed
  pc,         \* next step of each process
  job,        \* acquiring or releasing
  asg,        \* its assignment
  txn,        \* the reservations of its transaction
  todo,       \* reservations it has still to check
  got         \* ports it has found

files == <<life, assigned, registry>>
locks == <<stateLock, inside, lost>>
vars == <<life, assigned, registry, stateLock, inside, lost, pc, job, asg, txn, todo, got>>

(* The registry's lock is a lock service, as DirectoryLock implements it. *)
RegistryLock == INSTANCE LockService

Table == [Ports -> Asgs \cup {None}]
Empty == [x \in Ports |-> None]

Steps == {"idle", "finish", "enter", "prune", "find", "commit", "publish"}
Transaction == {"prune", "find", "commit", "publish"}

(* The state files, the registry and the transactions have the shape that  *)
(* the code gives them, and who is in a transaction has the lock.          *)
TypeOK ==
  /\ life \in [Asgs -> {"none", "assigned", "returning"}]
  /\ assigned \in [Asgs -> SUBSET Ports]
  /\ registry \in Table
  /\ stateLock \in [Repos -> Procs \cup {None}]
  /\ inside = {p \in Procs : pc[p] \in Transaction} /\ lost \in BOOLEAN
  /\ pc \in [Procs -> Steps] /\ job \in [Procs -> {"acquire", "release"}]
  /\ asg \in [Procs -> Asgs \cup {None}]
  /\ txn \in [Procs -> Table] /\ todo \in [Procs -> SUBSET Ports]
  /\ got \in [Procs -> SUBSET Ports]

Init ==
  /\ life = [a \in Asgs |-> "none"] /\ assigned = [a \in Asgs |-> {}]
  /\ registry = Empty
  /\ stateLock = [r \in Repos |-> None]
  /\ inside = {} /\ lost = FALSE
  /\ pc = [p \in Procs |-> "idle"] /\ job = [p \in Procs |-> "acquire"]
  /\ asg = [p \in Procs |-> None]
  /\ txn = [p \in Procs |-> Empty] /\ todo = [p \in Procs |-> {}]
  /\ got = [p \in Procs |-> {}]

-----------------------------------------------------------------------------
At(p, step) == pc[p] = step
Goto(p, step) == pc' = [pc EXCEPT ![p] = step]

(* A random ID is new to the state files, to the registry and to everyone. *)
Fresh(a) ==
  /\ life[a] = "none" /\ \A x \in Ports : registry[x] # a
  /\ \A p \in Procs : asg[p] # a /\ \A x \in Ports : txn[p][x] # a

My(p) == RepoOf[asg[p]]

(* Variant: the registry's lock is not given back. *)
LeaveLocked(p) ==
  /\ Goto(p, "idle") /\ job' = [job EXCEPT ![p] = "acquire"]
  /\ asg' = [asg EXCEPT ![p] = None]
  /\ txn' = [txn EXCEPT ![p] = Empty] /\ todo' = [todo EXCEPT ![p] = {}]
  /\ got' = [got EXCEPT ![p] = {}]
  /\ stateLock' = [r \in Repos |-> IF stateLock[r] = p THEN None ELSE stateLock[r]]
  /\ UNCHANGED inside

(* The end of a command at whatever step: its locks are free again.        *)
Leave(p) ==
  /\ Goto(p, "idle") /\ job' = [job EXCEPT ![p] = "acquire"]
  /\ asg' = [asg EXCEPT ![p] = None]
  /\ txn' = [txn EXCEPT ![p] = Empty] /\ todo' = [todo EXCEPT ![p] = {}]
  /\ got' = [got EXCEPT ![p] = {}]
  /\ stateLock' = [r \in Repos |-> IF stateLock[r] = p THEN None ELSE stateLock[r]]
  /\ inside' = inside \ {p}

(* An acquisition has its assignment in the state file before it comes to  *)
(* the ports.  (MarkAssigned, Reserve in Workspaces.)                      *)
Assign(p) ==
  /\ At(p, "idle")
  /\ \E a \in Asgs :
       /\ Fresh(a) /\ stateLock[RepoOf[a]] = None
       /\ life' = [life EXCEPT ![a] = "assigned"]
       /\ asg' = [asg EXCEPT ![p] = a]
  /\ Goto(p, "enter")
  /\ UNCHANGED <<assigned, registry, locks, job, txn, todo, got>>

(* A release waits for the workspace's lock, which an acquisition holds.   *)
BeginReturn(p) ==
  /\ At(p, "idle")
  /\ \E a \in Asgs :
       /\ life[a] # "none" /\ stateLock[RepoOf[a]] = None
       /\ \A q \in Procs : asg[q] # a
       /\ life' = [life EXCEPT ![a] = "returning"]
       /\ asg' = [asg EXCEPT ![p] = a]
  /\ job' = [job EXCEPT ![p] = "release"]
  /\ Goto(p, "finish")
  /\ UNCHANGED <<assigned, registry, locks, txn, todo, got>>

CancelReturn(p) ==
  /\ At(p, "finish") /\ stateLock[My(p)] = None
  /\ life' = [life EXCEPT ![asg[p]] = "assigned"]
  /\ Leave(p)
  /\ UNCHANGED <<assigned, registry, lost>>

FinishReturn(p) ==
  /\ At(p, "finish") /\ stateLock[My(p)] = None
  /\ life' = [life EXCEPT ![asg[p]] = "none"]
  /\ assigned' = [assigned EXCEPT ![asg[p]] = {}]
  /\ Goto(p, "enter")
  /\ UNCHANGED <<registry, locks, job, asg, txn, todo, got>>

-----------------------------------------------------------------------------
(* Registry.With: lock, read, prune, run the callback, commit.             *)

(* Variant: the reservations are not checked against the states. *)
BeginUnpruned(p) ==
  /\ At(p, "enter") /\ RegistryLock!Grant(p)
  /\ txn' = [txn EXCEPT ![p] = registry]
  /\ todo' = [todo EXCEPT ![p] = {}]
  /\ Goto(p, "prune")
  /\ UNCHANGED <<files, stateLock, job, asg, got>>

Begin(p) ==
  /\ At(p, "enter") /\ RegistryLock!Grant(p)
  /\ txn' = [txn EXCEPT ![p] = registry]
  /\ todo' = [todo EXCEPT ![p] = {x \in Ports : registry[x] # None}]
  /\ Goto(p, "prune")
  /\ UNCHANGED <<files, stateLock, job, asg, got>>

Active(a, x) == life[a] # "none" /\ x \in assigned[a]

(* Variant: a state that cannot be read counts as one without the port. *)
PruneUnreadable(p) ==
  /\ At(p, "prune")
  /\ \E x \in todo[p] :
       /\ \/ txn' = [txn EXCEPT ![p][x] = None]
          \/ Active(txn[p][x], x) /\ UNCHANGED txn
       /\ todo' = [todo EXCEPT ![p] = @ \ {x}]
  /\ UNCHANGED <<files, locks, pc, job, asg, got>>

PruneInactive(p) ==
  /\ At(p, "prune")
  /\ \E x \in todo[p] :
       /\ txn' = [txn EXCEPT ![p][x] = IF Active(@, x) THEN @ ELSE None]
       /\ todo' = [todo EXCEPT ![p] = @ \ {x}]
  /\ UNCHANGED <<files, locks, pc, job, asg, got>>

Pruned(p) == At(p, "prune") /\ todo[p] = {}

(* Release of everything reserved under the assignment's ID.               *)
Drop(p) ==
  /\ Pruned(p) /\ job[p] = "release"
  /\ txn' = [txn EXCEPT ![p] = [x \in Ports |-> IF @[x] = asg[p] THEN None ELSE @[x]]]
  /\ Goto(p, "commit")
  /\ UNCHANGED <<files, locks, job, asg, todo, got>>

(* Allocate updates the state within the transaction: registry lock first, *)
(* state lock second.                                                      *)
LockState(p) ==
  /\ Pruned(p) /\ job[p] = "acquire" /\ stateLock[My(p)] = None
  /\ stateLock' = [stateLock EXCEPT ![My(p)] = p]
  /\ Goto(p, "find")
  /\ UNCHANGED <<files, inside, lost, job, asg, txn, todo, got>>

Reserved(p) == {x \in Ports : txn[p][x] # None}
OwnStatePorts(r) == UNION {assigned[a] : a \in {b \in Asgs : RepoOf[b] = r /\ life[b] # "none"}}

FindAmong(p, candidates) ==
  /\ At(p, "find") /\ life[asg[p]] = "assigned"
  /\ \E S \in SUBSET candidates :
       /\ Cardinality(S) = Names
       /\ got' = [got EXCEPT ![p] = S]
       /\ txn' = [txn EXCEPT ![p] = [x \in Ports |-> IF x \in S THEN asg[p] ELSE @[x]]]
  /\ Goto(p, "commit")
  /\ UNCHANGED <<files, locks, job, asg, todo>>

(* Variants: a probe that asks only the state, or only the registry. *)
FindUnreserved(p) == FindAmong(p, Ports \ OwnStatePorts(My(p)))
FindReservedOnly(p) == FindAmong(p, Ports \ Reserved(p))

Candidates(p) == Ports \ (Reserved(p) \cup OwnStatePorts(My(p)))

(* The probe for an ephemeral port is told which ports to avoid, and each  *)
(* port that it finds is reserved before it is asked for the next.         *)
Find(p) == FindAmong(p, Candidates(p))

(* Twenty probes have found nothing, and nothing is committed.             *)
FindFails(p) ==
  /\ At(p, "find")
  /\ \A S \in SUBSET Candidates(p) : Cardinality(S) # Names
  /\ Leave(p)
  /\ UNCHANGED <<files, lost>>

(* Variant: the state is published first. *)
CommitLater(p) ==
  /\ At(p, "commit")
  /\ IF job[p] = "acquire"
     THEN /\ assigned' = [assigned EXCEPT ![asg[p]] = got[p]]
          /\ Goto(p, "publish") /\ UNCHANGED <<registry, job, asg, txn, todo, got, stateLock, inside>>
     ELSE registry' = txn[p] /\ UNCHANGED assigned /\ Leave(p)
  /\ UNCHANGED <<life, lost>>

(* The registry is replaced by a rename, and only then is the state.       *)
Commit(p) ==
  /\ At(p, "commit")
  /\ registry' = txn[p]
  /\ IF job[p] = "acquire"
     THEN Goto(p, "publish") /\ UNCHANGED <<job, asg, txn, todo, got, stateLock, inside>>
     ELSE Leave(p)
  /\ UNCHANGED <<life, assigned, lost>>

Publish(p) ==
  /\ At(p, "publish")
  /\ assigned' = [assigned EXCEPT ![asg[p]] = got[p]]
  /\ Leave(p)
  /\ UNCHANGED <<life, registry, lost>>

(* Any step may fail: a lock times out, the registry or a state cannot be  *)
(* read or replaced, no port is found, or the process dies.  The           *)
(* assignment stays, to be returned later, and so does what is committed.  *)
GiveUp(p) ==
  /\ ~At(p, "idle")
  /\ Leave(p)
  /\ UNCHANGED <<files, lost>>

LoseLock == LockFails /\ RegistryLock!Lose /\ UNCHANGED <<files, stateLock, pc, job, asg, txn, todo, got>>

Acquire(p) == Assign(p) \/ LockState(p) \/ Find(p) \/ FindFails(p) \/ Publish(p)
Release(p) == BeginReturn(p) \/ CancelReturn(p) \/ FinishReturn(p) \/ Drop(p)
With(p) == Begin(p) \/ PruneInactive(p) \/ Commit(p)

Next == LoseLock \/ \E p \in Procs : Acquire(p) \/ Release(p) \/ With(p) \/ GiveUp(p)

Spec == Init /\ [][Next]_vars

-----------------------------------------------------------------------------
(* Two assignments never have one port, whichever repositories they are    *)
(* in, unless the registry's lock has failed (registry first, state        *)
(* second, and pruning that fails closed).                                 *)
PortsAreExclusive ==
  ~lost => \A a, b \in Asgs : a # b => assigned[a] \cap assigned[b] = {}

(* Within a repository they do not even then: Allocate excludes the ports  *)
(* of the state that it updates, under the state's own lock.               *)
RepositoryPortsAreExclusive ==
  \A a, b \in Asgs : a # b /\ RepoOf[a] = RepoOf[b] => assigned[a] \cap assigned[b] = {}

(* A port that a state has published is reserved, so that a registry that  *)
(* is read alone tells which ports are taken ("the inverse order could     *)
(* publish an unreserved port as usable").                                 *)
PublishedPortsAreReserved ==
  ~lost => \A a \in Asgs : \A x \in assigned[a] : registry[x] = a

(* Reservations that nothing backs are pruned sooner or later: a crash     *)
(* between the two files leaks a port only until the next transaction.     *)
(* Transactions are begun again and again (ruk acquire, ruk release), go   *)
(* on while their process lives, and one day nothing fails any more.       *)
Works(p) == ~At(p, "idle") /\ (Acquire(p) \/ Release(p) \/ With(p))

Fairness ==
  /\ \A p \in Procs : WF_vars(Works(p)) /\ SF_vars(Begin(p)) /\ SF_vars(LockState(p))
  /\ \A p \in Procs : WF_vars(Assign(p) \/ BeginReturn(p))
  /\ <>[][\A p \in Procs : ~(CancelReturn(p) \/ (GiveUp(p) /\ ~FindFails(p)))]_vars

FairSpec == Spec /\ Fairness

Leaked(x) == registry[x] # None /\ ~Active(registry[x], x)

NoReservationLeaks == \A x \in Ports : Leaked(x) ~> ~Leaked(x)
=============================================================================
