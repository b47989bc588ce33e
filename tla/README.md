# A TLA+ development of ruk

ruk hands out prepared Git worktrees ("workspaces") to people and agents. Several
`ruk` processes work on one repository at the same time. They have no server in
common: they meet in files below the Git common directory, in directory locks, in
Git itself, and in the children that they start. Everything hard about the program
follows from that: any process can be overtaken between two steps, and can die
between two steps, and the next one has to find its way with what is left.

This directory states what the code promises in that setting, checks it with TLC on
small instances, and proves part of it with TLAPS for all instances.

| File | What it is |
| --- | --- |
| `LockService.tla` | what a directory lock promises to the commands written against it |
| `DirectoryLock.tla` | the owner-fenced directory lock, system call by system call; implements `LockService` |
| `Workspaces.tla` | the pool: records, worktrees, locks, children and every command that moves them |
| `Lease.tla` | the lease of one assignment: keepers, heartbeats, renewals, forced collection, clocks |
| `PortRegistry.tla` | host ports: the registry, the states of two repositories, transactions; uses `LockService` |
| `Checkouts.tla` | one folder and its dependencies: create, remove, sync, acquire, release, guarded work |
| `ProcessTree.tla` | the process group of one managed command, its runner, and a release that ends it |
| `DirectoryLockProofs.tla`, `WorkspacesProofs.tla`, `WorkspacesFencesProofs.tla`, `WorkspacesLocksProofs.tla`, `CheckoutsProofs.tla`, `PortRegistryProofs.tla`, `LeaseProofs.tla`, `ProcessTreeProofs.tla` | theorems, with proofs for all instances |
| `MC*.tla` | constants and symmetry for TLC |
| `Lock*.cfg`, `Pool*.cfg`, `Lease*.cfg`, `PortRegistry.cfg`, `Checkouts.cfg`, `DirtyReturn.cfg`, `ProcessTree.cfg` | the runs |
| `PROJECT.json` | components, runs, mutants, the map from definitions to lines, findings, hazards, theorems |

How they fit together: `DirectoryLock` implements `LockService` (a refinement, checked and
proved). `PortRegistry` instantiates `LockService` for the registry's lock, including its
loss; `Workspaces` has the same lock as `holder`, and a run without any lock. The other
modules look closely at what `Workspaces` takes in one step: `Lease` at `Renew` and
`Expire`, `Checkouts` at the installer and the reset, `ProcessTree` at `Enter`, `Register`,
`Unregister` and `CleanProcess`, `PortRegistry` at the ports of an acquisition.

## Inventory of the system

**Directory lock** (`internal/lock`). State: a directory per lock path with
`owner.json`, staged `pending-*` directories, `released-*` and `abandoned-*`
tombstones. Operations: `Acquire` (sweep, stage, publish, wait, recover an abandoned
owner), `Guard.Release`. All other components call it through `With` or `Acquire`.
Hard: it is a protocol of renames between which anything may happen; owners die;
ages, tokens and process identities are read in one system call and acted on in a
later one. Correct when two live processes are not both inside, when nothing is lost
silently, and when a dead owner does not block the path for ever.

**State store** (`internal/state`, `internal/atomicfile`). State: `state.json` with a
record per workspace, the dependency trees and the metrics; `worktrees.json`.
Operations: `Read` without a lock; `Update`, which under the state lock reads, mutates,
validates and replaces the file by a rename. Correct when an update is atomic, none is
lost, and the file always decodes.

**Lifecycle** (`internal/lifecycle`). State: life (`preparing`, `assigned`,
`returning`, `available`, `failed`), `operationId`, assignment with its lease,
keepers and ports, tracked processes, `updatedAt`, `availableAt`, failure. Operations:
the fenced transitions (`preparation.go`, `assignment.go`, `process.go`, `activity.go`,
`renewal.go`, `return.go`, `collection.go`) and the services that chain them with Git,
processes and locks: `AcquisitionService`, `WarmService`, `ReleaseService`, `GCService`.
Hard: each service is a long sequence of updates and external effects that can end
after any of them; the same workspace is wanted by others; operations and assignments
are fenced by IDs, collections by timestamps. Correct when capacity that is offered is
whole and unused, an assignment keeps its worktree, nobody crosses another's operation,
a recorded child is never forgotten and its worktree never changed under it, and all
abandoned work is recovered.

**Commands** (`internal/cli`). They compose the services with the locks
(`primary-checkout`, `pool`, `warm`, one per workspace): `acquire`, `warm`, `release`,
`gc`, `run`/`exec`/`shell`, `sync`, `renew`, `create`, `remove`, and queries.
`ExecuteService` validates, starts a child, registers it, hands the workspace lock
over and unregisters. `activity_runner.go` keeps a lease alive by heartbeats.

**Git** (`internal/git`). `AddWorktree`, `AssignWorktree`, `ReturnWorktree`,
`LockWorktree`, `UnlockWorktree`, `RemoveWorktree`; each is several `git` commands and
may fail before, after or in the middle of its effect.

**Processes** (`internal/process`). `Runner` starts a child, has it registered before
it goes on, waits, and cleans up on cancellation; `NativeProcessManager` proves by PID
and start identity whether a recorded tree is alive, and terminates it. Hard: PID and
group reuse, leaders that exit before their descendants, a death between spawn and
registration.

**Dependencies** (`internal/dependencies`). `EnsureDependencies` fingerprints, decides
whether the projections can be reused, runs the installer as a tracked child, records
the tree. The fingerprints and the resolution of the package manager are pure.

**Ports** (`internal/ports`). A host-wide registry of reservations, shared by
repositories; allocation commits the registry first and the assignment second, and
prunes reservations that no assignment backs.

**Worktree index and tracking** (`internal/worktrees`, `state/worktrees.go`,
`cli/worktree_tracking.go`): which repositories and worktrees ruk knows of.

**Updates** (`internal/update`, `internal/distribution`): download, verify, replace the
executable with a backup and roll back.

**Dashboard, statistics, configuration, parsing, output** (`internal/dashboard`,
`internal/statistics`, `internal/config`, the rest of `internal/cli`): readers and
front ends.

## The modules

### DirectoryLock

A directory is identified with the token it was staged under, and the file system
beside one lock path is four functions: `at` (nowhere, pending, at the path, or a
tombstone's name), `owned` (does `owner.json` exist), `stale`, `by` (the owner). Each
process has its `pc` and the locals of `Acquire`, `recoverAbandoned` and
`Guard.Release`: `tok`, `stat` (the result of `Lstat`), `seen` (the record read last)
and `sweep` (pending directories about to be removed). One action is one system call
or a sequence nothing can observe:

| Code | Actions |
| --- | --- |
| `Acquire` before its loop | `Begin` (collect released tombstones, list stale pending directories), `Sweep` |
| `publishLock` | `Stage`, `Publish`, `PublishBusy`, `PublishLost` |
| errors, cancellation and the timeout | `GiveUp` |
| `recoverAbandoned` | `StatRetry`, `StatStale`, `ReadNoOwner`, `ReadOwner`, `JudgeAlive`, `JudgeDead` |
| `retireAbandoned` | `Retire`, `RetireRefused` |
| `Guard.Release` | `ReleaseNotOwner`, `ReleaseOwner`, `ReleaseRename`, `ReleaseGone`, `ReleaseFails`, `ReleaseVerified`, `ReleaseRaced`, `Restore` |
| environment | `Crash`, `Age` |

A process that is dead stays dead; a later invocation is another member of `Procs`.
Processes live on hosts (`host`, chosen once among `Hosts`), as only an owner on the same
host is probed. A release that ends in an I/O error, or that has put back what it could not
verify, reports it (`ReportFailure`): the guard stays releasable, and its caller tries
again (`releaseAcquisitionGuard`) or goes on without it (`With`), which the history `kept`
remembers. Decisions: the
creation of a pending directory and of its owner record is one step (nobody else knows
the name); `os.Rename` refuses an existing directory, and the moment between its own
`Lstat` and the rename is not modelled; a record that cannot be read or parsed counts
as alive and is not modelled; a released tombstone is removed in one step, with its
token check; the Windows retries are part of the renames; the first branch of
`Release` (a second release of a guard whose cleanup failed) is never reached, since
every path clears `releasedPath` first.

### Workspaces

`rec` is the state file: per path, life, operation, assignment, the children named in
it, whether the lease is over and whether a failure is recorded. `tree` and `locked`
are Git's side, `alive` and `loose` the children (`loose`: alive, and never named in a
record), `holder` the locks. A process has a `pc`, a `job`, its workspace, the `id` it
carries as its fence, and the children it still has to account for (`todo`).

Every `store.Update` is one step, as is every Git command, every spawn, and every
acquisition of a lock together with the first read under it. The sequences follow the
code:

| Code | Steps |
| --- | --- |
| `AcquisitionService` | `StartAcquire`, `SelectReusable`/`SelectFresh`, `Reserve`/`ReserveChanged` or `BeginPreparation`, `Verify`, `AddWorktree`, `LockWorktree`, `AssignWorktree`, installer, `MarkAssigned`/`VerifyPrepared`, `RecordAcquisitionSuccess`; on any error `Fail`, `Cleanup`, `Retain` |
| `WarmService` | `StartWarm`, `BeginPreparation`, the Git steps, installer, `MarkAvailable`, or `Retain` |
| `ExecuteService`, `sync`, installers | `StartRun`/`StartSync`, `Enter`, `Register`, `Unregister`, and their failures (`RegisterFails`, `UnregisterFails`, `Unsafe`) |
| `ReleaseService` | `StartRelease`, `BeginWorkspaceReturn`/`ResumeReturn`, `CleanProcess`, `Reset`, `FinishWorkspaceReturn`; on any error `CancelWorkspaceReturn` |
| `GCService` | `StartGC`, `Collect`, the release steps for a recovery or a forced collection, `DrainProcess`, `BeginWorkspaceCollection`/`ResumeCollection`, `UnlockWorktree`, `RemoveWorktree`, `DeleteWorkspaceRecord`; on an error `Relock`, `CancelWorkspaceCollection` |
| environment | `Crash` at every step, `ChildExit`, `Expire`, `Renew` |

Abstractions, all named: a crash frees the process's locks (what `DirectoryLock`
shows to happen eventually) and its place is taken by the next invocation; a garbage
collection works on one candidate; whether a candidate is old enough is left open, so
that it always may be; `updatedAt` is the set of collecting processes that have read
its present value, so that two updates within one millisecond (`Ties`) leave a stale
fence valid; the assignment's ID and its acquisition's operation ID are one number;
lease renewal and keepers are `Renew` and `Expire` (see `Lease`); the lease refresh, the port
allocation and the success of an acquisition are one step under one fence; ports,
metrics, dependency records, the order of `availableAt` and the limit of eight
attempts are left out, and so is the count of good slots by which `warm` decides whether
another one is needed (it may always be); the warm lock, only taken inside the pool lock, is one with it;
a process starts one child at a time. The state file's validation on every write is
not part of the update steps: `StateStaysDecodable` says that it never refuses one.
`exec`'s release at its end is a `release` of a later invocation.

Constants select what a run looks at. `Locking = FALSE` lets every lock be lost as soon
as it is taken: what holds then holds by the ID fences alone, so also in the states in
which the directory lock has failed. `Ties`, `CutShort` and `ListFails` switch on
shared timestamps, removals killed half-way, and failing listings.

### Lease

One assignment's `record` (life, the acquisition's duration, `renewedAt`, `expiresAt` and
the stored duration, a keeper per command), the commands that keep it, one pending
`ruk renew`, one forced collection, and two clocks: `time`, which tickers follow, and the
wall clock, which may be set back. Times are whole ticks; a tick is the smallest thing the
code can tell apart.

| Code | Actions |
| --- | --- |
| `ActivityRunner.Run` | `StartCommand` (the interval, from a record read without a lock), `Beat`, `Reread`, `HeartbeatFails`, `WorkDone`, `Crash` |
| `activity.go` | `BeginAssignmentActivity`, `RefreshAssignmentActivity`, `FinishAssignmentActivity`; `RecordActivity`, `SetKeeper` |
| `ruk renew`, `renewal.go` | `StartRenewal` (computes the new end), `RenewAssignment` (writes it later), `RenewalFails` |
| acquisition | `RefreshAcquisitionLease`, `RecordAcquisitionSuccess` |
| `ruk gc --force` | `StartGC`, `Revalidate`, `BeginWorkspaceReturn`, all by the clock of the start |
| `ruk release` | `Release`, `CancelWorkspaceReturn`, `FinishWorkspaceReturn` |
| environment | `Tick` (commands may be suspended for any time), `SetClock` |

The stored duration is a fraction of minutes; converted back by a heartbeat it may have
lost its last millisecond, which is the `rounding` of `RecordActivity`. `MaxInterval` is the
five-minute cap of a heartbeat interval.
`late` and `stretched` are histories: a heartbeat was late, or a clock was wrong; a renewal
has made an interval as long as its keeper is valid.

### PortRegistry

`registry` is the host's file (port to assignment), `life` and `assigned` the state files
of two repositories, `txn` a transaction's copy of the registry. `Registry.With` is
`Begin`, `PruneInactive` (one reservation at a time, each read from its repository's state
without that state's lock), the callback, `Commit`; `Allocate` takes the state's lock
inside (`LockState`), finds ports (`Find`), and publishes after the commit (`Publish`); a
release clears its state first (`FinishReturn`) and the registry second (`Drop`).
`GiveUp` fails or kills a command at every step. The registry's lock is
`RegistryLock == INSTANCE LockService`, and `LoseLock` is the loss that `DirectoryLock`
shows to be possible. A probe finds any port that it is not told to avoid; that a port is
free on the host is the operating system's.

### Checkouts

One folder: is it a worktree and who has added it (`tree`), the dependency inputs in it,
the condition of its projection (`node_modules`: partial, whole or edited, and of which
inputs), its tree record, its workspace record, its entry in `worktrees.json`, the lock of
the folder and the lock of the primary checkout. Commands hold what they have read in
locals (`id`, `seen`, `found`, `keep`).

| Code | Actions |
| --- | --- |
| `create_command.go`, `worktree_tracking.go` | `CreateCommand`, `AddWorktree`, `RecordNew`/`RecordWorktreeFails`, `CleanUp`, `CleanUpFails`, `ForgetWorktree` |
| `remove_command.go` | `RemoveCommand`, `RemoveWorktree`, `DeleteTree`, `ForgetWorktree`, and their failures |
| `EnsureDependencies` | `DependencyFingerprint`, `Check`, `RemoveProjections`, `Prepare`, `InstallerEnds`, `Rescan`, `ProjectionFingerprint`, `Publish`, `EnsureFails` |
| `ruk sync` | `SyncCommand`, `VerifyAssignedSync`, then the above |
| `ruk acquire` | `AcquireCommand`, `PrimaryFence`, `Reserve`, `AssignWorktree`, then the above, `MarkAssigned`, `RecordAcquisitionSuccess`, or `HandoffFails` |
| `ruk release` | `ReleaseCommand`, `AssignmentProjections`, `BeginWorkspaceReturn`, `CleanProcesses`, `Return`, `FinishWorkspaceReturn`, `CancelWorkspaceReturn` |
| guarded `run` and `sync` in the primary checkout | `GuardedCommand`, `PrimaryFence`, `GuardedWorkEnds` |
| environment | `Child`, `EditInputs`, `EditProjection`, `Crash` |

A folder is either plain (made by `create`) or a pool slot for the whole behaviour, since
slots have random names below the managed root. Garbage collection of a slot is left to
`Workspaces`. A fingerprint is the content at the moment it is taken; collisions and the
walk through the files are not modelled. Four histories excuse what the code cannot see:
files changed under an installation (`meddled`, and once recorded `tainted`), a projection
changed between its validation and the drain of the children (`late`), and the death of a
creation, or the failure of its cleanup, between Git's worktree and its registry entry
(`excused`). Writing the entry may fail before the registry has it or after (the host's
index comes second).

### ProcessTree

A process group as the operating system has it (`leader`, `members`, `doomed`), the
record in the state file, and three kinds of clients that look at the same group: the
runner, the forwarder of signals and releases. An inspection is a probe of the PID, a
listing of `/proc`, a reading of what is listed, a second probe and a signal (`Inspect`,
`List`, `Read`, `Revalidate`, `SignalGroup`/`SignalGroupSignal`), and between any two of
them the group may fork, exit, be reaped, and its number be used by strangers. `Outcomes`
says what each client does next.

| Code | Actions |
| --- | --- |
| `Runner.Run` | `Spawn`, `Describe`, `Sentinel`/`SentinelFails`, `Register`/`RegisterFails`, `Wait`, `WaitAfterCleanup`, `WaitTimesOut` |
| `Exists` (a record of a group) | `Inspect`, `List`, `Read` with a reason in `Looking` |
| `TerminateGroup` | the same with a reason in `Signaling`, and `Revalidate`, `SignalGroup` |
| `execute_command.go` | `ForwardSignal`, `RemoveRecord`/`RemoveRecordFails`, the handover of the lock (`handoff`), `exec`'s release |
| `ReleaseService` | `StartRelease`, the looking, `term`, `await`, `kill` (with force), `DrainTimesOut`, `RemoveRecord`, `Reset` |
| environment | `Fork`, `Exit`, `LeaderExits`, `Reap`, `Reuse`, `Crash` |

POSIX with detached groups only, which is how managed commands are started. A descendant
that leaves the group is outside (the code looks for the group number). On Linux a start
time that cannot be read is an error, hence `unknown`. A release that dies stops where one
that fails does, so `Crash` is the runner's.

## The runs

`CHECK_DEADLOCK FALSE` is set where an instance stops: the lock when all processes are dead
or all tokens are spent, a pool whose commands are only collections when nothing is left,
the lease when its clock has reached its bound, `Checkouts` when all assignments are taken
by abandoned acquisitions. `PortRegistry` and `ProcessTree` are checked for deadlock.

| Run | Instance | Shows |
| --- | --- | --- |
| `LockSafety` | 2 processes on one host or on two, 2 tokens, a legacy directory or none, failing releases, fairness | `TypeOK`; a guard keeps its directory unless a tombstone is misfiled (`LossLeavesEvidence`), and so two live processes are not both inside (`FencedExclusion`); a release frees the path or says that it has not (`NoZombieLock`); no raced release or collection deletes the directory of a holder (`NoLiveDirectoryDestroyed`); callers see a lock service (`ImplementsLockService`); a dead or ownerless lock is recovered (`AbandonedLockRecovered`) |
| `LockOwnerRace` | 3 processes, 3 tokens | violated: a live owner's directory is retired under a dead owner's name |
| `PoolSafety` | 2 processes, 1 path, 3 IDs, all commands, ties | `TypeOK`; offered capacity is detached, locked and unused (`PooledTreesAreReady`); a successful assignment keeps its branch (`AssignmentsKeepTheirTree`); no worktree without a record (`NoOrphanTree`); nobody ends another's operation while its process lives (`OperationsStayFenced`); one writer per worktree (`OneWriterPerTree`); no Git change under a recorded child (`ChildrenKeepTheirTree`) |
| `PoolFences` | no locks at all, 2 processes, 3 IDs, ties, removals cut short, failing listings | the state file always decodes (`StateStaysDecodable`), recorded children are not forgotten (`NoChildForgotten`), capacity names no child (`PoolIsDrained`), stale IDs change nothing (`FencedTransitions`), renewal beats a forced collection (`RenewalWins`) |
| `PoolLive` | 2 processes, 3 IDs, acquire, run, gc with and without force, fairness | every operation left behind is recovered (`AbandonedWorkIsRecovered`) |
| `PoolListingFails` | 2 processes, 3 IDs, acquire, release, gc, listings fail | violated: a removed worktree is offered as capacity |
| `Lease` | 2 commands, leases of 3 and 6 ticks, 1 renewal, 4 ticks, a clock set back by 2 | `TypeOK`; the renewal time never goes back (`RenewalsMoveForward`); what was granted is not shortened (`RenewedLeaseHolds`); timely commands are not collected (`TimelyWorkIsKept`) |
| `LeaseStretched` | leases of 3 and 9 ticks, 6 ticks | violated: a renewal to more than twice the lease lets a timely keeper lapse |
| `PortRegistry` | 2 processes, 2 repositories, 3 assignments, 2 ports, the lock may be lost, fairness | `TypeOK`; no port twice on the host while the lock holds (`PortsAreExclusive`), and in a repository not even without it (`RepositoryPortsAreExclusive`); what is published is reserved (`PublishedPortsAreReserved`); leaked reservations are pruned (`NoReservationLeaks`) |
| `Checkouts` | 2 processes, 2 assignments, 2 versions of the inputs, both kinds of folder | `TypeOK`; a preparation ends with a whole projection of the inputs it reports (`PreparedIsReady`); a release keeps no modified projection but one changed after its validation (`OnlyLateChangesEnter`); a sync stays with its assignment (`SyncStaysFenced`); a cleanup removes only what it has created (`CleanupRemovesItsOwn`); what ruk has made is registered (`WorktreesAreTracked`); guarded work and assignments exclude each other (`GuardedWorkIsAlone`) |
| `DirtyReturn` | as `Checkouts` | violated: a projection that a child has changed during the release enters the pool |
| `ProcessTree` | a leader and up to 2 more processes, a release tried again and again, fairness | `TypeOK`; a live group has its record and its workspace (`RecordOutlivesTree`); signals reach no strangers unless the number is reused after the last check (`SignalsStayInTheTree`); ended groups are forgotten (`TreesAreForgotten`) |

Why the bounds are enough: the lock's protocol needs a holder and a contender, and a third
process for the race of the violated run. With two tokens a path changes owner while a
contender sleeps, and a token is used again once nothing carries it: misfiled tombstones,
lost locks, two processes inside and raced releases that put back another's directory all
occur in `LockSafety`, on one host too. In the pool, one path and two processes produce every pair of
overlapping commands on one workspace, with crashes and restarts of both, so also
sequences of more than two commands. An ID per process and one in the record are all that
can be in use, so `Cardinality(Procs) + 1` IDs suffice: a fourth ID with two processes
reaches the same states. Commands on different paths interact only through the pool
and primary locks and the choice of a path. A lease of three ticks has an interval of one
and a keeper of two, so that four ticks see a keeper lapse and a lease end; six against
three is the doubling that a keeper does not survive. Two ports for three assignments of two
repositories make ports scarce, and every pair of transactions overlaps; a third process
adds no new pair, as transactions are exclusive while the lock holds. Two versions are
"the inputs that were seen" and "others". Two members besides the leader let a child
outlive its leader and fork while a table is read. Every property of a passing run has a
mutant in `PROJECT.json` (a `Variant` operator of the module) that breaks it under the
bounds of its run.

Fairness. Lock: attempts end (each has a timeout), commands are issued again, and a
process is not for ever cancelled just before its next staging, stat or judgement. Pool:
a command goes on as long as its process lives; children exit; leases run out; `ruk gc
--apply` is run again and again, with and without `--force` (nothing else recovers an
abandoned operation, and a `returning` workspace only goes by the latter or by `ruk
release`); and finally no process dies before the end of its command any more and Git,
the operating system and the disk do what a collection asks of them (`Trouble` lists
exactly the failures that have to stop; commands go on to end and to be started). Leases
may be renewed for ever; a recovery that renewals keep outdating (its time fence no
longer holds when it is applied, and it is run again) finds the record as it has read it
now and then. `PoolLive` has acquire, run and gc: a forced collection is a release, and
drains the children that run starts and removes. With all other commands in the
instance, two processes could contend for one workspace for ever, and a collection that
skips a busy workspace would need a fairness that nothing in the code gives. Ports: a
transaction goes on while its process lives, a waiting process gets the locks now and
then (contenders poll), acquisitions and releases are issued again, and one day nothing
fails any more; pruning is part of every transaction, so no command of its own is
needed. Process groups: the runner goes on, a release ends its looking and is tried
again, and the state file can be written now and then; nothing is assumed of the group,
since `TreesAreForgotten` is about groups that have ended.

## What the violated runs show

* `recoverAbandoned` reads the owner, probes it, and then renames whatever is at the
  path (`lock.go:262`). If the owner it has read releases the lock and ends before the
  probe, the probe is right that it is dead; if another process publishes its own lock
  before the rename, that live lock is taken away, under the first owner's tombstone name;
  its holder goes on, and a third process gets in. This contradicts "Within one host, an
  exact live owner remains fenced by its token while this guard runs" (`lock.go:412-413`)
  and "The owner token prevents one contender from removing another's lock"
  (`docs/research/ruk-project-study.md:231-232`). Two contenders that judge the same dead
  owner do not do this to each other: the tombstone's name is that of the owner's token,
  and the second rename is refused. `LossLeavesEvidence` says how far the race goes: it
  takes a misfiled tombstone. An ownerless directory (`lock.go:245`) has the same race:
  `readOwner` finds no record because the owner released after the `Lstat`, and the rename
  retires whoever is next.
* `collectWorkspace` cancels a collection when it cannot list the worktrees
  (`gc_service.go:342`), also when it resumes one whose worktree is already removed.
  The record becomes `available` without a worktree: it counts as capacity, acquiring it
  fails in `git switch`, and the assignment retained after that cannot be released.
* A heartbeat writes `validUntil` with the old interval (`activity_runner.go:145`), reads
  the record again and then waits for the new one (`:152`). After a renewal to more than
  twice the lease the keeper lapses before its next heartbeat, the next command that
  begins or ends removes it, and the heartbeat after that stops a healthy child.
* A release validates the projections (`release_service.go:174-181`) before it begins the
  return and stops the children (`:192`). What a child changes in between is left in place
  by the reset, since its path is among those to be preserved, and the slot enters the pool
  with it, contrary to "modified projections are discarded instead of entering the pool"
  (`docs/architecture.md:111-112`). The sentence's first half holds: the next preparation
  compares the projection with its record and installs again. `OnlyLateChangesEnter` shows
  that this interval is the only way in.

## What writing the models showed besides

Read in the code and left out of a property by name, so no run reports them:

* `recordingCreateWorkspace.Create` removes the worktree when recording it fails, but if
  the registry had been written and only the host's index failed, the entry stays
  (`worktree_tracking.go:44-49` and `:101-113`), although "Entries are removed when Ruk
  removes the worktree" (`docs/architecture.md:155-157`). The model has it
  (`MaybeRegistered`); `WorktreesAreTracked` therefore speaks of one direction only, that a
  worktree has its entry, and not of entries without a worktree.
* "A recording failure removes the just-created worktree so create can never leave an
  untracked folder behind" (`worktree_tracking.go:93-95`): it can when the process dies
  between Git and the registry, or when the removal fails too; `excused` in `Checkouts`.
* The Linux process table is read directory first and entries second
  (`native_table_linux.go:20`). A member that forks and exits in between is not seen,
  `Exists` answers that the group is gone, and its record is removed while a descendant
  lives (`descendants.go:17-24` speaks of a stable snapshot); `forked` in `ProcessTree`.
* A command that exits before it is described is a zombie, which the table leaves out;
  `Run` then reports a setup error and `exec` retains the assignment although nothing is
  alive (`docs/agent-interface.md:272-274`).
* "Attached POSIX leaders and descendants are captured with their start identities"
  (`architecture.md:214`): `terminateNativeRecord` signals only the leader. Managed
  commands are detached, so the model has no attached records.
* A `git worktree remove` that is killed half-way counts as not removed
  (`gc_service.go:351`): the worktree is locked again and offered as available.

## What is proved

`DirectoryLockProofs`, for every set of processes and tokens and every placement of
processes on hosts, from `ConstantsAssumption` (the special values are not tokens or
processes):

* `TypeCorrect`: `Spec => []TypeOK`, by the inductive `Basics`: types, and what a
  process's locals refer to (a token of its own, a directory it has stat'ed, an owner
  that is a process).
* `Safety`: `Spec => []Inv`. `LossLeavesEvidence` is not inductive: that a guard's
  directory is at the path depends on nobody renaming it, and who may rename it depends
  on what contenders have seen. `Inv` adds that at most one directory has the path and
  at most one each released name (`OnePerPath`); that a directory being published has
  not been elsewhere (`StagedApart`); that a contender about to retire an owner has seen
  it dead, and death is for ever (`RetiresTheDead`); and, as long as nothing is misfiled
  (`Clean`), that holders have their directories, each in its own tombstone
  later, and a lock that was reported as not released stays (`GuardsInPlace`). `TombstonesStay` carries `Clean` backwards over a step: tombstones
  of abandoned locks do not move, so a clean state has a clean past. One lemma per part
  shows that it is preserved, with a step per action.
* `GuardsKeepTheirLock` (`Spec => []LossLeavesEvidence`) and `Exclusion`
  (`Spec => []FencedExclusion`): two holders both have their directory at the path, so
  it is the same directory, and its owner record names one process.
* `LiveDirectoriesStay` (`Spec => []NoLiveDirectoryDestroyed`), with no supposition about
  misfiled directories: inductive over `Inv`, because no guard's own directory has a released name
  before its release (`OnePerPath`), and tokens of different processes differ.
* `NoZombies` (`Spec => []NoZombieLock`): a process goes out only when its directory is not
  at the path, or is no longer its own, or when it has been told of an error; then its
  directory is `kept` where it is, because others retire the dead only and every release
  of a guard moves its own directory (`GuardsInPlace`, `KeptAlive`).
* `Refinement` (`Spec => Service!Spec`): `DirectoryLock` implements `LockService`, with
  `inside` the processes that have a guard and `lost` the tombstones that are misfiled.
  Every system call lets one process in, lets one out, misfiles a directory for good, or
  changes nothing that callers see; that a process is let in only when nobody is inside is
  `Exclusion`'s argument once more, one step earlier.

`WorkspacesProofs`, for every set of processes, paths and IDs and every choice of the
switches (so with and without locks):

* `Invariance`: `Spec => []IInv`, the inductive invariant.
* `WorkspacesTypeCorrect`: `Spec => []TypeOK`. It needs that a process which is past its
  choice of a workspace has one (`Placed`).
* `StateFileDecodes`: `Spec => []StateStaysDecodable`. The conjunct that a `preparing`
  record has an operation is threatened by the cancellation of a collection, which
  clears the operation of the record that carries its ID. The invariant therefore adds
  that a process past the fence of its collection carries the ID of no preparation
  (`CollectionsApart`): the ID was fresh when the collection began, or it is that of the
  record which it resumes; no two records share an ID; and a preparation that begins
  later takes a fresh one.
* `PoolDrained`: `Spec => []PoolIsDrained`, by the same induction, since every update is
  shown to write a record that is drained when it has to be (`Unused`).

The argument is in two halves. An action that updates the state file writes a `Sound`
record: one that decodes, whose IDs were there before or are fresh; `Put` and `Stored`
turn this into the invariant for the whole file (`Kept`), whatever the other records
are. For the rest of the state, one lemma per group of commands shows that types are
kept and that nobody arrives at a collection's operation except by beginning or resuming
one (`CollectionsGoOn`), from which `StayApart` and `BeginsApart` conclude.

`WorkspacesFencesProofs`, under the same assumptions, so for a pool in which every lock is
lost as soon as it is taken, removals are cut short and listings fail:

* `FencesHold`: `Spec => []FInv`, inductive together with `IInv`. It adds what a command
  may have come to at each step (`Fits`), the IDs without which it would not be there
  (`Carries`), whose child it minds (`Minds`: an installer or a run has started its own
  where it works, and until it is registered no record knows of it), and who has read a
  record (`Read`): a collection of that workspace, and if the record is a preparation, of
  that preparation. TLC checked it on two processes and all commands before it was proved.
* `ChildrenRemembered`: `Spec => []NoChildForgotten`, a conjunct of `FInv`. An update that
  drops a name has seen the child dead; one that clears the names finds none, by
  `PoolIsDrained`'s induction; and a registration adds the child to the record of the path
  where it was started (`Minds`).
* `StaleIDsDoNothing` (`Spec => FencedTransitions`) and `RenewedStay`
  (`Spec => RenewalWins`). `OneChanges` shows of every step that at most one process
  changes the life, operation or assignment of one record, its own, with an ID that it
  finds there. The update that compares no ID at all is the beginning of a collection of
  an interrupted preparation; there the time stamp stands for the ID, which is what `Read`
  says.

`WorkspacesLocksProofs`, for a pool whose locks keep others out (`Locking`), under the same
assumptions otherwise:

* `LocksKeep`: `Spec => []LInv`, inductive together with `IInv` and `FInv`. Of each command
  it says which locks it has (`Guarded`), that the record is the one it has left there
  (`Fenced`), where it has found or made a worktree (`Sited`), and that the children in
  the record are those it sees to (`Attended`). The workspace lock would settle most of it,
  but `ruk warm` prepares its slot under the pool lock alone, and `ruk release` and `ruk
  run` come with the workspace lock alone; what keeps them apart from `warm` is its ID,
  which no other acquisition has drawn (`HandoffsDiffer`), and the life and the worktree
  that each of them needs to find (`WorkAlone`, `Sheltered`, `NamedApart`).
* The argument for the other processes is made once: `Alone` says that a step leaves their
  locals and locks alone, `Effects` where and at which of its steps a command changes a
  record or a worktree, `Undisturbed` that a workspace changes hands only where nobody else
  has it. `OthersKeep` concludes from these three, whatever the step was.
* `OperationsFenced`, `WritersApart`, `TreesRecorded` and `TreesUnderChildrenKept`
  (`OperationsStayFenced`, `OneWriterPerTree`, `NoOrphanTree`, `ChildrenKeepTheirTree`)
  follow. The last needs the fences too: before any change of a worktree the record at its
  path is without children (`EmptiedBefore`), so that by `NoChildForgotten` none lives there.
* `TreesKeep`: `Spec => []TInv`, if besides no removal is cut short and no listing fails
  (without that it is false, see the findings): each record agrees with its worktree
  (`Ready`), and a command with what it has done there (`Prepared`). From it `PoolIsReady`
  and `AssignedTreesStay` (`PooledTreesAreReady`, `AssignmentsKeepTheirTree`).

TLC checked `LInv` on two processes and all commands with and without cut-short removals
and failing listings, and `TInv` without them, before they were proved. That the
repository's own locks are not a workspace's is part of `ConstantsAssumption`: only those of
workspaces are named `workspace-<key>.lock` (`mutation_locks.go:48`).

`CheckoutsProofs`, for every set of processes, assignments and versions, both kinds of
folder, and with failures of the registry and of the index:

* `CheckoutsInvariance`: `Spec => []IInv`. `Fits` says which command takes which step,
  `Holds` which locks it has there, and `Relies` what it has made sure of under them: a
  creation has added the worktree that is there, an acquisition's folder has no child, a
  release's record has an assignment, a sync's assignment is the folder's.
* `CheckoutsTypeCorrect`, `SyncsAreFenced`, `CleanupIsOwn`, `GuardedAlone`: `TypeOK`,
  `SyncStaysFenced`, `CleanupRemovesItsOwn` and `GuardedWorkIsAlone`. None of the last
  three is inductive: what a command relies on stays true because all others that could
  change it need a lock which this one holds. `Ends` and `Proceeds` carry that part of the
  argument, so that an action shows only what its own process relies on afterwards.
* `ProjectionsHold`: `Spec => []ProjectionsFollow`. An installation that nobody meddles with
  has brought about, step by step, a whole projection of what it has read (`Installs`); a
  release that keeps a projection has found it valid, and nothing changes it before the
  return but what sets `late` (`Returns`); and a record that is not tainted describes a whole
  installation (`RecordIsWhole`). Each is stated for the process that has the folder's lock,
  and `NobodyElse` shows that the others keep it. `PreparationsAreReady` and
  `LateChangesOnly` (`PreparedIsReady`, `OnlyLateChangesEnter`) follow, the latter with the
  exemption of `late`: without it `DirtyReturn` refutes the property.
* `EveryWorktreeTracked` (`Spec => []WorktreesAreTracked`), with the exemptions of `excused`
  and for one direction only: while a command is under way the registry may be a step behind
  the worktree, and `FolderFollows` says which step; when the lock is free nobody is at such
  a step. A slot is recorded before its acquisition goes on to prepare it, and is never
  forgotten by the commands of this module (`SlotFollows`).

`PortRegistryProofs`, for every set of processes, repositories, assignments and ports, and
whatever a probe may find:

* `RegistryInvariance`: `Spec => []IInv`. From the choice of its ports to their
  publication an acquisition has its state's lock, so the choice stays disjoint from what
  the state has (`Chosen`); while the registry's lock holds, a transaction's copy reserves
  every published port (`Backed`): pruning keeps what a state has, a release only drops
  the ports of an assignment that has none in its state any more (`Cleared`), and no two
  commands are about one assignment (`OneEach`).
* `RegistryTypeCorrect`, `RepositoryPorts`, `PublishedPorts`, `HostPorts`: `TypeOK`,
  `RepositoryPortsAreExclusive`, `PublishedPortsAreReserved`, `PortsAreExclusive`.
  `RepositoryPorts` does not use the registry's lock at all; `HostPorts` follows from
  `PublishedPorts`, since a port is reserved for one assignment.

`LeaseProofs`, for every set of commands and durations, any number of renewals, any bound
of time and any correction of the clock:

* `LeaseInvariance`: `Spec => []IInv`. As long as nothing is late, a command beats exactly
  when its tick is due, and its keeper is valid beyond that tick (`Beats`): by two old
  intervals after a heartbeat, which is more than the next interval unless that has been
  stretched. A collection that has looked at the keepers and is about to write finds a
  renewed lease if a command has begun in between (`Spared`).
* `LeaseTypeCorrect` and `TimelyWork` (`TypeOK`, `TimelyWorkIsKept`) follow, and with
  `LeaseIsWhole` (a lease is as long as its duration, but for one tick) the action
  properties `RenewalsForward` (`RenewalsMoveForward`) and `LeaseHolds`
  (`RenewedLeaseHolds`), which `LeaseMoves` shows for each step.

`ProcessTreeProofs`, for every set of releases and any number of processes in the group,
from `TreeAssumption` (the clients are different from each other and from `None`):

* `TreeInvariant`: `Spec => []IInv`. `Sees` says what a client may conclude from what it
  has read: a table whose listing has not grown stale lists every member (a fork while it
  is read is one of the exempt ways), and who is about to signal has seen the leader, or
  the number has been reused since. `Settled` says that who removes a record or gives the
  workspace back has seen the end of the tree, and `Locked` that the lock stays with the
  runner until its child has a record or an end, so that no release sees the gap between
  the two. `Born` keeps the number unknown to everybody before there is a leader.
* `TreeTypeOK`, `RecordsOutliveTrees` and `SignalsStay` follow: `TypeOK`,
  `RecordOutlivesTree` and `SignalsStayInTheTree`. All ways to look at the group share two
  lemmas: an inspection goes on (`LooksOn`) or concludes (`Concludes`), and `OutcomesFit`
  lists what a conclusion may lead to.

Only model-checked: the liveness properties (fairness and `ENABLED` are beyond the proof
system). Every other property of a passing run is the subject of a theorem. No definition is
recursive, so no proof needs an induction over data.

## Not modelled

* Updates and distribution: one process, a few renames, no other actor. A module would
  restate the sequence; the downloads are input and output.
* Dashboard, statistics, configuration, command lines and output: they read and print, or
  parse, and have no steps of their own.
* Fingerprints, and which package manager is chosen: pure functions of file contents. A
  fingerprint is the content that it was taken of.
* What is inside `atomicfile.Replace`: all its errors are before the rename, and its
  writers are serialised by the locks that are modelled, so that an update is one step.
* Windows: job objects, and the helper that replaces a running executable. Terminals and
  attached processes: managed commands are detached.
* Pruning of the worktree index, and the queries: they repair or report what a next
  command would find out by itself.
* The target count of `warm`, the limit of eight attempts and the order of selection of
  `acquire`, retention times of `gc`: they decide which workspace is chosen and when; the
  models let any be chosen at any time.
