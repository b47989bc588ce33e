-------------------------- MODULE WorkspacesProofs --------------------------
(***************************************************************************)
(* Proofs about Workspaces for every set of processes, paths and IDs, with *)
(* or without locks: its types, that no transition ever writes a state     *)
(* file that Decode would refuse (StateStaysDecodable), and that nothing   *)
(* in the pool or under collection names a child (PoolIsDrained).          *)
(***************************************************************************)
EXTENDS Workspaces, TLAPS

(* A process that has chosen a workspace works on one that there is. *)
Placed == \A p \in Procs : pc[p] \notin {"idle", "pool", "leave"} => ws[p] \in Paths

Typed == TypeOK /\ Placed

(* The operation of a collection is not that of a preparation, so that     *)
(* CancelWorkspaceCollection cannot leave one without its fence.           *)
CollectionsApart ==
  \A p \in Procs, w \in Paths :
    pc[p] \in {"unlock", "remove", "relock", "cancel", "forget"} /\ rec[w].life = "preparing"
      => rec[w].op # id[p]

(* What PoolIsDrained asks of one record. *)
Unused(r) == r.life \in {"absent", "available"} \/ (r.life = "failed" /\ r.op # None)
               => r.procs = {}

IInv == Typed /\ CollectionsApart /\ StateStaysDecodable /\ PoolIsDrained

-----------------------------------------------------------------------------
(* What an update may put at a path: a record that Decode accepts, whose   *)
(* fences are the ones that were there or new, and which is a preparation  *)
(* only if it was the same one before or is a new one.                     *)
Sound(w, r) ==
  /\ r \in Records /\ Decodable(r) /\ Unused(r)
  /\ \A n \in Fences(r) : n \in Fences(rec[w]) \/ Fresh(n)
  /\ r.life = "preparing" => (rec[w].life = "preparing" /\ r.op = rec[w].op) \/ Fresh(r.op)

(* After a step, every preparation is the same one as before or a new one. *)
PreparationsKept ==
  \A w \in Paths : rec'[w].life = "preparing" =>
    (rec[w].life = "preparing" /\ rec'[w].op = rec[w].op) \/ Fresh(rec'[w].op)

Kept == rec' \in [Paths -> Records] /\ StateStaysDecodable' /\ PoolIsDrained' /\ PreparationsKept

(* A record keeps its shape with other readers or another lease. *)
LEMMA FieldsChange ==
  ASSUME NEW r \in Records
  PROVE  /\ \A s \in SUBSET Procs : [r EXCEPT !.seen = s] \in Records
         /\ \A e \in BOOLEAN : [r EXCEPT !.expired = e] \in Records
BY DEF Records

(* A process with a workspace to work on reads a record of its state.      *)
LEMMA MyRecord ==
  ASSUME IInv, NEW p \in Procs, pc[p] \notin {"idle", "pool", "leave"}
  PROVE  /\ ws[p] \in Paths /\ My(p) = rec[ws[p]]
         /\ My(p) \in Records /\ Decodable(My(p)) /\ Unused(My(p))
         /\ Snapshot(ws[p]) \in Ids \cup {None}
<1>1. ws[p] \in Paths /\ rec[ws[p]] \in Records /\ Decodable(rec[ws[p]])
      /\ Unused(rec[ws[p]])
  BY DEF IInv, Typed, TypeOK, Placed, StateStaysDecodable, PoolIsDrained, Unused
<1> QED
  BY <1>1 DEF My, Snapshot, Records

(* One sound record at one path leaves the others as they were.            *)
LEMMA Put ==
  ASSUME IInv, NEW w \in Paths, NEW t, Sound(w, t), rec' = [rec EXCEPT ![w] = t]
  PROVE  Kept
<1>1. rec'[w] = t /\ \A v \in Paths \ {w} : rec'[v] = rec[v]
  BY DEF IInv, Typed, TypeOK
<1>2. rec' \in [Paths -> Records]
  BY DEF IInv, Typed, TypeOK, Sound
<1>3. \A v \in Paths : Decodable(rec'[v]) /\ Unused(rec'[v])
  BY <1>1 DEF IInv, StateStaysDecodable, PoolIsDrained, Unused, Sound
<1>4. \A v \in Paths : v # w => Fences(rec'[v]) \cap Fences(rec'[w]) = {}
  <2>1. \A v \in Paths : \A n : Fresh(n) => n \notin Fences(rec[v])
    BY DEF Fresh, Fences
  <2>2. \A v \in Paths : v # w => Fences(rec[v]) \cap Fences(rec[w]) = {}
    BY DEF IInv, StateStaysDecodable
  <2> QED
    BY <1>1, <2>1, <2>2 DEF Sound
<1>5. \A u, v \in Paths : u # v => Fences(rec'[u]) \cap Fences(rec'[v]) = {}
  <2> SUFFICES ASSUME NEW u \in Paths, NEW v \in Paths, u # v
               PROVE  Fences(rec'[u]) \cap Fences(rec'[v]) = {}
    OBVIOUS
  <2>1. CASE u = w
    BY <1>4, <2>1
  <2>2. CASE v = w
    BY <1>4, <2>2
  <2>3. CASE u # w /\ v # w
    BY <1>1, <2>3 DEF IInv, StateStaysDecodable
  <2> QED
    BY <2>1, <2>2, <2>3
<1>6. PreparationsKept
  BY <1>1 DEF PreparationsKept, Sound
<1> QED
  BY <1>2, <1>3, <1>5, <1>6 DEF Kept, StateStaysDecodable, PoolIsDrained, Decodable, Unused, Fences

(* An update puts the record it is given, with some readers, at its path.  *)
LEMMA Stored ==
  ASSUME IInv, NEW p \in Procs, NEW w \in Paths, NEW r, Sound(w, r),
         Write(p, w, r) \/ WriteLater(p, w, r)
  PROVE  Kept
<1>1. r.seen \in SUBSET Procs /\ r.seen \cap {p} \in SUBSET Procs
  BY DEF Records, Sound
<1>2. PICK s \in SUBSET Procs : rec' = [rec EXCEPT ![w] = [r EXCEPT !.seen = s]]
  BY <1>1 DEF Write, WriteLater
<1> DEFINE t == [r EXCEPT !.seen = s]
<1>3. /\ t \in Records /\ Decodable(t) /\ Unused(t) /\ Fences(t) = Fences(r)
      /\ t.life = r.life /\ t.op = r.op
  BY DEF Sound, Records, Decodable, Unused, Fences
<1> HIDE DEF t
<1>4. rec' = [rec EXCEPT ![w] = t]
  BY <1>2 DEF t
<1>5. Sound(w, t)
  BY <1>3 DEF Sound
<1> QED
  BY <1>4, <1>5, Put

(* Readers and leases are of no account.                                   *)
LEMMA Touched ==
  ASSUME IInv, rec' \in [Paths -> Records],
         \A w \in Paths : /\ rec'[w].life = rec[w].life /\ rec'[w].op = rec[w].op
                          /\ rec'[w].asg = rec[w].asg /\ rec'[w].procs = rec[w].procs
                          /\ rec'[w].failed = rec[w].failed
  PROVE  Kept
<1>1. \A w \in Paths : Decodable(rec'[w]) /\ Fences(rec'[w]) = Fences(rec[w])
  BY DEF IInv, StateStaysDecodable, Decodable, Fences
<1> QED
  BY <1>1 DEF IInv, StateStaysDecodable, PoolIsDrained, Kept, PreparationsKept, Decodable, Fences

(* The steps of acquire and warm. *)
LEMMA AcquireKeeps ==
  ASSUME IInv, NEW p \in Procs, Acquire(p)
  PROVE  Kept
<1> USE DEF Stop
<1>1. ASSUME StartAcquire(p) \/ SelectReusable(p) \/ SelectFresh(p) \/ ReserveChanged(p) \/
           StartWarm(p) \/ AlreadyManaged(p) \/ Verify(p) \/ VerifyFails(p) \/
           AddWorktree(p) \/ LockWorktree(p) \/ AssignWorktree(p) \/ GitFails(p) \/
           VerifyPrepared(p) \/ PreparedFails(p) \/ SuccessFails(p) \/ Fail(p) \/
           HandoffLost(p) \/ Cleanup(p) \/ RetainFails(p)
      PROVE  Kept
  <2>1. rec' = rec
    BY <1>1
       DEF StartAcquire, SelectReusable, SelectFresh, ReserveChanged, StartWarm, AlreadyManaged,
           Verify, VerifyFails, AddWorktree, LockWorktree, AssignWorktree, GitFails,
           VerifyPrepared, PreparedFails, SuccessFails, Fail, HandoffLost, Cleanup, RetainFails
  <2> QED
    BY <2>1, Touched DEF IInv, Typed, TypeOK
<1>2. ASSUME Reserve(p) PROVE Kept
  <2>1. /\ ws[p] \in Paths /\ My(p) = rec[ws[p]] /\ My(p) \in Records
        /\ Decodable(My(p)) /\ Unused(My(p))
    BY <1>2, MyRecord DEF Reserve, At
  <2>2. PICK n \in Ids : Fresh(n) /\ Write(p, ws[p], Assigned(My(p), n))
    BY <1>2 DEF Reserve
  <2> DEFINE r == Assigned(My(p), n)
  <2>3. Sound(ws[p], r)
    BY <1>2, <2>1, <2>2, ConstantsAssumption
       DEF Sound, Records, Decodable, Unused, Fences, Reserve, Assigned, Lives
  <2>4. Write(p, ws[p], r) \/ WriteLater(p, ws[p], r)
    BY <2>2
  <2> HIDE DEF r
  <2> QED
    BY <2>1, <2>3, <2>4, Stored
<1>3. ASSUME BeginPreparation(p) PROVE Kept
  <2>1. /\ ws[p] \in Paths /\ My(p) = rec[ws[p]] /\ My(p) \in Records
        /\ Decodable(My(p)) /\ Unused(My(p))
    BY <1>3, MyRecord DEF BeginPreparation, At
  <2>2. PICK n \in Ids : Fresh(n) /\ Write(p, ws[p], [My(p) EXCEPT !.life = "preparing", !.op = n])
    BY <1>3 DEF BeginPreparation
  <2> DEFINE r == [My(p) EXCEPT !.life = "preparing", !.op = n]
  <2>3. Sound(ws[p], r)
    BY <1>3, <2>1, <2>2, ConstantsAssumption
       DEF Sound, Records, Decodable, Unused, Fences, BeginPreparation, Lives
  <2>4. Write(p, ws[p], r) \/ WriteLater(p, ws[p], r)
    BY <2>2
  <2> HIDE DEF r
  <2> QED
    BY <2>1, <2>3, <2>4, Stored
<1>4. ASSUME MarkAvailable(p) PROVE Kept
  <2>1. /\ ws[p] \in Paths /\ My(p) = rec[ws[p]] /\ My(p) \in Records
        /\ Decodable(My(p)) /\ Unused(My(p))
    BY <1>4, MyRecord DEF MarkAvailable, At
  <2> DEFINE r == [My(p) EXCEPT !.life = "available", !.op = None]
  <2>3. Sound(ws[p], r)
    BY <1>4, <2>1 DEF Sound, Records, Decodable, Unused, Fences, MarkAvailable, Preparing, Lives
  <2>4. Write(p, ws[p], r) \/ WriteLater(p, ws[p], r)
    BY <1>4 DEF MarkAvailable
  <2> HIDE DEF r
  <2> QED
    BY <2>1, <2>3, <2>4, Stored
<1>5. ASSUME MarkAssigned(p) PROVE Kept
  <2>1. /\ ws[p] \in Paths /\ My(p) = rec[ws[p]] /\ My(p) \in Records
        /\ Decodable(My(p)) /\ Unused(My(p))
    BY <1>5, MyRecord DEF MarkAssigned, At
  <2>2. PICK n \in Ids : Fresh(n) /\ Write(p, ws[p], Assigned(My(p), n))
    BY <1>5 DEF MarkAssigned
  <2> DEFINE r == Assigned(My(p), n)
  <2>3. Sound(ws[p], r)
    BY <1>5, <2>1, <2>2, ConstantsAssumption
       DEF Sound, Records, Decodable, Unused, Fences, MarkAssigned, Assigned, Lives
  <2>4. Write(p, ws[p], r) \/ WriteLater(p, ws[p], r)
    BY <2>2
  <2> HIDE DEF r
  <2> QED
    BY <2>1, <2>3, <2>4, Stored
<1>6. ASSUME RecordAcquisitionSuccess(p) PROVE Kept
  <2>1. /\ ws[p] \in Paths /\ My(p) = rec[ws[p]] /\ My(p) \in Records
        /\ Decodable(My(p)) /\ Unused(My(p))
    BY <1>6, MyRecord DEF RecordAcquisitionSuccess, At
  <2> DEFINE r == [My(p) EXCEPT !.op = None, !.expired = FALSE]
  <2>3. Sound(ws[p], r)
    BY <1>6, <2>1 DEF Sound, Records, Decodable, Unused, Fences, RecordAcquisitionSuccess, Acquiring
  <2>4. Write(p, ws[p], r) \/ WriteLater(p, ws[p], r)
    BY <1>6 DEF RecordAcquisitionSuccess
  <2> HIDE DEF r
  <2> QED
    BY <2>1, <2>3, <2>4, Stored
<1>7. ASSUME Retain(p) PROVE Kept
  <2>1. /\ ws[p] \in Paths /\ My(p) = rec[ws[p]] /\ My(p) \in Records
        /\ Decodable(My(p)) /\ Unused(My(p))
    BY <1>7, MyRecord DEF Retain, At
  <2>2. PICK named \in SUBSET todo[p] :
         WriteLater(p, ws[p],
           [My(p) EXCEPT !.op = None, !.failed = TRUE, !.procs = @ \cup named,
                         !.life = IF job[p] = "assigned" THEN @ ELSE "failed"])
    BY <1>7 DEF Retain
  <2> DEFINE r == [My(p) EXCEPT !.op = None, !.failed = TRUE, !.procs = @ \cup named,
                              !.life = IF job[p] = "assigned" THEN @ ELSE "failed"]
  <2>3. Sound(ws[p], r)
    BY <1>7, <2>1, <2>2
       DEF Sound, Records, Decodable, Unused, Fences, Retain, Holds, Acquiring, Preparing, Lives,
           IInv, Typed, TypeOK
  <2>4. Write(p, ws[p], r) \/ WriteLater(p, ws[p], r)
    BY <2>2
  <2> HIDE DEF r
  <2> QED
    BY <2>1, <2>3, <2>4, Stored
<1> QED
  BY <1>1, <1>2, <1>3, <1>4, <1>5, <1>6, <1>7 DEF Acquire

(* Those of installers, run and sync. *)
LEMMA ExecuteKeeps ==
  ASSUME IInv, NEW p \in Procs, Execute(p)
  PROVE  Kept
<1> USE DEF Stop
<1>1. ASSUME EnsureDependencies(p) \/ AlreadyAttached(p) \/ PrepareFails(p) \/ StartRun(p) \/
           StartSync(p) \/ Enter(p) \/ EnterFails(p) \/ Untracked(p) \/ RegisterFails(p) \/
           UnregisterFails(p) \/ UntrackedExits(p) \/ Unsafe(p)
      PROVE  Kept
  <2>1. rec' = rec
    BY <1>1
       DEF EnsureDependencies, AlreadyAttached, PrepareFails, StartRun, StartSync, Enter,
           EnterFails, Untracked, RegisterFails, UnregisterFails, UntrackedExits, Unsafe
  <2> QED
    BY <2>1, Touched DEF IInv, Typed, TypeOK
<1>2. ASSUME Register(p) PROVE Kept
  <2>1. /\ ws[p] \in Paths /\ My(p) = rec[ws[p]] /\ My(p) \in Records
        /\ Decodable(My(p)) /\ Unused(My(p))
    BY <1>2, MyRecord DEF Register, At
  <2> DEFINE r == [My(p) EXCEPT !.procs = @ \cup {p}]
  <2>3. Sound(ws[p], r)
    BY <1>2, <2>1 DEF Sound, Records, Decodable, Unused, Fences, Register, Names
  <2>4. Write(p, ws[p], r) \/ WriteLater(p, ws[p], r)
    BY <1>2 DEF Register
  <2> HIDE DEF r
  <2> QED
    BY <2>1, <2>3, <2>4, Stored
<1>3. ASSUME Unregister(p) PROVE Kept
  <2>1. /\ ws[p] \in Paths /\ My(p) = rec[ws[p]] /\ My(p) \in Records
        /\ Decodable(My(p)) /\ Unused(My(p))
    BY <1>3, MyRecord DEF Unregister, At
  <2> DEFINE r == [My(p) EXCEPT !.procs = @ \ {p}]
  <2>3. Sound(ws[p], r)
    BY <1>3, <2>1 DEF Sound, Records, Decodable, Unused, Fences, Unregister
  <2>4. Write(p, ws[p], r) \/ WriteLater(p, ws[p], r)
    BY <1>3 DEF Unregister
  <2> HIDE DEF r
  <2> QED
    BY <2>1, <2>3, <2>4, Stored
<1> QED
  BY <1>1, <1>2, <1>3 DEF Execute

(* Those of a return. *)
LEMMA ReleaseKeeps ==
  ASSUME IInv, NEW p \in Procs, Release(p)
  PROVE  Kept
<1> USE DEF Stop
<1>1. ASSUME StartRelease(p) \/ ResumeReturn(p) \/ ReturnRefused(p) \/ CleanRaced(p) \/
           NotDrained(p) \/ CleanedUp(p) \/ Reset(p) \/ ResetFails(p) \/ FinishFails(p) \/
           CancelFails(p)
      PROVE  Kept
  <2>1. rec' = rec
    BY <1>1
       DEF StartRelease, ResumeReturn, ReturnRefused, CleanRaced, NotDrained, CleanedUp, Reset,
           ResetFails, FinishFails, CancelFails
  <2> QED
    BY <2>1, Touched DEF IInv, Typed, TypeOK
<1>2. ASSUME BeginWorkspaceReturn(p) PROVE Kept
  <2>1. /\ ws[p] \in Paths /\ My(p) = rec[ws[p]] /\ My(p) \in Records
        /\ Decodable(My(p)) /\ Unused(My(p))
    BY <1>2, MyRecord DEF BeginWorkspaceReturn, At
  <2> DEFINE r == [My(p) EXCEPT !.life = "returning", !.failed = FALSE]
  <2>3. Sound(ws[p], r)
    BY <1>2, <2>1 DEF Sound, Records, Decodable, Unused, Fences, BeginWorkspaceReturn, Lives
  <2>4. Write(p, ws[p], r) \/ WriteLater(p, ws[p], r)
    BY <1>2 DEF BeginWorkspaceReturn
  <2> HIDE DEF r
  <2> QED
    BY <2>1, <2>3, <2>4, Stored
<1>3. ASSUME CleanProcess(p) PROVE Kept
  <2>1. /\ ws[p] \in Paths /\ My(p) = rec[ws[p]] /\ My(p) \in Records
        /\ Decodable(My(p)) /\ Unused(My(p))
    BY <1>3, MyRecord DEF CleanProcess, At
  <2>2. PICK q \in todo[p] : Write(p, ws[p], [My(p) EXCEPT !.procs = @ \ {q}])
    BY <1>3 DEF CleanProcess
  <2> DEFINE r == [My(p) EXCEPT !.procs = @ \ {q}]
  <2>3. Sound(ws[p], r)
    BY <1>3, <2>1, <2>2 DEF Sound, Records, Decodable, Unused, Fences, CleanProcess
  <2>4. Write(p, ws[p], r) \/ WriteLater(p, ws[p], r)
    BY <2>2
  <2> HIDE DEF r
  <2> QED
    BY <2>1, <2>3, <2>4, Stored
<1>4. ASSUME FinishWorkspaceReturn(p) PROVE Kept
  <2>1. /\ ws[p] \in Paths /\ My(p) = rec[ws[p]] /\ My(p) \in Records
        /\ Decodable(My(p)) /\ Unused(My(p))
    BY <1>4, MyRecord DEF FinishWorkspaceReturn, At
  <2> DEFINE r == [NoRecord EXCEPT !.life = "available",
                                    !.seen = IF job[p] = "release" THEN {} ELSE {p}]
  <2>3. Sound(ws[p], r)
    BY <1>4, <2>1
       DEF Sound, Records, Decodable, Unused, Fences, FinishWorkspaceReturn, NoRecord, Lives
  <2>4. Write(p, ws[p], r) \/ WriteLater(p, ws[p], r)
    BY <1>4 DEF FinishWorkspaceReturn
  <2> HIDE DEF r
  <2> QED
    BY <2>1, <2>3, <2>4, Stored
<1>5. ASSUME CancelWorkspaceReturn(p) PROVE Kept
  <2>1. /\ ws[p] \in Paths /\ My(p) = rec[ws[p]] /\ My(p) \in Records
        /\ Decodable(My(p)) /\ Unused(My(p))
    BY <1>5, MyRecord DEF CancelWorkspaceReturn, At
  <2> DEFINE r == [My(p) EXCEPT !.life = "assigned", !.failed = TRUE]
  <2>3. Sound(ws[p], r)
    BY <1>5, <2>1 DEF Sound, Records, Decodable, Unused, Fences, CancelWorkspaceReturn, Lives
  <2>4. Write(p, ws[p], r) \/ WriteLater(p, ws[p], r)
    BY <1>5 DEF CancelWorkspaceReturn
  <2> HIDE DEF r
  <2> QED
    BY <2>1, <2>3, <2>4, Stored
<1> QED
  BY <1>1, <1>2, <1>3, <1>4, <1>5 DEF Release

(* Reading a candidate adds a reader. *)
LEMMA Observed ==
  ASSUME IInv, NEW p \in Procs, NEW w \in Paths, Observe(p, w)
  PROVE  Kept
<1>1. rec \in [Paths -> Records]
  BY DEF IInv, Typed, TypeOK
<1>2. rec' \in [Paths -> Records]
  BY <1>1 DEF Observe, Records
<1> QED
  BY <1>1, <1>2, Touched DEF Observe, Records

(* Those of a collection. *)
LEMMA GCKeeps ==
  ASSUME IInv, NEW p \in Procs, GC(p)
  PROVE  Kept
<1> USE DEF Stop
<1>1. ASSUME CollectStale(p) \/ DrainFails(p) \/ Drained(p) \/ ResumeCollection(p) \/
           CollectionRefused(p) \/ UnlockWorktree(p) \/ NoWorktree(p) \/ RemoveWorktree(p) \/
           RemoveFails(p) \/ Relock(p) \/ RelockFails(p) \/ CancelStale(p) \/
           DeleteFails(p)
      PROVE  Kept
  <2>1. rec' = rec
    BY <1>1
       DEF CollectStale, DrainFails, Drained, ResumeCollection, CollectionRefused,
           UnlockWorktree, NoWorktree, RemoveWorktree, RemoveFails, Relock, RelockFails,
           CancelStale, DeleteFails
  <2> QED
    BY <2>1, Touched DEF IInv, Typed, TypeOK
<1>2. ASSUME Collect(p) PROVE Kept
  <2>1. ws[p] \in Paths /\ Observe(p, ws[p])
    BY <1>2, MyRecord DEF Collect, At
  <2> QED
    BY <2>1, Observed
<1>3. ASSUME DrainProcess(p) PROVE Kept
  <2>1. /\ ws[p] \in Paths /\ My(p) = rec[ws[p]] /\ My(p) \in Records
        /\ Decodable(My(p)) /\ Unused(My(p))
    BY <1>3, MyRecord DEF DrainProcess, At
  <2>2. PICK q \in todo[p] \cap My(p).procs : Write(p, ws[p], [My(p) EXCEPT !.procs = @ \ {q}])
    BY <1>3 DEF DrainProcess
  <2> DEFINE r == [My(p) EXCEPT !.procs = @ \ {q}]
  <2>3. Sound(ws[p], r)
    BY <1>3, <2>1, <2>2 DEF Sound, Records, Decodable, Unused, Fences, DrainProcess
  <2>4. Write(p, ws[p], r) \/ WriteLater(p, ws[p], r)
    BY <2>2
  <2> HIDE DEF r
  <2> QED
    BY <2>1, <2>3, <2>4, Stored
<1>4. ASSUME BeginWorkspaceCollection(p) PROVE Kept
  <2>1. /\ ws[p] \in Paths /\ My(p) = rec[ws[p]] /\ My(p) \in Records
        /\ Decodable(My(p)) /\ Unused(My(p))
    BY <1>4, MyRecord DEF BeginWorkspaceCollection, At
  <2>2. PICK n \in Ids :
         /\ Fresh(n)
         /\ Write(p, ws[p], [My(p) EXCEPT !.op = n,
                               !.life = IF @ = "preparing" THEN "failed" ELSE @,
                               !.failed = @ \/ My(p).life = "preparing"])
    BY <1>4 DEF BeginWorkspaceCollection
  <2> DEFINE r == [My(p) EXCEPT !.op = n,
                             !.life = IF @ = "preparing" THEN "failed" ELSE @,
                             !.failed = @ \/ My(p).life = "preparing"]
  <2>3. Sound(ws[p], r)
    BY <1>4, <2>1, <2>2, ConstantsAssumption
       DEF Sound, Records, Decodable, Unused, Fences, BeginWorkspaceCollection, Collectable,
           Lives
  <2>4. Write(p, ws[p], r) \/ WriteLater(p, ws[p], r)
    BY <2>2
  <2> HIDE DEF r
  <2> QED
    BY <2>1, <2>3, <2>4, Stored
<1>5. ASSUME CancelWorkspaceCollection(p) PROVE Kept
  <2>1. /\ ws[p] \in Paths /\ My(p) = rec[ws[p]] /\ My(p) \in Records
        /\ Decodable(My(p)) /\ Unused(My(p))
    BY <1>5, MyRecord DEF CancelWorkspaceCollection, At
  <2> DEFINE r == [My(p) EXCEPT !.op = None]
  <2>3. Sound(ws[p], r)
    BY <1>5, <2>1
       DEF Sound, Records, Decodable, Unused, Fences, CancelWorkspaceCollection, IInv,
           CollectionsApart, At
  <2>4. Write(p, ws[p], r) \/ WriteLater(p, ws[p], r)
    BY <1>5 DEF CancelWorkspaceCollection
  <2> HIDE DEF r
  <2> QED
    BY <2>1, <2>3, <2>4, Stored
<1>6. ASSUME DeleteWorkspaceRecord(p) PROVE Kept
  <2>1. ws[p] \in Paths /\ rec' = [rec EXCEPT ![ws[p]] = NoRecord]
    BY <1>6, MyRecord DEF DeleteWorkspaceRecord, At
  <2>2. Sound(ws[p], NoRecord)
    BY DEF Sound, NoRecord, Records, Decodable, Unused, Fences, Lives
  <2> QED
    BY <2>1, <2>2, Put
<1>7. ASSUME NEW w \in Paths, NEW reason \in Collections \cup Recoveries, StartGC(p, w, reason)
      PROVE  Kept
  BY <1>7, Observed DEF StartGC
<1> QED
  BY <1>1, <1>2, <1>3, <1>4, <1>5, <1>6, <1>7 DEF GC

-----------------------------------------------------------------------------
(* Who is at the operation of a collection after a step was there before,  *)
(* with the same operation; or it is the step that begins or resumes it.   *)
CollectionsGoOn ==
  \A q \in Procs : pc'[q] \in {"unlock", "remove", "relock", "cancel", "forget"}
    => pc[q] \in {"unlock", "remove", "relock", "cancel", "forget"} /\ id'[q] = id[q]

(* Which keeps them apart from preparations, whose IDs are fresh. *)
LEMMA StayApart ==
  ASSUME IInv, Kept, CollectionsGoOn
  PROVE  CollectionsApart'
<1> SUFFICES ASSUME NEW q \in Procs, NEW w \in Paths, rec'[w].life = "preparing",
                    pc'[q] \in {"unlock", "remove", "relock", "cancel", "forget"}
             PROVE  rec'[w].op # id'[q]
  BY DEF CollectionsApart
<1>1. pc[q] \in {"unlock", "remove", "relock", "cancel", "forget"} /\ id'[q] = id[q]
  BY DEF CollectionsGoOn
<1>2. CASE rec[w].life = "preparing" /\ rec'[w].op = rec[w].op
  BY <1>1, <1>2 DEF IInv, CollectionsApart
<1>3. CASE Fresh(rec'[w].op)
  BY <1>1, <1>3 DEF Fresh
<1> QED
  BY <1>2, <1>3 DEF Kept, PreparationsKept

(* The rest of the state.  The IDs in the records are IDs. *)
LEMMA IdsKnown ==
  ASSUME Typed
  PROVE  \A w \in Paths : rec[w].op \in Ids \cup {None} /\ rec[w].asg \in Ids \cup {None}
BY DEF Typed, TypeOK, Records

(* What acquire and warm do besides. *)
LEMMA AcquireTyped ==
  ASSUME IInv, Kept, NEW p \in Procs, Acquire(p)
  PROVE  Typed' /\ CollectionsGoOn
<1> USE ConstantsAssumption
    DEF Kept, IInv, Typed, TypeOK, Placed, CollectionsGoOn, Trees, Locks, Steps, Jobs, Acquisitions,
        Collections, Recoveries, git, kids, own, At, Goto, Become, Choose, Carry, Take, Hold, Given, Stop
<1>1. ASSUME StartAcquire(p) PROVE Typed' /\ CollectionsGoOn
  BY <1>1 DEF StartAcquire
<1>2. ASSUME SelectReusable(p) PROVE Typed' /\ CollectionsGoOn
  BY <1>2 DEF SelectReusable
<1>3. ASSUME SelectFresh(p) PROVE Typed' /\ CollectionsGoOn
  BY <1>3 DEF SelectFresh
<1>4. ASSUME Reserve(p) PROVE Typed' /\ CollectionsGoOn
  <2>1. holder' \in [Locks -> Procs \cup {None}]
    BY <1>4 DEF Reserve
  <2>2. \E n \in Ids : Carry(p, n)
    BY <1>4 DEF Reserve
  <2>3. id' \in [Procs -> Ids \cup {None}]
    BY <2>2
  <2>4. /\ pc' = [pc EXCEPT ![p] = "verify"] /\ job' = [job EXCEPT ![p] = "assigned"]
        /\ UNCHANGED <<tree, locked, alive, loose, ws, fence, todo>>
    BY <1>4 DEF Reserve
  <2>5. TypeOK'
    BY <2>1, <2>3, <2>4
  <2>6. Placed'
    BY <1>4, <2>4, MyRecord DEF Reserve
  <2>7. CollectionsGoOn
    <3> SUFFICES ASSUME NEW q \in Procs,
                        pc'[q] \in {"unlock", "remove", "relock", "cancel", "forget"}
                 PROVE  pc[q] = pc'[q] /\ id'[q] = id[q]
      OBVIOUS
    <3>1. q # p
      BY <2>4
    <3> QED
      BY <2>2, <2>4, <3>1
  <2> QED
    BY <2>5, <2>6, <2>7
<1>5. ASSUME ReserveChanged(p) PROVE Typed' /\ CollectionsGoOn
  BY <1>5 DEF ReserveChanged
<1>6. ASSUME StartWarm(p) PROVE Typed' /\ CollectionsGoOn
  BY <1>6 DEF StartWarm
<1>7. ASSUME BeginPreparation(p) PROVE Typed' /\ CollectionsGoOn
  BY <1>7 DEF BeginPreparation, LockToBegin
<1>8. ASSUME AlreadyManaged(p) PROVE Typed' /\ CollectionsGoOn
  BY <1>8 DEF AlreadyManaged
<1>9. ASSUME Verify(p) PROVE Typed' /\ CollectionsGoOn
  BY <1>9 DEF Verify
<1>10. ASSUME VerifyFails(p) PROVE Typed' /\ CollectionsGoOn
  BY <1>10 DEF VerifyFails
<1>11. ASSUME AddWorktree(p) PROVE Typed' /\ CollectionsGoOn
  BY <1>11 DEF AddWorktree
<1>12. ASSUME LockWorktree(p) PROVE Typed' /\ CollectionsGoOn
  BY <1>12 DEF LockWorktree
<1>13. ASSUME AssignWorktree(p) PROVE Typed' /\ CollectionsGoOn
  BY <1>13 DEF AssignWorktree
<1>14. ASSUME GitFails(p) PROVE Typed' /\ CollectionsGoOn
  BY <1>14 DEF GitFails
<1>15. ASSUME MarkAvailable(p) PROVE Typed' /\ CollectionsGoOn
  BY <1>15 DEF MarkAvailable
<1>16. ASSUME MarkAssigned(p) PROVE Typed' /\ CollectionsGoOn
  BY <1>16 DEF MarkAssigned
<1>17. ASSUME VerifyPrepared(p) PROVE Typed' /\ CollectionsGoOn
  BY <1>17 DEF VerifyPrepared
<1>18. ASSUME PreparedFails(p) PROVE Typed' /\ CollectionsGoOn
  BY <1>18 DEF PreparedFails
<1>19. ASSUME RecordAcquisitionSuccess(p) PROVE Typed' /\ CollectionsGoOn
  BY <1>19 DEF RecordAcquisitionSuccess
<1>20. ASSUME SuccessFails(p) PROVE Typed' /\ CollectionsGoOn
  BY <1>20 DEF SuccessFails
<1>21. ASSUME Fail(p) PROVE Typed' /\ CollectionsGoOn
  BY <1>21 DEF Fail
<1>22. ASSUME HandoffLost(p) PROVE Typed' /\ CollectionsGoOn
  BY <1>22 DEF HandoffLost
<1>23. ASSUME Cleanup(p) PROVE Typed' /\ CollectionsGoOn
  BY <1>23 DEF Cleanup, ReturnWorktree
<1>24. ASSUME Retain(p) PROVE Typed' /\ CollectionsGoOn
  BY <1>24 DEF Retain
<1>25. ASSUME RetainFails(p) PROVE Typed' /\ CollectionsGoOn
  BY <1>25 DEF RetainFails
<1> QED
  BY <1>1, <1>2, <1>3, <1>4, <1>5, <1>6, <1>7, <1>8, <1>9, <1>10, <1>11, <1>12, <1>13, <1>14, <1>15, <1>16, <1>17, <1>18, <1>19, <1>20, <1>21, <1>22, <1>23, <1>24, <1>25
     DEF Acquire

(* what installers, run and sync do. *)
LEMMA ExecuteTyped ==
  ASSUME IInv, Kept, NEW p \in Procs, Execute(p)
  PROVE  Typed' /\ CollectionsGoOn
<1> USE ConstantsAssumption
    DEF Kept, IInv, Typed, TypeOK, Placed, CollectionsGoOn, Trees, Locks, Steps, Jobs, Acquisitions,
        Collections, Recoveries, git, kids, own, At, Goto, Become, Choose, Carry, Take, Hold, Given, Stop
<1>1. ASSUME EnsureDependencies(p) PROVE Typed' /\ CollectionsGoOn
  BY <1>1, MyRecord DEF EnsureDependencies, LockToPrepare, Spawn
<1>2. ASSUME AlreadyAttached(p) PROVE Typed' /\ CollectionsGoOn
  BY <1>2 DEF AlreadyAttached
<1>3. ASSUME PrepareFails(p) PROVE Typed' /\ CollectionsGoOn
  BY <1>3 DEF PrepareFails
<1>4. ASSUME StartRun(p) PROVE Typed' /\ CollectionsGoOn
  BY <1>4, IdsKnown DEF StartRun
<1>5. ASSUME StartSync(p) PROVE Typed' /\ CollectionsGoOn
  BY <1>5, IdsKnown DEF StartSync
<1>6. ASSUME Enter(p) PROVE Typed' /\ CollectionsGoOn
  BY <1>6, MyRecord DEF Enter, Spawn
<1>7. ASSUME EnterFails(p) PROVE Typed' /\ CollectionsGoOn
  BY <1>7 DEF EnterFails
<1>8. ASSUME Register(p) PROVE Typed' /\ CollectionsGoOn
  BY <1>8 DEF Register
<1>9. ASSUME Untracked(p) PROVE Typed' /\ CollectionsGoOn
  BY <1>9 DEF Untracked
<1>10. ASSUME RegisterFails(p) PROVE Typed' /\ CollectionsGoOn
  BY <1>10 DEF RegisterFails, Abort, Installed, Kill, Ended
<1>11. ASSUME Unregister(p) PROVE Typed' /\ CollectionsGoOn
  BY <1>11 DEF Unregister, AfterInstall, Installed, Ended
<1>12. ASSUME UnregisterFails(p) PROVE Typed' /\ CollectionsGoOn
  BY <1>12 DEF UnregisterFails, Abort, Installed, Ended
<1>13. ASSUME UntrackedExits(p) PROVE Typed' /\ CollectionsGoOn
  BY <1>13 DEF UntrackedExits, AfterInstall, Installed, Ended
<1>14. ASSUME Unsafe(p) PROVE Typed' /\ CollectionsGoOn
  BY <1>14 DEF Unsafe, Abort, Installed
<1> QED
  BY <1>1, <1>2, <1>3, <1>4, <1>5, <1>6, <1>7, <1>8, <1>9, <1>10, <1>11, <1>12, <1>13, <1>14
     DEF Execute

(* what a return does. *)
LEMMA ReleaseTyped ==
  ASSUME IInv, Kept, NEW p \in Procs, Release(p)
  PROVE  Typed' /\ CollectionsGoOn
<1> USE ConstantsAssumption
    DEF Kept, IInv, Typed, TypeOK, Placed, CollectionsGoOn, Trees, Locks, Steps, Jobs, Acquisitions,
        Collections, Recoveries, git, kids, own, At, Goto, Become, Choose, Carry, Take, Hold, Given, Stop
<1>1. ASSUME StartRelease(p) PROVE Typed' /\ CollectionsGoOn
  BY <1>1, IdsKnown DEF StartRelease
<1>2. ASSUME BeginWorkspaceReturn(p) PROVE Typed' /\ CollectionsGoOn
  <2>1. ws[p] \in Paths /\ My(p).procs \subseteq Procs
    BY <1>2, MyRecord DEF BeginWorkspaceReturn, Records
  <2>2. todo' \in [Procs -> SUBSET Procs]
    BY <1>2, <2>1 DEF BeginWorkspaceReturn
  <2>3. holder' \in [Locks -> Procs \cup {None}]
    BY <1>2, <2>1 DEF BeginWorkspaceReturn, LockToReturn
  <2> QED
    BY <1>2, <2>1, <2>2, <2>3 DEF BeginWorkspaceReturn
<1>3. ASSUME ResumeReturn(p) PROVE Typed' /\ CollectionsGoOn
  BY <1>3, MyRecord DEF ResumeReturn, LockToReturn, Records
<1>4. ASSUME ReturnRefused(p) PROVE Typed' /\ CollectionsGoOn
  BY <1>4 DEF ReturnRefused
<1>5. ASSUME CleanProcess(p) PROVE Typed' /\ CollectionsGoOn
  BY <1>5 DEF CleanProcess, Kill
<1>6. ASSUME CleanRaced(p) PROVE Typed' /\ CollectionsGoOn
  BY <1>6 DEF CleanRaced, Kill
<1>7. ASSUME NotDrained(p) PROVE Typed' /\ CollectionsGoOn
  BY <1>7 DEF NotDrained
<1>8. ASSUME CleanedUp(p) PROVE Typed' /\ CollectionsGoOn
  BY <1>8 DEF CleanedUp
<1>9. ASSUME Reset(p) PROVE Typed' /\ CollectionsGoOn
  BY <1>9 DEF Reset
<1>10. ASSUME ResetFails(p) PROVE Typed' /\ CollectionsGoOn
  BY <1>10 DEF ResetFails
<1>11. ASSUME FinishWorkspaceReturn(p) PROVE Typed' /\ CollectionsGoOn
  BY <1>11 DEF FinishWorkspaceReturn
<1>12. ASSUME FinishFails(p) PROVE Typed' /\ CollectionsGoOn
  BY <1>12 DEF FinishFails
<1>13. ASSUME CancelWorkspaceReturn(p) PROVE Typed' /\ CollectionsGoOn
  BY <1>13 DEF CancelWorkspaceReturn
<1>14. ASSUME CancelFails(p) PROVE Typed' /\ CollectionsGoOn
  BY <1>14 DEF CancelFails
<1> QED
  BY <1>1, <1>2, <1>3, <1>4, <1>5, <1>6, <1>7, <1>8, <1>9, <1>10, <1>11, <1>12, <1>13, <1>14
     DEF Release

(* what a collection does. *)
LEMMA GCTyped ==
  ASSUME IInv, Kept, NEW p \in Procs, GC(p)
  PROVE  Typed' /\ (CollectionsGoOn \/ BeginWorkspaceCollection(p) \/ ResumeCollection(p))
<1> USE ConstantsAssumption
    DEF Kept, IInv, Typed, TypeOK, Placed, CollectionsGoOn, Trees, Locks, Steps, Jobs, Acquisitions,
        Collections, Recoveries, git, kids, own, At, Goto, Become, Choose, Carry, Take, Hold, Given, Stop
<1>1. ASSUME Collect(p) PROVE Typed' /\ CollectionsGoOn
  <2>1. ws[p] \in Paths /\ My(p).procs \subseteq Procs
    BY <1>1, MyRecord DEF Collect, Records
  <2>2. todo' \in [Procs -> SUBSET Procs]
    BY <1>1, <2>1 DEF Collect
  <2> DEFINE step == CASE job[p] \in Recoveries -> "return"
                       [] My(p).life = "available" -> "fence"
                       [] OTHER -> "drain"
  <2>3. pc' = [pc EXCEPT ![p] = step] /\ step \in {"return", "fence", "drain"}
    BY <1>1 DEF Collect
  <2>4. holder' \in [Locks -> Procs \cup {None}]
    BY <1>1, <2>1 DEF Collect
  <2> QED
    BY <1>1, <2>1, <2>2, <2>3, <2>4 DEF Collect
<1>2. ASSUME CollectStale(p) PROVE Typed' /\ CollectionsGoOn
  BY <1>2 DEF CollectStale
<1>3. ASSUME DrainProcess(p) PROVE Typed' /\ CollectionsGoOn
  BY <1>3 DEF DrainProcess, Kill
<1>4. ASSUME DrainFails(p) PROVE Typed' /\ CollectionsGoOn
  BY <1>4 DEF DrainFails
<1>5. ASSUME Drained(p) PROVE Typed' /\ CollectionsGoOn
  BY <1>5 DEF Drained
<1>6. ASSUME BeginWorkspaceCollection(p) PROVE Typed'
  BY <1>6 DEF BeginWorkspaceCollection
<1>7. ASSUME ResumeCollection(p) PROVE Typed'
  BY <1>7, MyRecord DEF ResumeCollection, Records
<1>8. ASSUME CollectionRefused(p) PROVE Typed' /\ CollectionsGoOn
  BY <1>8 DEF CollectionRefused
<1>9. ASSUME UnlockWorktree(p) PROVE Typed' /\ CollectionsGoOn
  BY <1>9 DEF UnlockWorktree
<1>10. ASSUME NoWorktree(p) PROVE Typed' /\ CollectionsGoOn
  BY <1>10 DEF NoWorktree
<1>11. ASSUME RemoveWorktree(p) PROVE Typed' /\ CollectionsGoOn
  BY <1>11 DEF RemoveWorktree
<1>12. ASSUME RemoveFails(p) PROVE Typed' /\ CollectionsGoOn
  BY <1>12 DEF RemoveFails
<1>13. ASSUME Relock(p) PROVE Typed' /\ CollectionsGoOn
  BY <1>13 DEF Relock
<1>14. ASSUME RelockFails(p) PROVE Typed' /\ CollectionsGoOn
  BY <1>14 DEF RelockFails
<1>15. ASSUME CancelWorkspaceCollection(p) PROVE Typed' /\ CollectionsGoOn
  BY <1>15 DEF CancelWorkspaceCollection
<1>16. ASSUME CancelStale(p) PROVE Typed' /\ CollectionsGoOn
  BY <1>16 DEF CancelStale
<1>17. ASSUME DeleteWorkspaceRecord(p) PROVE Typed' /\ CollectionsGoOn
  BY <1>17 DEF DeleteWorkspaceRecord
<1>18. ASSUME DeleteFails(p) PROVE Typed' /\ CollectionsGoOn
  BY <1>18 DEF DeleteFails
<1>19. ASSUME NEW w \in Paths, NEW reason \in Collections \cup Recoveries, StartGC(p, w, reason)
      PROVE  Typed' /\ CollectionsGoOn
  BY <1>19, IdsKnown DEF StartGC, Fencing
<1> QED
  BY <1>1, <1>2, <1>3, <1>4, <1>5, <1>6, <1>7, <1>8, <1>9, <1>10, <1>11, <1>12, <1>13, <1>14, <1>15, <1>16, <1>17, <1>18, <1>19
     DEF GC

(* A collection's operation is fresh, or that of the record it resumes. *)
LEMMA BeginsApart ==
  ASSUME IInv, Kept, NEW p \in Procs, BeginWorkspaceCollection(p) \/ ResumeCollection(p)
  PROVE  CollectionsApart'
<1>1. /\ ws[p] \in Paths /\ My(p) = rec[ws[p]] /\ Decodable(My(p))
      /\ \A v \in Paths : rec[v] \in Records
  BY MyRecord DEF BeginWorkspaceCollection, ResumeCollection, At, IInv, Typed, TypeOK
<1>2. \A q \in Procs \ {p} : pc'[q] = pc[q] /\ id'[q] = id[q]
  BY DEF BeginWorkspaceCollection, ResumeCollection, Goto, Carry, IInv, Typed, TypeOK
<1>3. \A w \in Paths : rec'[w].life = "preparing" => rec'[w].op # id'[p]
  <2>1. CASE BeginWorkspaceCollection(p)
    <3>1. PICK n \in Ids :
            /\ Fresh(n) /\ Carry(p, n)
            /\ Write(p, ws[p], [My(p) EXCEPT !.op = n,
                                  !.life = IF @ = "preparing" THEN "failed" ELSE @,
                                  !.failed = @ \/ My(p).life = "preparing"])
      BY <2>1 DEF BeginWorkspaceCollection
    <3>2. id'[p] = n
      BY <3>1 DEF Carry, IInv, Typed, TypeOK
    <3>3. rec'[ws[p]].life # "preparing" /\ \A w \in Paths \ {ws[p]} : rec'[w] = rec[w]
      BY <1>1, <3>1 DEF Write, IInv, Typed, TypeOK, Records
    <3> QED
      BY <3>1, <3>2, <3>3 DEF Fresh
  <2>2. CASE ResumeCollection(p)
    <3>1. id'[p] = rec[ws[p]].op /\ rec[ws[p]].op # None /\ rec[ws[p]].life # "preparing" /\ rec' = rec
      BY <1>1, <2>2 DEF ResumeCollection, Resumes, Carry, IInv, Typed, TypeOK
    <3>2. \A w \in Paths \ {ws[p]} : rec[w].op # rec[ws[p]].op
      BY <1>1, <3>1 DEF IInv, StateStaysDecodable, Fences
    <3> QED
      BY <3>1, <3>2
  <2> QED
    BY <2>1, <2>2
<1>4. \A q \in Procs \ {p}, w \in Paths :
        pc[q] \in {"unlock", "remove", "relock", "cancel", "forget"} /\ rec'[w].life = "preparing"
          => rec'[w].op # id[q]
  BY DEF Kept, PreparationsKept, IInv, CollectionsApart, Fresh
<1> QED
  BY <1>2, <1>3, <1>4 DEF CollectionsApart

(* The end of a command, be it a crash, changes nothing but its own state. *)
LEMMA EndKeeps ==
  ASSUME IInv, NEW p \in Procs, End(p)
  PROVE  IInv'
<1>1. rec' \in [Paths -> Records]
  <2>1. \A w \in Paths : [rec[w] EXCEPT !.seen = @ \ {p}] \in Records
    <3>1. \A w \in Paths : rec[w] \in Records /\ rec[w].seen \ {p} \in SUBSET Procs
      BY DEF Records, IInv, Typed, TypeOK
    <3> QED
      BY <3>1, FieldsChange
  <2> QED
    BY <2>1 DEF End
<1>2. Kept
  <2> SUFFICES ASSUME NEW w \in Paths
               PROVE  /\ rec'[w].life = rec[w].life /\ rec'[w].op = rec[w].op
                      /\ rec'[w].asg = rec[w].asg /\ rec'[w].procs = rec[w].procs
                      /\ rec'[w].failed = rec[w].failed
    BY <1>1, Touched
  <2>1. rec'[w] = [rec[w] EXCEPT !.seen = @ \ {p}]
    BY DEF End
  <2>2. rec[w] \in Records
    BY DEF IInv, Typed, TypeOK
  <2> QED
    BY <2>1, <2>2 DEF Records
<1>3. /\ pc' = [pc EXCEPT ![p] = "idle"] /\ job' = [job EXCEPT ![p] = "none"]
      /\ ws' = [ws EXCEPT ![p] = None] /\ id' = [id EXCEPT ![p] = None]
      /\ fence' = [fence EXCEPT ![p] = None] /\ todo' = [todo EXCEPT ![p] = {}]
      /\ holder' = Given(p, Locks) /\ UNCHANGED <<tree, locked, alive, loose>>
  BY DEF End, Goto, Become, Choose, Carry, git, kids
<1>4. TypeOK /\ Placed
  BY DEF IInv, Typed
<1>5. TypeOK'
  <2>1. holder' \in [Locks -> Procs \cup {None}]
    BY <1>3, <1>4 DEF Given, TypeOK
  <2>2. pc' \in [Procs -> Steps] /\ job' \in [Procs -> Jobs]
    BY <1>3, <1>4 DEF TypeOK, Steps, Jobs
  <2>3. /\ ws' \in [Procs -> Paths \cup {None}] /\ id' \in [Procs -> Ids \cup {None}]
        /\ fence' \in [Procs -> Ids \cup {None}] /\ todo' \in [Procs -> SUBSET Procs]
    BY <1>3, <1>4 DEF TypeOK
  <2> QED
    BY <1>1, <1>3, <1>4, <2>1, <2>2, <2>3 DEF TypeOK
<1>6. Placed' /\ CollectionsGoOn
  BY <1>3, <1>4 DEF TypeOK, Placed, CollectionsGoOn
<1> QED
  BY <1>2, <1>5, <1>6, StayApart DEF IInv, Kept, Typed

(* What happens on its own touches leases and children. *)
LEMMA OutsideKeeps ==
  ASSUME IInv, \/ \E p \in Procs : ChildExit(p)
               \/ \E w \in Paths : Expire(w) \/ Renew(w)
               \/ UNCHANGED vars
  PROVE  IInv'
<1>1. Kept
  <2>1. ASSUME NEW w \in Paths, Expire(w) PROVE Kept
    <3>1. rec' = [rec EXCEPT ![w] = [rec[w] EXCEPT !.expired = TRUE]]
      BY <2>1 DEF Expire
    <3>2. rec' \in [Paths -> Records]
      BY <3>1, FieldsChange DEF IInv, Typed, TypeOK
    <3> QED
      BY <3>1, <3>2, Touched DEF Records, IInv, Typed, TypeOK
  <2>2. ASSUME NEW w \in Paths, Renew(w) PROVE Kept
    <3>1. PICK tie \in Ties :
            rec' = [rec EXCEPT ![w].expired = FALSE, ![w].seen = IF tie THEN @ ELSE {}]
      BY <2>2 DEF Renew
    <3> DEFINE seen == IF tie THEN rec[w].seen ELSE {}
               t == [[rec[w] EXCEPT !.expired = FALSE] EXCEPT !.seen = seen]
    <3>2. rec[w] \in Records /\ seen \in SUBSET Procs
      BY DEF Records, IInv, Typed, TypeOK
    <3>3. t \in Records
      BY <3>2, FieldsChange
    <3>4. rec' = [rec EXCEPT ![w] = t]
      BY <3>1
    <3>5. rec' \in [Paths -> Records]
      BY <3>3, <3>4 DEF IInv, Typed, TypeOK
    <3> QED
      BY <3>1, <3>5, Touched DEF Records, IInv, Typed, TypeOK
  <2>3. CASE UNCHANGED vars \/ \E p \in Procs : ChildExit(p)
    <3>1. rec' = rec
      BY <2>3 DEF vars, ChildExit
    <3> QED
      BY <3>1, Touched DEF IInv, Typed, TypeOK
  <2> QED
    BY <2>1, <2>2, <2>3
<1>2. rec' \in [Paths -> Records]
  BY <1>1 DEF Kept
<1>3. Typed' /\ CollectionsGoOn
  BY <1>2
     DEF ChildExit, Kill, Expire, Renew, vars, own, git, kids, IInv, Typed, TypeOK, Placed,
         CollectionsGoOn
<1> QED
  BY <1>1, <1>3, StayApart DEF IInv, Kept

-----------------------------------------------------------------------------
(* In every run the invariant holds, *)
THEOREM Invariance == Spec => []IInv
<1>1. Init => IInv
  <2> SUFFICES ASSUME Init PROVE IInv
    OBVIOUS
  <2>1. NoRecord \in Records /\ Decodable(NoRecord) /\ Fences(NoRecord) = {}
    BY DEF NoRecord, Records, Lives, Decodable, Fences
  <2>2. Typed
    BY <2>1 DEF Init, Typed, TypeOK, Placed, Trees, Locks, Steps, Jobs
  <2>3. \A w \in Paths : rec[w] = NoRecord
    BY DEF Init
  <2>4. StateStaysDecodable
    BY <2>1, <2>3 DEF StateStaysDecodable
  <2>6. PoolIsDrained
    BY <2>3 DEF PoolIsDrained, NoRecord
  <2>5. CollectionsApart
    BY DEF Init, CollectionsApart
  <2> QED
    BY <2>2, <2>4, <2>5, <2>6 DEF IInv
<1>2. IInv /\ [Next]_vars => IInv'
  <2> SUFFICES ASSUME IInv, [Next]_vars PROVE IInv'
    OBVIOUS
  <2>1. ASSUME NEW p \in Procs, Acquire(p) PROVE IInv'
    BY <2>1, AcquireKeeps, AcquireTyped, StayApart DEF IInv, Kept
  <2>2. ASSUME NEW p \in Procs, Execute(p) PROVE IInv'
    BY <2>2, ExecuteKeeps, ExecuteTyped, StayApart DEF IInv, Kept
  <2>3. ASSUME NEW p \in Procs, Release(p) PROVE IInv'
    BY <2>3, ReleaseKeeps, ReleaseTyped, StayApart DEF IInv, Kept
  <2>4. ASSUME NEW p \in Procs, GC(p) PROVE IInv'
    BY <2>4, GCKeeps, GCTyped, StayApart, BeginsApart DEF IInv, Kept
  <2>5. ASSUME NEW p \in Procs, Leave(p) \/ Crash(p) PROVE IInv'
    BY <2>5, EndKeeps DEF Leave, Crash
  <2>6. CASE \/ \E p \in Procs : ChildExit(p)
             \/ \E w \in Paths : Expire(w) \/ Renew(w)
             \/ UNCHANGED vars
    BY <2>6, OutsideKeeps
  <2> QED
    BY <2>1, <2>2, <2>3, <2>4, <2>5, <2>6 DEF Next, Step
<1> QED
  BY <1>1, <1>2, PTL DEF Spec

(* so the records, worktrees, children and locals of the commands keep the *)
(* shape that TypeOK states,                                               *)
THEOREM WorkspacesTypeCorrect == Spec => []TypeOK
<1>1. IInv => TypeOK
  BY DEF IInv, Typed
<1> QED
  BY <1>1, Invariance, PTL

(* no acquisition, registration, return or collection, however they    *)
(* interleave and crash, writes a state file that Decode would refuse.     *)
THEOREM StateFileDecodes == Spec => []StateStaysDecodable
<1>1. IInv => StateStaysDecodable
  BY DEF IInv
<1> QED
  BY <1>1, Invariance, PTL

(* and no child can be registered in a workspace that is in the pool or    *)
(* being collected, whichever process drained it.                          *)
THEOREM PoolDrained == Spec => []PoolIsDrained
<1>1. IInv => PoolIsDrained
  BY DEF IInv
<1> QED
  BY <1>1, Invariance, PTL

=============================================================================
