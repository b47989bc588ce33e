----------------------- MODULE WorkspacesFencesProofs -----------------------
(***************************************************************************)
(* What the fences of Workspaces keep when every lock is lost, for every   *)
(* set of processes, paths and IDs, whether or not removals are cut short  *)
(* and listings fail: a recorded child is not forgotten while it lives     *)
(* (NoChildForgotten), a workspace changes hands only under its own ID     *)
(* (FencedTransitions), and a renewed lease is not ended by a collection   *)
(* (RenewalWins).                                                          *)
(***************************************************************************)
EXTENDS WorkspacesProofs

(* The steps of a collection that has its operation in the record. *)
Removing == {"unlock", "remove", "relock", "cancel", "forget"}

(* What a command may have come to at each of its steps.                   *)
Fits(p) ==
  /\ pc[p] = "idle" => job[p] = "none"
  /\ pc[p] \in {"pool", "reserve"} => job[p] = "acquire"
  /\ pc[p] \in {"begin", "create", "gitlock"} => job[p] \in {"fresh", "warm"}
  /\ pc[p] \in {"verify", "assign", "cleanup"} => job[p] \in {"fresh", "assigned"}
  /\ pc[p] \in {"prepare", "prepared", "fail", "retain"} => job[p] \in Acquisitions
  /\ pc[p] = "succeed" => job[p] = "assigned"
  /\ pc[p] \in {"register", "wait"} => job[p] \in Acquisitions \cup {"run", "sync"}
  /\ pc[p] = "enter" => job[p] \in {"run", "sync"}
  /\ pc[p] \in {"return", "clean", "reset", "finish", "cancelReturn"}
       => job[p] \in {"release"} \cup Recoveries
  /\ pc[p] \in {"collect", "drain", "fence"} \cup Removing
       => job[p] \in Collections \cup Recoveries

(* The IDs that a command cannot be without. *)
Carries(p) ==
  /\ job[p] = "assigned" /\ pc[p] \in Handoff => id[p] # None
  /\ job[p] = "run" /\ pc[p] \in {"enter", "register", "wait"} => id[p] # None
  /\ job[p] = "run" /\ pc[p] \in {"register", "wait"} => fence[p] = id[p]
  /\ job[p] = "abandoned" /\ pc[p] \in {"collect", "return"} => id[p] # None
  /\ pc[p] \in Removing => id[p] # None

(* A command that installs or runs has started its child where it works,   *)
(* and sees to nobody else's.                                              *)
Minds(p) ==
  /\ pc[p] \in {"idle", "pool", "reserve", "begin", "enter", "verify", "create", "gitlock",
                "assign", "prepare", "prepared", "succeed", "cleanup"} => todo[p] = {}
  /\ pc[p] \in {"fail", "retain"} => todo[p] \subseteq {p}
  /\ pc[p] \in {"register", "wait"} => todo[p] = {p}
  /\ pc[p] \in Handoff /\ p \in todo[p] => alive[p] \in {None, ws[p]}
  /\ pc[p] = "wait" /\ fence[p] # None => p \notin loose

(* Who reads a record, to fence its own update with, is a collection of    *)
(* that workspace, and it is the same preparation that it has read.        *)
Read(p, w) ==
  p \in rec[w].seen =>
    /\ job[p] \in Collections \cup Recoveries /\ ws[p] = w
    /\ rec[w].life = "preparing" => rec[w].op = id[p]

(* Where there is no record, nothing is under way and nothing can be read. *)
Blank(r) == r.life = "absent" => r.op = None /\ r.seen = {}

(* The part of one process, and that of one record. *)
Local(p) == Fits(p) /\ Carries(p) /\ Minds(p)
Readers(w) == Blank(rec[w]) /\ \A p \in Procs : Read(p, w)

(* Everything of it that the fences and the records alone keep true.      *)
FInv ==
  /\ \A p \in Procs : Local(p)
  /\ \A w \in Paths : Readers(w)
  /\ NoChildForgotten

-----------------------------------------------------------------------------
(* What an update leaves at its path, and everywhere else.                 *)
LEMMA Written ==
  ASSUME Typed, NEW p \in Procs, NEW w \in Paths, NEW r \in Records,
         Write(p, w, r) \/ WriteLater(p, w, r)
  PROVE  /\ rec'[w].life = r.life /\ rec'[w].op = r.op /\ rec'[w].asg = r.asg
         /\ rec'[w].procs = r.procs /\ rec'[w].expired = r.expired /\ rec'[w].failed = r.failed
         /\ rec'[w].seen \subseteq r.seen
         /\ \A v \in Paths \ {w} : rec'[v] = rec[v]
BY DEF Write, WriteLater, Records, Typed, TypeOK

(* What the updates do to the record, field by field.  A reservation;      *)
LEMMA ReserveWrites ==
  ASSUME IInv, NEW p \in Procs, Reserve(p)
  PROVE  /\ ws[p] \in Paths /\ My(p) = rec[ws[p]] /\ \A v \in Paths \ {ws[p]} : rec'[v] = rec[v]
         /\ rec'[ws[p]].seen \subseteq rec[ws[p]].seen
         /\ rec'[ws[p]].life = "assigned"
<1>1. /\ ws[p] \in Paths /\ My(p) = rec[ws[p]] /\ My(p) \in Records /\ Decodable(My(p))
      /\ Typed
  BY MyRecord DEF Reserve, At, IInv
<1>2. PICK n \in Ids : Fresh(n) /\ Write(p, ws[p], Assigned(My(p), n))
  BY DEF Reserve
<1> DEFINE r == Assigned(My(p), n)
<1>3. r \in Records /\ r.life = "assigned" /\ r.seen = My(p).seen /\ r.procs = My(p).procs
  BY <1>1, <1>2 DEF Reserve, Records, Assigned, Lives, Decodable
<1>4. Write(p, ws[p], r) \/ WriteLater(p, ws[p], r)
  BY <1>2
<1> HIDE DEF r
<1>5. /\ rec'[ws[p]].life = r.life /\ rec'[ws[p]].op = r.op /\ rec'[ws[p]].asg = r.asg
      /\ rec'[ws[p]].failed = r.failed /\ rec'[ws[p]].procs = r.procs
      /\ rec'[ws[p]].seen \subseteq r.seen
      /\ \A v \in Paths \ {ws[p]} : rec'[v] = rec[v]
  <2>1. Typed /\ ws[p] \in Paths /\ r \in Records
    BY <1>1, <1>3
  <2> QED
    BY <2>1, <1>4, Written
<1> QED
  BY <1>1, <1>3, <1>5 DEF Reserve

(* the registration of a child,                                            *)
LEMMA RegisterWrites ==
  ASSUME IInv, NEW p \in Procs, Register(p)
  PROVE  /\ ws[p] \in Paths /\ My(p) = rec[ws[p]] /\ \A v \in Paths \ {ws[p]} : rec'[v] = rec[v]
         /\ rec'[ws[p]].seen \subseteq rec[ws[p]].seen
         /\ rec'[ws[p]].life = rec[ws[p]].life /\ rec'[ws[p]].op = rec[ws[p]].op
         /\ rec'[ws[p]].asg = rec[ws[p]].asg /\ rec'[ws[p]].failed = rec[ws[p]].failed
         /\ rec'[ws[p]].procs = rec[ws[p]].procs \cup {p}
<1>1. /\ ws[p] \in Paths /\ My(p) = rec[ws[p]] /\ My(p) \in Records /\ Decodable(My(p))
      /\ Typed
  BY MyRecord DEF Register, At, IInv
<1> DEFINE r == [My(p) EXCEPT !.procs = @ \cup {p}]
<1>2. r \in Records /\ r.life = My(p).life /\ r.op = My(p).op /\ r.asg = My(p).asg
      /\ r.failed = My(p).failed /\ r.seen = My(p).seen /\ r.procs = My(p).procs \cup {p}
  BY <1>1 DEF Register, Records, Lives
<1>3. Write(p, ws[p], r) \/ WriteLater(p, ws[p], r)
  BY DEF Register
<1> HIDE DEF r
<1>4. /\ rec'[ws[p]].life = r.life /\ rec'[ws[p]].op = r.op /\ rec'[ws[p]].asg = r.asg
      /\ rec'[ws[p]].failed = r.failed /\ rec'[ws[p]].procs = r.procs
      /\ rec'[ws[p]].seen \subseteq r.seen
      /\ \A v \in Paths \ {ws[p]} : rec'[v] = rec[v]
  <2>1. Typed /\ ws[p] \in Paths /\ r \in Records
    BY <1>1, <1>2
  <2> QED
    BY <2>1, <1>3, Written
<1> QED
  BY <1>1, <1>2, <1>4 DEF Register

(* and its end;                                                            *)
LEMMA UnregisterWrites ==
  ASSUME IInv, NEW p \in Procs, Unregister(p)
  PROVE  /\ ws[p] \in Paths /\ My(p) = rec[ws[p]] /\ \A v \in Paths \ {ws[p]} : rec'[v] = rec[v]
         /\ rec'[ws[p]].seen \subseteq rec[ws[p]].seen
         /\ rec'[ws[p]].life = rec[ws[p]].life /\ rec'[ws[p]].op = rec[ws[p]].op
         /\ rec'[ws[p]].asg = rec[ws[p]].asg /\ rec'[ws[p]].failed = rec[ws[p]].failed
         /\ rec'[ws[p]].procs = rec[ws[p]].procs \ {p}
<1>1. /\ ws[p] \in Paths /\ My(p) = rec[ws[p]] /\ My(p) \in Records /\ Decodable(My(p))
      /\ Typed
  BY MyRecord DEF Unregister, At, IInv
<1> DEFINE r == [My(p) EXCEPT !.procs = @ \ {p}]
<1>2. r \in Records /\ r.life = My(p).life /\ r.op = My(p).op /\ r.asg = My(p).asg
      /\ r.failed = My(p).failed /\ r.seen = My(p).seen /\ r.procs = My(p).procs \ {p}
  BY <1>1 DEF Unregister, Records, Lives
<1>3. Write(p, ws[p], r) \/ WriteLater(p, ws[p], r)
  BY DEF Unregister
<1> HIDE DEF r
<1>4. /\ rec'[ws[p]].life = r.life /\ rec'[ws[p]].op = r.op /\ rec'[ws[p]].asg = r.asg
      /\ rec'[ws[p]].failed = r.failed /\ rec'[ws[p]].procs = r.procs
      /\ rec'[ws[p]].seen \subseteq r.seen
      /\ \A v \in Paths \ {ws[p]} : rec'[v] = rec[v]
  <2>1. Typed /\ ws[p] \in Paths /\ r \in Records
    BY <1>1, <1>2
  <2> QED
    BY <2>1, <1>3, Written
<1> QED
  BY <1>1, <1>2, <1>4 DEF Unregister

(* the end of a hand-off that failed;                                     *)
LEMMA RetainWrites ==
  ASSUME IInv, NEW p \in Procs, Retain(p)
  PROVE  /\ ws[p] \in Paths /\ \A v \in Paths \ {ws[p]} : rec'[v] = rec[v]
         /\ rec'[ws[p]].seen \subseteq rec[ws[p]].seen
         /\ rec'[ws[p]].life \in {"assigned", "failed"} /\ rec'[ws[p]].failed
         /\ rec'[ws[p]].life \in {"failed", rec[ws[p]].life}
         /\ \E named \in SUBSET todo[p] : /\ rec'[ws[p]].procs = rec[ws[p]].procs \cup named
                                          /\ loose' = loose \ named
<1>1. /\ ws[p] \in Paths /\ My(p) = rec[ws[p]] /\ My(p) \in Records /\ Decodable(My(p))
      /\ Typed
  BY MyRecord DEF Retain, At, IInv
<1>2. PICK named \in SUBSET todo[p] :
        /\ loose' = loose \ named
        /\ WriteLater(p, ws[p],
             [My(p) EXCEPT !.op = None, !.failed = TRUE, !.procs = @ \cup named,
                           !.life = IF job[p] = "assigned" THEN @ ELSE "failed"])
        /\ todo[p] \subseteq Procs /\ (job[p] = "assigned" => My(p).life = "assigned")
  BY DEF Retain, Holds, Acquiring, IInv, Typed, TypeOK
<1> DEFINE r == [My(p) EXCEPT !.op = None, !.failed = TRUE, !.procs = @ \cup named,
                              !.life = IF job[p] = "assigned" THEN @ ELSE "failed"]
<1>3. r \in Records /\ r.seen = My(p).seen
      /\ r.life \in {"assigned", "failed"} /\ r.life \in {"failed", My(p).life} /\ r.failed
      /\ r.procs = My(p).procs \cup named
  BY <1>1, <1>2 DEF Records, Lives
<1>4. Write(p, ws[p], r) \/ WriteLater(p, ws[p], r)
  BY <1>2
<1> HIDE DEF r
<1>5. /\ rec'[ws[p]].life = r.life /\ rec'[ws[p]].op = r.op /\ rec'[ws[p]].asg = r.asg
      /\ rec'[ws[p]].failed = r.failed /\ rec'[ws[p]].procs = r.procs
      /\ rec'[ws[p]].seen \subseteq r.seen
      /\ \A v \in Paths \ {ws[p]} : rec'[v] = rec[v]
  <2>1. Typed /\ ws[p] \in Paths /\ r \in Records
    BY <1>1, <1>3
  <2> QED
    BY <2>1, <1>4, Written
<1> QED
  BY <1>1, <1>2, <1>3, <1>5

(* the end of a child, for a return                                       *)
LEMMA CleanProcessWrites ==
  ASSUME IInv, NEW p \in Procs, CleanProcess(p)
  PROVE  /\ ws[p] \in Paths /\ \A v \in Paths \ {ws[p]} : rec'[v] = rec[v]
         /\ rec'[ws[p]].seen \subseteq rec[ws[p]].seen
         /\ rec'[ws[p]].life = rec[ws[p]].life /\ rec'[ws[p]].op = rec[ws[p]].op
         /\ \E q \in Procs : rec'[ws[p]].procs = rec[ws[p]].procs \ {q} /\ Kill(q)
<1>1. /\ ws[p] \in Paths /\ My(p) = rec[ws[p]] /\ My(p) \in Records /\ Decodable(My(p))
      /\ Typed
  BY MyRecord DEF CleanProcess, At, IInv
<1>2. PICK q \in todo[p] :
        /\ Kill(q) /\ Write(p, ws[p], [My(p) EXCEPT !.procs = @ \ {q}])
        /\ todo[p] \subseteq Procs
  BY DEF CleanProcess, IInv, Typed, TypeOK
<1> DEFINE r == [My(p) EXCEPT !.procs = @ \ {q}]
<1>3. r \in Records /\ r.seen = My(p).seen
      /\ r.life = My(p).life /\ r.op = My(p).op /\ r.procs = My(p).procs \ {q}
  BY <1>1, <1>2 DEF Records, Lives
<1>4. Write(p, ws[p], r) \/ WriteLater(p, ws[p], r)
  BY <1>2
<1> HIDE DEF r
<1>5. /\ rec'[ws[p]].life = r.life /\ rec'[ws[p]].op = r.op /\ rec'[ws[p]].asg = r.asg
      /\ rec'[ws[p]].failed = r.failed /\ rec'[ws[p]].procs = r.procs
      /\ rec'[ws[p]].seen \subseteq r.seen
      /\ \A v \in Paths \ {ws[p]} : rec'[v] = rec[v]
  <2>1. Typed /\ ws[p] \in Paths /\ r \in Records
    BY <1>1, <1>3
  <2> QED
    BY <2>1, <1>4, Written
<1> QED
  BY <1>1, <1>2, <1>3, <1>5

(* or for a collection;                                                   *)
LEMMA DrainProcessWrites ==
  ASSUME IInv, NEW p \in Procs, DrainProcess(p)
  PROVE  /\ ws[p] \in Paths /\ \A v \in Paths \ {ws[p]} : rec'[v] = rec[v]
         /\ rec'[ws[p]].seen \subseteq rec[ws[p]].seen
         /\ rec'[ws[p]].life = rec[ws[p]].life /\ rec'[ws[p]].op = rec[ws[p]].op
         /\ \E q \in Procs : rec'[ws[p]].procs = rec[ws[p]].procs \ {q} /\ Kill(q)
<1>1. /\ ws[p] \in Paths /\ My(p) = rec[ws[p]] /\ My(p) \in Records /\ Decodable(My(p))
      /\ Typed
  BY MyRecord DEF DrainProcess, At, IInv
<1>2. PICK q \in todo[p] :
        /\ Kill(q) /\ Write(p, ws[p], [My(p) EXCEPT !.procs = @ \ {q}])
        /\ todo[p] \subseteq Procs
  BY DEF DrainProcess, IInv, Typed, TypeOK
<1> DEFINE r == [My(p) EXCEPT !.procs = @ \ {q}]
<1>3. r \in Records /\ r.seen = My(p).seen
      /\ r.life = My(p).life /\ r.op = My(p).op /\ r.procs = My(p).procs \ {q}
  BY <1>1, <1>2 DEF Records, Lives
<1>4. Write(p, ws[p], r) \/ WriteLater(p, ws[p], r)
  BY <1>2
<1> HIDE DEF r
<1>5. /\ rec'[ws[p]].life = r.life /\ rec'[ws[p]].op = r.op /\ rec'[ws[p]].asg = r.asg
      /\ rec'[ws[p]].failed = r.failed /\ rec'[ws[p]].procs = r.procs
      /\ rec'[ws[p]].seen \subseteq r.seen
      /\ \A v \in Paths \ {ws[p]} : rec'[v] = rec[v]
  <2>1. Typed /\ ws[p] \in Paths /\ r \in Records
    BY <1>1, <1>3
  <2> QED
    BY <2>1, <1>4, Written
<1> QED
  BY <1>1, <1>2, <1>3, <1>5

(* the beginning of a collection;                                          *)
LEMMA BeginWorkspaceCollectionWrites ==
  ASSUME IInv, NEW p \in Procs, BeginWorkspaceCollection(p)
  PROVE  /\ ws[p] \in Paths /\ My(p) = rec[ws[p]] /\ \A v \in Paths \ {ws[p]} : rec'[v] = rec[v]
         /\ rec'[ws[p]].seen \subseteq rec[ws[p]].seen
         /\ rec[ws[p]].procs = {} /\ rec'[ws[p]].procs = {}
         /\ rec'[ws[p]].life \in {"available", "failed"}
         /\ \E n \in Ids : Carry(p, n) /\ rec'[ws[p]].op = n
<1>1. /\ ws[p] \in Paths /\ My(p) = rec[ws[p]] /\ My(p) \in Records /\ Decodable(My(p))
      /\ Typed
  BY MyRecord DEF BeginWorkspaceCollection, At, IInv
<1>2. PICK n \in Ids :
        /\ Carry(p, n)
        /\ Write(p, ws[p], [My(p) EXCEPT !.op = n,
                              !.life = IF @ = "preparing" THEN "failed" ELSE @,
                              !.failed = @ \/ My(p).life = "preparing"])
  BY DEF BeginWorkspaceCollection
<1> DEFINE r == [My(p) EXCEPT !.op = n, !.life = IF @ = "preparing" THEN "failed" ELSE @,
                              !.failed = @ \/ My(p).life = "preparing"]
<1>3. /\ r \in Records /\ r.life \in {"available", "failed"} /\ r.op = n
      /\ r.procs = {} /\ r.seen = My(p).seen
  BY <1>1, <1>2 DEF BeginWorkspaceCollection, Records, Lives, Collectable
<1>4. Write(p, ws[p], r) \/ WriteLater(p, ws[p], r)
  BY <1>2
<1> HIDE DEF r
<1>5. /\ rec'[ws[p]].life = r.life /\ rec'[ws[p]].op = r.op /\ rec'[ws[p]].asg = r.asg
      /\ rec'[ws[p]].failed = r.failed /\ rec'[ws[p]].procs = r.procs
      /\ rec'[ws[p]].seen \subseteq r.seen
      /\ \A v \in Paths \ {ws[p]} : rec'[v] = rec[v]
  <2>1. Typed /\ ws[p] \in Paths /\ r \in Records
    BY <1>1, <1>3
  <2> QED
    BY <2>1, <1>4, Written
<1> QED
  BY <1>1, <1>2, <1>3, <1>5 DEF BeginWorkspaceCollection, Lives, Collectable

(* and the first read of a collection.                                     *)
LEMMA StartGCReads ==
  ASSUME IInv, NEW p \in Procs, NEW w \in Paths,
         NEW reason \in Collections \cup Recoveries, StartGC(p, w, reason)
  PROVE  /\ \A v \in Paths \ {w} : rec'[v] = rec[v]
         /\ rec'[w].life = rec[w].life /\ rec'[w].op = rec[w].op
         /\ rec'[w].seen = rec[w].seen \cup {p} /\ rec[w].life # "absent"
         /\ (rec[w].life = "preparing" => rec[w].op = Fencing(rec[w], reason))
<1>1. w \in Paths /\ rec[w] \in Records /\ rec \in [Paths -> Records]
  BY MyRecord DEF StartGC, At, IInv, Typed, TypeOK
<1>2. rec' = [rec EXCEPT ![w] = [rec[w] EXCEPT !.seen = @ \cup {p}]]
  BY <1>1 DEF StartGC, Observe
<1>3. /\ rec[w].life # "absent"
      /\ (rec[w].life = "preparing" => rec[w].op = Fencing(rec[w], reason))
  BY <1>1
     DEF StartGC, Candidate, Fencing, Collections, Recoveries, IInv, StateStaysDecodable,
         Decodable
<1> QED
  BY <1>1, <1>2, <1>3 DEF Records

(* Under its lock, it reads the same candidate.                            *)
LEMMA CollectReads ==
  ASSUME IInv, NEW p \in Procs, job[p] \in Collections \cup Recoveries, Collect(p)
  PROVE  /\ ws[p] \in Paths /\ \A v \in Paths \ {ws[p]} : rec'[v] = rec[v]
         /\ rec'[ws[p]].life = rec[ws[p]].life /\ rec'[ws[p]].op = rec[ws[p]].op
         /\ rec'[ws[p]].seen = rec[ws[p]].seen \cup {p} /\ rec[ws[p]].life # "absent"
         /\ (rec[ws[p]].life = "preparing" => rec[ws[p]].op = id[p])
<1>1. ws[p] \in Paths /\ rec[ws[p]] \in Records /\ rec \in [Paths -> Records]
  BY MyRecord DEF Collect, At, IInv, Typed, TypeOK
<1>2. rec' = [rec EXCEPT ![ws[p]] = [rec[ws[p]] EXCEPT !.seen = @ \cup {p}]]
  BY <1>1 DEF Collect, Observe
<1>3. /\ rec[ws[p]].life # "absent"
      /\ (rec[ws[p]].life = "preparing" => rec[ws[p]].op = id[p])
  BY <1>1
     DEF Collect, Candidate, Fencing, Collections, Recoveries, IInv, StateStaysDecodable,
         Decodable, StillCandidate, My
<1> QED
  BY <1>1, <1>2, <1>3 DEF Records

(* What a command may have come to after a step of acquire and warm.       *)
LEMMA AcquireLocal ==
  ASSUME IInv, IInv', FInv, NEW p \in Procs, Acquire(p)
  PROVE  \A q \in Procs : Local(q)'
<1> USE ConstantsAssumption DEF FInv, Local, Fits, Carries, Minds, IInv, Typed, TypeOK, Placed,
        Acquisitions, Collections, Recoveries, Removing, Handoff, git, kids, own, At, Goto,
        Become, Choose, Carry, Stop
<1>1. ASSUME StartAcquire(p) PROVE \A q \in Procs : Local(q)'
  BY <1>1, MyRecord DEF StartAcquire
<1>2. ASSUME SelectReusable(p) PROVE \A q \in Procs : Local(q)'
  BY <1>2, MyRecord DEF SelectReusable, Reusable
<1>3. ASSUME SelectFresh(p) PROVE \A q \in Procs : Local(q)'
  BY <1>3, MyRecord DEF SelectFresh, Reusable
<1>4. ASSUME Reserve(p) PROVE \A q \in Procs : Local(q)'
  BY <1>4, MyRecord DEF Reserve, Reusable, My
<1>5. ASSUME ReserveChanged(p) PROVE \A q \in Procs : Local(q)'
  BY <1>5, MyRecord DEF ReserveChanged, Reusable
<1>6. ASSUME StartWarm(p) PROVE \A q \in Procs : Local(q)'
  BY <1>6, MyRecord DEF StartWarm
<1>7. ASSUME BeginPreparation(p) PROVE \A q \in Procs : Local(q)'
  BY <1>7, MyRecord DEF BeginPreparation, LockToBegin, My
<1>8. ASSUME AlreadyManaged(p) PROVE \A q \in Procs : Local(q)'
  BY <1>8, MyRecord DEF AlreadyManaged, My
<1>9. ASSUME Verify(p) PROVE \A q \in Procs : Local(q)'
  BY <1>9, MyRecord DEF Verify, Holds, Acquiring, Preparing, My
<1>10. ASSUME VerifyFails(p) PROVE \A q \in Procs : Local(q)'
  BY <1>10, MyRecord DEF VerifyFails, Holds, Acquiring, Preparing, My
<1>11. ASSUME AddWorktree(p) PROVE \A q \in Procs : Local(q)'
  BY <1>11, MyRecord DEF AddWorktree
<1>12. ASSUME LockWorktree(p) PROVE \A q \in Procs : Local(q)'
  BY <1>12, MyRecord DEF LockWorktree
<1>13. ASSUME AssignWorktree(p) PROVE \A q \in Procs : Local(q)'
  BY <1>13, MyRecord DEF AssignWorktree
<1>14. ASSUME GitFails(p) PROVE \A q \in Procs : Local(q)'
  BY <1>14, MyRecord DEF GitFails
<1>15. ASSUME MarkAvailable(p) PROVE \A q \in Procs : Local(q)'
  BY <1>15, MyRecord DEF MarkAvailable, Preparing, My
<1>16. ASSUME MarkAssigned(p) PROVE \A q \in Procs : Local(q)'
  BY <1>16, MyRecord DEF MarkAssigned, Preparing, My
<1>17. ASSUME VerifyPrepared(p) PROVE \A q \in Procs : Local(q)'
  BY <1>17, MyRecord DEF VerifyPrepared, Acquiring, My
<1>18. ASSUME PreparedFails(p) PROVE \A q \in Procs : Local(q)'
  BY <1>18, MyRecord DEF PreparedFails, Holds, My, Acquiring, Preparing
<1>19. ASSUME RecordAcquisitionSuccess(p) PROVE \A q \in Procs : Local(q)'
  BY <1>19, MyRecord DEF RecordAcquisitionSuccess, Acquiring, My
<1>20. ASSUME SuccessFails(p) PROVE \A q \in Procs : Local(q)'
  BY <1>20, MyRecord DEF SuccessFails
<1>21. ASSUME Fail(p) PROVE \A q \in Procs : Local(q)'
  BY <1>21, MyRecord DEF Fail, Acquiring, My
<1>22. ASSUME HandoffLost(p) PROVE \A q \in Procs : Local(q)'
  BY <1>22, MyRecord DEF HandoffLost, Acquiring, My
<1>23. ASSUME Cleanup(p) PROVE \A q \in Procs : Local(q)'
  BY <1>23, MyRecord DEF Cleanup, ReturnWorktree
<1>24. ASSUME Retain(p) PROVE \A q \in Procs : Local(q)'
  BY <1>24, MyRecord DEF Retain, Holds, My, Acquiring, Preparing
<1>25. ASSUME RetainFails(p) PROVE \A q \in Procs : Local(q)'
  BY <1>25, MyRecord DEF RetainFails, Holds, Acquiring, Preparing, My
<1> QED
  BY <1>1, <1>2, <1>3, <1>4, <1>5, <1>6, <1>7, <1>8, <1>9, <1>10, <1>11, <1>12, <1>13, <1>14,
     <1>15, <1>16, <1>17, <1>18, <1>19, <1>20, <1>21, <1>22, <1>23, <1>24, <1>25 DEF Acquire

(* What a command may have come to after a step of installers and runs.    *)
LEMMA ExecuteLocal ==
  ASSUME IInv, IInv', FInv, NEW p \in Procs, Execute(p)
  PROVE  \A q \in Procs : Local(q)'
<1> USE ConstantsAssumption DEF FInv, Local, Fits, Carries, Minds, IInv, Typed, TypeOK, Placed,
        Acquisitions, Collections, Recoveries, Removing, Handoff, git, kids, own, At, Goto,
        Become, Choose, Carry, Stop
<1>1. ASSUME EnsureDependencies(p) PROVE \A q \in Procs : Local(q)'
  BY <1>1, MyRecord DEF EnsureDependencies, LockToPrepare, Spawn, Snapshot
<1>2. ASSUME AlreadyAttached(p) PROVE \A q \in Procs : Local(q)'
  BY <1>2, MyRecord DEF AlreadyAttached
<1>3. ASSUME PrepareFails(p) PROVE \A q \in Procs : Local(q)'
  BY <1>3, MyRecord DEF PrepareFails
<1>4. ASSUME StartRun(p) PROVE \A q \in Procs : Local(q)'
  BY <1>4, IdsKnown DEF StartRun, StateStaysDecodable, Decodable
<1>5. ASSUME StartSync(p) PROVE \A q \in Procs : Local(q)'
  BY <1>5, MyRecord DEF StartSync
<1>6. ASSUME Enter(p) PROVE \A q \in Procs : Local(q)'
  BY <1>6, MyRecord DEF Enter, Valid, Spawn, Snapshot, My
<1>7. ASSUME EnterFails(p) PROVE \A q \in Procs : Local(q)'
  BY <1>7, MyRecord DEF EnterFails, Valid, My
<1>8. ASSUME Register(p) PROVE \A q \in Procs : Local(q)'
  BY <1>8, MyRecord DEF Register, Names, Valid, My
<1>9. ASSUME Untracked(p) PROVE \A q \in Procs : Local(q)'
  BY <1>9, MyRecord DEF Untracked
<1>10. ASSUME RegisterFails(p) PROVE \A q \in Procs : Local(q)'
  BY <1>10, MyRecord DEF RegisterFails, Kill, Ended, Abort, Installed
<1>11. ASSUME Unregister(p) PROVE \A q \in Procs : Local(q)'
  BY <1>11, MyRecord DEF Unregister, My, AfterInstall, Ended, Names, Installed
<1>12. ASSUME UnregisterFails(p) PROVE \A q \in Procs : Local(q)'
  BY <1>12, MyRecord DEF UnregisterFails, My, Abort, Ended, Names, Installed
<1>13. ASSUME UntrackedExits(p) PROVE \A q \in Procs : Local(q)'
  BY <1>13, MyRecord DEF UntrackedExits, AfterInstall, Ended, Installed
<1>14. ASSUME Unsafe(p) PROVE \A q \in Procs : Local(q)'
  BY <1>14, MyRecord DEF Unsafe, Abort, Installed
<1> QED
  BY <1>1, <1>2, <1>3, <1>4, <1>5, <1>6, <1>7, <1>8, <1>9, <1>10, <1>11, <1>12, <1>13, <1>14 DEF
     Execute

(* What a command may have come to after a step of a return.               *)
LEMMA ReleaseLocal ==
  ASSUME IInv, IInv', FInv, NEW p \in Procs, Release(p)
  PROVE  \A q \in Procs : Local(q)'
<1> USE ConstantsAssumption DEF FInv, Local, Fits, Carries, Minds, IInv, Typed, TypeOK, Placed,
        Acquisitions, Collections, Recoveries, Removing, Handoff, git, kids, own, At, Goto,
        Become, Choose, Carry, Stop
<1>1. ASSUME StartRelease(p) PROVE \A q \in Procs : Local(q)'
  BY <1>1, MyRecord DEF StartRelease
<1>2. ASSUME BeginWorkspaceReturn(p) PROVE \A q \in Procs : Local(q)'
  BY <1>2, MyRecord DEF BeginWorkspaceReturn, LockToReturn, Mine, My, ReturnFences
<1>3. ASSUME ResumeReturn(p) PROVE \A q \in Procs : Local(q)'
  BY <1>3, MyRecord DEF ResumeReturn, LockToReturn, Mine, My
<1>4. ASSUME ReturnRefused(p) PROVE \A q \in Procs : Local(q)'
  BY <1>4, MyRecord DEF ReturnRefused, Mine, My, ReturnFences
<1>5. ASSUME CleanProcess(p) PROVE \A q \in Procs : Local(q)'
  BY <1>5, MyRecord DEF CleanProcess, Kill, My, Mine
<1>6. ASSUME CleanRaced(p) PROVE \A q \in Procs : Local(q)'
  BY <1>6, MyRecord DEF CleanRaced, Kill, My, Mine
<1>7. ASSUME NotDrained(p) PROVE \A q \in Procs : Local(q)'
  BY <1>7, MyRecord DEF NotDrained
<1>8. ASSUME CleanedUp(p) PROVE \A q \in Procs : Local(q)'
  BY <1>8, MyRecord DEF CleanedUp
<1>9. ASSUME Reset(p) PROVE \A q \in Procs : Local(q)'
  BY <1>9, MyRecord DEF Reset
<1>10. ASSUME ResetFails(p) PROVE \A q \in Procs : Local(q)'
  BY <1>10, MyRecord DEF ResetFails
<1>11. ASSUME FinishWorkspaceReturn(p) PROVE \A q \in Procs : Local(q)'
  BY <1>11, MyRecord DEF FinishWorkspaceReturn, Mine, My
<1>12. ASSUME FinishFails(p) PROVE \A q \in Procs : Local(q)'
  BY <1>12, MyRecord DEF FinishFails, Mine, My
<1>13. ASSUME CancelWorkspaceReturn(p) PROVE \A q \in Procs : Local(q)'
  BY <1>13, MyRecord DEF CancelWorkspaceReturn, Mine, My
<1>14. ASSUME CancelFails(p) PROVE \A q \in Procs : Local(q)'
  BY <1>14, MyRecord DEF CancelFails, Mine, My
<1> QED
  BY <1>1, <1>2, <1>3, <1>4, <1>5, <1>6, <1>7, <1>8, <1>9, <1>10, <1>11, <1>12, <1>13, <1>14 DEF
     Release

(* What a command may have come to after a step of a collection.           *)
LEMMA GCLocal ==
  ASSUME IInv, IInv', FInv, NEW p \in Procs, GC(p)
  PROVE  \A q \in Procs : Local(q)'
<1> USE ConstantsAssumption DEF FInv, Local, Fits, Carries, Minds, IInv, Typed, TypeOK, Placed,
        Acquisitions, Collections, Recoveries, Removing, Handoff, git, kids, own, At, Goto,
        Become, Choose, Carry, Stop
<1>1. ASSUME Collect(p) PROVE \A q \in Procs : Local(q)'
  BY <1>1, MyRecord DEF Collect, StillCandidate, Observe, My, Candidate, Fencing
<1>2. ASSUME CollectStale(p) PROVE \A q \in Procs : Local(q)'
  BY <1>2, MyRecord DEF CollectStale, StillCandidate, Candidate, My, Fencing
<1>3. ASSUME DrainProcess(p) PROVE \A q \in Procs : Local(q)'
  BY <1>3, MyRecord DEF DrainProcess, Undrained, My, Kill
<1>4. ASSUME DrainFails(p) PROVE \A q \in Procs : Local(q)'
  BY <1>4, MyRecord DEF DrainFails, Undrained, My
<1>5. ASSUME Drained(p) PROVE \A q \in Procs : Local(q)'
  BY <1>5, MyRecord DEF Drained, Undrained, My
<1>6. ASSUME BeginWorkspaceCollection(p) PROVE \A q \in Procs : Local(q)'
  BY <1>6, MyRecord DEF BeginWorkspaceCollection, Collectable, Resumes, My
<1>7. ASSUME ResumeCollection(p) PROVE \A q \in Procs : Local(q)'
  BY <1>7, MyRecord DEF ResumeCollection, Collectable, Resumes, My
<1>8. ASSUME CollectionRefused(p) PROVE \A q \in Procs : Local(q)'
  BY <1>8, MyRecord DEF CollectionRefused, Collectable, My
<1>9. ASSUME UnlockWorktree(p) PROVE \A q \in Procs : Local(q)'
  BY <1>9, MyRecord DEF UnlockWorktree
<1>10. ASSUME NoWorktree(p) PROVE \A q \in Procs : Local(q)'
  BY <1>10, MyRecord DEF NoWorktree
<1>11. ASSUME RemoveWorktree(p) PROVE \A q \in Procs : Local(q)'
  BY <1>11, MyRecord DEF RemoveWorktree
<1>12. ASSUME RemoveFails(p) PROVE \A q \in Procs : Local(q)'
  BY <1>12, MyRecord DEF RemoveFails
<1>13. ASSUME Relock(p) PROVE \A q \in Procs : Local(q)'
  BY <1>13, MyRecord DEF Relock
<1>14. ASSUME RelockFails(p) PROVE \A q \in Procs : Local(q)'
  BY <1>14, MyRecord DEF RelockFails
<1>15. ASSUME CancelWorkspaceCollection(p) PROVE \A q \in Procs : Local(q)'
  BY <1>15, MyRecord DEF CancelWorkspaceCollection, My
<1>16. ASSUME CancelStale(p) PROVE \A q \in Procs : Local(q)'
  BY <1>16, MyRecord DEF CancelStale, My
<1>17. ASSUME DeleteWorkspaceRecord(p) PROVE \A q \in Procs : Local(q)'
  BY <1>17, MyRecord DEF DeleteWorkspaceRecord, My
<1>18. ASSUME DeleteFails(p) PROVE \A q \in Procs : Local(q)'
  BY <1>18, MyRecord DEF DeleteFails
<1>19. ASSUME NEW w \in Paths, NEW reason \in Collections \cup Recoveries, StartGC(p, w, reason)
      PROVE  \A q \in Procs : Local(q)'
  <2>1. /\ pc' = [pc EXCEPT ![p] = "collect"] /\ job' = [job EXCEPT ![p] = reason]
        /\ ws' = [ws EXCEPT ![p] = w] /\ id' = [id EXCEPT ![p] = Fencing(rec[w], reason)]
        /\ UNCHANGED <<alive, loose, fence, todo>> /\ pc[p] = "idle"
    BY <1>19 DEF StartGC
  <2>2. Local(p)
    OBVIOUS
  <2>3. reason = "abandoned" => Fencing(rec[w], reason) # None
    BY <1>19 DEF StartGC, Candidate, Fencing
  <2> QED
    BY <2>1, <2>2, <2>3
<1> QED
  BY <1>1, <1>2, <1>3, <1>4, <1>5, <1>6, <1>7, <1>8, <1>9, <1>10, <1>11, <1>12, <1>13, <1>14,
     <1>15, <1>16, <1>17, <1>18, <1>19 DEF GC

(* Who has read what after a step of acquire and warm.                     *)
LEMMA AcquireReaders ==
  ASSUME IInv, IInv', FInv, NEW p \in Procs, Acquire(p)
  PROVE  \A w \in Paths : Readers(w)'
<1>1. ASSUME AlreadyManaged(p) \/ Verify(p) \/ VerifyFails(p) \/ AddWorktree(p) \/
            LockWorktree(p) \/ AssignWorktree(p) \/ GitFails(p) \/ VerifyPrepared(p) \/
            PreparedFails(p) \/ SuccessFails(p) \/ Fail(p) \/ HandoffLost(p) \/ Cleanup(p) \/
            RetainFails(p)
      PROVE  \A w \in Paths : Readers(w)'
  <2>1. rec' = rec /\ UNCHANGED <<job, ws, id>>
    BY <1>1 DEF AlreadyManaged, Verify, VerifyFails, AddWorktree, LockWorktree, AssignWorktree,
           GitFails, VerifyPrepared, PreparedFails, SuccessFails, Fail, HandoffLost, Cleanup,
           RetainFails, Stop, Goto, git, kids, own
  <2> QED
    BY <2>1 DEF FInv, Readers, Blank, Read
<1>2. ASSUME Reserve(p) PROVE \A w \in Paths : Readers(w)'
  <2>1. /\ ws[p] \in Paths /\ My(p) = rec[ws[p]] /\ \A v \in Paths \ {ws[p]} : rec'[v] = rec[v]
        /\ rec'[ws[p]].seen \subseteq rec[ws[p]].seen
        /\ rec'[ws[p]].life = "assigned"
    BY <1>2, ReserveWrites
  <2> QED
    BY <1>2, <2>1, ConstantsAssumption
       DEF Reserve, FInv, Local, Fits, Carries, Readers, Blank, Read, IInv, Typed, TypeOK,
           Placed, Records, Acquisitions, Collections, Recoveries, Removing, git, kids, own, At,
           Goto, Become, Choose, Carry, Stop, StateStaysDecodable, Decodable
<1>12. ASSUME Retain(p) PROVE \A w \in Paths : Readers(w)'
  <2>1. /\ ws[p] \in Paths /\ \A v \in Paths \ {ws[p]} : rec'[v] = rec[v]
        /\ rec'[ws[p]].seen \subseteq rec[ws[p]].seen
        /\ rec'[ws[p]].life \in {"assigned", "failed"}
    BY <1>12, RetainWrites
  <2>2. UNCHANGED <<job, ws, id>>
    BY <1>12 DEF Retain, own
  <2> QED
    BY <2>1, <2>2 DEF FInv, Readers, Read, Blank
<1> USE ConstantsAssumption DEF FInv, Local, Fits, Carries, Readers, Blank, Read, IInv, Typed,
        TypeOK, Placed, Records, Acquisitions, Collections, Recoveries, Removing, git, kids,
        own, At, Goto, Become, Choose, Carry, Stop, StateStaysDecodable, Decodable
<1>3. ASSUME StartAcquire(p) PROVE \A w \in Paths : Readers(w)'
  BY <1>3, MyRecord DEF StartAcquire
<1>4. ASSUME SelectReusable(p) PROVE \A w \in Paths : Readers(w)'
  BY <1>4, MyRecord DEF SelectReusable, Reusable
<1>5. ASSUME SelectFresh(p) PROVE \A w \in Paths : Readers(w)'
  BY <1>5, MyRecord DEF SelectFresh, Reusable
<1>6. ASSUME ReserveChanged(p) PROVE \A w \in Paths : Readers(w)'
  BY <1>6, MyRecord DEF ReserveChanged, Reusable
<1>7. ASSUME StartWarm(p) PROVE \A w \in Paths : Readers(w)'
  BY <1>7, MyRecord DEF StartWarm
<1>8. ASSUME BeginPreparation(p) PROVE \A w \in Paths : Readers(w)'
  BY <1>8, MyRecord DEF BeginPreparation, LockToBegin, My, Write
<1>9. ASSUME MarkAvailable(p) PROVE \A w \in Paths : Readers(w)'
  BY <1>9, MyRecord DEF MarkAvailable, Preparing, My, WriteLater
<1>10. ASSUME MarkAssigned(p) PROVE \A w \in Paths : Readers(w)'
  BY <1>10, MyRecord DEF MarkAssigned, Preparing, Write, Assigned, My
<1>11. ASSUME RecordAcquisitionSuccess(p) PROVE \A w \in Paths : Readers(w)'
  BY <1>11, MyRecord DEF RecordAcquisitionSuccess, Acquiring, Write, My
<1> QED
  BY <1>1, <1>2, <1>3, <1>4, <1>5, <1>6, <1>7, <1>8, <1>9, <1>10, <1>11, <1>12 DEF Acquire

(* Who has read what after a step of installers and runs.                  *)
LEMMA ExecuteReaders ==
  ASSUME IInv, IInv', FInv, NEW p \in Procs, Execute(p)
  PROVE  \A w \in Paths : Readers(w)'
<1>1. ASSUME EnsureDependencies(p) \/ AlreadyAttached(p) \/ PrepareFails(p) \/ Enter(p) \/
            EnterFails(p) \/ Untracked(p) \/ RegisterFails(p) \/ UnregisterFails(p) \/
            UntrackedExits(p) \/ Unsafe(p)
      PROVE  \A w \in Paths : Readers(w)'
  <2>1. rec' = rec /\ UNCHANGED <<job, ws, id>>
    BY <1>1 DEF EnsureDependencies, AlreadyAttached, PrepareFails, Enter, EnterFails, Untracked,
           RegisterFails, UnregisterFails, UntrackedExits, Unsafe, Spawn, Abort, Stop, Goto,
           git, kids, own
  <2> QED
    BY <2>1 DEF FInv, Readers, Blank, Read
<1>2. ASSUME Register(p) PROVE \A w \in Paths : Readers(w)'
  <2>1. /\ ws[p] \in Paths /\ My(p) = rec[ws[p]] /\ \A v \in Paths \ {ws[p]} : rec'[v] = rec[v]
        /\ rec'[ws[p]].seen \subseteq rec[ws[p]].seen
        /\ rec'[ws[p]].life = rec[ws[p]].life /\ rec'[ws[p]].op = rec[ws[p]].op
        /\ rec'[ws[p]].asg = rec[ws[p]].asg /\ rec'[ws[p]].failed = rec[ws[p]].failed
        /\ rec'[ws[p]].procs = rec[ws[p]].procs \cup {p}
    BY <1>2, RegisterWrites
  <2>2. UNCHANGED <<job, ws, id>>
    BY <1>2 DEF Register, own
  <2> QED
    BY <2>1, <2>2 DEF FInv, Readers, Read, Blank
<1>3. ASSUME Unregister(p) PROVE \A w \in Paths : Readers(w)'
  <2>1. /\ ws[p] \in Paths /\ My(p) = rec[ws[p]] /\ \A v \in Paths \ {ws[p]} : rec'[v] = rec[v]
        /\ rec'[ws[p]].seen \subseteq rec[ws[p]].seen
        /\ rec'[ws[p]].life = rec[ws[p]].life /\ rec'[ws[p]].op = rec[ws[p]].op
        /\ rec'[ws[p]].asg = rec[ws[p]].asg /\ rec'[ws[p]].failed = rec[ws[p]].failed
        /\ rec'[ws[p]].procs = rec[ws[p]].procs \ {p}
    BY <1>3, UnregisterWrites
  <2>2. UNCHANGED <<job, ws, id>>
    BY <1>3 DEF Unregister, own
  <2> QED
    BY <2>1, <2>2 DEF FInv, Readers, Read, Blank
<1>4. ASSUME StartRun(p) \/ StartSync(p) PROVE \A w \in Paths : Readers(w)'
  <2>1. rec' = rec /\ job[p] = "none"
    BY <1>4 DEF StartRun, StartSync, At, FInv, Local, Fits
  <2>2. \A q \in Procs \ {p} : job'[q] = job[q] /\ ws'[q] = ws[q] /\ id'[q] = id[q]
    <3>1. PICK j \in {"run", "sync"}, w \in Paths, n \in Ids \cup {None} :
            Become(p, j) /\ Choose(p, w) /\ Carry(p, n)
      <4>1. \A w \in Paths : rec[w].asg \in Ids \cup {None} /\ None \in Ids \cup {None}
        BY DEF IInv, Typed, TypeOK, Records
      <4> QED
        BY <1>4, <4>1 DEF StartRun, StartSync
    <3> QED
      BY <3>1 DEF IInv, Typed, TypeOK, Become, Choose, Carry
  <2>3. ASSUME NEW w \in Paths, NEW q \in Procs
        PROVE  Read(q, w)'
    <3>1. CASE q = p
      BY <2>1, <3>1 DEF FInv, Readers, Read, Collections, Recoveries
    <3>2. CASE q # p
      BY <2>1, <2>2, <3>2 DEF FInv, Readers, Read
    <3> QED
      BY <3>1, <3>2
  <2> QED
    BY <2>1, <2>3 DEF FInv, Readers, Blank
<1> QED
  BY <1>1, <1>2, <1>3, <1>4 DEF Execute

(* Who has read what after a step of a return.                             *)
LEMMA ReleaseReaders ==
  ASSUME IInv, IInv', FInv, NEW p \in Procs, Release(p)
  PROVE  \A w \in Paths : Readers(w)'
<1>1. ASSUME ResumeReturn(p) \/ ReturnRefused(p) \/ CleanRaced(p) \/ NotDrained(p) \/
            CleanedUp(p) \/ Reset(p) \/ ResetFails(p) \/ FinishFails(p) \/ CancelFails(p)
      PROVE  \A w \in Paths : Readers(w)'
  <2>1. rec' = rec /\ UNCHANGED <<job, ws, id>>
    BY <1>1 DEF ResumeReturn, ReturnRefused, CleanRaced, NotDrained, CleanedUp, Reset,
           ResetFails, FinishFails, CancelFails, Stop, Goto, git, kids, own
  <2> QED
    BY <2>1 DEF FInv, Readers, Blank, Read
<1>4. ASSUME CleanProcess(p) PROVE \A w \in Paths : Readers(w)'
  <2>1. /\ ws[p] \in Paths /\ \A v \in Paths \ {ws[p]} : rec'[v] = rec[v]
        /\ rec'[ws[p]].seen \subseteq rec[ws[p]].seen
        /\ rec'[ws[p]].life = rec[ws[p]].life /\ rec'[ws[p]].op = rec[ws[p]].op
    BY <1>4, CleanProcessWrites
  <2>2. UNCHANGED <<job, ws, id>>
    BY <1>4 DEF CleanProcess, own
  <2> QED
    BY <2>1, <2>2 DEF FInv, Readers, Read, Blank
<1> USE ConstantsAssumption DEF FInv, Local, Fits, Carries, Readers, Blank, Read, IInv, Typed,
        TypeOK, Placed, Records, Acquisitions, Collections, Recoveries, Removing, git, kids,
        own, At, Goto, Become, Choose, Carry, Stop, StateStaysDecodable, Decodable
<1>2. ASSUME StartRelease(p) PROVE \A w \in Paths : Readers(w)'
  BY <1>2, MyRecord DEF StartRelease
<1>3. ASSUME BeginWorkspaceReturn(p) PROVE \A w \in Paths : Readers(w)'
  BY <1>3, MyRecord DEF BeginWorkspaceReturn, LockToReturn, Mine, My, ReturnFences, Write
<1>5. ASSUME FinishWorkspaceReturn(p) PROVE \A w \in Paths : Readers(w)'
  BY <1>5, MyRecord DEF FinishWorkspaceReturn, Mine, My, Write, NoRecord
<1>6. ASSUME CancelWorkspaceReturn(p) PROVE \A w \in Paths : Readers(w)'
  BY <1>6, MyRecord DEF CancelWorkspaceReturn, Mine, My, Write
<1> QED
  BY <1>1, <1>2, <1>3, <1>4, <1>5, <1>6 DEF Release

(* Who has read what after a step of a collection.                         *)
LEMMA GCReaders ==
  ASSUME IInv, IInv', FInv, NEW p \in Procs, GC(p)
  PROVE  \A w \in Paths : Readers(w)'
<1>1. ASSUME CollectStale(p) \/ DrainFails(p) \/ Drained(p) \/ CollectionRefused(p) \/
            UnlockWorktree(p) \/ NoWorktree(p) \/ RemoveWorktree(p) \/ RemoveFails(p) \/
            Relock(p) \/ RelockFails(p) \/ CancelStale(p) \/ DeleteFails(p)
      PROVE  \A w \in Paths : Readers(w)'
  <2>1. rec' = rec /\ UNCHANGED <<job, ws, id>>
    BY <1>1 DEF CollectStale, DrainFails, Drained, CollectionRefused, UnlockWorktree,
           NoWorktree, RemoveWorktree, RemoveFails, Relock, RelockFails, CancelStale,
           DeleteFails, Stop, Goto, git, kids, own
  <2> QED
    BY <2>1 DEF FInv, Readers, Blank, Read
<1>2. ASSUME Collect(p) PROVE \A w \in Paths : Readers(w)'
  <2>2. job[p] \in Collections \cup Recoveries
    BY <1>2 DEF Collect, At, FInv, Local, Fits
  <2>1. /\ ws[p] \in Paths /\ \A v \in Paths \ {ws[p]} : rec'[v] = rec[v]
        /\ rec'[ws[p]].life = rec[ws[p]].life /\ rec'[ws[p]].op = rec[ws[p]].op
        /\ rec'[ws[p]].seen = rec[ws[p]].seen \cup {p} /\ rec[ws[p]].life # "absent"
        /\ (rec[ws[p]].life = "preparing" => rec[ws[p]].op = id[p])
    BY <1>2, CollectReads, <2>2
  <2> QED
    BY <1>2, <2>1, ConstantsAssumption, <2>2
       DEF Collect, FInv, Local, Fits, Carries, Readers, Blank, Read, IInv, Typed, TypeOK,
           Placed, Records, Acquisitions, Collections, Recoveries, Removing, git, kids, own, At,
           Goto, Become, Choose, Carry, Stop, StateStaysDecodable, Decodable
<1>3. ASSUME BeginWorkspaceCollection(p) PROVE \A w \in Paths : Readers(w)'
  <2>1. /\ ws[p] \in Paths /\ My(p) = rec[ws[p]] /\ \A v \in Paths \ {ws[p]} : rec'[v] = rec[v]
        /\ rec'[ws[p]].seen \subseteq rec[ws[p]].seen
        /\ rec[ws[p]].procs = {} /\ rec'[ws[p]].procs = {}
        /\ rec'[ws[p]].life \notin {"absent", "preparing"}
    BY <1>3, BeginWorkspaceCollectionWrites
  <2>2. job' = job /\ ws' = ws /\ \A q \in Procs \ {p} : id'[q] = id[q]
    BY <1>3 DEF BeginWorkspaceCollection, Carry, IInv, Typed, TypeOK
  <2>3. \A v \in Paths \ {ws[p]} : p \notin rec[v].seen
    BY DEF FInv, Readers, Read
  <2>4. ASSUME NEW w \in Paths, w = ws[p] PROVE Readers(w)'
    <3>1. \A q \in Procs :
            q \in rec[w].seen => job[q] \in Collections \cup Recoveries /\ ws[q] = w
      BY <2>1 DEF FInv, Readers, Read
    <3>2. rec'[w].life \notin {"absent", "preparing"} /\ rec'[w].seen \subseteq rec[w].seen
      BY <2>1, <2>4
    <3> QED
      BY <2>2, <3>1, <3>2 DEF Readers, Read, Blank
  <2>5. ASSUME NEW w \in Paths, w # ws[p] PROVE Readers(w)'
    <3>1. Readers(w)
      BY DEF FInv
    <3> QED
      BY <2>1, <2>2, <2>3, <2>5, <3>1 DEF Readers, Read, Blank
  <2> QED
    BY <2>4, <2>5
<1>4. ASSUME NEW w \in Paths, NEW reason \in Collections \cup Recoveries, StartGC(p, w, reason)
      PROVE  \A v \in Paths : Readers(v)'
  <2>2. \A v \in Paths : p \notin rec[v].seen
    BY <1>4 DEF StartGC, At, FInv, Local, Fits, Readers, Read, Collections, Recoveries
  <2>1. /\ \A v \in Paths \ {w} : rec'[v] = rec[v]
        /\ rec'[w].life = rec[w].life /\ rec'[w].op = rec[w].op
        /\ rec'[w].seen = rec[w].seen \cup {p} /\ rec[w].life # "absent"
        /\ (rec[w].life = "preparing" => rec[w].op = Fencing(rec[w], reason))
    BY <1>4, StartGCReads
  <2> QED
    BY <1>4, <2>1, ConstantsAssumption, <2>2
       DEF StartGC, FInv, Local, Fits, Carries, Readers, Blank, Read, IInv, Typed, TypeOK,
           Placed, Records, Acquisitions, Collections, Recoveries, Removing, git, kids, own, At,
           Goto, Become, Choose, Carry, Stop, StateStaysDecodable, Decodable
<1>5. ASSUME DrainProcess(p) PROVE \A w \in Paths : Readers(w)'
  <2>1. /\ ws[p] \in Paths /\ \A v \in Paths \ {ws[p]} : rec'[v] = rec[v]
        /\ rec'[ws[p]].seen \subseteq rec[ws[p]].seen
        /\ rec'[ws[p]].life = rec[ws[p]].life /\ rec'[ws[p]].op = rec[ws[p]].op
    BY <1>5, DrainProcessWrites
  <2>2. UNCHANGED <<job, ws, id>>
    BY <1>5 DEF DrainProcess, own
  <2> QED
    BY <2>1, <2>2 DEF FInv, Readers, Read, Blank
<1> USE ConstantsAssumption DEF FInv, Local, Fits, Carries, Readers, Blank, Read, IInv, Typed,
        TypeOK, Placed, Records, Acquisitions, Collections, Recoveries, Removing, git, kids,
        own, At, Goto, Become, Choose, Carry, Stop, StateStaysDecodable, Decodable
<1>6. ASSUME ResumeCollection(p) PROVE \A w \in Paths : Readers(w)'
  BY <1>6, MyRecord DEF ResumeCollection, Collectable, Resumes, My
<1>7. ASSUME CancelWorkspaceCollection(p) PROVE \A w \in Paths : Readers(w)'
  BY <1>7, MyRecord DEF CancelWorkspaceCollection, My, Write
<1>8. ASSUME DeleteWorkspaceRecord(p) PROVE \A w \in Paths : Readers(w)'
  BY <1>8, MyRecord DEF DeleteWorkspaceRecord, Deletable, NoRecord, My
<1> QED
  BY <1>1, <1>2, <1>3, <1>4, <1>5, <1>6, <1>7, <1>8 DEF GC

(* The recorded children after a step of acquire and warm.                 *)
LEMMA AcquireRemembers ==
  ASSUME IInv, IInv', FInv, NEW p \in Procs, Acquire(p)
  PROVE  NoChildForgotten'
<1>1. ASSUME StartAcquire(p) \/ SelectReusable(p) \/ SelectFresh(p) \/ ReserveChanged(p) \/
            StartWarm(p) \/ AlreadyManaged(p) \/ Verify(p) \/ VerifyFails(p) \/ AddWorktree(p)
            \/ LockWorktree(p) \/ AssignWorktree(p) \/ GitFails(p) \/ VerifyPrepared(p) \/
            PreparedFails(p) \/ SuccessFails(p) \/ Fail(p) \/ HandoffLost(p) \/ Cleanup(p) \/
            RetainFails(p)
      PROVE  NoChildForgotten'
  <2>1. rec' = rec /\ UNCHANGED <<alive, loose>>
    BY <1>1 DEF StartAcquire, SelectReusable, SelectFresh, ReserveChanged, StartWarm,
           AlreadyManaged, Verify, VerifyFails, AddWorktree, LockWorktree, AssignWorktree,
           GitFails, VerifyPrepared, PreparedFails, SuccessFails, Fail, HandoffLost, Cleanup,
           RetainFails, Stop, Goto, git, kids, own
  <2> QED
    BY <2>1 DEF FInv, NoChildForgotten
<1>7. ASSUME Retain(p) PROVE NoChildForgotten'
  <2>1. /\ ws[p] \in Paths /\ \A v \in Paths \ {ws[p]} : rec'[v] = rec[v]
        /\ rec'[ws[p]].seen \subseteq rec[ws[p]].seen
        /\ rec'[ws[p]].life \in {"assigned", "failed"}
        /\ \E named \in SUBSET todo[p] : /\ rec'[ws[p]].procs = rec[ws[p]].procs \cup named
                                          /\ loose' = loose \ named
    BY <1>7, RetainWrites
  <2>2. todo[p] \subseteq {p} /\ (p \in todo[p] => alive[p] \in {None, ws[p]})
    BY <1>7 DEF Retain, At, Handoff, FInv, Local, Minds
  <2>3. alive' = alive
    BY <1>7 DEF Retain
  <2> SUFFICES ASSUME NEW q \in Procs, alive'[q] # None, q \notin loose'
               PROVE  q \in rec'[alive'[q]].procs
    BY DEF NoChildForgotten
  <2>4. CASE q \notin loose
    <3>1. q \in rec[alive[q]].procs
      BY <2>3, <2>4 DEF FInv, NoChildForgotten
    <3>2. alive[q] \in Paths
      BY <2>3 DEF IInv, Typed, TypeOK
    <3> QED
      BY <2>1, <2>3, <3>1, <3>2
  <2>5. CASE q \in loose
    BY <2>1, <2>2, <2>3, <2>5
  <2> QED
    BY <2>4, <2>5
<1> USE ConstantsAssumption DEF FInv, NoChildForgotten, Local, Minds, IInv, Typed, TypeOK,
        Placed, Records, git, kids, own, At, Goto, Stop, Handoff, PoolIsDrained,
        StateStaysDecodable, Decodable
<1>2. ASSUME Reserve(p) PROVE NoChildForgotten'
  BY <1>2, MyRecord DEF Reserve, Reusable, Write, Assigned, My
<1>3. ASSUME BeginPreparation(p) PROVE NoChildForgotten'
  BY <1>3, MyRecord DEF BeginPreparation, LockToBegin, My, Write
<1>4. ASSUME MarkAvailable(p) PROVE NoChildForgotten'
  BY <1>4, MyRecord DEF MarkAvailable, Preparing, My, WriteLater
<1>5. ASSUME MarkAssigned(p) PROVE NoChildForgotten'
  BY <1>5, MyRecord DEF MarkAssigned, Preparing, Write, Assigned, My
<1>6. ASSUME RecordAcquisitionSuccess(p) PROVE NoChildForgotten'
  BY <1>6, MyRecord DEF RecordAcquisitionSuccess, Acquiring, Write, My
<1> QED
  BY <1>1, <1>2, <1>3, <1>4, <1>5, <1>6, <1>7 DEF Acquire

(* The recorded children after a step of installers and runs.              *)
LEMMA ExecuteRemembers ==
  ASSUME IInv, IInv', FInv, NEW p \in Procs, Execute(p)
  PROVE  NoChildForgotten'
<1>1. ASSUME AlreadyAttached(p) \/ PrepareFails(p) \/ StartRun(p) \/ StartSync(p) \/
            EnterFails(p) \/ Untracked(p) \/ UnregisterFails(p) \/ UntrackedExits(p) \/
            Unsafe(p)
      PROVE  NoChildForgotten'
  <2>1. rec' = rec /\ UNCHANGED <<alive, loose>>
    BY <1>1 DEF AlreadyAttached, PrepareFails, StartRun, StartSync, EnterFails, Untracked,
           UnregisterFails, UntrackedExits, Unsafe, Abort, Stop, Goto, git, kids, own
  <2> QED
    BY <2>1 DEF FInv, NoChildForgotten
<1>2. ASSUME Register(p) PROVE NoChildForgotten'
  <2>1. /\ ws[p] \in Paths /\ My(p) = rec[ws[p]] /\ \A v \in Paths \ {ws[p]} : rec'[v] = rec[v]
        /\ rec'[ws[p]].seen \subseteq rec[ws[p]].seen
        /\ rec'[ws[p]].life = rec[ws[p]].life /\ rec'[ws[p]].op = rec[ws[p]].op
        /\ rec'[ws[p]].asg = rec[ws[p]].asg /\ rec'[ws[p]].failed = rec[ws[p]].failed
        /\ rec'[ws[p]].procs = rec[ws[p]].procs \cup {p}
    BY <1>2, RegisterWrites
  <2>2. /\ alive' = alive /\ loose' = loose \ {p} /\ alive \in [Procs -> Paths \cup {None}]
        /\ alive[p] \in {None, ws[p]}
    BY <1>2 DEF Register, At, Handoff, FInv, Local, Minds, IInv, Typed, TypeOK
  <2> QED
    BY <2>1, <2>2 DEF FInv, NoChildForgotten
<1>3. ASSUME Unregister(p) PROVE NoChildForgotten'
  <2>1. /\ ws[p] \in Paths /\ My(p) = rec[ws[p]] /\ \A v \in Paths \ {ws[p]} : rec'[v] = rec[v]
        /\ rec'[ws[p]].seen \subseteq rec[ws[p]].seen
        /\ rec'[ws[p]].life = rec[ws[p]].life /\ rec'[ws[p]].op = rec[ws[p]].op
        /\ rec'[ws[p]].asg = rec[ws[p]].asg /\ rec'[ws[p]].failed = rec[ws[p]].failed
        /\ rec'[ws[p]].procs = rec[ws[p]].procs \ {p}
    BY <1>3, UnregisterWrites
  <2>2. alive[p] = None /\ UNCHANGED <<alive, loose>> /\ alive \in [Procs -> Paths \cup {None}]
    BY <1>3 DEF Unregister, kids, IInv, Typed, TypeOK
  <2> QED
    BY <2>1, <2>2 DEF FInv, NoChildForgotten
<1> USE ConstantsAssumption DEF FInv, NoChildForgotten, Local, Minds, IInv, Typed, TypeOK,
        Placed, Records, git, kids, own, At, Goto, Stop, Handoff, PoolIsDrained,
        StateStaysDecodable, Decodable
<1>4. ASSUME EnsureDependencies(p) PROVE NoChildForgotten'
  BY <1>4, MyRecord DEF EnsureDependencies, LockToPrepare, Spawn, Snapshot, CanSpawn
<1>5. ASSUME Enter(p) PROVE NoChildForgotten'
  BY <1>5, MyRecord DEF Enter, Valid, Spawn, Snapshot, My, CanSpawn
<1>6. ASSUME RegisterFails(p) PROVE NoChildForgotten'
  BY <1>6, MyRecord DEF RegisterFails, Kill, Ended, Abort, Installed
<1> QED
  BY <1>1, <1>2, <1>3, <1>4, <1>5, <1>6 DEF Execute

(* The recorded children after a step of a return.                         *)
LEMMA ReleaseRemembers ==
  ASSUME IInv, IInv', FInv, NEW p \in Procs, Release(p)
  PROVE  NoChildForgotten'
<1>1. ASSUME StartRelease(p) \/ ResumeReturn(p) \/ ReturnRefused(p) \/ NotDrained(p) \/
            CleanedUp(p) \/ Reset(p) \/ ResetFails(p) \/ FinishFails(p) \/ CancelFails(p)
      PROVE  NoChildForgotten'
  <2>1. rec' = rec /\ UNCHANGED <<alive, loose>>
    BY <1>1 DEF StartRelease, ResumeReturn, ReturnRefused, NotDrained, CleanedUp, Reset,
           ResetFails, FinishFails, CancelFails, Stop, Goto, git, kids, own
  <2> QED
    BY <2>1 DEF FInv, NoChildForgotten
<1>3. ASSUME CleanProcess(p) PROVE NoChildForgotten'
  <2>1. /\ ws[p] \in Paths /\ \A v \in Paths \ {ws[p]} : rec'[v] = rec[v]
        /\ rec'[ws[p]].seen \subseteq rec[ws[p]].seen
        /\ rec'[ws[p]].life = rec[ws[p]].life /\ rec'[ws[p]].op = rec[ws[p]].op
        /\ \E q \in Procs : rec'[ws[p]].procs = rec[ws[p]].procs \ {q} /\ Kill(q)
    BY <1>3, CleanProcessWrites
  <2>2. alive \in [Procs -> Paths \cup {None}]
    BY DEF IInv, Typed, TypeOK
  <2> QED
    BY <2>1, <2>2, ConstantsAssumption DEF FInv, NoChildForgotten, Kill
<1> USE ConstantsAssumption DEF FInv, NoChildForgotten, Local, Minds, IInv, Typed, TypeOK,
        Placed, Records, git, kids, own, At, Goto, Stop, Handoff, PoolIsDrained,
        StateStaysDecodable, Decodable
<1>2. ASSUME BeginWorkspaceReturn(p) PROVE NoChildForgotten'
  BY <1>2, MyRecord DEF BeginWorkspaceReturn, LockToReturn, Mine, My, ReturnFences, Write
<1>4. ASSUME CleanRaced(p) PROVE NoChildForgotten'
  BY <1>4, MyRecord DEF CleanRaced, Drainable, Kill, My, Mine
<1>5. ASSUME FinishWorkspaceReturn(p) PROVE NoChildForgotten'
  BY <1>5, MyRecord DEF FinishWorkspaceReturn, Mine, My, Write, NoRecord
<1>6. ASSUME CancelWorkspaceReturn(p) PROVE NoChildForgotten'
  BY <1>6, MyRecord DEF CancelWorkspaceReturn, Mine, My, Write
<1> QED
  BY <1>1, <1>2, <1>3, <1>4, <1>5, <1>6 DEF Release

(* The recorded children after a step of a collection.                     *)
LEMMA GCRemembers ==
  ASSUME IInv, IInv', FInv, NEW p \in Procs, GC(p)
  PROVE  NoChildForgotten'
<1>1. ASSUME CollectStale(p) \/ DrainFails(p) \/ Drained(p) \/ ResumeCollection(p) \/
            CollectionRefused(p) \/ UnlockWorktree(p) \/ NoWorktree(p) \/ RemoveWorktree(p) \/
            RemoveFails(p) \/ Relock(p) \/ RelockFails(p) \/ CancelStale(p) \/ DeleteFails(p)
      PROVE  NoChildForgotten'
  <2>1. rec' = rec /\ UNCHANGED <<alive, loose>>
    BY <1>1 DEF CollectStale, DrainFails, Drained, ResumeCollection, CollectionRefused,
           UnlockWorktree, NoWorktree, RemoveWorktree, RemoveFails, Relock, RelockFails,
           CancelStale, DeleteFails, Stop, Goto, git, kids, own
  <2> QED
    BY <2>1 DEF FInv, NoChildForgotten
<1>2. ASSUME BeginWorkspaceCollection(p) PROVE NoChildForgotten'
  <2>1. /\ ws[p] \in Paths /\ My(p) = rec[ws[p]] /\ \A v \in Paths \ {ws[p]} : rec'[v] = rec[v]
        /\ rec'[ws[p]].seen \subseteq rec[ws[p]].seen
        /\ rec[ws[p]].procs = {} /\ rec'[ws[p]].procs = {}
        /\ rec'[ws[p]].life \notin {"absent", "preparing"}
    BY <1>2, BeginWorkspaceCollectionWrites
  <2> QED
    BY <1>2, <2>1, ConstantsAssumption
       DEF BeginWorkspaceCollection, FInv, NoChildForgotten, Local, Minds, IInv, Typed, TypeOK,
           Placed, Records, git, kids, own, At, Goto, Stop, Handoff, PoolIsDrained,
           StateStaysDecodable, Decodable
<1>4. ASSUME DrainProcess(p) PROVE NoChildForgotten'
  <2>1. /\ ws[p] \in Paths /\ \A v \in Paths \ {ws[p]} : rec'[v] = rec[v]
        /\ rec'[ws[p]].seen \subseteq rec[ws[p]].seen
        /\ rec'[ws[p]].life = rec[ws[p]].life /\ rec'[ws[p]].op = rec[ws[p]].op
        /\ \E q \in Procs : rec'[ws[p]].procs = rec[ws[p]].procs \ {q} /\ Kill(q)
    BY <1>4, DrainProcessWrites
  <2>2. alive \in [Procs -> Paths \cup {None}]
    BY DEF IInv, Typed, TypeOK
  <2> QED
    BY <2>1, <2>2, ConstantsAssumption DEF FInv, NoChildForgotten, Kill
<1> USE ConstantsAssumption DEF FInv, NoChildForgotten, Local, Minds, IInv, Typed, TypeOK,
        Placed, Records, git, kids, own, At, Goto, Stop, Handoff, PoolIsDrained,
        StateStaysDecodable, Decodable
<1>3. ASSUME Collect(p) PROVE NoChildForgotten'
  BY <1>3, MyRecord DEF Collect, StillCandidate, Observe, My, Candidate, Fencing
<1>5. ASSUME CancelWorkspaceCollection(p) PROVE NoChildForgotten'
  BY <1>5, MyRecord DEF CancelWorkspaceCollection, My, Write
<1>6. ASSUME DeleteWorkspaceRecord(p) PROVE NoChildForgotten'
  BY <1>6, MyRecord DEF DeleteWorkspaceRecord, Deletable, NoRecord, My
<1>7. ASSUME NEW w \in Paths, NEW reason \in Collections \cup Recoveries, StartGC(p, w, reason)
      PROVE  NoChildForgotten'
  BY <1>7, MyRecord DEF StartGC, Candidate, Observe, Fencing
<1> QED
  BY <1>1, <1>2, <1>3, <1>4, <1>5, <1>6, <1>7 DEF GC

-----------------------------------------------------------------------------
(* The end of a command leaves the others, their records and their         *)
(* children alone.                                                         *)
LEMMA EndFenced ==
  ASSUME IInv, FInv, NEW p \in Procs, End(p)
  PROVE  FInv'
<1>1. /\ pc' = [pc EXCEPT ![p] = "idle"] /\ job' = [job EXCEPT ![p] = "none"]
      /\ ws' = [ws EXCEPT ![p] = None] /\ id' = [id EXCEPT ![p] = None]
      /\ fence' = [fence EXCEPT ![p] = None] /\ todo' = [todo EXCEPT ![p] = {}]
      /\ UNCHANGED <<alive, loose>>
  BY DEF End, Goto, Become, Choose, Carry, kids
<1>2. \A w \in Paths : /\ rec'[w].life = rec[w].life /\ rec'[w].op = rec[w].op
                       /\ rec'[w].procs = rec[w].procs /\ rec'[w].seen = rec[w].seen \ {p}
  <2> SUFFICES ASSUME NEW w \in Paths
               PROVE  /\ rec'[w].life = rec[w].life /\ rec'[w].op = rec[w].op
                      /\ rec'[w].procs = rec[w].procs /\ rec'[w].seen = rec[w].seen \ {p}
    OBVIOUS
  <2>1. rec'[w] = [rec[w] EXCEPT !.seen = @ \ {p}] /\ rec[w] \in Records
    BY DEF End, IInv, Typed, TypeOK
  <2> QED
    BY <2>1 DEF Records
<1>3. \A q \in Procs : Local(q)'
  BY <1>1 DEF FInv, Local, Fits, Carries, Minds, IInv, Typed, TypeOK, Acquisitions, Collections,
              Recoveries, Removing, Handoff
<1>4. \A w \in Paths : Readers(w)'
  <2>1. \A q \in Procs \ {p} : job'[q] = job[q] /\ ws'[q] = ws[q] /\ id'[q] = id[q]
    BY <1>1 DEF IInv, Typed, TypeOK
  <2> QED
    BY <1>2, <2>1 DEF FInv, Readers, Read, Blank
<1>5. NoChildForgotten'
  BY <1>1, <1>2 DEF FInv, NoChildForgotten, IInv, Typed, TypeOK
<1> QED
  BY <1>3, <1>4, <1>5 DEF FInv

(* Nor does what happens on its own give anybody more to read or to lose.  *)
LEMMA OutsideFenced ==
  ASSUME IInv, IInv', FInv, \/ \E p \in Procs : ChildExit(p)
                            \/ \E w \in Paths : Expire(w) \/ Renew(w)
                            \/ UNCHANGED vars
  PROVE  FInv'
<1>1. /\ UNCHANGED <<pc, job, ws, id, fence, todo>> /\ loose' \subseteq loose
      /\ \A q \in Procs :
           alive'[q] = None \/ (alive'[q] = alive[q] /\ (q \in loose => q \in loose'))
  BY DEF ChildExit, Kill, Expire, Renew, vars, own, kids, IInv, Typed, TypeOK
<1>2. \A w \in Paths : /\ rec'[w].life = rec[w].life /\ rec'[w].op = rec[w].op
                       /\ rec'[w].procs = rec[w].procs /\ rec'[w].seen \subseteq rec[w].seen
  <2>1. \A w \in Paths : rec[w] \in Records
    BY DEF IInv, Typed, TypeOK
  <2>2. ASSUME NEW w \in Paths, Expire(w) \/ Renew(w)
        PROVE  /\ \A v \in Paths \ {w} : rec'[v] = rec[v]
               /\ rec'[w].life = rec[w].life /\ rec'[w].op = rec[w].op
               /\ rec'[w].procs = rec[w].procs /\ rec'[w].seen \subseteq rec[w].seen
    BY <2>1, <2>2 DEF Expire, Renew, Records, IInv, Typed, TypeOK
  <2>3. CASE UNCHANGED vars \/ \E p \in Procs : ChildExit(p)
    BY <2>3 DEF vars, ChildExit
  <2> QED
    BY <2>2, <2>3
<1>3. \A q \in Procs : Local(q)'
  BY <1>1 DEF FInv, Local, Fits, Carries, Minds
<1>4. \A w \in Paths : Readers(w)'
  BY <1>1, <1>2 DEF FInv, Readers, Read, Blank
<1>5. NoChildForgotten'
  BY <1>1, <1>2 DEF FInv, NoChildForgotten, IInv, Typed, TypeOK
<1> QED
  BY <1>3, <1>4, <1>5 DEF FInv

-----------------------------------------------------------------------------
(* In every run the fences are what their commands take them for,          *)
THEOREM FencesHold == Spec => []FInv
<1>1. Init => FInv
  <2> SUFFICES ASSUME Init PROVE FInv
    OBVIOUS
  <2>1. \A w \in Paths : rec[w].life = "absent" /\ rec[w].op = None /\ rec[w].seen = {}
    BY DEF Init, NoRecord
  <2> QED
    BY <2>1 DEF Init, FInv, Local, Fits, Carries, Minds, Readers, Read, Blank, NoChildForgotten,
                Removing, Handoff
<1>2. IInv /\ IInv' /\ FInv /\ [Next]_vars => FInv'
  <2> SUFFICES ASSUME IInv, IInv', FInv, [Next]_vars PROVE FInv'
    OBVIOUS
  <2>1. ASSUME NEW p \in Procs, Acquire(p) PROVE FInv'
    BY <2>1, AcquireLocal, AcquireReaders, AcquireRemembers DEF FInv
  <2>2. ASSUME NEW p \in Procs, Execute(p) PROVE FInv'
    BY <2>2, ExecuteLocal, ExecuteReaders, ExecuteRemembers DEF FInv
  <2>3. ASSUME NEW p \in Procs, Release(p) PROVE FInv'
    BY <2>3, ReleaseLocal, ReleaseReaders, ReleaseRemembers DEF FInv
  <2>4. ASSUME NEW p \in Procs, GC(p) PROVE FInv'
    BY <2>4, GCLocal, GCReaders, GCRemembers DEF FInv
  <2>5. ASSUME NEW p \in Procs, Leave(p) \/ Crash(p) PROVE FInv'
    BY <2>5, EndFenced DEF Leave, Crash
  <2>6. CASE \/ \E p \in Procs : ChildExit(p)
             \/ \E w \in Paths : Expire(w) \/ Renew(w)
             \/ UNCHANGED vars
    BY <2>6, OutsideFenced
  <2> QED
    BY <2>1, <2>2, <2>3, <2>4, <2>5, <2>6 DEF Next, Step
<1> QED
  BY <1>1, <1>2, Invariance, PTL DEF Spec

(* so that a child which RegisterAssignmentProcess or a retention has      *)
(* named is in the record of its workspace until it is dead: no return, no *)
(* drain and no installer's own removal forgets a live one, even when      *)
(* every lock is lost.                                                     *)
THEOREM ChildrenRemembered == Spec => []NoChildForgotten
<1>1. FInv => NoChildForgotten
  BY DEF FInv
<1> QED
  BY <1>1, FencesHold, PTL

-----------------------------------------------------------------------------
(* A record's life, operation and assignment stay as they are, or one      *)
(* process has changed them that works at its path and carries one of its  *)
(* IDs, if there is any; and a return begins under the fences of Return.   *)
Stays(w) == rec'[w].life = rec[w].life /\ rec'[w].op = rec[w].op /\ rec'[w].asg = rec[w].asg

Changes(p) ==
  /\ ws[p] \in Paths /\ pc'[p] # pc[p]
  /\ \A w \in Paths \ {ws[p]} : Stays(w)
  /\ Fences(rec[ws[p]]) # {} => id[p] \in Fences(rec[ws[p]])
  /\ rec[ws[p]].life = "assigned" /\ rec'[ws[p]].life = "returning"
       => pc[p] = "return" /\ ReturnFences(p)

(* Who takes a workspace has found it free, or is its acquisition.         *)
LEMMA AcquireChanges ==
  ASSUME IInv, FInv, NEW p \in Procs, Acquire(p)
  PROVE  Changes(p) \/ \A w \in Paths : Stays(w)
<1>0. /\ rec \in [Paths -> Records] /\ pc \in [Procs -> Steps]
      /\ pc[p] \notin {"idle", "pool", "leave"} => ws[p] \in Paths
      /\ Local(p) /\ \A w \in Paths : Decodable(rec[w]) /\ Blank(rec[w])
  BY DEF IInv, Typed, TypeOK, Placed, FInv, Readers, StateStaysDecodable
<1> USE DEF At, Goto, My, Write, WriteLater, Changes, Stays, Fences, Records, Decodable
<1>1. ASSUME Reserve(p) PROVE Changes(p)
  BY <1>0, <1>1 DEF Reserve, Reusable, Assigned
<1>2. ASSUME BeginPreparation(p) PROVE Changes(p)
  BY <1>0, <1>2 DEF BeginPreparation, Blank
<1>3. ASSUME MarkAvailable(p) PROVE Changes(p)
  BY <1>0, <1>3 DEF MarkAvailable, Preparing
<1>4. ASSUME MarkAssigned(p) PROVE Changes(p)
  BY <1>0, <1>4 DEF MarkAssigned, Preparing, Assigned
<1>5. ASSUME RecordAcquisitionSuccess(p) PROVE Changes(p)
  BY <1>0, <1>5 DEF RecordAcquisitionSuccess, Acquiring, Local, Fits, Carries, Handoff
<1>6. ASSUME Retain(p) PROVE Changes(p)
  BY <1>0, <1>6 DEF Retain, Holds, Acquiring, Preparing, Local, Fits, Carries, Handoff
<1>7. ASSUME StartAcquire(p) \/ SelectReusable(p) \/ SelectFresh(p) \/ ReserveChanged(p) \/
             StartWarm(p) \/ AlreadyManaged(p) \/ Verify(p) \/ VerifyFails(p) \/
             AddWorktree(p) \/ LockWorktree(p) \/ AssignWorktree(p) \/ GitFails(p) \/
             VerifyPrepared(p) \/ PreparedFails(p) \/ SuccessFails(p) \/ Fail(p) \/
             HandoffLost(p) \/ Cleanup(p) \/ RetainFails(p)
      PROVE  rec' = rec
  BY <1>7
     DEF StartAcquire, SelectReusable, SelectFresh, ReserveChanged, StartWarm, AlreadyManaged,
         Verify, VerifyFails, AddWorktree, LockWorktree, AssignWorktree, GitFails,
         VerifyPrepared, PreparedFails, SuccessFails, Fail, HandoffLost, Cleanup, RetainFails,
         Stop
<1> QED
  BY <1>1, <1>2, <1>3, <1>4, <1>5, <1>6, <1>7 DEF Acquire

(* Children come and go without a change of hands.                         *)
LEMMA ExecuteChanges ==
  ASSUME IInv, NEW p \in Procs, Execute(p)
  PROVE  \A w \in Paths : Stays(w)
<1>1. ASSUME Register(p) PROVE \A w \in Paths : Stays(w)
  BY <1>1, RegisterWrites DEF Stays
<1>2. ASSUME Unregister(p) PROVE \A w \in Paths : Stays(w)
  BY <1>2, UnregisterWrites DEF Stays
<1>3. ASSUME EnsureDependencies(p) \/ AlreadyAttached(p) \/ PrepareFails(p) \/ StartRun(p) \/
             StartSync(p) \/ Enter(p) \/ EnterFails(p) \/ Untracked(p) \/ RegisterFails(p) \/
             UnregisterFails(p) \/ UntrackedExits(p) \/ Unsafe(p)
      PROVE  rec' = rec
  BY <1>3
    
       DEF EnsureDependencies, AlreadyAttached, PrepareFails, StartRun, StartSync, Enter,
           EnterFails,
         Untracked, RegisterFails, UnregisterFails, UntrackedExits, Unsafe, Stop
<1> QED
  BY <1>1, <1>2, <1>3 DEF Execute, Stays

(* A return is under the number of the assignment.                         *)
LEMMA ReleaseChanges ==
  ASSUME IInv, NEW p \in Procs, Release(p)
  PROVE  Changes(p) \/ \A w \in Paths : Stays(w)
<1>0. /\ rec \in [Paths -> Records] /\ pc \in [Procs -> Steps]
      /\ pc[p] \notin {"idle", "pool", "leave"} => ws[p] \in Paths
      /\ \A w \in Paths : Decodable(rec[w])
  BY DEF IInv, Typed, TypeOK, Placed, StateStaysDecodable
<1> USE DEF At, Goto, My, Mine, Write, Changes, Stays, Fences, Records, Decodable
<1>1. ASSUME BeginWorkspaceReturn(p) PROVE Changes(p)
  BY <1>0, <1>1 DEF BeginWorkspaceReturn
<1>2. ASSUME FinishWorkspaceReturn(p) PROVE Changes(p)
  BY <1>0, <1>2 DEF FinishWorkspaceReturn, NoRecord
<1>3. ASSUME CancelWorkspaceReturn(p) PROVE Changes(p)
  BY <1>0, <1>3 DEF CancelWorkspaceReturn
<1>4. ASSUME CleanProcess(p) PROVE \A w \in Paths : Stays(w)
  BY <1>0, <1>4 DEF CleanProcess
<1>5. ASSUME StartRelease(p) \/ ResumeReturn(p) \/ ReturnRefused(p) \/ CleanRaced(p) \/
             NotDrained(p) \/ CleanedUp(p) \/ Reset(p) \/ ResetFails(p) \/ FinishFails(p) \/
             CancelFails(p)
      PROVE  rec' = rec
  BY <1>5
     DEF StartRelease, ResumeReturn, ReturnRefused, CleanRaced, NotDrained, CleanedUp, Reset,
         ResetFails, FinishFails, CancelFails, Stop
<1> QED
  BY <1>1, <1>2, <1>3, <1>4, <1>5 DEF Release

(* A collection begins on a workspace that has no ID, or on the            *)
(* preparation that it has read; from then on it has its own.              *)
LEMMA GCChanges ==
  ASSUME IInv, FInv, NEW p \in Procs, GC(p)
  PROVE  Changes(p) \/ \A w \in Paths : Stays(w)
<1>0. /\ rec \in [Paths -> Records] /\ pc \in [Procs -> Steps]
      /\ pc[p] \notin {"idle", "pool", "leave"} => ws[p] \in Paths
      /\ Local(p) /\ \A w \in Paths : Decodable(rec[w]) /\ Read(p, w)
  BY DEF IInv, Typed, TypeOK, Placed, FInv, Readers, StateStaysDecodable
<1> USE DEF At, Goto, My, Write, Changes, Stays, Fences, Records, Decodable
<1>1. ASSUME BeginWorkspaceCollection(p) PROVE Changes(p)
  BY <1>0, <1>1 DEF BeginWorkspaceCollection, Collectable, Resumes, Read
<1>2. ASSUME CancelWorkspaceCollection(p) PROVE Changes(p)
  BY <1>0, <1>2 DEF CancelWorkspaceCollection, Local, Carries, Removing
<1>3. ASSUME DeleteWorkspaceRecord(p) PROVE Changes(p)
  BY <1>0, <1>3 DEF DeleteWorkspaceRecord, Deletable, Local, Carries, Removing, NoRecord
<1>4. ASSUME DrainProcess(p) PROVE \A w \in Paths : Stays(w)
  BY <1>0, <1>4 DEF DrainProcess
<1>5. ASSUME \/ Collect(p)
             \/ \E w \in Paths, reason \in Collections \cup Recoveries : StartGC(p, w, reason)
      PROVE  \A w \in Paths : Stays(w)
  BY <1>0, <1>5 DEF Collect, StartGC, Observe
<1>6. ASSUME CollectStale(p) \/ DrainFails(p) \/ Drained(p) \/ ResumeCollection(p) \/
             CollectionRefused(p) \/ UnlockWorktree(p) \/ NoWorktree(p) \/ RemoveWorktree(p) \/
             RemoveFails(p) \/ Relock(p) \/ RelockFails(p) \/ CancelStale(p) \/ DeleteFails(p)
      PROVE  rec' = rec
  BY <1>6
     DEF CollectStale, DrainFails, Drained, ResumeCollection, CollectionRefused, UnlockWorktree,
         NoWorktree, RemoveWorktree, RemoveFails, Relock, RelockFails, CancelStale, DeleteFails,
         Stop
<1> QED
  BY <1>1, <1>2, <1>3, <1>4, <1>5, <1>6 DEF GC

(* Whatever happens, at most one process changes one record's hands.       *)
LEMMA OneChanges ==
  ASSUME IInv, FInv, [Next]_vars
  PROVE  (\E p \in Procs : Changes(p)) \/ \A w \in Paths : Stays(w)
<1>1. ASSUME NEW p \in Procs, End(p) PROVE \A w \in Paths : Stays(w)
  BY <1>1 DEF End, Stays, Records, IInv, Typed, TypeOK
<1>2. ASSUME NEW v \in Paths, Expire(v) \/ Renew(v) PROVE \A w \in Paths : Stays(w)
  <2>1. rec \in [Paths -> Records]
    BY DEF IInv, Typed, TypeOK
  <2>2. CASE Expire(v)
    BY <2>1, <2>2 DEF Expire, Stays, Records
  <2>3. CASE Renew(v)
    BY <2>1, <2>3 DEF Renew, Stays, Records
  <2> QED
    BY <1>2, <2>2, <2>3
<1>3. CASE UNCHANGED vars \/ \E p \in Procs : ChildExit(p)
  BY <1>3 DEF vars, ChildExit, Stays
<1> QED
  BY <1>1, <1>2, <1>3, AcquireChanges, ExecuteChanges, ReleaseChanges, GCChanges
     DEF Next, Step, Leave, Crash

(* A stale ID does nothing: every transition of a workspace that is        *)
(* assigned or has an operation is made by a process which carries that    *)
(* assignment's or that operation's ID.                                    *)
THEOREM StaleIDsDoNothing == Spec => FencedTransitions
<1>1. IInv /\ FInv /\ [Next]_vars =>
        [\A w \in Paths :
           LET r == rec[w]
               s == rec'[w]
           IN r.op # None \/ r.asg # None =>
                \/ s.life = r.life /\ s.op = r.op /\ s.asg = r.asg
                \/ \E p \in Procs :
                     ws[p] = w /\ pc[p] # pc'[p] /\ id[p] \in {r.op, r.asg} \ {None}]_vars
  BY OneChanges DEF Changes, Stays, Fences
<1> QED
  BY <1>1, Invariance, FencesHold, PTL DEF Spec, FencedTransitions

(* A forced collection that has seen a lease expire does not end the       *)
(* assignment after its renewal: without an expired lease or an abandoned  *)
(* operation only ruk release of that workspace begins a return.           *)
THEOREM RenewedStay == Spec => RenewalWins
<1>1. IInv /\ FInv /\ [Next]_vars =>
        [\A w \in Paths :
           rec[w].life = "assigned" /\ rec'[w].life = "returning"
           /\ rec[w].op = None /\ ~rec[w].expired
             => \E p \in Procs : ws[p] = w /\ job[p] = "release" /\ pc[p] = "return"]_vars
  <2> SUFFICES ASSUME IInv, FInv, [Next]_vars, NEW w \in Paths,
                      rec[w].life = "assigned", rec'[w].life = "returning",
                      rec[w].op = None, ~rec[w].expired
               PROVE  \E p \in Procs : ws[p] = w /\ job[p] = "release" /\ pc[p] = "return"
    OBVIOUS
  <2>1. PICK p \in Procs : Changes(p) /\ ws[p] = w
    BY OneChanges DEF Changes, Stays
  <2>2. pc[p] = "return" /\ ReturnFences(p) /\ Local(p)
    BY <2>1 DEF Changes, FInv
  <2>3. job[p] \in {"release", "abandoned", "expired"} /\ (job[p] = "abandoned" => id[p] # None)
    BY <2>2 DEF Local, Fits, Carries, Recoveries
  <2> QED
    BY <2>1, <2>2, <2>3 DEF ReturnFences, My
<1> QED
  BY <1>1, Invariance, FencesHold, PTL DEF Spec, RenewalWins
=============================================================================
