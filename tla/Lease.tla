------------------------------- MODULE Lease -------------------------------
(***************************************************************************)
(* The lease of one assignment (lifecycle/activity.go, renewal.go, gc.go,  *)
(* cli/activity_runner.go).  Commands on the assignment keep a keeper in   *)
(* its record and renew it by heartbeats; people renew the lease, to       *)
(* shorter and longer ends; a forced collection takes the assignment when  *)
(* its lease is over and no keeper is valid.  What a command computes      *)
(* before it gets the state lock may be old when it is written, machines   *)
(* are suspended, and the wall clock is set.                               *)
(***************************************************************************)
EXTENDS Integers

CONSTANTS
  Commands, \* managed commands (run, exec, shell, sync), each run once
  Ttls,     \* durations that acquisitions and renewals ask for
  MaxTime,  \* bound: the clock of the instance stops here
  Renewals, \* bound: explicit renewals that are asked for
  Jumps,    \* by how much the wall clock may be set back
  MaxInterval, \* a heartbeat interval is no longer (five minutes)
  None

ASSUME LeaseAssumption ==
  /\ Ttls \subseteq Nat \ {0} /\ Ttls # {} /\ Jumps \subseteq Nat \ {0}
  /\ {MaxTime, Renewals} \subseteq Nat /\ MaxInterval \in Nat \ {0} /\ None \notin Int

VARIABLES
  time,      \* time that passes (tickers follow it)
  back,      \* how far the wall clock has been set back
  life,      \* assigned, returning (released or collected), or gone
  acquiring, \* the duration asked for, until the acquisition has succeeded
  lease,     \* renewedAt, expiresAt and the stored duration
  keepers,   \* validUntil of each command's keeper, or None
  pc, interval, due, asked, \* of a command: its step, heartbeat interval, next tick, validUntil to write
  renewal,   \* the end that a pending renewal is about to write
  asks,      \* renewals that may still be asked for
  gc,        \* a forced collection: its step and its clock
  late,      \* history: a heartbeat was late, or the clock was set or is behind renewedAt
  stretched  \* history: a renewal has at least doubled an interval

record == <<life, acquiring, lease, keepers>>
renewing == <<renewal, asks>>
command == <<pc, interval, due, asked>>
clock == <<time, back>>
history == <<late, stretched>>
vars == <<clock, record, command, renewing, gc, history>>

Wall == time - back

(* The lease is of this assignment while it lasts; times are whole ticks,  *)
(* a keeper or a collection is where the code can be.                      *)
TypeOK ==
  /\ time \in 0 .. MaxTime /\ back \in Jumps \cup {0}
  /\ life \in {"assigned", "released", "collected", "gone"}
  /\ acquiring \in Ttls \cup {None}
  /\ lease \in [renewedAt : Int, expiresAt : Int, minutes : Nat \ {0}]
  /\ keepers \in [Commands -> Int \cup {None}]
  /\ pc \in [Commands -> {"idle", "begin", "work", "refresh", "reread", "finish", "done"}]
  /\ interval \in [Commands -> Nat] /\ due \in [Commands -> Nat]
  /\ asked \in [Commands -> Int] /\ renewal \in Int \cup {None} /\ asks \in Nat
  /\ gc \in [step : {"idle", "revalidate", "begin"}, now : Int]
  /\ {late, stretched} \subseteq BOOLEAN
  /\ lease.renewedAt < lease.expiresAt

NoGC == [step |-> "idle", now |-> 0]

(* assign: the lease is counted from the reservation at first.             *)
Init ==
  /\ time = 0 /\ back = 0 /\ life = "assigned"
  /\ \E ttl \in Ttls :
       /\ lease = [renewedAt |-> 0, expiresAt |-> ttl, minutes |-> ttl]
       /\ acquiring = ttl
  /\ keepers = [c \in Commands |-> None]
  /\ pc = [c \in Commands |-> "idle"] /\ interval = [c \in Commands |-> 0]
  /\ due = [c \in Commands |-> 0] /\ asked = [c \in Commands |-> 0]
  /\ renewal = None /\ asks = Renewals /\ gc = NoGC
  /\ late = FALSE /\ stretched = FALSE

(* Every update of the record writes a new updatedAt, unless it is in the  *)
(* millisecond of the last one; a collection that has read the old one is  *)
(* refused.                                                                *)
Stamp == gc' = gc \/ (gc.step = "begin" /\ gc' = NoGC)

Later(t, u) == IF t < u THEN u ELSE t

Assigned == life = "assigned"

(* What the state file accepts.                                            *)
ValidAssignment(l) == l.renewedAt < l.expiresAt /\ l.minutes > 0

-----------------------------------------------------------------------------
(* Acquisition: once the handoff is over the lease is counted anew, unless *)
(* it is no longer the one that the acquisition wrote.                     *)

RestartLease(ttl) ==
  LET now == Later(Wall, lease.renewedAt + 1) IN
    /\ lease' = [renewedAt |-> now, expiresAt |-> now + ttl, minutes |-> ttl]
    /\ late' = (late \/ now > Wall)

(* Variant: whatever the lease is by now. *)
RefreshUnfenced ==
  /\ acquiring # None /\ Assigned
  /\ RestartLease(acquiring) /\ Stamp
  /\ UNCHANGED <<clock, life, acquiring, keepers, command, renewing, stretched>>

RefreshAcquisitionLease ==
  /\ acquiring # None /\ Assigned
  /\ lease.renewedAt = 0 /\ lease.expiresAt = acquiring
  /\ RestartLease(acquiring) /\ Stamp
  /\ UNCHANGED <<clock, life, acquiring, keepers, command, renewing, stretched>>

RecordAcquisitionSuccess ==
  /\ acquiring # None /\ Assigned
  /\ acquiring' = None /\ Stamp
  /\ UNCHANGED <<clock, life, lease, keepers, command, renewing, history>>

-----------------------------------------------------------------------------
(* ruk renew: the new end is computed before the state lock is asked for.  *)

StartRenewal ==
  /\ renewal = None /\ asks > 0
  /\ \E ttl \in Ttls : renewal' = Wall + ttl
  /\ asks' = asks - 1
  /\ UNCHANGED <<clock, record, command, gc, history>>

RenewAssignment ==
  /\ renewal # None /\ Assigned
  /\ LET now == Later(Wall, lease.renewedAt + 1) IN
     /\ renewal > now
     /\ lease' = [renewedAt |-> now, expiresAt |-> renewal, minutes |-> renewal - now]
     /\ late' = (late \/ now > Wall)
  /\ renewal' = None /\ Stamp
  /\ UNCHANGED <<clock, life, acquiring, keepers, command, asks, stretched>>

RenewalFails ==
  /\ renewal # None
  /\ renewal' = None
  /\ UNCHANGED <<clock, record, command, asks, gc, history>>

-----------------------------------------------------------------------------
(* The heartbeats of a command.                                            *)

Goto(c, step) == pc' = [pc EXCEPT ![c] = step]

(* What is left of a command that has ended, or is about to.               *)
Stop(c, step) ==
  /\ Goto(c, step)
  /\ interval' = [interval EXCEPT ![c] = 0]
  /\ due' = [due EXCEPT ![c] = 0] /\ asked' = [asked EXCEPT ![c] = 0]

(* A third of the lease, but neither too long nor nothing.                 *)
ActivityHeartbeatInterval ==
  IF lease.minutes >= 3 * MaxInterval THEN MaxInterval ELSE Later(1, lease.minutes \div 3)

(* Variant: a lease that is over at once is accepted. *)
RecordAnyActivity(now) ==
  /\ \E rounding \in {0, 1} :
       lease' = [lease EXCEPT !.renewedAt = now, !.expiresAt = now + lease.minutes - rounding]
  /\ Stamp
  /\ UNCHANGED <<clock, life, acquiring, renewing, history>>

(* The stored duration is a fraction of minutes: converted back, it may    *)
(* have lost the last tick.  A lease that is over at once is refused.      *)
RecordActivity(now) ==
  /\ \E rounding \in {0, 1} :
       lease' = [lease EXCEPT !.renewedAt = now, !.expiresAt = now + lease.minutes - rounding]
  /\ ValidAssignment(lease')
  /\ Stamp
  /\ UNCHANGED <<clock, life, acquiring, renewing, history>>

Valid(now, c) == keepers[c] # None /\ keepers[c] > now

(* Keepers that others have let lapse are removed by every update.         *)
SetKeeper(now, c, until) ==
  keepers' = [d \in Commands |-> IF d = c THEN until ELSE IF Valid(now, d) THEN keepers[d] ELSE None]

StartCommand(c) ==
  /\ pc[c] = "idle" /\ Assigned /\ acquiring = None
  /\ interval' = [interval EXCEPT ![c] = ActivityHeartbeatInterval]
  /\ Goto(c, "begin")
  /\ UNCHANGED <<clock, record, due, asked, renewing, gc, history>>

BeginAssignmentActivity(c) ==
  /\ pc[c] = "begin" /\ Assigned
  /\ LET now == Later(Wall, lease.renewedAt) IN
     SetKeeper(now, c, now + 2 * interval[c]) /\ RecordActivity(now)
  /\ due' = [due EXCEPT ![c] = time + interval[c]]
  /\ Goto(c, "work")
  /\ UNCHANGED <<interval, asked>>

Beat(c) ==
  /\ pc[c] = "work" /\ time >= due[c]
  /\ asked' = [asked EXCEPT ![c] = Wall + 2 * interval[c]]
  /\ Goto(c, "refresh")
  /\ UNCHANGED <<clock, record, interval, due, renewing, gc, history>>

RefreshAssignmentActivity(c) ==
  /\ pc[c] = "refresh" /\ Assigned /\ keepers[c] # None
  /\ asked[c] > Wall
  /\ LET now == Later(Wall, lease.renewedAt) IN
     SetKeeper(now, c, Later(keepers[c], now + asked[c] - Wall)) /\ RecordActivity(now)
  /\ asked' = [asked EXCEPT ![c] = 0]
  /\ Goto(c, "reread")
  /\ UNCHANGED <<interval, due>>

(* The stored lease may have another duration by now, and the ticker is    *)
(* started anew; else it goes on.                                          *)
Reread(c) ==
  /\ pc[c] = "reread" /\ life # "gone"
  /\ interval' = [interval EXCEPT ![c] = ActivityHeartbeatInterval]
  /\ due' = [due EXCEPT ![c] = IF ActivityHeartbeatInterval = interval[c] THEN @ + interval[c]
                               ELSE time + ActivityHeartbeatInterval]
  /\ stretched' = (stretched \/ ActivityHeartbeatInterval >= 2 * interval[c])
  /\ Goto(c, "work")
  /\ UNCHANGED <<clock, record, asked, renewing, gc, late>>

(* The assignment or the keeper is gone, or the state cannot be updated:   *)
(* the child is stopped and waited for.                                    *)
HeartbeatFails(c) ==
  /\ pc[c] \in {"begin", "refresh", "reread"}
  /\ Stop(c, IF pc[c] = "begin" THEN "done" ELSE "finish")
  /\ UNCHANGED <<clock, record, renewing, gc, history>>

(* The child has ended, or the command has been interrupted.               *)
WorkDone(c) ==
  /\ pc[c] = "work"
  /\ Stop(c, "finish")
  /\ UNCHANGED <<clock, record, renewing, gc, history>>

FinishAt(c, now) ==
  /\ pc[c] = "finish" /\ Assigned /\ keepers[c] # None
  /\ SetKeeper(now, c, None)
  /\ RecordActivity(now)
  /\ Stop(c, "done")

(* Variant: by the wall clock, wherever the record is by now. *)
FinishAsObserved(c) == FinishAt(c, Wall)

FinishAssignmentActivity(c) == FinishAt(c, Later(Wall, lease.renewedAt))

(* It fails, or the process dies at any step: the keeper is left to lapse. *)
Crash(c) ==
  /\ pc[c] \notin {"idle", "done"}
  /\ Stop(c, "done")
  /\ UNCHANGED <<clock, record, renewing, gc, history>>

-----------------------------------------------------------------------------
(* ruk gc --apply --force, by the clock of its start; and ruk release.     *)

(* Variant: keepers are left to the release. *)
ExpiredLease(now) == life # "gone" /\ lease.expiresAt <= now

Expired(now) ==
  /\ life # "gone" /\ lease.expiresAt <= now
  /\ \A c \in Commands : ~Valid(now, c)

StartGC ==
  /\ gc.step = "idle" /\ Expired(Wall)
  /\ gc' = [step |-> "revalidate", now |-> Wall]
  /\ UNCHANGED <<clock, record, command, renewing, history>>

(* Under the lock of the workspace the candidate is identified again.      *)
Revalidate ==
  /\ gc.step = "revalidate"
  /\ gc' = IF Expired(gc.now) THEN [gc EXCEPT !.step = "begin"] ELSE NoGC
  /\ UNCHANGED <<clock, record, command, renewing, history>>

ReturnFences == Assigned /\ acquiring = None /\ lease.expiresAt <= gc.now

BeginWorkspaceReturn ==
  /\ gc.step = "begin"
  /\ life' = IF ReturnFences THEN "collected" ELSE life
  /\ gc' = NoGC
  /\ UNCHANGED <<clock, acquiring, lease, keepers, command, renewing, history>>

Release ==
  /\ Assigned /\ acquiring = None
  /\ life' = "released" /\ Stamp
  /\ UNCHANGED <<clock, acquiring, lease, keepers, command, renewing, history>>

CancelWorkspaceReturn ==
  /\ life \in {"released", "collected"}
  /\ life' = "assigned" /\ Stamp
  /\ UNCHANGED <<clock, acquiring, lease, keepers, command, renewing, history>>

FinishWorkspaceReturn ==
  /\ life \in {"released", "collected"}
  /\ life' = "gone" /\ gc' = NoGC
  /\ UNCHANGED <<clock, acquiring, lease, keepers, command, renewing, history>>

-----------------------------------------------------------------------------
Working(c) == pc[c] \in {"work", "refresh", "reread"}

Tick ==
  /\ time < MaxTime
  /\ time' = time + 1
  /\ late' = (late \/ \E c \in Commands : Working(c) /\ (time >= due[c] \/ pc[c] # "work"))
  /\ UNCHANGED <<back, record, command, renewing, gc, stretched>>

SetClock ==
  /\ back = 0 /\ back' \in Jumps
  /\ late' = TRUE
  /\ UNCHANGED <<time, record, command, renewing, gc, stretched>>

Acquisition == RefreshAcquisitionLease \/ RecordAcquisitionSuccess
Renew == StartRenewal \/ RenewAssignment \/ RenewalFails
Run(c) ==
  \/ BeginAssignmentActivity(c) \/ Beat(c) \/ RefreshAssignmentActivity(c) \/ Reread(c)
  \/ HeartbeatFails(c) \/ FinishAssignmentActivity(c)
Collect == StartGC \/ Revalidate \/ BeginWorkspaceReturn
Return == Release \/ CancelWorkspaceReturn \/ FinishWorkspaceReturn

Next ==
  \/ Acquisition \/ Renew \/ Collect \/ Return \/ Tick \/ SetClock
  \/ \E c \in Commands : StartCommand(c) \/ Run(c) \/ WorkDone(c) \/ Crash(c)

Spec == Init /\ [][Next]_vars

-----------------------------------------------------------------------------
(* Nothing moves the renewal time back: neither a heartbeat that was       *)
(* computed earlier, nor a command that ends, nor a wall clock that is set *)
(* back ("heartbeat timestamps are monotonic inside the transaction").     *)
RenewalsMoveForward == [][lease'.renewedAt >= lease.renewedAt]_vars

(* What a renewal or an acquisition has given stays given, up to the       *)
(* millisecond that the conversion of minutes may lose: no heartbeat, no   *)
(* command that ends, and no acquisition that is still on its way writes   *)
(* an earlier end ("cannot ... shorten expiry, or overwrite a newer        *)
(* explicit renewal").                                                     *)
RenewedLeaseHolds ==
  [][renewal' = renewal => lease'.expiresAt + 1 >= lease.renewedAt + lease.minutes]_vars

(* A command whose heartbeats are in time is never collected by force, as  *)
(* its keeper is valid, whatever the lease has been renewed to and         *)
(* whichever other commands begin and end; unless a renewal makes its      *)
(* interval as long as its keeper is valid.                                *)
TimelyWorkIsKept ==
  ~late /\ ~stretched =>
    \A c \in Commands : Working(c) =>
      life # "collected" /\ (life = "assigned" => keepers[c] # None /\ keepers[c] > Wall)

(* "Multiple keepers can coexist, and each removes only its own fenced     *)
(* record" (docs/architecture.md:186): a command whose heartbeats are in   *)
(* time and whose next one is not due yet keeps its keeper.                *)
KeepersRemoveOnlyTheirOwn ==
  [][~late => \A c \in Commands : Working(c) /\ time < due[c] /\ keepers[c] # None => keepers'[c] # None]_vars
=============================================================================
